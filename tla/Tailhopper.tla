----------------------------- MODULE Tailhopper -----------------------------
(***************************************************************************)
(* The whole program: the tailnets, the registry they are in, the HTTP     *)
(* handlers that command them, the pages that show them, the port each     *)
(* SOCKS5 proxy listens on, and restarts of the process.                   *)
(*                                                                         *)
(* The parts are coarser here than in Tailnet and Registry.  A command is  *)
(* one step, except Logout, which gives the lock up in between; a save is  *)
(* one step with three ends; StartedState, NeedsMachineAuthState and       *)
(* ConnectedState are one, Running.  What is new is several tailnets: a    *)
(* handler, a callback and a page look a tailnet up at one time and use it *)
(* at another, and a deleted tailnet may go on running.                    *)
(***************************************************************************)
EXTENDS Naturals, FiniteSets, Dashboard

CONSTANTS
  MaxID,      \* BOUND: the largest ID given out
  Objects,    \* BOUND: Tailnet objects of one run of the process
  Suffixes,   \* MagicDNS suffixes
  Ports,      \* ports the kernel may pick for a SOCKS5 proxy
  Requests,   \* BOUND: requests handled at the same time
  MaxPACs,    \* BOUND: PAC files made at the same time
  MaxUnsaved, \* BOUND: saves that fail
  None        \* nothing; as the content of the file, one that cannot be read

ID == 1 .. MaxID

\* StartedState, NeedsMachineAuthState or ConnectedState.
Running       == ConnectedState
Sessions      == {Running, NeedsLoginState}
TailnetState  == Sessions \cup {StoppedState, LoggingOutState, HasTerminalErrorState}

\* What the registry saves of a tailnet.
PersistedTailnet ==
  [enabled : BOOLEAN, suffix : Suffixes \cup {None}, failed : BOOLEAN, port : Ports]

\* A Tailnet object.  "bound": a listener of it has its port; "refused": its
\* last Start failed, and it has not been switched off since.
Tailnet ==
  [id : ID, state : TailnetState, user : UserState, suffix : Suffixes \cup {None},
   failed : BOOLEAN, port : Ports, bound : BOOLEAN, refused : BOOLEAN]

\* A request and what it has read so far.  "add" has found no unconfigured
\* tailnet; "command" has its tailnet and is a start, a stop or a deletion; "start"
\* has added its tailnet; "pac" has a list of tailnets and snapshots of some of
\* them; the others are Delete's.
RequestPC ==
  {"idle", "add", "start", "command", "logout", "loggingOut", "delete", "pac"}
Card      == [object : Objects, suffix : Suffixes, port : Ports]
Request   == [pc : RequestPC, object : Objects \cup {None}, id : ID \cup {None},
              list : SUBSET Objects, cards : SUBSET Card]
Idle      == [pc |-> "idle", object |-> None, id |-> None, list |-> {}, cards |-> {}]

ASSUME TailhopperAssumption ==
  /\ MaxID \in Nat /\ MaxUnsaved \in Nat /\ MaxPACs \in Nat
  /\ None \notin Objects /\ None \notin Suffixes /\ None \notin ID
  /\ None \notin PersistedTailnet /\ None \notin Tailnet
  /\ None \notin [ID -> PersistedTailnet \cup {None}]

VARIABLES
  up,         \* the process runs and has loaded the registry
  todo,       \* the tailnets RestoreEnabledTailnets has yet to look at
  entries,    \* the registry's entries ...
  registered, \* ... and the object of each
  nextID,
  file,       \* the entries in the file
  unsaved,    \* saves that failed so far
  lost,       \* the last save failed
  objects,    \* the Tailnet objects, registered or not
  requests,
  intent      \* for the properties: what was last made of each ID

disk     == <<file, unsaved, lost>>
saved    == <<entries, disk>>
registry == <<saved, registered, nextID>>
vars     == <<up, todo, registry, objects, requests, intent>>

NoEntries   == [i \in ID |-> None]
Existing(e) == {i \in ID : e[i] # None}

\* The HTTP server is started when the enabled tailnets have been restored.
Serving == up /\ todo = {}

\* Every variable holds a value of its type.
TypeOK ==
  /\ up \in BOOLEAN
  /\ todo \subseteq ID
  /\ entries \in [ID -> PersistedTailnet \cup {None}]
  /\ registered \in [ID -> Objects \cup {None}]
  /\ nextID \in 1 .. (MaxID + 1)
  /\ file \in [ID -> PersistedTailnet \cup {None}] \cup {None}
  /\ unsaved \in 0 .. MaxUnsaved /\ lost \in BOOLEAN
  /\ objects \in [Objects -> Tailnet \cup {None}]
  /\ requests \in [Requests -> Request]
  /\ intent \in [ID -> {"none", "on", "off"}]

Init ==
  /\ up = FALSE /\ todo = {}
  /\ entries = NoEntries /\ registered = NoEntries /\ nextID = 1
  /\ file = NoEntries /\ unsaved = 0 /\ lost = FALSE
  /\ objects = [o \in Objects |-> None]
  /\ requests = [r \in Requests |-> Idle]
  /\ intent = [i \in ID |-> "none"]

-----------------------------------------------------------------------------
(* Saves and callbacks. *)

\* A save succeeds, or fails before or after it has truncated the file.
Fault     == unsaved < MaxUnsaved /\ unsaved' = unsaved + 1 /\ lost' = TRUE
Saved     == file' = entries' /\ lost' = FALSE /\ UNCHANGED unsaved
Unsaved   == Fault /\ file' \in {file, None}

\* Mutant: the callback forgets to save.
RecordUserStateInMemory(i, on) ==
  /\ entries' = IF entries[i] = None THEN entries ELSE [entries EXCEPT ![i].enabled = on]
  /\ UNCHANGED disk

\* userStateChangeCallback: looks the entry up by ID, and carries on whether or
\* not it was saved.
RecordUserState(i, on) ==
  IF entries[i] = None THEN UNCHANGED saved
  ELSE /\ entries' = [entries EXCEPT ![i].enabled = on]
       /\ Saved \/ Unsaved

\* What the user made of an ID counts while the object is the one registered.
Intend(o, what) ==
  intent' = IF registered[objects[o].id] = o
            THEN [intent EXCEPT ![objects[o].id] = what] ELSE intent

-----------------------------------------------------------------------------
(* Commands of a tailnet. *)

PortFree(p) == \A o \in Objects : objects[o] # None => ~(objects[o].bound /\ objects[o].port = p)

\* Tailnet.Start: refused unless stopped; fails if the port is taken, or
\* because the server does not start.
Start(o) ==
  IF objects[o].state # StoppedState THEN UNCHANGED <<saved, objects>>
  ELSE /\ RecordUserState(objects[o].id, TRUE)
       /\ \/ /\ PortFree(objects[o].port)
             /\ objects' = [objects EXCEPT ![o].state = Running, ![o].user = UserEnabled,
                                           ![o].bound = TRUE, ![o].refused = FALSE]
          \/ objects' = [objects EXCEPT ![o].user = UserEnabled, ![o].refused = TRUE]

\* Tailnet.Stop: refused unless a session is under way.
Stop(o) ==
  IF objects[o].state \notin Sessions THEN UNCHANGED <<saved, objects, intent>>
  ELSE /\ RecordUserState(objects[o].id, FALSE)
       /\ Intend(o, "off")
       /\ objects' = [objects EXCEPT ![o].state = StoppedState, ![o].user = UserDisabled,
                                     ![o].bound = FALSE]

\* The listener is closed by the cleanup after a terminal error, or dies.
ListenerCloses(o) ==
  /\ objects[o] # None /\ objects[o].bound
  /\ objects' = [objects EXCEPT ![o].bound = FALSE]
  /\ UNCHANGED <<up, todo, registry, requests, intent>>

-----------------------------------------------------------------------------
(* Notifications: a step of a watcher under the tailnet's lock. *)

\* Mutant: only tailnets that are switched on hold their suffix.
TakenByEnabled(s) == \E i \in Existing(entries) : entries[i].suffix = s /\ entries[i].enabled

Taken(s) == \E i \in Existing(entries) : entries[i].suffix = s

\* The bus moves a session that has nothing to claim.
Transition(o) ==
  /\ objects[o] # None /\ objects[o].state \in Sessions
  /\ objects' = [objects EXCEPT ![o].state =
       IF @ = Running THEN NeedsLoginState ELSE Running]
  /\ UNCHANGED <<up, todo, registry, requests, intent>>

\* Mutant: a session that has a suffix takes that of a later network map.
ClaimsAgain(o) == objects[o] # None /\ objects[o].state = Running

\* A session without a suffix sees s in the network map.
Claims(o) ==
  objects[o] # None /\ objects[o].state = Running /\ objects[o].suffix = None

\* Registry.Claim finds s free and the tailnet's entry there.  If it cannot
\* save, the entry has the suffix and the tailnet has not.
ClaimGranted(o, s) ==
  /\ Claims(o) /\ ~Taken(s)
  /\ entries[objects[o].id] # None
  /\ entries' = [entries EXCEPT ![objects[o].id].suffix = s]
  /\ \E next \in Sessions :
       \/ /\ Saved
          /\ objects' = [objects EXCEPT ![o].suffix = s, ![o].state = next]
       \/ /\ Unsaved
          /\ objects' = [objects EXCEPT ![o].state = next]
  /\ UNCHANGED <<up, todo, registered, nextID, requests, intent>>

\* The two callbacks of setTerminalErrorLocked for a new error, each with a save
\* of its own; the second only if the tailnet is to be disabled.
RecordTerminalError(i, disable) ==
  IF entries[i] = None THEN UNCHANGED saved
  ELSE /\ entries' = [entries EXCEPT ![i].failed = TRUE,
                                     ![i].enabled = IF disable THEN FALSE ELSE @]
       /\ \/ Saved
          \/ Unsaved
          \/ disable /\ Fault /\ file' = [entries EXCEPT ![i].failed = TRUE]

\* It finds s in an entry, be it the tailnet's own: the tailnet is switched off,
\* for good unless the same notification moves it to another session state.  An
\* error it has already is not recorded again, nor is a tailnet disabled twice.
ClaimRefused(o, s) ==
  LET i  == objects[o].id
      on == objects[o].user = UserEnabled
  IN
  /\ Claims(o) /\ Taken(s)
  /\ \/ RecordTerminalError(i, on) /\ Intend(o, "off")
     \/ objects[o].failed /\ on /\ RecordUserState(i, FALSE) /\ Intend(o, "off")
     \/ objects[o].failed /\ ~on /\ UNCHANGED <<saved, intent>>
  /\ \E next \in Sessions \cup {HasTerminalErrorState} :
       objects' = [objects EXCEPT ![o].failed = TRUE, ![o].user = UserDisabled,
                                  ![o].state = next]
  /\ UNCHANGED <<up, todo, registered, nextID, requests>>

-----------------------------------------------------------------------------
(* Requests.  Each step is one critical section of a handler; a request for *)
(* an ID that is not there is answered at once and is no step.              *)

\* The request goes on to pc, with the object and the ID it has.
GoesOn(r, pc) == requests' = [requests EXCEPT ![r].pc = pc]
Answered(r)   == requests' = [requests EXCEPT ![r] = Idle]

\* Registry.Get, by tailnetStartHandler, tailnetStopHandler, tailnetDeleteHandler.
\* Which of them it is shows in the next step and makes no difference before.
Get(r, i) ==
  /\ Serving
  /\ requests[r] = Idle
  /\ registered[i] # None
  /\ requests' = [requests EXCEPT ![r] = [Idle EXCEPT !.pc = "command", !.object = registered[i], !.id = i]]
  /\ UNCHANGED <<up, todo, registry, objects, intent>>

\* The last step of a start and of an add.
StartTailnet(r) ==
  /\ requests[r].pc \in {"start", "command"}
  /\ Start(requests[r].object)
  /\ IF objects[requests[r].object].state = StoppedState
     THEN Intend(requests[r].object, "on") ELSE UNCHANGED intent
  /\ Answered(r)
  /\ UNCHANGED <<up, todo, registered, nextID>>

StopTailnet(r) ==
  /\ requests[r].pc = "command"
  /\ Stop(requests[r].object)
  /\ Answered(r)
  /\ UNCHANGED <<up, todo, registered, nextID>>

\* tailnetDeleteHandler does not log a tailnet out that has a terminal error.
Snapshot(r) ==
  /\ requests[r].pc = "command"
  /\ GoesOn(r, IF objects[requests[r].object].state = HasTerminalErrorState
               THEN "delete" ELSE "logout")
  /\ UNCHANGED <<up, todo, registry, objects, intent>>

\* Tailnet.Logout: does nothing in NeedsLoginState, is refused in the terminal
\* state and to a second one; server, watcher and listener go on.
LogoutBegins(r) ==
  LET o == requests[r].object IN
  /\ requests[r].pc = "logout"
  /\ IF objects[o].state \in {Running, StoppedState}
     THEN /\ RecordUserState(objects[o].id, FALSE)
          /\ Intend(o, "off")
          /\ objects' = [objects EXCEPT ![o].state = LoggingOutState, ![o].user = UserDisabled,
                                        ![o].refused = FALSE]
          /\ GoesOn(r, "loggingOut")
     ELSE /\ GoesOn(r, "delete")
          /\ UNCHANGED <<saved, objects, intent>>
  /\ UNCHANGED <<up, todo, registered, nextID>>

LogoutEnds(r) ==
  /\ requests[r].pc = "loggingOut"
  /\ objects' = [objects EXCEPT ![requests[r].object].state = StoppedState]
  /\ GoesOn(r, "delete")
  /\ UNCHANGED <<up, todo, registry, intent>>

\* Registry.Delete, whatever became of the Logout; another request may have
\* deleted the tailnet before.
Delete(r) ==
  LET i == requests[r].id IN
  /\ requests[r].pc = "delete"
  /\ IF entries[i] = None THEN UNCHANGED <<saved, registered, intent>>
     ELSE /\ entries' = [entries EXCEPT ![i] = None]
          /\ registered' = [registered EXCEPT ![i] = None]
          /\ Saved \/ Unsaved
          /\ intent' = [intent EXCEPT ![i] = "none"]
  /\ Answered(r)
  /\ UNCHANGED <<up, todo, nextID, objects>>

\* addTailnetHandler: the check ...
CheckConfigured(r) ==
  /\ Serving
  /\ requests[r] = Idle
  /\ nextID <= MaxID
  /\ ~\E i \in Existing(entries) : entries[i].suffix = None
  /\ GoesOn(r, "add")
  /\ UNCHANGED <<up, todo, registry, objects, intent>>

\* Mutant: the smallest ID without an entry is given out.
SmallestFreeID(i) == entries[i] = None /\ \A j \in ID : j < i => entries[j] # None

FreshID(i) == i = nextID

\* Mutant: the port is not kept.
NewEntryWithoutPort(p) ==
  [enabled |-> FALSE, suffix |-> None, failed |-> FALSE, port |-> None]

NewEntry(p) == [enabled |-> FALSE, suffix |-> None, failed |-> FALSE, port |-> p]

\* Mutant: a tailnet made from an entry does not know its claim.
NewTailnetWithoutClaim(i, e) ==
  [id |-> i, suffix |-> None, failed |-> e.failed, port |-> e.port,
   state |-> IF e.failed THEN HasTerminalErrorState ELSE StoppedState,
   user |-> IF e.enabled /\ ~e.failed THEN UserEnabled ELSE UserDisabled,
   bound |-> FALSE, refused |-> FALSE]

\* NewTailnet, from the entry e of tailnet i.
NewTailnet(i, e) ==
  [id |-> i, suffix |-> e.suffix, failed |-> e.failed, port |-> e.port,
   state |-> IF e.failed THEN HasTerminalErrorState ELSE StoppedState,
   user |-> IF e.enabled /\ ~e.failed THEN UserEnabled ELSE UserDisabled,
   bound |-> FALSE, refused |-> FALSE]

\* ... and Registry.Add, which picks a port that is free now, whether or not
\* it is that of a tailnet that is stopped.
Add(r) ==
  /\ requests[r].pc = "add"
  /\ nextID <= MaxID
  /\ nextID' = nextID + 1
  /\ \E i \in ID, p \in Ports, o \in Objects :
       /\ FreshID(i) /\ PortFree(p) /\ objects[o] = None
       /\ objects' = [objects EXCEPT ![o] = NewTailnet(i, NewEntry(p))]
       /\ entries' = [entries EXCEPT ![i] = NewEntry(p)]
       /\ Saved
       /\ registered' = [registered EXCEPT ![i] = o]
       /\ requests' = [requests EXCEPT ![r] = [Idle EXCEPT !.pc = "start", !.object = o, !.id = i]]
       /\ intent' = [intent EXCEPT ![i] = "off"]
  /\ UNCHANGED <<up, todo>>

\* No port is to be had, or the entry cannot be saved and is taken back.
AddFails(r) ==
  /\ requests[r].pc = "add"
  /\ nextID <= MaxID
  /\ nextID' = nextID + 1
  /\ Unsaved \/ UNCHANGED disk
  /\ Answered(r)
  /\ UNCHANGED <<up, todo, entries, registered, objects, intent>>

-----------------------------------------------------------------------------
(* The PAC file: a list of tailnets, then one snapshot after the other. *)

List(r) ==
  /\ Serving
  /\ requests[r] = Idle
  /\ Cardinality({q \in Requests : requests[q].pc = "pac"}) < MaxPACs
  /\ requests' = [requests EXCEPT ![r] =
       [Idle EXCEPT !.pc = "pac", !.list = {registered[i] : i \in Existing(registered)}]]
  /\ UNCHANGED <<up, todo, registry, objects, intent>>

\* The rule for a tailnet, if it has a suffix.
Rules(o) ==
  IF objects[o].suffix = None THEN {}
  ELSE {[object |-> o, suffix |-> objects[o].suffix, port |-> objects[o].port]}

\* buildPACForTailnets reads the tailnets in the order of their IDs.
ReadCard(r, o) ==
  /\ o \in requests[r].list
  /\ \A p \in requests[r].list : objects[o].id <= objects[p].id
  /\ requests' = [requests EXCEPT
       ![r].list = @ \ {o},
       ![r].cards = @ \cup Rules(o)]
  /\ UNCHANGED <<up, todo, registry, objects, intent>>

ServePAC(r) ==
  /\ requests[r].pc = "pac" /\ requests[r].list = {}
  /\ Answered(r)
  /\ UNCHANGED <<up, todo, registry, objects, intent>>

-----------------------------------------------------------------------------
(* Start and end of the process. *)

\* n is the first ID after those of e.
FirstIDAfter(e, n) ==
  /\ \A i \in Existing(e) : i < n
  /\ n = 1 \/ n - 1 \in Existing(e)

\* Load: every entry gets an object of its own.
Load ==
  /\ ~up
  /\ file # None
  /\ up' = TRUE
  /\ entries' = file
  /\ nextID' \in {n \in 1 .. (MaxID + 1) : FirstIDAfter(file, n)}
  /\ \E f \in [ID -> Objects \cup {None}] :
       /\ \A i \in ID : (f[i] = None) <=> (file[i] = None)
       /\ \A i, j \in Existing(file) : f[i] = f[j] => i = j
       /\ registered' = f
       /\ objects' = [o \in Objects |->
            IF \E i \in ID : f[i] = o
            THEN LET i == CHOOSE i \in ID : f[i] = o IN NewTailnet(i, file[i])
            ELSE None]
  /\ todo' = Existing(file)
  /\ UNCHANGED <<disk, requests, intent>>

WasEnabled(o) == objects[o].user = UserEnabled /\ objects[o].state = StoppedState

\* RestoreEnabledTailnets, in the order of the IDs; nobody asked for it now, so
\* the intent is what it was.
Restore(i) ==
  /\ up
  /\ i \in todo /\ \A j \in todo : i <= j
  /\ todo' = todo \ {i}
  /\ IF WasEnabled(registered[i]) THEN Start(registered[i])
                                  ELSE UNCHANGED <<saved, objects>>
  /\ UNCHANGED <<up, registered, nextID, requests, intent>>

\* What a start makes of an entry.
IntentOf(e) == IF e = None THEN "none" ELSE IF e.enabled /\ ~e.failed THEN "on" ELSE "off"

\* The process dies; if the last save failed, it is the file that counts.
Crash ==
  /\ up
  /\ up' = FALSE /\ todo' = {}
  /\ entries' = NoEntries /\ registered' = NoEntries /\ nextID' = 1
  /\ objects' = [o \in Objects |-> None]
  /\ requests' = [r \in Requests |-> Idle]
  /\ intent' = [i \in ID |->
       IF ~lost \/ file = None THEN intent[i] ELSE IntentOf(file[i])]
  /\ UNCHANGED disk

Handler(r) ==
  \/ \E i \in ID : Get(r, i)
  \/ StartTailnet(r) \/ StopTailnet(r)
  \/ Snapshot(r) \/ LogoutBegins(r) \/ LogoutEnds(r) \/ Delete(r)
  \/ CheckConfigured(r) \/ Add(r) \/ AddFails(r)
  \/ List(r) \/ ServePAC(r)
  \/ \E o \in Objects : ReadCard(r, o)

Next ==
  \/ Load \/ Crash
  \/ \E i \in ID : Restore(i)
  \/ \E r \in Requests : Handler(r)
  \/ \E o \in Objects :
       \/ Transition(o) \/ ListenerCloses(o)
       \/ \E s \in Suffixes : ClaimGranted(o, s) \/ ClaimRefused(o, s)

Spec == Init /\ [][Next]_vars

-----------------------------------------------------------------------------
(* Properties. *)

\* The callbacks and Claim know a tailnet by its ID only.  Whatever object still
\* calls them, the entry it finds is its own: a tailnet deleted while it runs
\* writes into no other tailnet's entry.
EntryOwned ==
  \A o \in Objects :
    objects[o] # None /\ entries[objects[o].id] # None => registered[objects[o].id] = o

\* A tailnet switched on has a session, or its last Start failed, or its
\* entry has an error; one switched off has no session, unless an error switched
\* it off; one deleted is not there: also after any number of crashes, for what
\* was saved.  (README.md; main.go: "UI intent and runtime state stay aligned
\* after restart".)
IntentKept ==
  Serving => \A i \in ID :
    /\ (intent[i] = "none") <=> (entries[i] = None)
    /\ entries[i] # None =>
         LET t == objects[registered[i]] IN
         /\ intent[i] = "on" => t.state \in Sessions \/ t.refused \/ entries[i].failed
         /\ intent[i] = "off" => t.state \notin Sessions \/ t.failed

Accepts(t, action) ==
  \/ action = "start" /\ t.state = StoppedState
  \/ action = "stop" /\ t.state \in Sessions

\* Once the program serves pages, a switch that can be used does something:
\* the tailnet accepts the command it sends, except after a Start that failed
\* and after an error.
SwitchWorks ==
  Serving => \A i \in Existing(entries) :
    LET t == objects[registered[i]] IN
    ~IsToggleDisabled(t) => Accepts(t, ToggleAction(t)) \/ t.refused \/ t.failed

\* A PAC file made of several snapshots sends a suffix two ways only if one of
\* the two tailnets has been deleted meanwhile.
OneRulePerSuffix ==
  \A r \in Requests : \A c, d \in requests[r].cards :
    c # d /\ c.suffix = d.suffix =>
      \E x \in {c.object, d.object} : registered[objects[x].id] # x

-----------------------------------------------------------------------------
(* The promise of the registry, kept by the whole program. *)

\* The tailnets that are registered, and the suffix each has; while the program is
\* down, those it will have again.
Registered ==
  IF up THEN Existing(registered) ELSE IF file = None THEN {} ELSE Existing(file)

Granted ==
  [i \in ID |->
     IF up THEN IF registered[i] = None THEN None ELSE objects[registered[i]].suffix
     ELSE IF file = None \/ file[i] = None THEN None ELSE file[i].suffix]

Process == IF up THEN "up" ELSE IF file = None THEN "unreadable" ELSE "down"

C == INSTANCE Claims WITH process <- Process, registered <- Registered, granted <- Granted

\* Whatever else goes on, a tailnet that runs after it was deleted, requests that
\* hold an old one, claims and saves that fail, restarts: no suffix is granted to
\* two tailnets ("no two tailnets claim the same MagicDNS suffix",
\* suffix_registry.go), and a tailnet keeps its own as long as it is there, which is
\* until it is deleted or a failed save has left no file to restart from.  (C!Spec,
\* with the steps it does not see put first.)
KeepsClaims == C!Init /\ [][UNCHANGED C!vars \/ C!Next]_vars

-----------------------------------------------------------------------------
(* The promise of each tailnet, kept by the whole program. *)

Mode(t) ==
  CASE t.state \in Sessions -> "on"
    [] t.state = StoppedState -> "off"
    [] t.state = LoggingOutState -> "leaving"
    [] t.state = HasTerminalErrorState -> "failed"

L(o) == INSTANCE Lifecycle WITH
  mode <- Mode(objects[o]), wish <- objects[o].user, suffix <- objects[o].suffix

\* The object stays as it is, goes with the process, is made, or takes a step of
\* its life, which may be one that Lifecycle does not see.
Follows(o) ==
  \/ objects'[o] = objects[o] \/ objects'[o] = None
  \/ objects[o] = None /\ (L(o)!Init)'
  \/ objects[o] # None /\ (UNCHANGED L(o)!vars \/ L(o)!Next)

\* Every Tailnet object does, from the moment Load or Add makes it until the
\* process dies, what Lifecycle says of a tailnet, registered or not: requests that
\* hold it while others log it out or delete it, the restore and its own session
\* take no other step with it.  So does the Tailnet that is modelled with all its
\* goroutines, and this is what the two models of it have in common.
FollowLifecycle == [][\A o \in Objects : Follows(o)]_objects

=============================================================================
