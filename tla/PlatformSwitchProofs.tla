------------------------ MODULE PlatformSwitchProofs ------------------------
(***************************************************************************)
(* Theorems about PlatformSwitch, for every set of profiles, connections   *)
(* and helper processes, and any number of requests, failures, time-outs,  *)
(* local actions and restarts.                                             *)
(***************************************************************************)
EXTENDS PlatformSwitch, FiniteSetTheorems, SequenceTheorems, TLAPS

-----------------------------------------------------------------------------
\* The export manager, of which the request handlers are clients.

\* A manager that hands out sessions has an open backend.
ServingIsOpen == state \in Serving => current \notin closed

MInv ==
    /\ ManagerTypeOK
    /\ ServingIsOpen
    /\ PinnedBackendOpen
    /\ ActiveWhileSessionsOpen

\* The open connections are finitely many, and there is none exactly when
\* their number is 0.
LEMMA OpenSessionsFinite ==
    ASSUME ManagerTypeOK
    PROVE  /\ IsFiniteSet(OpenSessions)
           /\ Cardinality(OpenSessions) \in Nat
           /\ Cardinality(OpenSessions) = 0 <=> OpenSessions = {}
<1>1. OpenSessions \subseteq Session
  BY DEF OpenSessions
<1>2. IsFiniteSet(OpenSessions)
  BY <1>1, FS_Subset, ManagerAssumption
<1> QED
  BY <1>2, FS_CardinalityType, FS_EmptySet

\* Init establishes the invariant.
LEMMA MInvInit == ManagerInit => MInv
<1> SUFFICES ASSUME ManagerInit PROVE MInv
  OBVIOUS
<1>1. ManagerTypeOK
  BY ManagerAssumption DEF ManagerInit, ManagerTypeOK, States
<1>2. OpenSessions = {}
  BY DEF ManagerInit, OpenSessions
<1>3. ActiveWhileSessionsOpen
  BY <1>2, FS_EmptySet DEF ActiveWhileSessionsOpen, ManagerInit
<1> QED
  BY <1>1, <1>2, <1>3
  DEF MInv, ServingIsOpen, PinnedBackendOpen, ManagerInit

\* A step that changes neither the connections nor their number keeps the set
\* of open connections.
LEMMA SameSessions ==
    ASSUME UNCHANGED pinned
    PROVE  OpenSessions' = OpenSessions
BY DEF OpenSessions

\* BeginSession is the only step that opens a connection, and it opens it on
\* the current backend of a serving manager.
LEMMA BeginSessionKeepsMInv ==
    ASSUME MInv, NEW s \in Session, BeginSession(s)
    PROVE  MInv'
<1> USE DEF MInv
<1>1. ManagerTypeOK'
  BY DEF ManagerTypeOK, BeginSession, States
<1>2. /\ OpenSessions' = OpenSessions \cup {s}
      /\ s \notin OpenSessions
  BY ManagerAssumption DEF ManagerTypeOK, BeginSession, OpenSessions
<1>3. Cardinality(OpenSessions') = Cardinality(OpenSessions) + 1
  BY <1>2, OpenSessionsFinite, FS_AddElement
<1>4. ActiveWhileSessionsOpen'
  BY <1>2, <1>3 DEF ActiveWhileSessionsOpen, BeginSession
<1>5. PinnedBackendOpen'
  BY <1>2 DEF PinnedBackendOpen, ServingIsOpen, BeginSession, ManagerTypeOK
<1> QED
  BY <1>1, <1>4, <1>5 DEF ServingIsOpen, BeginSession

\* The last Release leaves ACTIVE, an earlier one does not.
LEMMA ReleaseKeepsMInv ==
    ASSUME MInv, NEW s \in Session, Release(s)
    PROVE  MInv'
<1> USE DEF MInv
<1>1. /\ OpenSessions' = OpenSessions \ {s}
      /\ s \in OpenSessions
  BY DEF ManagerTypeOK, Release, OpenSessions
<1>2. /\ Cardinality(OpenSessions') = Cardinality(OpenSessions) - 1
      /\ Cardinality(OpenSessions) # 0
  BY <1>1, OpenSessionsFinite, FS_RemoveElement
<1>3. ManagerTypeOK'
  BY <1>2, OpenSessionsFinite
  DEF ManagerTypeOK, Release, States, ActiveWhileSessionsOpen
<1>4. Cardinality(OpenSessions') = 0 <=> OpenSessions' = {}
  BY <1>1, OpenSessionsFinite, FS_RemoveElement, FS_EmptySet
<1>5. sessions' = Cardinality(OpenSessions')
  BY <1>2 DEF Release, ActiveWhileSessionsOpen
<1>6. state = "ACTIVE"
  BY <1>1 DEF ActiveWhileSessionsOpen
<1>7. ActiveWhileSessionsOpen'
  BY <1>4, <1>5, <1>6 DEF Release, ActiveWhileSessionsOpen
<1>8. PinnedBackendOpen'
  BY <1>1 DEF PinnedBackendOpen, Release, ManagerTypeOK, OpenSessions
<1>9. ServingIsOpen'
  BY <1>6 DEF ServingIsOpen, Release, Serving
<1> QED
  BY <1>3, <1>7, <1>8, <1>9

\* Every step keeps the invariant.
LEMMA MInvStep == MInv /\ [ManagerNext]_managerVars => MInv'
<1> SUFFICES ASSUME MInv, [ManagerNext]_managerVars PROVE MInv'
  OBVIOUS
<1> USE DEF MInv
<1>0. sessions = 0 => OpenSessions = {}
  BY OpenSessionsFinite DEF ActiveWhileSessionsOpen
<1>1. ASSUME NEW s \in Session, BeginSession(s) PROVE MInv'
  BY <1>1, BeginSessionKeepsMInv
<1>2. ASSUME NEW s \in Session, Release(s) PROVE MInv'
  BY <1>2, ReleaseKeepsMInv
<1>3. CASE Disconnect
  BY <1>3, <1>0, SameSessions
  DEF Disconnect, CanDisconnect, ManagerTypeOK, States, Serving, ServingIsOpen,
      PinnedBackendOpen, ActiveWhileSessionsOpen
<1>4. CASE MarkConnected
  BY <1>4, SameSessions
  DEF MarkConnected, ManagerTypeOK, States, Serving, ServingIsOpen,
      PinnedBackendOpen, ActiveWhileSessionsOpen
<1>5. CASE Recover
  BY <1>5, <1>0, SameSessions
  DEF Recover, ManagerTypeOK, States, Serving, ServingIsOpen,
      PinnedBackendOpen, ActiveWhileSessionsOpen
<1>6. ASSUME NEW n \in Profile \ closed, SelectInvalid(n) PROVE MInv'
  BY <1>6, <1>0, SameSessions
  DEF SelectInvalid, CanSelect, ManagerTypeOK, States, Serving, ServingIsOpen,
      PinnedBackendOpen, ActiveWhileSessionsOpen
<1>7. ASSUME NEW n \in Profile \ closed, SelectValid(n) PROVE MInv'
  BY <1>7, <1>0, SameSessions
  DEF SelectValid, CanSelect, ClosedBy, ManagerTypeOK, States, Serving,
      ServingIsOpen, PinnedBackendOpen, ActiveWhileSessionsOpen
<1>8. ASSUME NEW n \in Profile \ closed, SelectUnclean(n) PROVE MInv'
  BY <1>8, <1>0, SameSessions
  DEF SelectUnclean, CanSelect, ClosedBy, ManagerTypeOK, States, Serving,
      ServingIsOpen, PinnedBackendOpen, ActiveWhileSessionsOpen
<1>9. ASSUME NEW n \in Profile, CloseRejected(n) PROVE MInv'
  <2>1. state = "RECOVERY_REQUIRED" => OpenSessions = {}
    BY DEF ActiveWhileSessionsOpen
  <2> QED
    BY <1>9, <2>1, SameSessions
    DEF CloseRejected, ManagerTypeOK, States, Serving, ServingIsOpen,
        PinnedBackendOpen, ActiveWhileSessionsOpen
<1>10. CASE UNCHANGED managerVars
  BY <1>10, SameSessions
  DEF managerVars, ManagerTypeOK, ServingIsOpen, PinnedBackendOpen,
      ActiveWhileSessionsOpen
<1> QED
  BY <1>1, <1>2, <1>3, <1>4, <1>5, <1>6, <1>7, <1>8, <1>9, <1>10
  DEF ManagerNext

-----------------------------------------------------------------------------
\* The switch.

Prepare == {"detach", "disconnect", "wait", "flush", "select"}
Conclude == {"connect", "attach"} \cup Undo

\* What follows a step of a switch; the other requests open and select nothing.
Follows(a, b) ==
    IF request \in {"wii", "gamecube"}
    THEN IF a \in Prepare \cup {"open"} /\ a # "select" THEN b \in Prepare ELSE b \in Conclude
    ELSE b \notin {"open", "select"}

Course ==
    /\ \A i \in 1 .. Len(todo) - 1 : Follows(todo[i], todo[i + 1])
    /\ todo # <<>> /\ request \notin {"wii", "gamecube"} => Head(todo) \notin {"open", "select"}
    /\ request = "none" => todo = <<>> /\ next = None
    /\ request = "wii" => next = Wii /\ (todo # <<>> => Head(todo) # "open")
    /\ request \notin {"wii", "gamecube"} => next = None
    /\ awaited # None => todo # <<>> /\ Head(todo) \in PiActions \cup Undo
    /\ repeats \in Nat

\* The profile that a switch to GameCube has opened is not exported before it
\* is selected, and nobody has closed it.
NextIsFresh ==
    request = "gamecube" /\ todo # <<>> /\ Head(todo) \in Prepare =>
        next \in GameCube \ (closed \cup {current})

Broken == {"ERROR", "RECOVERY_REQUIRED"}

StoreInv ==
    /\ state \notin Broken => gcSaves = StoreOf(current)
    /\ gcSaves \in closed \cup {None, current}
    /\ current \in closed => state \in Broken

SInv == TypeOK /\ MInv /\ Course /\ NextIsFresh /\ StoreInv

\* The memory card: what opening a store would replay is the last acknowledged
\* write; the exported store has it; a store that is not exported has nothing to
\* flush; and while a switch to GameCube is under way nobody writes, so the store
\* that it opened stays current.
Replayed == IF log # 0 THEN log ELSE disk
OthersClean == \A p \in GameCube \ (closed \cup {current}) : dirty[p] = 0
ExportedAgrees ==
    current \in GameCube \ closed =>
        IF dirty[current] # 0 THEN dirty[current] = acked /\ log = acked
        ELSE log = 0 /\ base[current] = acked
Opening == request = "gamecube" /\ todo # <<>> /\ Head(todo) \in Prepare \cup {"open"}
OpenedAgrees ==
    Opening => /\ current = Wii
               /\ Head(todo) # "open" => log = 0 /\ base[next] = acked

SaveInv == Emulated => Replayed = acked /\ OthersClean /\ ExportedAgrees /\ OpenedAgrees

-----------------------------------------------------------------------------
\* The request's steps.
Steps == HostSteps \cup PiActions \cup Undo

LEMMA StepsTail ==
    ASSUME NEW s \in Seq(Steps), s # <<>>
    PROVE  /\ Tail(s) \in Seq(Steps) /\ Head(s) = s[1] /\ Len(s) \in Nat \ {0}
           /\ Len(Tail(s)) = Len(s) - 1
           /\ \A i \in 1 .. Len(s) - 1 : Tail(s)[i] = s[i + 1]
           /\ Tail(s) # <<>> => Len(s) > 1 /\ Head(Tail(s)) = s[2]
<1>1. /\ Tail(s) \in Seq(Steps) /\ Len(Tail(s)) = Len(s) - 1
      /\ \A i \in 1 .. Len(Tail(s)) : Tail(s)[i] = s[i + 1]
  BY HeadTailProperties
<1>2. Len(s) \in Nat \ {0} /\ Head(s) = s[1]
  BY EmptySeq
<1>3. ASSUME Tail(s) # <<>> PROVE Len(s) > 1 /\ Head(Tail(s)) = s[2]
  <2>1. Len(Tail(s)) \in Nat \ {0} /\ Head(Tail(s)) = Tail(s)[1]
    BY <1>1, <1>3, EmptySeq
  <2>2. QED
    BY <1>1, <1>2, <2>1
<1>4. QED
  BY <1>1, <1>2, <1>3

\* Every plan goes the way that Course describes.
LEMMA PlanCourse ==
    ASSUME NEW r \in Requests \ {"none"}
    PROVE  /\ Plan(r) \in Seq(Steps) /\ Plan(r) # <<>>
           /\ r = "gamecube" => Head(Plan(r)) = "open"
           /\ r = "wii" => Head(Plan(r)) = "detach"
           /\ r \notin {"wii", "gamecube"} => Head(Plan(r)) \notin {"open", "select"}
           /\ \A i \in 1 .. Len(Plan(r)) - 1 :
                 LET a == Plan(r)[i]  b == Plan(r)[i + 1] IN
                 IF r \in {"wii", "gamecube"}
                 THEN IF a \in Prepare \cup {"open"} /\ a # "select" THEN b \in Prepare
                      ELSE b \in Conclude
                 ELSE b \notin {"open", "select"}
<1> USE DEF Steps, HostSteps, PiActions, Undo, Prepare, Conclude
<1>1. CASE r = "wii"
  BY <1>1 DEF Plan
<1>2. CASE r = "gamecube"
  BY <1>2 DEF Plan
<1>3. CASE r = "detach"
  BY <1>3 DEF Plan
<1>4. CASE r = "disconnect"
  BY <1>4 DEF Plan
<1>5. CASE r = "connect"
  BY <1>5 DEF Plan
<1>a. CASE r = "attach"
  BY <1>a DEF Plan
<1>6. CASE r = "reconcile"
  BY <1>6 DEF Plan
<1>7. QED
  BY <1>1, <1>2, <1>3, <1>4, <1>5, <1>6, <1>a DEF Requests

-----------------------------------------------------------------------------
\* TypeOK by part.
HostTypes ==
    /\ request \in Requests /\ last \in Requests /\ todo \in Seq(Steps)
    /\ next \in Profile \cup {None} /\ gcSaves \in GameCube \cup {None}
    /\ awaited \in Slot \cup {None} /\ outcome \in {"none", "ok", "error"}
Process == [action : PiActions \cup {"none"}, mode : Modes, rest : Seq(HelperSteps),
            status : {"free", "run", "ok", "failed"}]
PiTypes ==
    /\ usb \in BOOLEAN /\ usbFlag \in BOOLEAN /\ nbdFlag \in BOOLEAN
    /\ nbd \in Session \cup {None} /\ mode \in Modes /\ readonly \in BOOLEAN
    /\ helper \in [Slot -> Process]
SaveTypes ==
    /\ disk \in Nat /\ log \in Nat /\ acked \in Nat
    /\ base \in [GameCube -> Nat] /\ dirty \in [GameCube -> Nat]

LEMMA TypeParts == TypeOK <=> ManagerTypeOK /\ HostTypes /\ PiTypes /\ SaveTypes
BY DEF TypeOK, HostTypes, PiTypes, SaveTypes, Steps, Process

\* The steps of a request, after one of them succeeded.
LEMMA TailCourse ==
    ASSUME HostTypes, Course, todo # <<>>, todo' = Tail(todo), request' = request,
           awaited' = None, repeats' = repeats, request # "gamecube" => next' = next
    PROVE  /\ Course' /\ todo' \in Seq(Steps)
           /\ todo' # <<>> => Head(todo') # "open"
           /\ request = "gamecube" /\ todo' # <<>> /\ Head(todo') \in Prepare =>
                 Head(todo) \in (Prepare \cup {"open"}) \ {"select"}
<1>1. /\ todo \in Seq(Steps) /\ todo' \in Seq(Steps) /\ Head(todo) = todo[1]
      /\ Len(todo) \in Nat \ {0}
      /\ Len(todo') = Len(todo) - 1
      /\ \A i \in 1 .. Len(todo) - 1 : todo'[i] = todo[i + 1]
      /\ todo' # <<>> => Len(todo) > 1 /\ Head(todo') = todo[2]
  BY StepsTail DEF HostTypes
<1>2. PICK n \in Nat \ {0} : n = Len(todo)
  BY <1>1
<1>3. \A i \in 1 .. n - 1 : Follows(todo[i], todo[i + 1])
  BY <1>2 DEF Course
<1>4. (\A i \in 1 .. Len(todo) - 1 : Follows(todo[i], todo[i + 1]))'
  <2>1. \A i \in 1 .. (n - 1) - 1 : i \in 1 .. n - 1 /\ i + 1 \in 1 .. n - 1
    OBVIOUS
  <2>2. \A i \in 1 .. (n - 1) - 1 : todo'[i] = todo[i + 1] /\ todo'[i + 1] = todo[(i + 1) + 1]
    BY <1>1, <1>2, <2>1
  <2>3. \A i \in 1 .. (n - 1) - 1 : Follows(todo'[i], todo'[i + 1])
    BY <1>3, <2>1, <2>2
  <2>4. QED
    BY <1>1, <1>2, <2>3 DEF Follows
<1>5. todo' # <<>> => Follows(Head(todo), Head(todo'))
  <2>1. n > 1 => 1 \in 1 .. n - 1 /\ 1 + 1 = 2
    OBVIOUS
  <2>2. n > 1 => Follows(todo[1], todo[2])
    BY <1>3, <2>1
  <2>3. QED
    BY <1>1, <1>2, <2>2
<1>6. Course'
  <2>1. request = "none" => todo = <<>>
    BY DEF Course
  <2>2. todo' # <<>> /\ request \in {"wii", "gamecube"} => Head(todo') # "open"
    BY <1>5 DEF Follows, Prepare, Conclude, Undo
  <2>3. todo' # <<>> /\ request \notin {"wii", "gamecube"} => Head(todo') \notin {"open", "select"}
    BY <1>5 DEF Follows
  <2>4. QED
    BY <1>4, <2>1, <2>2, <2>3 DEF Course
<1>7. request = "gamecube" /\ todo' # <<>> /\ Head(todo') \in Prepare =>
                 Head(todo) \in (Prepare \cup {"open"}) \ {"select"}
  BY <1>5 DEF Follows, Conclude, Prepare, Undo
<1>8. todo' # <<>> => Head(todo') # "open"
  BY <1>5 DEF Follows, Prepare, Conclude, Undo
<1>9. QED
  BY <1>1, <1>6, <1>7, <1>8

\* A request that goes on with safePiDisconnect or ends.
LEMMA UndoCourse ==
    ASSUME HostTypes, Course, todo # <<>>, awaited' = None, repeats' = repeats,
           \/ StepFails(Head(todo)) \/ \E result \in {"ok", "error"} : Finish(result)
    PROVE  /\ Course' /\ request' \in Requests /\ last' \in Requests /\ todo' \in Seq(Steps)
           /\ next' \in Profile \cup {None} /\ outcome' \in {"none", "ok", "error"}
           /\ todo' # <<>> => Head(todo') \notin Prepare \cup {"open"}
<1> DEFINE u == <<"undo.detach", "undo.disconnect">>
<1>1. u \in Seq(Steps) /\ Len(u) = 2 /\ u[1] = "undo.detach" /\ u[2] = "undo.disconnect"
      /\ Head(u) = "undo.detach" /\ u # <<>>
  BY DEF Steps, Undo
<1> HIDE DEF u
<1>2. CASE \E result \in {"ok", "error"} : Finish(result)
  <2>1. request' = "none" /\ todo' = <<>> /\ next' = None /\ last' = request
        /\ outcome' \in {"ok", "error"}
    BY <1>2 DEF Finish
  <2>2. <<>> \in Seq(Steps) /\ Len(<<>>) = 0
    BY EmptySeq
  <2>3. Course'
    BY <2>1, <2>2 DEF Course
  <2>4. QED
    BY <2>1, <2>2, <2>3 DEF HostTypes, Requests
<1>3. CASE request \in {"wii", "gamecube", "reconcile"} /\ todo' = u /\ outcome' = "error"
           /\ UNCHANGED <<request, next, last>>
  <2>1. Course'
    <3>1. \A i \in 1 .. Len(u) - 1 : i = 1 /\ u[i] = "undo.detach" /\ u[i + 1] = "undo.disconnect"
      BY <1>1
    <3>2. (\A i \in 1 .. Len(todo) - 1 : Follows(todo[i], todo[i + 1]))'
      BY <1>3, <3>1 DEF Follows, Prepare, Conclude, Undo
    <3>3. QED
      BY <1>1, <1>3, <3>2 DEF Course
  <2>2. QED
    BY <1>1, <1>3, <2>1 DEF HostTypes, Prepare
<1>4. QED
  BY <1>2, <1>3 DEF StepFails, u

-----------------------------------------------------------------------------
\* What the handlers do to the stores and to the manager.

LEMMA FlushTyped ==
    ASSUME SaveTypes, NEW p \in GameCube, FlushStore(p)
    PROVE  SaveTypes'
BY DEF SaveTypes, FlushStore, saveVars

LEMMA OpenTyped ==
    ASSUME SaveTypes, NEW p \in GameCube, OpenStore(p)
    PROVE  SaveTypes'
<1>1. PICK v \in Nat : v = IF log # 0 THEN log ELSE disk
  BY DEF SaveTypes
<1>2. disk' = v /\ log' = 0 /\ acked' = acked /\ base' = [base EXCEPT ![p] = v]
      /\ dirty' = [dirty EXCEPT ![p] = 0]
  BY <1>1 DEF OpenStore
<1>3. QED
  BY <1>2 DEF SaveTypes

\* Nothing that the manager's callers have to watch changes.
LEMMA ManagerCall ==
    ASSUME MInv, ManagerNext
    PROVE  MInv'
BY MInvStep

LEMMA Dropped ==
    ASSUME MInv, SaveTypes, StoreInv, gcSaves' = gcSaves, DropNext,
           next \in GameCube => next # current
    PROVE  /\ MInv' /\ SaveTypes' /\ StoreInv' /\ UNCHANGED <<state, current>>
           /\ closed' \subseteq Profile
<1>1. CASE next \in GameCube
  <2>1. CloseRejected(next) /\ FlushStore(next)
    BY <1>1 DEF DropNext
  <2>2. MInv'
    BY <1>1, <2>1, ManagerCall DEF ManagerNext, GameCube
  <2>3. SaveTypes'
    BY <1>1, <2>1, FlushTyped
  <2>4. closed' = closed \cup ({next} \ {Wii}) /\ UNCHANGED <<state, current>>
    BY <2>1 DEF CloseRejected
  <2>5. StoreInv'
    BY <1>1, <2>4 DEF StoreInv, StoreOf
  <2>6. QED
    BY <2>2, <2>3, <2>4, <2>5 DEF MInv, ManagerTypeOK
<1>2. CASE next \notin GameCube
  <2>1. UNCHANGED <<managerVars, saveVars>>
    BY <1>2 DEF DropNext
  <2>2. MInv'
    BY <2>1, MInvStep
  <2>3. QED
    BY <2>1, <2>2 DEF managerVars, saveVars, SaveTypes, StoreInv, StoreOf, MInv, ManagerTypeOK
<1>3. QED
  BY <1>1, <1>2

\* Steps of the others, which the handler does not see.
LEMMA Elsewhere ==
    ASSUME SInv, UNCHANGED <<hostVars, repeats, current, closed>>,
           state' \in Broken <=> state \in Broken
    PROVE  HostTypes' /\ Course' /\ NextIsFresh' /\ StoreInv'
<1> USE DEF hostVars
<1>1. HostTypes'
  BY TypeParts DEF SInv, HostTypes
<1>2. Course'
  BY DEF SInv, Course, Follows
<1>3. NextIsFresh' /\ StoreInv'
  BY DEF SInv, NextIsFresh, StoreInv, StoreOf
<1>4. QED
  BY <1>1, <1>2, <1>3

-----------------------------------------------------------------------------
\* The Pi.

LEMMA NoJobTyped == NoJob \in Process
BY EmptySeq DEF NoJob, Process, Modes

LEMMA ModeTyped ==
    ASSUME current \in Profile
    PROVE  ModeOf(current) \in Modes
BY SwitchAssumption DEF ModeOf, Modes

LEMMA JobTyped ==
    ASSUME NEW a \in PiActions, NEW m \in Modes
    PROVE  Job(a, m) \in Process
<1>1. Script(a) \in Seq(HelperSteps)
  <2> USE DEF HelperSteps
  <2>1. CASE a = "detach"
    BY <2>1 DEF Script
  <2>2. CASE a = "disconnect"
    BY <2>2 DEF Script
  <2>3. CASE a = "connect"
    BY <2>3 DEF Script
  <2>4. CASE a = "attach"
    BY <2>4 DEF Script
  <2>5. QED
    BY <2>1, <2>2, <2>3, <2>4 DEF PiActions
<1>2. QED
  BY <1>1 DEF Job, Process

\* One process changes.
LEMMA ProcessStep ==
    ASSUME PiTypes, NEW j \in Slot, NEW job \in Process, helper' = [helper EXCEPT ![j] = job],
           UNCHANGED <<usb, usbFlag, nbd, nbdFlag, mode, readonly>>
    PROVE  PiTypes'
BY DEF PiTypes

LEMMA EffectTyped ==
    ASSUME PiTypes, NEW step \in HelperSteps, NEW m \in Modes, Effect(step, m)
    PROVE  /\ usb' \in BOOLEAN /\ usbFlag' \in BOOLEAN /\ nbdFlag' \in BOOLEAN
           /\ nbd' \in Session \cup {None} /\ mode' \in Modes /\ readonly' \in BOOLEAN
           /\ (\E s \in Session : BeginSession(s)) \/ UNCHANGED managerVars
<1>1. /\ usb \in BOOLEAN /\ usbFlag \in BOOLEAN /\ nbdFlag \in BOOLEAN /\ readonly \in BOOLEAN
      /\ nbd \in Session \cup {None} /\ mode \in Modes
  BY DEF PiTypes
<1>2. usb' \in BOOLEAN /\ usbFlag' \in BOOLEAN /\ nbdFlag' \in BOOLEAN /\ readonly' \in BOOLEAN
  BY <1>1 DEF Effect
<1>3. mode' \in Modes
  BY <1>1 DEF Effect, Modes
<1>4. nbd' \in Session \cup {None}
  BY <1>1 DEF Effect
<1>5. (\E s \in Session : BeginSession(s)) \/ UNCHANGED managerVars
  BY DEF Effect
<1>6. QED
  BY <1>2, <1>3, <1>4, <1>5

LEMMA SInvParts ==
    SInv <=> /\ MInv /\ HostTypes /\ PiTypes /\ SaveTypes /\ Course /\ NextIsFresh /\ StoreInv
BY TypeParts DEF SInv, MInv

LEMMA SInvNext ==
    ASSUME MInv', HostTypes', PiTypes', SaveTypes', Course', NextIsFresh', StoreInv'
    PROVE  SInv'
<1>1. TypeOK'
  BY DEF MInv, TypeOK, HostTypes, PiTypes, SaveTypes, Steps, Process
<1>2. QED
  BY <1>1 DEF SInv

\* The helper processes, and the actions on the Pi itself.
LEMMA HelperKeeps ==
    ASSUME SInv, NEW j \in Slot, HelperRuns(j) \/ HelperReaped(j) \/ LocalAction(j)
    PROVE  SInv'
<1> USE DEF managerVars, hostVars, saveVars, budgets
<1>0. MInv /\ PiTypes /\ SaveTypes /\ helper \in [Slot -> Process] /\ helper[j] \in Process
  BY SInvParts DEF PiTypes
<1>a. ASSUME UNCHANGED <<managerVars, hostVars, saveVars, repeats>>, PiTypes' PROVE SInv'
  <2>1. MInv'
    BY <1>0, <1>a, MInvStep
  <2>2. HostTypes' /\ Course' /\ NextIsFresh' /\ StoreInv'
    BY <1>a, Elsewhere
  <2>3. SaveTypes'
    BY <1>0, <1>a DEF SaveTypes
  <2>4. QED
    BY <1>a, <2>1, <2>2, <2>3, SInvNext
<1>1. CASE HelperStep(j)
  <2>1. /\ helper[j].rest # <<>> /\ Effect(Head(helper[j].rest), helper[j].mode)
        /\ helper' = [helper EXCEPT ![j].rest = Tail(@)]
        /\ UNCHANGED <<hostVars, saveVars, budgets>>
    BY <1>1 DEF HelperStep
  <2>2. PICK r \in Seq(HelperSteps) : r = Tail(helper[j].rest)
    BY <1>0, <2>1, HeadTailProperties DEF Process
  <2>3. PICK step \in HelperSteps : step = Head(helper[j].rest)
    BY <1>0, <2>1, HeadTailProperties DEF Process
  <2>4. helper[j].mode \in Modes
    BY <1>0 DEF Process
  <2>5. /\ usb' \in BOOLEAN /\ usbFlag' \in BOOLEAN /\ nbdFlag' \in BOOLEAN
        /\ nbd' \in Session \cup {None} /\ mode' \in Modes /\ readonly' \in BOOLEAN
        /\ (\E s \in Session : BeginSession(s)) \/ UNCHANGED managerVars
    BY <1>0, <2>1, <2>3, <2>4, EffectTyped
  <2>6. helper' \in [Slot -> Process]
    <3>1. PICK job \in Process : job = [helper[j] EXCEPT !.rest = r]
      BY <1>0 DEF Process
    <3>2. helper' = [helper EXCEPT ![j] = job]
      BY <1>0, <2>1, <2>2, <3>1
    <3>3. QED
      BY <1>0, <3>2
  <2>7. PiTypes'
    BY <2>5, <2>6 DEF PiTypes
  <2>8. CASE UNCHANGED managerVars
    BY <1>a, <2>1, <2>7, <2>8
  <2>9. CASE \E s \in Session : BeginSession(s)
    <3>1. MInv'
      BY <1>0, <2>9, ManagerCall DEF ManagerNext
    <3>2. UNCHANGED <<current, closed>> /\ (state' \in Broken <=> state \in Broken)
      BY <2>9 DEF BeginSession, Broken, Serving
    <3>3. HostTypes' /\ Course' /\ NextIsFresh' /\ StoreInv'
      BY <2>1, <3>2, Elsewhere
    <3>4. SaveTypes'
      BY <1>0, <2>1 DEF SaveTypes
    <3>5. QED
      BY <2>7, <3>1, <3>3, <3>4, SInvNext
  <2>10. QED
    BY <2>5, <2>8, <2>9
<1>2. CASE HelperFails(j)
  <2>1. PICK job \in Process : helper' = [helper EXCEPT ![j] = job]
    <3>a. <<"rm.nbd">> \in Seq(HelperSteps) /\ <<"nbd.stop", "rm.nbd">> \in Seq(HelperSteps)
      BY DEF HelperSteps
    <3>1. RestIgnoring(Head(helper[j].rest)) \in Seq(HelperSteps)
      BY <3>a DEF RestIgnoring
    <3>2. [helper[j] EXCEPT !.rest = RestIgnoring(Head(@))] \in Process
      BY <1>0, <3>1 DEF Process
    <3>3. [helper[j] EXCEPT !.status = "failed"] \in Process
      BY <1>0 DEF Process
    <3>4. QED
      BY <1>2, <3>2, <3>3 DEF HelperFails
  <2>2. PiTypes'
    BY <1>0, <1>2, <2>1, ProcessStep DEF HelperFails
  <2>3. QED
    BY <1>2, <1>a, <2>2 DEF HelperFails
<1>3. CASE HelperExits(j)
  <2>1. PICK job \in Process : helper' = [helper EXCEPT ![j] = job]
    <3>1. PICK job \in Process : job = [helper[j] EXCEPT !.status = "ok"]
      BY <1>0 DEF Process
    <3>2. helper' = [helper EXCEPT ![j] = job]
      BY <1>0, <1>3, <3>1 DEF HelperExits
    <3>3. QED
      BY <3>2
  <2>2. PiTypes'
    BY <1>0, <1>3, <2>1, ProcessStep DEF HelperExits
  <2>3. QED
    BY <1>3, <1>a, <2>2 DEF HelperExits
<1>4. CASE HelperReaped(j)
  <2>1. PiTypes'
    BY <1>0, <1>4, NoJobTyped, ProcessStep DEF HelperReaped
  <2>2. QED
    BY <1>4, <1>a, <2>1 DEF HelperReaped
<1>5. CASE LocalAction(j)
  <2>1. PICK a \in PiActions : helper' = [helper EXCEPT ![j] = Job(a, "wii")]
    BY <1>5 DEF LocalAction
  <2>2. Job(a, "wii") \in Process
    BY JobTyped DEF Modes
  <2>3. PiTypes'
    BY <1>0, <1>5, <2>1, <2>2, ProcessStep DEF LocalAction
  <2>4. QED
    BY <1>5, <1>a, <2>3 DEF LocalAction
<1>6. QED
  BY <1>1, <1>2, <1>3, <1>4, <1>5 DEF HelperRuns

\* The console, the connections and a restart of the Pi.
LEMMA OutsideKeeps ==
    ASSUME SInv,
           \/ \E s \in Session : SessionEnds(s)
           \/ ConnectionLost \/ ConsoleWrite \/ BackgroundFlush \/ PiRestart
    PROVE  SInv'
<1> USE DEF managerVars, hostVars, saveVars, budgets, piVars
<1>0. MInv /\ PiTypes /\ SaveTypes /\ HostTypes
  BY SInvParts
<1>1. CASE \E s \in Session : SessionEnds(s)
  <2>1. MInv'
    BY <1>0, <1>1, ManagerCall DEF SessionEnds, ManagerNext
  <2>2. UNCHANGED <<current, closed>> /\ (state' \in Broken <=> state \in Broken)
        /\ UNCHANGED <<hostVars, piVars, saveVars, budgets>>
    BY <1>1 DEF SessionEnds, Release, Broken
  <2>3. HostTypes' /\ Course' /\ NextIsFresh' /\ StoreInv'
    BY <2>2, Elsewhere
  <2>4. PiTypes' /\ SaveTypes'
    BY <1>0, <2>2 DEF PiTypes, SaveTypes
  <2>5. QED
    BY <2>1, <2>3, <2>4, SInvNext
<1>a. ASSUME UNCHANGED <<managerVars, hostVars, repeats>>, PiTypes', SaveTypes' PROVE SInv'
  <2>1. MInv'
    BY <1>0, <1>a, MInvStep
  <2>2. HostTypes' /\ Course' /\ NextIsFresh' /\ StoreInv'
    BY <1>a, Elsewhere
  <2>3. QED
    BY <1>a, <2>1, <2>2, SInvNext
<1>2. CASE ConnectionLost
  <2>1. PiTypes' /\ SaveTypes'
    BY <1>0, <1>2 DEF ConnectionLost, PiTypes, SaveTypes
  <2>2. QED
    BY <1>2, <1>a, <2>1 DEF ConnectionLost
<1>3. CASE ConsoleWrite
  <2>1. PICK p \in GameCube : dirty' = [dirty EXCEPT ![p] = acked + 1] /\ acked' = acked + 1
                              /\ log' = acked + 1 /\ UNCHANGED <<disk, base>>
    BY <1>3 DEF ConsoleWrite
  <2>2. SaveTypes'
    <3>1. PICK v \in Nat : v = acked + 1
      BY <1>0 DEF SaveTypes
    <3>2. dirty' = [dirty EXCEPT ![p] = v] /\ acked' = v /\ log' = v
      BY <2>1, <3>1
    <3>3. QED
      BY <1>0, <2>1, <3>2 DEF SaveTypes
  <2>3. PiTypes'
    BY <1>0, <1>3 DEF ConsoleWrite, PiTypes
  <2>4. QED
    BY <1>3, <1>a, <2>2, <2>3 DEF ConsoleWrite
<1>4. CASE BackgroundFlush
  <2>1. gcSaves \in GameCube /\ FlushStore(gcSaves)
    BY <1>0, <1>4 DEF BackgroundFlush, HostTypes
  <2>2. SaveTypes' /\ PiTypes'
    BY <1>0, <1>4, <2>1, FlushTyped DEF BackgroundFlush, PiTypes
  <2>3. QED
    BY <1>4, <1>a, <2>2 DEF BackgroundFlush
<1>5. CASE PiRestart
  <2>1. helper' \in [Slot -> Process]
    <3>1. \A j \in Slot : [helper[j] EXCEPT !.status = "failed"] \in Process
      BY <1>0 DEF PiTypes, Process
    <3>2. QED
      BY <1>5, <3>1, NoJobTyped DEF PiRestart
  <2>2. PiTypes' /\ SaveTypes'
    BY <1>0, <1>5, <2>1 DEF PiRestart, PiTypes, SaveTypes, Modes
  <2>3. QED
    BY <1>5, <1>a, <2>2 DEF PiRestart
<1>6. QED
  BY <1>1, <1>2, <1>3, <1>4, <1>5

-----------------------------------------------------------------------------
\* The handlers.

\* A step that leaves the manager alone keeps what is known of it.
LEMMA ManagerStill ==
    ASSUME MInv, StoreInv, UNCHANGED <<managerVars, gcSaves>>
    PROVE  MInv' /\ StoreInv' /\ UNCHANGED <<state, current, closed>>
<1>1. MInv'
  BY MInvStep
<1>2. QED
  BY <1>1 DEF managerVars, StoreInv, StoreOf

LEMMA RequestKeeps ==
    ASSUME SInv, NEW r \in Requests \ {"none"}, Request(r)
    PROVE  SInv'
<1>0. MInv /\ HostTypes /\ PiTypes /\ SaveTypes /\ Course /\ StoreInv
  BY SInvParts
<1>1. /\ request = "none" /\ request' = r /\ todo' = Plan(r) /\ outcome' = "none"
      /\ next' = (IF r = "wii" THEN Wii ELSE None)
      /\ UNCHANGED <<managerVars, awaited, last, gcSaves, piVars, saveVars>>
  BY DEF Request
<1>2. repeats' \in Nat
  <2>1. repeats \in Nat /\ (repeats' = repeats \/ repeats' = repeats + 1)
    BY <1>0 DEF Course, Request
  <2>2. QED
    BY <2>1
<1>3. awaited = None
  BY <1>0, <1>1 DEF Course
<1>4. HostTypes'
  BY <1>0, <1>1, PlanCourse, ManagerAssumption DEF HostTypes
<1>5. Course'
  <2>1. (\A i \in 1 .. Len(todo) - 1 : Follows(todo[i], todo[i + 1]))'
    BY <1>1, PlanCourse DEF Follows
  <2>2. QED
    BY <1>1, <1>2, <1>3, <2>1, PlanCourse DEF Course
<1>6. NextIsFresh'
  BY <1>1, PlanCourse DEF NextIsFresh, Prepare
<1>7. MInv' /\ StoreInv'
  BY <1>0, <1>1, ManagerStill
<1>8. PiTypes' /\ SaveTypes'
  BY <1>0, <1>1 DEF piVars, saveVars, PiTypes, SaveTypes
<1>9. QED
  BY <1>4, <1>5, <1>6, <1>7, <1>8, SInvNext

\* A request that goes on to its next step, with nothing else changed.
LEMMA ProceedKeeps ==
    ASSUME HostTypes, Course, NextIsFresh, todo # <<>>, Proceed, awaited' = None,
           repeats' = repeats, UNCHANGED <<gcSaves, current, closed>>,
           Head(todo) # "open"
    PROVE  HostTypes' /\ Course' /\ NextIsFresh'
<1>1. todo' = Tail(todo) /\ UNCHANGED <<request, next, last, outcome>>
  BY DEF Proceed
<1>2. /\ Course' /\ todo' \in Seq(Steps)
      /\ request = "gamecube" /\ todo' # <<>> /\ Head(todo') \in Prepare => Head(todo) \in Prepare
  BY <1>1, TailCourse
<1>3. HostTypes'
  BY <1>1, <1>2 DEF HostTypes
<1>4. NextIsFresh'
  BY <1>1, <1>2 DEF NextIsFresh
<1>5. QED
  BY <1>2, <1>3, <1>4

\* A request that ends, or goes on with safePiDisconnect.
LEMMA FailKeeps ==
    ASSUME HostTypes, Course, todo # <<>>, awaited' = None, repeats' = repeats,
           gcSaves' = gcSaves,
           \/ StepFails(Head(todo)) \/ \E result \in {"ok", "error"} : Finish(result)
    PROVE  HostTypes' /\ Course' /\ NextIsFresh'
<1>1. /\ Course' /\ request' \in Requests /\ last' \in Requests /\ todo' \in Seq(Steps)
      /\ next' \in Profile \cup {None} /\ outcome' \in {"none", "ok", "error"}
      /\ todo' # <<>> => Head(todo') \notin Prepare \cup {"open"}
  BY UndoCourse
<1>2. QED
  BY <1>1 DEF HostTypes, NextIsFresh

LEMMA OpenKeeps ==
    ASSUME SInv, OpenBackend
    PROVE  SInv'
<1>0. MInv /\ HostTypes /\ PiTypes /\ SaveTypes /\ Course /\ StoreInv
  BY SInvParts
<1>1. /\ todo # <<>> /\ Head(todo) = "open" /\ awaited = None
      /\ UNCHANGED <<managerVars, awaited, gcSaves, piVars, repeats>>
  BY DEF OpenBackend, NextStep
<1>2. MInv' /\ StoreInv' /\ UNCHANGED <<state, current, closed>>
  BY <1>0, <1>1, ManagerStill
<1>3. PiTypes'
  BY <1>0, <1>1 DEF piVars, PiTypes
<1>4. CASE Finish("error") /\ UNCHANGED saveVars
  <2>1. HostTypes' /\ Course' /\ NextIsFresh'
    BY <1>0, <1>1, <1>4, FailKeeps
  <2>2. SaveTypes'
    BY <1>0, <1>4 DEF saveVars, SaveTypes
  <2>3. QED
    BY <1>2, <1>3, <2>1, <2>2, SInvNext
<1>5. ASSUME NEW p \in Unopened, next' = p,
             IF Emulated THEN OpenStore(p) ELSE UNCHANGED saveVars,
             todo' = Tail(todo), UNCHANGED <<request, last, outcome>>
      PROVE  SInv'
  <2>1. p \in GameCube \ (closed \cup {current}) /\ p \in Profile
    BY DEF Unopened, GameCube
  <2>2. SaveTypes'
    <3>1. CASE OpenStore(p)
      BY <1>0, <2>1, <3>1, OpenTyped
    <3>2. CASE UNCHANGED saveVars
      BY <1>0, <3>2 DEF saveVars, SaveTypes
    <3>3. QED
      BY <1>5, <3>1, <3>2
  <2>3. request = "gamecube"
    BY <1>0, <1>1 DEF Course
  <2>4. Course' /\ todo' \in Seq(Steps)
    BY <1>0, <1>1, <1>5, <2>3, TailCourse
  <2>5. HostTypes'
    BY <1>0, <1>1, <1>5, <2>1, <2>4 DEF HostTypes
  <2>6. NextIsFresh'
    BY <1>2, <1>5, <2>1 DEF NextIsFresh
  <2>7. QED
    BY <1>2, <1>3, <2>2, <2>4, <2>5, <2>6, SInvNext
<1>6. QED
  BY <1>4, <1>5 DEF OpenBackend

LEMMA CallKeeps ==
    ASSUME SInv, NEW j \in Slot, CallPi(j)
    PROVE  SInv'
<1>0. MInv /\ HostTypes /\ PiTypes /\ SaveTypes /\ Course /\ StoreInv /\ NextIsFresh
  BY SInvParts
<1>1. /\ todo # <<>> /\ Head(todo) \in PiActions \cup Undo /\ awaited' = j
      /\ helper' = [helper EXCEPT ![j] = Job(ActionOf(Head(todo)), ModeOf(current))]
      /\ UNCHANGED <<managerVars, request, todo, next, last, outcome, gcSaves, usb,
                     usbFlag, nbd, nbdFlag, mode, readonly, saveVars, repeats>>
  BY DEF CallPi, budgets
<1>2. MInv' /\ StoreInv' /\ UNCHANGED <<state, current, closed>>
  BY <1>0, <1>1, ManagerStill
<1>3. ActionOf(Head(todo)) \in PiActions /\ ModeOf(current) \in Modes
  BY <1>0, <1>1, ModeTyped DEF ActionOf, PiActions, Undo, MInv, ManagerTypeOK
<1>4. PiTypes'
  BY <1>0, <1>1, <1>3, JobTyped, ProcessStep
<1>5. SaveTypes' /\ HostTypes'
  BY <1>0, <1>1 DEF saveVars, SaveTypes, HostTypes
<1>6. Course' /\ NextIsFresh'
  BY <1>0, <1>1, <1>2 DEF Course, Follows, NextIsFresh
<1>7. QED
  BY <1>2, <1>4, <1>5, <1>6, SInvNext

\* The profile that a failing step drops is not the exported one.
LEMMA NextNotExported ==
    ASSUME Course, NextIsFresh, todo # <<>>, Head(todo) \in Prepare
    PROVE  next \in GameCube => next # current
BY ManagerAssumption DEF Course, NextIsFresh, GameCube

\* An answer of the Pi, or none.
LEMMA AnswerKeeps ==
    ASSUME SInv, awaited # None, NEW ok \in BOOLEAN, awaited' = None,
           Answered(ok) \/ (Head(todo) \in Undo /\ Finish("error")),
           repeats' = repeats, gcSaves' = gcSaves, PiTypes',
           IF ~ok /\ Head(todo) \in {"detach", "disconnect"} THEN DropNext
           ELSE UNCHANGED <<managerVars, saveVars>>
    PROVE  SInv'
<1>0. MInv /\ HostTypes /\ SaveTypes /\ Course /\ StoreInv /\ NextIsFresh
  BY SInvParts
<1>1. todo # <<>> /\ Head(todo) \in PiActions \cup Undo /\ Head(todo) # "open"
  BY <1>0 DEF Course, PiActions, Undo
<1>2. CASE ~ok /\ Head(todo) \in {"detach", "disconnect"}
  <2>1. DropNext /\ StepFails(Head(todo))
    BY <1>2 DEF Answered, Undo
  <2>2. MInv' /\ SaveTypes' /\ StoreInv'
    BY <1>0, <1>1, <1>2, <2>1, Dropped, NextNotExported DEF Prepare
  <2>3. HostTypes' /\ Course' /\ NextIsFresh'
    BY <1>0, <1>1, <2>1, FailKeeps
  <2>4. QED
    BY <2>2, <2>3, SInvNext
<1>3. CASE ~(~ok /\ Head(todo) \in {"detach", "disconnect"})
  <2>1. UNCHANGED <<managerVars, saveVars>>
    BY <1>3
  <2>2. MInv' /\ StoreInv' /\ UNCHANGED <<state, current, closed>>
    BY <1>0, <2>1, ManagerStill
  <2>3. SaveTypes'
    BY <1>0, <2>1 DEF saveVars, SaveTypes
  <2>4. \/ Proceed
        \/ StepFails(Head(todo)) \/ \E result \in {"ok", "error"} : Finish(result)
    BY DEF Answered
  <2>5. HostTypes' /\ Course' /\ NextIsFresh'
    BY <1>0, <1>1, <2>2, <2>4, FailKeeps, ProceedKeeps
  <2>6. QED
    BY <2>2, <2>3, <2>5, SInvNext
<1>4. QED
  BY <1>2, <1>3

LEMMA PiAnswersKeeps ==
    ASSUME SInv, PiAnswers \/ PiTimesOut
    PROVE  SInv'
<1>0. PiTypes /\ HostTypes
  BY SInvParts
<1>1. CASE PiAnswers
  <2>1. awaited \in Slot /\ awaited # None
    BY <1>0, <1>1 DEF PiAnswers, HostTypes
  <2>2. PiTypes'
    BY <1>0, <1>1, <2>1, NoJobTyped, ProcessStep DEF PiAnswers
  <2>3. PICK ok \in BOOLEAN : ok = (helper[awaited].status = "ok")
    OBVIOUS
  <2>4. /\ Answered(ok) /\ awaited' = None /\ repeats' = repeats /\ gcSaves' = gcSaves
        /\ IF ~ok /\ Head(todo) \in {"detach", "disconnect"} THEN DropNext
           ELSE UNCHANGED <<managerVars, saveVars>>
    BY <1>1, <2>3 DEF PiAnswers, budgets
  <2>5. QED
    BY <2>1, <2>2, <2>4, AnswerKeeps
<1>2. CASE PiTimesOut
  <2>1. PiTypes'
    BY <1>0, <1>2 DEF PiTimesOut, piVars, PiTypes
  <2>2. /\ Answered(FALSE) \/ (Head(todo) \in Undo /\ Finish("error"))
        /\ awaited # None /\ awaited' = None /\ repeats' = repeats /\ gcSaves' = gcSaves
        /\ IF ~FALSE /\ Head(todo) \in {"detach", "disconnect"} THEN DropNext
           ELSE UNCHANGED <<managerVars, saveVars>>
    BY <1>2 DEF PiTimesOut
  <2>3. QED
    BY <2>1, <2>2, AnswerKeeps
<1>3. QED
  BY <1>1, <1>2

LEMMA WaitKeeps ==
    ASSUME SInv, WaitForDisconnect
    PROVE  SInv'
<1>0. MInv /\ HostTypes /\ PiTypes /\ SaveTypes /\ Course /\ StoreInv /\ NextIsFresh
  BY SInvParts
<1>1. /\ todo # <<>> /\ Head(todo) = "wait" /\ awaited = None
      /\ UNCHANGED <<awaited, gcSaves, piVars, repeats>>
  BY DEF WaitForDisconnect, NextStep, budgets
<1>2. PiTypes'
  BY <1>0, <1>1 DEF piVars, PiTypes
<1>3. CASE Disconnect /\ Proceed /\ UNCHANGED saveVars
  <2>1. MInv'
    BY <1>0, <1>3, ManagerCall DEF ManagerNext
  <2>2. state \notin Broken /\ UNCHANGED <<current, closed>>
    BY <1>3 DEF Disconnect, CanDisconnect, Broken
  <2>3. StoreInv'
    BY <1>0, <1>1, <2>2 DEF StoreInv, StoreOf
  <2>4. HostTypes' /\ Course' /\ NextIsFresh'
    BY <1>0, <1>1, <1>3, <2>2, ProceedKeeps
  <2>5. SaveTypes'
    BY <1>0, <1>3 DEF saveVars, SaveTypes
  <2>6. QED
    BY <1>2, <2>1, <2>3, <2>4, <2>5, SInvNext
<1>4. CASE StepFails("wait") /\ DropNext
  <2>1. MInv' /\ SaveTypes' /\ StoreInv'
    BY <1>0, <1>1, <1>4, Dropped, NextNotExported DEF Prepare
  <2>2. HostTypes' /\ Course' /\ NextIsFresh'
    BY <1>0, <1>1, <1>4, FailKeeps
  <2>3. QED
    BY <1>2, <2>1, <2>2, SInvNext
<1>5. QED
  BY <1>3, <1>4 DEF WaitForDisconnect

LEMMA FlushKeeps ==
    ASSUME SInv, FlushSaves
    PROVE  SInv'
<1>0. MInv /\ HostTypes /\ PiTypes /\ SaveTypes /\ Course /\ StoreInv /\ NextIsFresh
  BY SInvParts
<1>1. /\ todo # <<>> /\ Head(todo) \in {"flush", "sync"} /\ awaited = None
      /\ UNCHANGED <<managerVars, awaited, gcSaves, piVars, repeats>>
  BY DEF FlushSaves, NextStep
<1>2. PiTypes' /\ MInv' /\ StoreInv' /\ UNCHANGED <<state, current, closed>>
  BY <1>0, <1>1, ManagerStill DEF piVars, PiTypes
<1>3. SaveTypes'
  <2>1. CASE UNCHANGED saveVars
    BY <1>0, <2>1 DEF saveVars, SaveTypes
  <2>2. CASE gcSaves # None /\ FlushStore(gcSaves)
    BY <1>0, <2>2, FlushTyped DEF HostTypes
  <2>3. QED
    BY <2>1, <2>2 DEF FlushSaves
<1>4. \/ Proceed
      \/ StepFails(Head(todo)) \/ \E result \in {"ok", "error"} : Finish(result)
  BY DEF FlushSaves
<1>5. HostTypes' /\ Course' /\ NextIsFresh'
  BY <1>0, <1>1, <1>2, <1>4, FailKeeps, ProceedKeeps
<1>6. QED
  BY <1>2, <1>3, <1>5, SInvNext

\* A manager without connections that serves nothing, or only Wii.
LEMMA NoConnections ==
    ASSUME MInv, OpenSessions' = {}, sessions' = 0, pinned' \in [Session -> Profile \cup {None}],
           current' \in Profile, closed' \subseteq Profile \ {Wii}, state' \in States \ {"ACTIVE"},
           state' \in Serving => current' = Wii
    PROVE  MInv'
<1>1. ManagerTypeOK' /\ ServingIsOpen' /\ PinnedBackendOpen'
  BY DEF ManagerTypeOK, ServingIsOpen, PinnedBackendOpen
<1>2. ActiveWhileSessionsOpen'
  BY FS_EmptySet DEF ActiveWhileSessionsOpen
<1>3. QED
  BY <1>1, <1>2 DEF MInv

LEMMA SelectKeeps ==
    ASSUME SInv, SelectExport
    PROVE  SInv'
<1>0. MInv /\ HostTypes /\ PiTypes /\ SaveTypes /\ Course /\ StoreInv /\ NextIsFresh
  BY SInvParts
<1>1. /\ todo # <<>> /\ Head(todo) = "select" /\ awaited = None
      /\ UNCHANGED <<awaited, piVars, repeats>>
  BY DEF SelectExport, NextStep
<1>2. /\ request \in {"wii", "gamecube"} /\ next \in Profile \ closed
      /\ current \in Profile /\ closed \subseteq Profile \ {Wii}
  <2>1. current \in Profile /\ closed \subseteq Profile \ {Wii}
    BY <1>0 DEF MInv, ManagerTypeOK
  <2>2. QED
    BY <1>0, <1>1, <2>1, ManagerAssumption DEF Course, NextIsFresh, Prepare, GameCube
<1>3. PiTypes'
  BY <1>0, <1>1 DEF piVars, PiTypes
<1>4. CASE /\ SelectValid(next) /\ gcSaves' = StoreOf(next) /\ Proceed
           /\ IF current \in GameCube \ {next} THEN FlushStore(current) ELSE UNCHANGED saveVars
  <2>1. MInv'
    BY <1>0, <1>2, <1>4, ManagerCall DEF ManagerNext
  <2>2. current' = next /\ state' = "EXPORTING" /\ closed' = closed \cup ({current} \ {next, Wii})
    BY <1>4 DEF SelectValid, ClosedBy
  <2>3. StoreInv'
    BY <1>2, <1>4, <2>2 DEF StoreInv, StoreOf, Broken
  <2>4. SaveTypes'
    <3>1. CASE UNCHANGED saveVars
      BY <1>0, <3>1 DEF saveVars, SaveTypes
    <3>2. CASE current \in GameCube /\ FlushStore(current)
      BY <1>0, <3>2, FlushTyped
    <3>3. QED
      BY <1>4, <3>1, <3>2
  <2>5. todo' = Tail(todo) /\ UNCHANGED <<request, next, last, outcome>>
    BY <1>4 DEF Proceed
  <2>6. /\ Course' /\ todo' \in Seq(Steps)
        /\ ~(request = "gamecube" /\ todo' # <<>> /\ Head(todo') \in Prepare)
    BY <1>0, <1>1, <2>5, TailCourse
  <2>7. HostTypes'
    BY <1>0, <1>1, <1>4, <2>5, <2>6 DEF HostTypes, StoreOf
  <2>8. NextIsFresh'
    BY <2>5, <2>6 DEF NextIsFresh
  <2>9. QED
    BY <1>3, <2>1, <2>3, <2>4, <2>6, <2>7, <2>8, SInvNext
<1>5. CASE /\ CanSelect /\ UNCHANGED <<sessions, pinned, gcSaves, saveVars>> /\ Finish("error")
           /\ \/ /\ state' = "ERROR" /\ closed' = closed \cup ({next} \ {Wii})
                 /\ current' = current
              \/ /\ state' = "RECOVERY_REQUIRED" /\ current' = next
                 /\ current \notin {next, Wii}
                 /\ closed' = ClosedBy(next) \cup ({next} \ {Wii})
  <2>1. closed \subseteq closed' /\ closed' \subseteq Profile \ {Wii} /\ state' \in Broken
        /\ current' \in Profile /\ (current' # current => current \in closed')
    BY <1>2, <1>5 DEF ClosedBy, Broken
  <2>2. OpenSessions = {} /\ sessions = 0
    BY <1>0, <1>5, OpenSessionsFinite DEF CanSelect, MInv, ActiveWhileSessionsOpen
  <2>3. MInv'
    <3>1. OpenSessions' = {} /\ sessions' = 0 /\ pinned' \in [Session -> Profile \cup {None}]
      BY <1>0, <1>5, <2>2 DEF OpenSessions, MInv, ManagerTypeOK
    <3>2. state' \in States \ {"ACTIVE"} /\ state' \notin Serving
      BY <2>1 DEF Broken, States, Serving
    <3>3. QED
      BY <1>0, <2>1, <3>1, <3>2, NoConnections
  <2>4. StoreInv'
    BY <1>0, <1>5, <2>1 DEF StoreInv
  <2>5. HostTypes' /\ Course' /\ NextIsFresh'
    BY <1>0, <1>1, <1>5, FailKeeps
  <2>6. SaveTypes'
    BY <1>0, <1>5 DEF saveVars, SaveTypes
  <2>7. QED
    BY <1>3, <2>3, <2>4, <2>5, <2>6, SInvNext
<1>6. QED
  BY <1>4, <1>5 DEF SelectExport

LEMMA RestartKeeps ==
    ASSUME SInv, HostRestart
    PROVE  SInv'
<1>0. MInv /\ HostTypes /\ PiTypes /\ SaveTypes /\ Course /\ StoreInv
  BY SInvParts
<1>1. /\ state' = "EXPORTING" /\ current' = Wii /\ sessions' = 0
      /\ pinned' = [s \in Session |-> None]
      /\ closed' = closed \cup ({current, next} \cap GameCube)
      /\ request' = "none" /\ todo' = <<>> /\ next' = None /\ awaited' = None
      /\ last' = "none" /\ outcome' = "none" /\ gcSaves' = None /\ nbd' = None
      /\ UNCHANGED <<usb, usbFlag, nbdFlag, mode, readonly, helper, saveVars, repeats>>
  BY DEF HostRestart
<1>2. <<>> \in Seq(Steps) /\ Len(<<>>) = 0
  BY EmptySeq
<1>3. OpenSessions' = {} /\ closed' \subseteq Profile \ {Wii}
  BY <1>0, <1>1 DEF OpenSessions, MInv, ManagerTypeOK, GameCube
<1>4. MInv'
  BY <1>0, <1>1, <1>3, NoConnections, ManagerAssumption DEF States
<1>5. HostTypes' /\ PiTypes' /\ SaveTypes'
  BY <1>0, <1>1, <1>2 DEF HostTypes, PiTypes, SaveTypes, saveVars, Requests
<1>6. Course' /\ NextIsFresh'
  BY <1>0, <1>1, <1>2 DEF Course, NextIsFresh
<1>7. StoreInv'
  BY <1>1, <1>3 DEF StoreInv, StoreOf, GameCube
<1>8. QED
  BY <1>4, <1>5, <1>6, <1>7, SInvNext

-----------------------------------------------------------------------------
LEMMA SInvInit == Init => SInv
<1> SUFFICES ASSUME Init PROVE SInv
  OBVIOUS
<1> USE DEF Init
<1>1. MInv
  BY MInvInit
<1>2. <<>> \in Seq(Steps) /\ Len(<<>>) = 0
  BY EmptySeq
<1>3. HostTypes /\ SaveTypes
  BY <1>2 DEF HostTypes, SaveTypes, Requests
<1>4. PiTypes
  BY NoJobTyped DEF PiTypes, Modes
<1>5. Course /\ NextIsFresh
  BY <1>2 DEF Course, NextIsFresh
<1>6. StoreInv
  BY DEF StoreInv, StoreOf, GameCube, ManagerInit
<1>7. QED
  BY <1>1, <1>3, <1>4, <1>5, <1>6, SInvParts

LEMMA SInvStep == SInv /\ [Next]_vars => SInv'
<1> SUFFICES ASSUME SInv, [Next]_vars PROVE SInv'
  OBVIOUS
<1>1. CASE UNCHANGED vars
  <2> USE DEF vars, managerVars, hostVars, piVars, saveVars, budgets
  <2>1. MInv' /\ PiTypes' /\ SaveTypes'
    BY <1>1, MInvStep, SInvParts DEF PiTypes, SaveTypes
  <2>2. HostTypes' /\ Course' /\ NextIsFresh' /\ StoreInv'
    BY <1>1, Elsewhere
  <2>3. QED
    BY <2>1, <2>2, SInvNext
<1>2. CASE Next
  BY <1>2, RequestKeeps, OpenKeeps, PiAnswersKeeps, WaitKeeps, FlushKeeps, SelectKeeps,
     CallKeeps, HelperKeeps, OutsideKeeps, RestartKeeps
  DEF Next, HostStep
<1>3. QED
  BY <1>1, <1>2

\* SInv is an invariant of the switch (main.go: selectExport, piStorageAction):
\* a request goes through its steps in order, the profile it has opened is not
\* exported before Select, and app.gcSaves is the exported profile's store unless
\* a selection failed.
THEOREM SwitchInvariant == Spec => []SInv
<1> QED
  BY SInvInit, SInvStep, PTL DEF Spec

\* The state of the switch stays within its types.
THEOREM SwitchTypes == Spec => []TypeOK
<1>1. SInv => TypeOK
  BY DEF SInv
<1>2. QED
  BY <1>1, SwitchInvariant, PTL

\* With selectExport and piStorageAction as the manager's clients, restarts
\* included, no backend is closed or replaced under a connection.
THEOREM SwitchKeepsBackendOpen == Spec => []PinnedBackendOpen
<1>1. SInv => PinnedBackendOpen
  BY DEF SInv, MInv
<1>2. QED
  BY <1>1, SwitchInvariant, PTL

\* The session counter stays exact under the handlers and across restarts.
THEOREM SwitchCountsSessions == Spec => []ActiveWhileSessionsOpen
<1>1. SInv => ActiveWhileSessionsOpen
  BY DEF SInv, MInv
<1>2. QED
  BY <1>1, SwitchInvariant, PTL

\* Between requests, the save administration works on the exported profile's
\* store, whatever failed, timed out or was restarted before.
THEOREM AdministersExportedStore == Spec => []AdministeredStoreIsExported
<1>1. SInv => AdministeredStoreIsExported
  BY DEF SInv, StoreInv, StoreOf, AdministeredStoreIsExported, Serving, Broken
<1>2. QED
  BY <1>1, SwitchInvariant, PTL

-----------------------------------------------------------------------------
\* The memory card across switches.

\* The handler does not begin to open a profile, or Wii is exported.
Goes ==
    Opening' => \/ Opening /\ next' = next /\ Head(todo') # "open" /\ Head(todo) # "open"
                \/ Opening /\ next' = next /\ todo' = todo
                \/ current = Wii /\ Head(todo') = "open"

LEMMA SavesStill ==
    ASSUME SaveInv, UNCHANGED saveVars, current' = current, closed \subseteq closed', Goes
    PROVE  SaveInv'
<1> SUFFICES ASSUME Emulated PROVE SaveInv'
  BY DEF SaveInv, Emulated
<1> USE DEF saveVars
<1>1. Replayed' = acked'
  BY DEF SaveInv, Replayed
<1>2. OthersClean' /\ ExportedAgrees'
  BY DEF SaveInv, OthersClean, ExportedAgrees
<1>3. OpenedAgrees'
  BY DEF SaveInv, OpenedAgrees, Goes
<1>4. QED
  BY <1>1, <1>2, <1>3 DEF SaveInv

LEMMA HandlerGoes ==
    ASSUME HostTypes, Course, todo # <<>>, Head(todo) # "open", awaited' = None,
           repeats' = repeats,
           \/ Proceed \/ StepFails(Head(todo)) \/ \E result \in {"ok", "error"} : Finish(result)
    PROVE  Goes
<1>1. CASE Proceed
  <2>1. /\ todo' = Tail(todo) /\ request' = request /\ next' = next
    BY <1>1 DEF Proceed
  <2>2. /\ todo' # <<>> => Head(todo') # "open"
        /\ request = "gamecube" /\ todo' # <<>> /\ Head(todo') \in Prepare => Head(todo) \in Prepare
    BY <2>1, TailCourse
  <2>3. QED
    BY <2>1, <2>2 DEF Goes, Opening
<1>2. CASE StepFails(Head(todo)) \/ \E result \in {"ok", "error"} : Finish(result)
  <2>1. todo' # <<>> => Head(todo') \notin Prepare \cup {"open"}
    BY <1>2, UndoCourse
  <2>2. QED
    BY <2>1 DEF Goes, Opening
<1>3. QED
  BY <1>1, <1>2

\* The exported store is flushed.
LEMMA FlushExported ==
    ASSUME SaveInv, SaveTypes, Emulated, current \in GameCube \ closed, FlushStore(current)
    PROVE  /\ Replayed' = acked' /\ acked' = acked
           /\ \A p \in GameCube \ {current} : dirty'[p] = dirty[p]
           /\ dirty'[current] = 0 /\ log' = 0 /\ base'[current] = acked
<1>1. Replayed = acked /\ IF dirty[current] # 0 THEN dirty[current] = acked /\ log = acked
                          ELSE log = 0 /\ base[current] = acked
  BY DEF SaveInv, ExportedAgrees
<1>2. CASE dirty[current] = 0
  BY <1>1, <1>2 DEF FlushStore, saveVars, Replayed
<1>3. CASE dirty[current] # 0
  <2>1. /\ disk' = acked /\ log' = 0 /\ base' = [base EXCEPT ![current] = acked]
        /\ dirty' = [dirty EXCEPT ![current] = 0] /\ acked' = acked
    BY <1>1, <1>3 DEF FlushStore
  <2>2. QED
    BY <2>1 DEF SaveTypes, Replayed
<1>4. QED
  BY <1>2, <1>3

LEMMA SavesFlushed ==
    ASSUME SaveInv, SaveTypes, current \in GameCube \ closed, FlushStore(current),
           UNCHANGED <<current, closed>>, Goes
    PROVE  SaveInv'
<1> SUFFICES ASSUME Emulated PROVE SaveInv'
  BY DEF SaveInv, Emulated
<1>1. /\ Replayed' = acked' /\ acked' = acked
      /\ \A p \in GameCube \ {current} : dirty'[p] = dirty[p]
      /\ dirty'[current] = 0 /\ log' = 0 /\ base'[current] = acked
  BY FlushExported
<1>2. OthersClean' /\ ExportedAgrees'
  BY <1>1 DEF SaveInv, OthersClean, ExportedAgrees
<1>3. OpenedAgrees'
  BY DEF SaveInv, OpenedAgrees, Goes, GameCube
<1>4. QED
  BY <1>1, <1>2, <1>3 DEF SaveInv

\* app.gcSaves is flushed.
LEMMA StoreFlushed ==
    ASSUME SInv, SaveInv, gcSaves # None, gcSaves \notin closed, FlushStore(gcSaves),
           UNCHANGED managerVars, Goes
    PROVE  SaveInv'
<1>1. gcSaves = current /\ current \in GameCube \ closed /\ SaveTypes
  BY SInvParts DEF StoreInv, HostTypes
<1>2. QED
  BY <1>1, SavesFlushed DEF managerVars

LEMMA DropHasNothing ==
    ASSUME SInv, SaveInv, Emulated, todo # <<>>, Head(todo) \in Prepare, DropNext
    PROVE  UNCHANGED saveVars /\ current' = current /\ closed \subseteq closed'
<1>0. MInv /\ Course /\ NextIsFresh
  BY SInvParts
<1>1. CASE next \in GameCube
  <2>1. request = "gamecube"
    BY <1>0, <1>1, ManagerAssumption DEF Course, GameCube
  <2>2. next \in GameCube \ (closed \cup {current})
    BY <1>0, <2>1 DEF NextIsFresh
  <2>3. dirty[next] = 0
    BY <2>2 DEF SaveInv, OthersClean
  <2>4. QED
    BY <1>1, <2>3 DEF DropNext, CloseRejected, FlushStore
<1>2. CASE next \notin GameCube
  BY <1>2 DEF DropNext, managerVars
<1>3. QED
  BY <1>1, <1>2

\* The steps of the handlers.
LEMMA HandlerSaves ==
    ASSUME SInv, SaveInv, Emulated, MaxRepeats = 0,
           (\E r \in Requests \ {"none"} : Request(r)) \/ HostStep \/ PiTimesOut
    PROVE  SaveInv'
<1> USE DEF managerVars, budgets
<1>0. MInv /\ HostTypes /\ SaveTypes /\ Course /\ StoreInv /\ NextIsFresh
  BY SInvParts
<1>1. ASSUME NEW r \in Requests \ {"none"}, Request(r) PROVE SaveInv'
  <2>1. r = "gamecube" => current = Wii
    <3>1. repeats \in Nat /\ ~(repeats < MaxRepeats)
      BY <1>0 DEF Course
    <3>2. QED
      BY <1>1, <3>1 DEF Request
  <2>2. request' = r /\ todo' = Plan(r) /\ UNCHANGED <<managerVars, saveVars>>
    BY <1>1 DEF Request
  <2>3. Goes
    BY <2>1, <2>2, PlanCourse DEF Goes, Opening
  <2>4. QED
    BY <2>2, <2>3, SavesStill
<1>2. CASE OpenBackend
  <2>1. /\ todo # <<>> /\ Head(todo) = "open" /\ UNCHANGED managerVars
        /\ awaited' = None /\ repeats' = repeats
    BY <1>2 DEF OpenBackend, NextStep
  <2>2. request = "gamecube" /\ Opening /\ current = Wii
    BY <1>0, <2>1 DEF Course, Opening, SaveInv, OpenedAgrees
  <2>3. CASE Finish("error") /\ UNCHANGED saveVars
    <3>1. Goes
      BY <2>3, EmptySeq DEF Goes, Opening, Finish
    <3>2. QED
      BY <2>1, <2>3, <3>1, SavesStill
  <2>4. ASSUME NEW p \in Unopened, next' = p, OpenStore(p), todo' = Tail(todo),
               request' = request
        PROVE  SaveInv'
    <3>1. p \in GameCube \ (closed \cup {current})
      BY DEF Unopened
    <3>2. /\ disk' = acked /\ log' = 0 /\ base' = [base EXCEPT ![p] = acked]
          /\ dirty' = [dirty EXCEPT ![p] = 0] /\ acked' = acked
      BY <2>4 DEF OpenStore, SaveInv, Replayed
    <3>3. base'[p] = acked /\ dirty'[p] = 0 /\ \A q \in GameCube \ {p} : dirty'[q] = dirty[q]
      BY <1>0, <3>1, <3>2 DEF SaveTypes
    <3>4. Replayed' = acked' /\ OthersClean'
      BY <2>1, <3>2, <3>3 DEF Replayed, OthersClean, SaveInv
    <3>5. ExportedAgrees' /\ OpenedAgrees'
      BY <2>1, <2>2, <2>4, <3>2, <3>3 DEF ExportedAgrees, OpenedAgrees, GameCube
    <3>6. QED
      BY <3>4, <3>5 DEF SaveInv
  <2>5. QED
    BY <1>2, <2>3, <2>4 DEF OpenBackend
<1>3. ASSUME NEW ok \in BOOLEAN, awaited # None, awaited' = None, repeats' = repeats,
             Answered(ok) \/ (Head(todo) \in Undo /\ Finish("error")),
             IF ~ok /\ Head(todo) \in {"detach", "disconnect"} THEN DropNext
             ELSE UNCHANGED <<managerVars, saveVars>>
      PROVE  SaveInv'
  <2>1. todo # <<>> /\ Head(todo) # "open"
    BY <1>0, <1>3 DEF Course, PiActions, Undo
  <2>2. \/ Proceed \/ StepFails(Head(todo)) \/ \E result \in {"ok", "error"} : Finish(result)
    BY <1>3 DEF Answered
  <2>3. Goes
    BY <1>0, <1>3, <2>1, <2>2, HandlerGoes
  <2>4. UNCHANGED saveVars /\ current' = current /\ closed \subseteq closed'
    BY <1>3, <2>1, DropHasNothing DEF Prepare
  <2>5. QED
    BY <2>3, <2>4, SavesStill
<1>4. CASE PiAnswers
  <2>1. PICK ok \in BOOLEAN : ok = (helper[awaited].status = "ok")
    OBVIOUS
  <2>2. QED
    BY <1>3, <1>4, <2>1 DEF PiAnswers
<1>5. CASE PiTimesOut
  BY <1>3, <1>5 DEF PiTimesOut
<1>6. CASE WaitForDisconnect
  <2>1. todo # <<>> /\ Head(todo) = "wait" /\ awaited' = None /\ repeats' = repeats
    BY <1>6 DEF WaitForDisconnect, NextStep
  <2>2. Proceed \/ StepFails(Head(todo))
    BY <1>6, <2>1 DEF WaitForDisconnect
  <2>3. Goes
    BY <1>0, <2>1, <2>2, HandlerGoes
  <2>4. UNCHANGED saveVars /\ current' = current /\ closed \subseteq closed'
    BY <1>6, <2>1, DropHasNothing DEF WaitForDisconnect, Disconnect, Prepare
  <2>5. QED
    BY <2>3, <2>4, SavesStill
<1>7. CASE FlushSaves
  <2>1. /\ todo # <<>> /\ Head(todo) \in {"flush", "sync"} /\ awaited' = None
        /\ repeats' = repeats /\ UNCHANGED managerVars
    BY <1>7 DEF FlushSaves, NextStep
  <2>2. \/ Proceed \/ StepFails(Head(todo)) \/ \E result \in {"ok", "error"} : Finish(result)
    BY <1>7 DEF FlushSaves
  <2>3. Goes
    BY <1>0, <2>1, <2>2, HandlerGoes
  <2>4. CASE UNCHANGED saveVars
    BY <2>1, <2>3, <2>4, SavesStill
  <2>5. CASE gcSaves # None /\ gcSaves \notin closed /\ FlushStore(gcSaves)
    BY <2>1, <2>3, <2>5, StoreFlushed
  <2>6. QED
    BY <1>7, <2>4, <2>5 DEF FlushSaves
<1>8. CASE SelectExport
  <2>1. todo # <<>> /\ Head(todo) = "select" /\ awaited' = None /\ repeats' = repeats
    BY <1>8 DEF SelectExport, NextStep
  <2>2. Proceed \/ Finish("error")
    BY <1>8 DEF SelectExport
  <2>3. ~Opening'
    <3>1. CASE Proceed
      <4>1. todo' = Tail(todo) /\ request' = request /\ next' = next
        BY <3>1 DEF Proceed
      <4>2. QED
        BY <1>0, <2>1, <4>1, TailCourse DEF Opening
    <3>2. CASE Finish("error")
      BY <3>2 DEF Finish, Opening
    <3>3. QED
      BY <2>2, <3>1, <3>2
  <2>4. Goes /\ OpenedAgrees'
    BY <2>3 DEF Goes, OpenedAgrees
  <2>5. request = "gamecube" => current = Wii /\ next \in GameCube \ (closed \cup {current})
                                /\ log = 0 /\ base[next] = acked /\ dirty[next] = 0
    BY <1>0, <2>1 DEF SaveInv, OpenedAgrees, OthersClean, Opening, NextIsFresh, Prepare
  <2>6. request \in {"wii", "gamecube"} /\ (request = "wii" => next = Wii)
    BY <1>0, <2>1 DEF Course
  <2>7. CASE /\ SelectValid(next)
             /\ IF current \in GameCube \ {next} THEN FlushStore(current) ELSE UNCHANGED saveVars
    <3>1. current' = next /\ closed' = closed \cup ({current} \ {next, Wii})
          /\ current \notin closed
      BY <1>0, <2>7 DEF SelectValid, CanSelect, ClosedBy, StoreInv, Broken
    <3>2. CASE request = "gamecube"
      <4>1. UNCHANGED saveVars
        BY <2>5, <2>7, <3>2 DEF GameCube
      <4>2. Replayed' = acked'
        BY <4>1 DEF saveVars, SaveInv, Replayed
      <4>3. OthersClean' /\ ExportedAgrees'
        BY <2>5, <3>1, <3>2, <4>1 DEF saveVars, SaveInv, OthersClean, ExportedAgrees
      <4>4. QED
        BY <2>4, <4>2, <4>3 DEF SaveInv
    <3>3. CASE request = "wii" /\ current \in GameCube
      <4>1. next = Wii /\ FlushStore(current) /\ current \in GameCube \ closed
        BY <2>6, <2>7, <3>1, <3>3 DEF GameCube
      <4>2. /\ Replayed' = acked'
            /\ \A p \in GameCube \ {current} : dirty'[p] = dirty[p]
        BY <1>0, <4>1, FlushExported
      <4>3. OthersClean' /\ ExportedAgrees'
        BY <3>1, <4>1, <4>2 DEF SaveInv, OthersClean, ExportedAgrees, GameCube
      <4>4. QED
        BY <2>4, <4>2, <4>3 DEF SaveInv
    <3>4. CASE request = "wii" /\ current \notin GameCube
      <4>1. next = Wii /\ current = Wii /\ UNCHANGED saveVars
        BY <1>0, <2>6, <2>7, <3>4 DEF GameCube, MInv, ManagerTypeOK
      <4>2. QED
        BY <2>4, <3>1, <4>1, SavesStill
    <3>5. QED
      BY <2>6, <3>2, <3>3, <3>4
  <2>8. CASE closed' = closed \cup ({next} \ {Wii}) /\ current' = current /\ UNCHANGED saveVars
    BY <2>4, <2>8, SavesStill
  <2>9. CASE /\ current \notin {next, Wii} /\ current' = next /\ UNCHANGED saveVars
             /\ closed' = ClosedBy(next) \cup ({next} \ {Wii})
    <3>1. closed \subseteq closed' /\ current \in closed' /\ (next \in GameCube => next \in closed')
      BY <2>9 DEF ClosedBy, GameCube
    <3>2. Replayed' = acked'
      BY <2>9 DEF saveVars, SaveInv, Replayed
    <3>3. OthersClean' /\ ExportedAgrees'
      BY <2>9, <3>1 DEF saveVars, SaveInv, OthersClean, ExportedAgrees
    <3>4. QED
      BY <2>4, <3>2, <3>3 DEF SaveInv
  <2>10. QED
    BY <1>8, <2>7, <2>8, <2>9 DEF SelectExport
<1>9. QED
  BY <1>1, <1>2, <1>4, <1>5, <1>6, <1>7, <1>8 DEF HostStep

LEMMA SaveInvStep ==
    ASSUME MaxRepeats = 0, SInv, SaveInv, [Next]_vars
    PROVE  SaveInv'
<1> SUFFICES ASSUME Emulated PROVE SaveInv'
  BY DEF SaveInv, Emulated
<1>0. MInv /\ HostTypes /\ PiTypes /\ SaveTypes /\ Course /\ StoreInv
  BY SInvParts
<1>1. CASE (\E r \in Requests \ {"none"} : Request(r)) \/ HostStep \/ PiTimesOut
  BY <1>1, HandlerSaves
<1>2. ASSUME UNCHANGED <<saveVars, current, closed, request, todo, next>> PROVE SaveInv'
  <2>1. Goes
    BY <1>2 DEF Goes, Opening
  <2>2. QED
    BY <1>2, <2>1, SavesStill
<1>3. ASSUME NEW j \in Slot, CallPi(j) \/ HelperRuns(j) \/ HelperReaped(j) \/ LocalAction(j)
      PROVE  SaveInv'
  <2>1. UNCHANGED <<saveVars, request, todo, next>>
    BY <1>3 DEF CallPi, HelperRuns, HelperStep, HelperFails, HelperExits, HelperReaped,
       LocalAction, hostVars
  <2>2. UNCHANGED <<current, closed>>
    BY <1>3 DEF CallPi, HelperRuns, HelperStep, HelperFails, HelperExits, HelperReaped,
       LocalAction, Effect, BeginSession, managerVars
  <2>3. QED
    BY <1>2, <2>1, <2>2
<1>4. CASE (\E s \in Session : SessionEnds(s)) \/ ConnectionLost \/ PiRestart \/ UNCHANGED vars
  BY <1>2, <1>4 DEF SessionEnds, Release, ConnectionLost, PiRestart, vars, hostVars, managerVars
<1>5. CASE ConsoleWrite
  <2>1. PICK p \in GameCube \ closed :
           /\ p = pinned[nbd] /\ nbd # None /\ acked' = acked + 1 /\ log' = acked + 1
           /\ dirty' = [dirty EXCEPT ![p] = acked + 1] /\ UNCHANGED <<managerVars, hostVars>>
    BY <1>5 DEF ConsoleWrite
  <2>2. p = current
    BY <1>0, <2>1, ManagerAssumption
    DEF PiTypes, MInv, PinnedBackendOpen, OpenSessions, GameCube
  <2>3. PICK v \in Nat \ {0} : v = acked + 1
    BY <1>0 DEF SaveTypes
  <2>4. /\ dirty'[p] = v /\ \A q \in GameCube \ {p} : dirty'[q] = dirty[q]
        /\ acked' = v /\ log' = v
    BY <1>0, <2>1, <2>3 DEF SaveTypes
  <2>5. Replayed' = acked' /\ OthersClean' /\ ExportedAgrees'
    BY <2>1, <2>2, <2>4 DEF Replayed, OthersClean, ExportedAgrees, SaveInv, managerVars
  <2>6. OpenedAgrees'
    BY <2>1, <2>2 DEF OpenedAgrees, Opening, SaveInv, managerVars, hostVars, GameCube
  <2>7. QED
    BY <2>5, <2>6 DEF SaveInv
<1>6. CASE BackgroundFlush
  <2>1. Goes
    BY <1>6 DEF BackgroundFlush, hostVars, Goes, Opening
  <2>2. QED
    BY <1>6, <2>1, StoreFlushed DEF BackgroundFlush
<1>7. CASE HostRestart
  <2>1. /\ current' = Wii /\ closed' = closed \cup ({current, next} \cap GameCube)
        /\ todo' = <<>> /\ UNCHANGED saveVars
    BY <1>7 DEF HostRestart
  <2>2. Replayed' = acked'
    BY <2>1 DEF saveVars, SaveInv, Replayed
  <2>3. OthersClean'
    BY <2>1 DEF saveVars, SaveInv, OthersClean
  <2>4. ExportedAgrees' /\ OpenedAgrees'
    BY <2>1 DEF ExportedAgrees, OpenedAgrees, Opening, GameCube
  <2>5. QED
    BY <2>2, <2>3, <2>4 DEF SaveInv
<1>8. QED
  BY <1>1, <1>3, <1>4, <1>5, <1>6, <1>7 DEF Next

LEMMA SaveInvInit == Init => SaveInv
<1> SUFFICES ASSUME Init PROVE SaveInv
  OBVIOUS
<1>1. current = Wii /\ request = "none"
  BY DEF Init, ManagerInit
<1>2. OthersClean
  BY DEF Init, OthersClean
<1>3. QED
  BY <1>1, <1>2
  DEF Init, SaveInv, Replayed, ExportedAgrees, OpenedAgrees, Opening, GameCube

\* As long as GameCube is not activated while it is exported (MaxRepeats = 0; see
\* the run repeated_activation), the console reads back its last acknowledged
\* write: with any number of helpers side by side, late answers, failed steps and
\* flushes, and restarts of the daemon and of the Pi.
THEOREM WritesAreReadBack ==
    ASSUME MaxRepeats = 0
    PROVE  Spec => []AckedWriteIsRead
<1>1. SInv /\ SaveInv => AckedWriteIsRead
  <2> SUFFICES ASSUME SInv, SaveInv, nbd # None, Emulated, NEW p \in GameCube, pinned[nbd] = p
               PROVE  View(p) = acked
    BY DEF AckedWriteIsRead
  <2>1. MInv /\ PiTypes
    BY SInvParts
  <2>2. p = current /\ p \notin closed
    BY <2>1, ManagerAssumption DEF PiTypes, MInv, PinnedBackendOpen, OpenSessions, GameCube
  <2>3. QED
    BY <2>2 DEF SaveInv, ExportedAgrees, View
<1>2. SInv /\ SaveInv /\ [Next]_vars => SaveInv'
  BY SaveInvStep
<1>3. QED
  BY <1>1, <1>2, SaveInvInit, SInvInit, SInvStep, PTL DEF Spec
-----------------------------------------------------------------------------
(***************************************************************************)
(* The attached console, with one helper process at a time.                *)
(***************************************************************************)
OneHelper == \A i, j \in Slot : i = j

\* What a script has still to do, and how many commands that is.
Rests(action) ==
    CASE action = "detach" -> {<<"gadget.stop", "rm.usb">>, <<"rm.usb">>, <<>>}
      [] action = "disconnect" -> {<<"gadget.stop", "rm.usb", "nbd.stop", "rm.nbd">>,
                                   <<"rm.usb", "nbd.stop", "rm.nbd">>,
                                   <<"nbd.stop", "rm.nbd">>, <<"rm.nbd">>, <<>>}
      [] action = "connect" -> {<<"connect.check", "nbd.start", "nbd.mode">>,
                                <<"nbd.start", "nbd.mode">>, <<"nbd.mode">>, <<>>}
      [] action = "attach" -> {<<"attach.check", "gadget.start", "touch.usb">>,
                               <<"gadget.start", "touch.usb">>, <<"touch.usb">>, <<>>}

JobOK(job) ==
    IF job.status = "free" THEN job = NoJob
    ELSE /\ job.action \in PiActions /\ job.rest \in Rests(job.action)
         /\ job.mode # "none" /\ (job.status = "ok" => job.rest = <<>>)

Busy(j, action) == helper[j].status # "free" /\ helper[j].action = action
Going(j, action) == helper[j].status \in {"run", "ok"} /\ helper[j].action = action
Left(j) == Len(helper[j].rest)

\* Which step can come after which.
After(step) ==
    CASE step = "open" -> {"detach"}
      [] step = "detach" -> {"sync", "disconnect"}
      [] step = "sync" -> {"disconnect"}
      [] step = "disconnect" -> {"wait"}
      [] step = "wait" -> {"flush", "select", "connect"}
      [] step = "flush" -> {"select"}
      [] step = "select" -> {"connect"}
      [] step = "connect" -> {"attach"}
      [] step = "undo.detach" -> {"undo.disconnect"}
      [] OTHER -> {}
Sequel == \A i \in 1 .. Len(todo) - 1 : todo[i + 1] \in After(todo[i])
At(S) == todo # <<>> /\ Head(todo) \in S

\* The gadget is bound, and no flag file says so: a later disconnect and connect
\* would not know.  Three commands have to fail before that can do harm: the one
\* that sets the flag, the detach, and the detach within the disconnect.
Unmarked == usb /\ ~usbFlag

HelperFits(j) ==
    /\ JobOK(helper[j])
    /\ awaited = j => /\ helper[j].status # "free"
                      /\ helper[j].action = ActionOf(Head(todo))
                      /\ helper[j].mode = ModeOf(current)
    /\ Going(j, "detach") /\ Left(j) <= 1 => ~usb
    /\ helper[j].action = "detach" /\ helper[j].status = "failed" =>
          (usb => faults >= 1) /\ (Unmarked => faults >= 2)
    /\ Going(j, "disconnect") /\ Left(j) = 0 => ~nbdFlag
    /\ Busy(j, "disconnect") /\ Left(j) = 3 => ~usb
    /\ Busy(j, "disconnect") /\ Unmarked => faults >= 2 /\ (Left(j) <= 2 => faults >= 3)
    /\ Busy(j, "disconnect") /\ usb =>
          /\ faults >= 1 /\ (Left(j) <= 2 => faults >= 2)
          /\ Left(j) <= 1 /\ nbd # None => faults >= 3
    /\ Going(j, "connect") /\ Left(j) \in {1, 2} => mode = "none" /\ (usb => faults >= 3)
    /\ Going(j, "connect") /\ Left(j) = 1 => state \in Serving
    /\ Going(j, "connect") /\ Left(j) = 0 => mode = helper[j].mode
    /\ Going(j, "attach") /\ Left(j) <= 2 => nbdFlag
    /\ Going(j, "attach") /\ nbd # None => mode \in {"none", ModeOf(current)}

RequestFits ==
    /\ At({"disconnect", "sync", "wait", "flush", "select"}) =>
          ~usb /\ (awaited = None => \A j \in Slot : helper[j] = NoJob)
    /\ At({"wait", "flush", "select"}) => ~nbdFlag
    /\ At({"undo.disconnect"}) /\ awaited = None =>
          /\ (usb => faults >= 1) /\ (Unmarked => faults >= 2)
          /\ \A j \in Slot : helper[j] = NoJob
    /\ At({"attach"}) =>
          /\ nbd # None => mode \in {"none", ModeOf(current)}
          /\ \A j \in Slot : Going(j, "connect") => Left(j) = 0 \/ (Left(j) = 3 /\ nbdFlag)

GadgetFits ==
    /\ nbdFlag <=> mode # "none"
    /\ nbd # None => pinned[nbd] # None
    /\ usb \/ nbdFlag => state \in Serving
    /\ Unmarked => faults >= 1 \/ \E j \in Slot : Going(j, "attach") /\ Left(j) = 1
    /\ Unmarked /\ ~nbdFlag => faults >= 3
    /\ usb /\ nbd # None => mode = ModeOf(current) \/ faults >= 3

AInv ==
    /\ faults \in Nat /\ local \in Nat /\ Sequel /\ GadgetFits
    /\ RequestFits /\ \A j \in Slot : HelperFits(j)

\* Where a script is, from what is left of it.
LEMMA ScriptGoes ==
    ASSUME NEW a \in PiActions, NEW r \in Rests(a)
    PROVE  /\ Len(r) \in 0 .. 4 /\ (Len(r) = 0 <=> r = <<>>)
           /\ r # <<>> => Tail(r) \in Rests(a) /\ Len(Tail(r)) = Len(r) - 1
           /\ a = "detach" => \/ r = <<>> \/ (Len(r) = 1 /\ Head(r) = "rm.usb")
                              \/ Len(r) = 2 /\ Head(r) = "gadget.stop"
           /\ a = "disconnect" => \/ r = <<>> \/ (Len(r) = 1 /\ Head(r) = "rm.nbd")
                                  \/ Len(r) = 2 /\ Head(r) = "nbd.stop"
                                  \/ Len(r) = 3 /\ Head(r) = "rm.usb"
                                  \/ Len(r) = 4 /\ Head(r) = "gadget.stop"
           /\ a = "connect" => \/ r = <<>> \/ (Len(r) = 1 /\ Head(r) = "nbd.mode")
                               \/ Len(r) = 2 /\ Head(r) = "nbd.start"
                               \/ Len(r) = 3 /\ Head(r) = "connect.check"
           /\ a = "attach" => \/ r = <<>> \/ (Len(r) = 1 /\ Head(r) = "touch.usb")
                              \/ Len(r) = 2 /\ Head(r) = "gadget.start"
                              \/ Len(r) = 3 /\ Head(r) = "attach.check"
<1>0. CASE r = <<>>
  <2>1. Len(r) = 0
    BY <1>0, EmptySeq
  <2>2. Len(r) \in 0 .. 4 /\ (Len(r) = 0 <=> r = <<>>)
    BY <1>0, <2>1
  <2>3. QED
    BY <1>0, <2>2
<1>1. CASE a = "detach"
  <2>1. CASE r = <<"gadget.stop", "rm.usb">>
    BY <1>1, <2>1 DEF Rests
  <2>2. CASE r = <<"rm.usb">>
    BY <1>1, <2>2 DEF Rests
  <2>3. CASE r = <<>>
    BY <1>0, <2>3
  <2>4. QED
    BY <1>1, <2>1, <2>2, <2>3 DEF Rests
<1>2. CASE a = "disconnect"
  <2>1. CASE r = <<"gadget.stop", "rm.usb", "nbd.stop", "rm.nbd">>
    BY <1>2, <2>1 DEF Rests
  <2>2. CASE r = <<"rm.usb", "nbd.stop", "rm.nbd">>
    BY <1>2, <2>2 DEF Rests
  <2>3. CASE r = <<"nbd.stop", "rm.nbd">>
    BY <1>2, <2>3 DEF Rests
  <2>4. CASE r = <<"rm.nbd">>
    BY <1>2, <2>4 DEF Rests
  <2>5. CASE r = <<>>
    BY <1>0, <2>5
  <2>6. QED
    BY <1>2, <2>1, <2>2, <2>3, <2>4, <2>5 DEF Rests
<1>3. CASE a = "connect"
  <2>1. CASE r = <<"connect.check", "nbd.start", "nbd.mode">>
    BY <1>3, <2>1 DEF Rests
  <2>2. CASE r = <<"nbd.start", "nbd.mode">>
    BY <1>3, <2>2 DEF Rests
  <2>3. CASE r = <<"nbd.mode">>
    BY <1>3, <2>3 DEF Rests
  <2>4. CASE r = <<>>
    BY <1>0, <2>4
  <2>5. QED
    BY <1>3, <2>1, <2>2, <2>3, <2>4 DEF Rests
<1>4. CASE a = "attach"
  <2>1. CASE r = <<"attach.check", "gadget.start", "touch.usb">>
    BY <1>4, <2>1 DEF Rests
  <2>2. CASE r = <<"gadget.start", "touch.usb">>
    BY <1>4, <2>2 DEF Rests
  <2>3. CASE r = <<"touch.usb">>
    BY <1>4, <2>3 DEF Rests
  <2>4. CASE r = <<>>
    BY <1>0, <2>4
  <2>5. QED
    BY <1>4, <2>1, <2>2, <2>3, <2>4 DEF Rests
<1>5. QED
  BY <1>1, <1>2, <1>3, <1>4 DEF PiActions

LEMMA ScriptStarts ==
    ASSUME NEW a \in PiActions
    PROVE  /\ Script(a) \in Rests(a)
           /\ Len(Script(a)) = CASE a = "detach" -> 2 [] a = "disconnect" -> 4 [] OTHER -> 3
           /\ {<<"nbd.stop", "rm.nbd">>, <<"rm.nbd">>} \subseteq Rests("disconnect")
<1>1. CASE a = "detach"
  BY <1>1 DEF Rests, Script
<1>2. CASE a = "disconnect"
  BY <1>2 DEF Rests, Script
<1>3. CASE a = "connect"
  BY <1>3 DEF Rests, Script
<1>4. CASE a = "attach"
  BY <1>4 DEF Rests, Script
<1>5. QED
  BY <1>1, <1>2, <1>3, <1>4 DEF PiActions, Rests


\* A process goes on by one command.
LEMMA HelperStepFits ==
    ASSUME OneHelper, SInv, AInv, NEW j \in Slot, HelperStep(j)
    PROVE  AInv'
<1>1. /\ \A i \in Slot : i = j
      /\ UNCHANGED <<request, todo, next, awaited, faults, local>>
      /\ faults \in Nat /\ local \in Nat
  BY DEF OneHelper, HelperStep, hostVars, budgets, AInv
<1>2. MInv /\ PiTypes
  BY SInvParts
<1>t. usb \in BOOLEAN /\ usbFlag \in BOOLEAN /\ nbdFlag \in BOOLEAN
  BY <1>2 DEF PiTypes
<1>3. /\ helper[j].status = "run" /\ helper[j].rest # <<>> /\ helper[j].action \in PiActions
      /\ helper[j].rest \in Rests(helper[j].action) /\ helper[j].mode # "none"
  BY DEF AInv, HelperFits, JobOK, HelperStep
<1>4. /\ helper'[j].status = "run" /\ helper'[j].action = helper[j].action
      /\ helper'[j].mode = helper[j].mode /\ helper'[j].rest = Tail(helper[j].rest)
  BY <1>2, <1>3 DEF HelperStep, PiTypes, Process
<1>5. /\ Possible(Head(helper[j].rest)) /\ Effect(Head(helper[j].rest), helper[j].mode)
  BY DEF HelperStep
<1>6. /\ Left(j)' = Left(j) - 1 /\ Left(j) \in 1 .. 4 /\ helper'[j].rest \in Rests(helper[j].action)
  BY <1>3, <1>4, ScriptGoes DEF Left
<1>7. Sequel'
  BY <1>1 DEF AInv, Sequel
<1>8. JobOK(helper'[j]) /\ helper'[j] # NoJob /\ helper[j] # NoJob
  BY <1>3, <1>4, <1>6 DEF JobOK, NoJob
<1>9. GadgetFits /\ RequestFits /\ HelperFits(j)
  BY DEF AInv
<1>10. \A a \in PiActions : /\ Going(j, a) <=> helper[j].action = a
                            /\ Busy(j, a) <=> helper[j].action = a
                            /\ Going(j, a)' <=> helper[j].action = a
                            /\ Busy(j, a)' <=> helper[j].action = a
  BY <1>3, <1>4 DEF Going, Busy
<1>11. awaited # None => awaited = j /\ todo # <<>> /\ Head(todo) \in PiActions \cup Undo
  BY <1>1, <1>2, SInvParts DEF Course, HostTypes
<1>12. /\ At({"disconnect", "sync", "wait", "flush", "select"}) =>
             ~usb /\ helper[j].action = "disconnect" /\ Head(todo) = "disconnect"
       /\ ~At({"wait", "flush", "select"})
       /\ At({"undo.disconnect"}) => helper[j].action \in {"detach", "disconnect"}
       /\ At({"attach"}) /\ helper[j].action = "connect" => Left(j) = 3 /\ nbdFlag
  <2>1. awaited = j => helper[j].action = ActionOf(Head(todo))
    BY <1>9 DEF HelperFits
  <2>2. At({"disconnect", "sync", "wait", "flush", "select"}) =>
            ~usb /\ helper[j].action = "disconnect" /\ Head(todo) = "disconnect"
    BY <1>8, <1>9, <1>11, <2>1 DEF RequestFits, At, ActionOf, PiActions, Undo
  <2>3. At({"undo.disconnect"}) => helper[j].action \in {"detach", "disconnect"}
    BY <1>1, <1>8, <1>9, <1>10, <1>11, <2>1 DEF RequestFits, At, ActionOf, PiActions, Undo, Busy
  <2>4. At({"attach"}) /\ helper[j].action = "connect" => Left(j) = 3 /\ nbdFlag
    BY <1>6, <1>9, <1>10 DEF RequestFits, PiActions
  <2>5. QED
    BY <2>2, <2>3, <2>4 DEF At
<1>13. \A T : At(T)' <=> At(T)
  BY <1>1 DEF At
<1>a. CASE helper[j].action = "detach" /\ Left(j) = 2 /\ Head(helper[j].rest) = "gadget.stop"
  <2>1. /\ usb' = FALSE /\ usbFlag' = usbFlag /\ nbdFlag' = nbdFlag /\ mode' = mode
        /\ nbd' = nbd /\ UNCHANGED <<current, state, pinned>>
    BY <1>5, <1>a DEF Effect, managerVars
  <2>3. GadgetFits'
    BY <1>1, <1>t, <1>6, <1>8, <1>10, <1>a, <2>1, <1>9 DEF GadgetFits, Unmarked, ModeOf, PiActions
  <2>4. RequestFits'
    BY <1>1, <1>t, <1>6, <1>8, <1>10, <1>a, <2>1, <1>9, <1>12, <1>13 DEF RequestFits, Unmarked, ModeOf, PiActions
  <2>5. HelperFits(j)'
    BY <1>1, <1>t, <1>6, <1>8, <1>10, <1>a, <2>1, <1>9, <1>3, <1>4 DEF HelperFits, Unmarked, ModeOf, PiActions
  <2>6. QED
    BY <1>1, <1>7, <2>3, <2>4, <2>5 DEF AInv
<1>b. CASE helper[j].action = "detach" /\ Left(j) = 1 /\ Head(helper[j].rest) = "rm.usb"
  <2>1. /\ usb' = usb /\ usbFlag' = FALSE /\ nbdFlag' = nbdFlag /\ mode' = mode
        /\ nbd' = nbd /\ UNCHANGED <<current, state, pinned>>
    BY <1>5, <1>b DEF Effect, managerVars
  <2>k. ~usb
    BY <1>t, <1>9, <1>10, <1>b DEF HelperFits, GadgetFits, Unmarked, PiActions
  <2>3. GadgetFits'
    BY <1>1, <1>t, <1>6, <1>8, <1>10, <1>b, <2>1, <2>k, <1>9 DEF GadgetFits, Unmarked, ModeOf, PiActions
  <2>4. RequestFits'
    BY <1>1, <1>t, <1>6, <1>8, <1>10, <1>b, <2>1, <2>k, <1>9, <1>12, <1>13 DEF RequestFits, Unmarked, ModeOf, PiActions
  <2>5. HelperFits(j)'
    BY <1>1, <1>t, <1>6, <1>8, <1>10, <1>b, <2>1, <2>k, <1>9, <1>3, <1>4 DEF HelperFits, Unmarked, ModeOf, PiActions
  <2>6. QED
    BY <1>1, <1>7, <2>3, <2>4, <2>5 DEF AInv
<1>c. CASE helper[j].action = "disconnect" /\ Left(j) = 4 /\ Head(helper[j].rest) = "gadget.stop"
  <2>1. /\ usb' = FALSE /\ usbFlag' = usbFlag /\ nbdFlag' = nbdFlag /\ mode' = mode
        /\ nbd' = nbd /\ UNCHANGED <<current, state, pinned>>
    BY <1>5, <1>c DEF Effect, managerVars
  <2>k. Unmarked => faults >= 2
    BY <1>t, <1>9, <1>10, <1>c DEF HelperFits, GadgetFits, Unmarked, PiActions
  <2>3. GadgetFits'
    BY <1>1, <1>t, <1>6, <1>8, <1>10, <1>c, <2>1, <2>k, <1>9 DEF GadgetFits, Unmarked, ModeOf, PiActions
  <2>4. RequestFits'
    BY <1>1, <1>t, <1>6, <1>8, <1>10, <1>c, <2>1, <2>k, <1>9, <1>12, <1>13 DEF RequestFits, Unmarked, ModeOf, PiActions
  <2>5. HelperFits(j)'
    BY <1>1, <1>t, <1>6, <1>8, <1>10, <1>c, <2>1, <2>k, <1>9, <1>3, <1>4 DEF HelperFits, Unmarked, ModeOf, PiActions
  <2>6. QED
    BY <1>1, <1>7, <2>3, <2>4, <2>5 DEF AInv
<1>d. CASE helper[j].action = "disconnect" /\ Left(j) = 3 /\ Head(helper[j].rest) = "rm.usb"
  <2>1. /\ usb' = usb /\ usbFlag' = FALSE /\ nbdFlag' = nbdFlag /\ mode' = mode
        /\ nbd' = nbd /\ UNCHANGED <<current, state, pinned>>
    BY <1>5, <1>d DEF Effect, managerVars
  <2>k. ~usb
    BY <1>t, <1>9, <1>10, <1>d DEF HelperFits, GadgetFits, Unmarked, PiActions
  <2>3. GadgetFits'
    BY <1>1, <1>t, <1>6, <1>8, <1>10, <1>d, <2>1, <2>k, <1>9 DEF GadgetFits, Unmarked, ModeOf, PiActions
  <2>4. RequestFits'
    BY <1>1, <1>t, <1>6, <1>8, <1>10, <1>d, <2>1, <2>k, <1>9, <1>12, <1>13 DEF RequestFits, Unmarked, ModeOf, PiActions
  <2>5. HelperFits(j)'
    BY <1>1, <1>t, <1>6, <1>8, <1>10, <1>d, <2>1, <2>k, <1>9, <1>3, <1>4 DEF HelperFits, Unmarked, ModeOf, PiActions
  <2>6. QED
    BY <1>1, <1>7, <2>3, <2>4, <2>5 DEF AInv
<1>e. CASE helper[j].action = "disconnect" /\ Left(j) = 2 /\ Head(helper[j].rest) = "nbd.stop"
  <2>1. /\ usb' = usb /\ usbFlag' = usbFlag /\ nbdFlag' = nbdFlag /\ mode' = mode
        /\ nbd' = None /\ UNCHANGED <<current, state, pinned>>
    BY <1>5, <1>e DEF Effect, managerVars
  <2>k. Unmarked => faults >= 3
    BY <1>t, <1>9, <1>10, <1>e DEF HelperFits, GadgetFits, Unmarked, PiActions
  <2>3. GadgetFits'
    BY <1>1, <1>t, <1>6, <1>8, <1>10, <1>e, <2>1, <2>k, <1>9 DEF GadgetFits, Unmarked, ModeOf, PiActions
  <2>4. RequestFits'
    BY <1>1, <1>t, <1>6, <1>8, <1>10, <1>e, <2>1, <2>k, <1>9, <1>12, <1>13 DEF RequestFits, Unmarked, ModeOf, PiActions
  <2>5. HelperFits(j)'
    BY <1>1, <1>t, <1>6, <1>8, <1>10, <1>e, <2>1, <2>k, <1>9, <1>3, <1>4 DEF HelperFits, Unmarked, ModeOf, PiActions
  <2>6. QED
    BY <1>1, <1>7, <2>3, <2>4, <2>5 DEF AInv
<1>f. CASE helper[j].action = "disconnect" /\ Left(j) = 1 /\ Head(helper[j].rest) = "rm.nbd"
  <2>1. /\ usb' = usb /\ usbFlag' = usbFlag /\ nbdFlag' = FALSE /\ mode' = "none"
        /\ nbd' = nbd /\ UNCHANGED <<current, state, pinned>>
    BY <1>5, <1>f DEF Effect, managerVars
  <2>k. (usb /\ nbd # None => faults >= 3) /\ (Unmarked => faults >= 3)
    BY <1>t, <1>9, <1>10, <1>f DEF HelperFits, GadgetFits, Unmarked, PiActions
  <2>3. GadgetFits'
    BY <1>1, <1>t, <1>6, <1>8, <1>10, <1>f, <2>1, <2>k, <1>9 DEF GadgetFits, Unmarked, ModeOf, PiActions
  <2>4. RequestFits'
    BY <1>1, <1>t, <1>6, <1>8, <1>10, <1>f, <2>1, <2>k, <1>9, <1>12, <1>13 DEF RequestFits, Unmarked, ModeOf, PiActions
  <2>5. HelperFits(j)'
    BY <1>1, <1>t, <1>6, <1>8, <1>10, <1>f, <2>1, <2>k, <1>9, <1>3, <1>4 DEF HelperFits, Unmarked, ModeOf, PiActions
  <2>6. QED
    BY <1>1, <1>7, <2>3, <2>4, <2>5 DEF AInv
<1>g. CASE helper[j].action = "connect" /\ Left(j) = 3 /\ Head(helper[j].rest) = "connect.check"
  <2>1. /\ usb' = usb /\ usbFlag' = usbFlag /\ nbdFlag' = nbdFlag /\ mode' = mode
        /\ nbd' = nbd /\ UNCHANGED <<current, state, pinned>>
    BY <1>5, <1>g DEF Effect, managerVars
  <2>2. ~usbFlag /\ ~nbdFlag /\ nbd = None
    BY <1>5, <1>g DEF Possible
  <2>k. mode = "none" /\ (usb => faults >= 3)
    BY <1>t, <1>9, <1>10, <1>g, <2>2 DEF HelperFits, GadgetFits, Unmarked, PiActions
  <2>3. GadgetFits'
    BY <1>1, <1>t, <1>6, <1>8, <1>10, <1>g, <2>1, <2>2, <2>k, <1>9 DEF GadgetFits, Unmarked, ModeOf, PiActions
  <2>4. RequestFits'
    BY <1>1, <1>t, <1>6, <1>8, <1>10, <1>g, <2>1, <2>2, <2>k, <1>9, <1>12, <1>13 DEF RequestFits, Unmarked, ModeOf, PiActions
  <2>5. HelperFits(j)'
    BY <1>1, <1>t, <1>6, <1>8, <1>10, <1>g, <2>1, <2>2, <2>k, <1>9, <1>3, <1>4 DEF HelperFits, Unmarked, ModeOf, PiActions
  <2>6. QED
    BY <1>1, <1>7, <2>3, <2>4, <2>5 DEF AInv
<1>h. CASE helper[j].action = "connect" /\ Left(j) = 2 /\ Head(helper[j].rest) = "nbd.start"
  <2>0. PICK s \in Session : BeginSession(s) /\ nbd' = s
    BY <1>5, <1>h DEF Effect
  <2>1. /\ usb' = usb /\ usbFlag' = usbFlag /\ nbdFlag' = nbdFlag /\ mode' = mode
        /\ current' = current /\ state' \in Serving /\ pinned'[nbd'] # None
    BY <1>2, <1>5, <1>h, <2>0, ManagerAssumption
    DEF Effect, BeginSession, MInv, ManagerTypeOK, Serving
  <2>2. nbd = None /\ state \in Serving
    BY <1>5, <1>h DEF Possible
  <2>k. mode = "none" /\ (usb => faults >= 3)
    BY <1>t, <1>9, <1>10, <1>h, <2>2 DEF HelperFits, GadgetFits, Unmarked, PiActions
  <2>3. GadgetFits'
    BY <1>1, <1>t, <1>6, <1>8, <1>10, <1>h, <2>1, <2>2, <2>k, <1>9 DEF GadgetFits, Unmarked, ModeOf, PiActions
  <2>n. ~At({"disconnect", "sync", "wait", "flush", "select"}) /\ ~At({"wait", "flush", "select"})
    BY <1>12, <1>h
  <2>o. ~At({"undo.disconnect"})
    BY <1>12, <1>h
  <2>p. ~At({"attach"})
    BY <1>12, <1>h
  <2>4. RequestFits'
    BY <1>1, <1>10, <1>13, <1>h, <2>1, <2>k, <2>n, <2>o, <2>p DEF RequestFits, PiActions, ModeOf
  <2>5. HelperFits(j)'
    BY <1>1, <1>t, <1>6, <1>8, <1>10, <1>h, <2>1, <2>2, <2>k, <1>9, <1>3, <1>4 DEF HelperFits, Unmarked, ModeOf, PiActions
  <2>6. QED
    BY <1>1, <1>7, <2>3, <2>4, <2>5 DEF AInv
<1>i. CASE helper[j].action = "connect" /\ Left(j) = 1 /\ Head(helper[j].rest) = "nbd.mode"
  <2>1. /\ usb' = usb /\ usbFlag' = usbFlag /\ nbdFlag' = TRUE /\ mode' = helper[j].mode
        /\ nbd' = nbd /\ UNCHANGED <<current, state, pinned>>
    BY <1>5, <1>i DEF Effect, managerVars
  <2>k. mode = "none" /\ (usb => faults >= 3) /\ state \in Serving
    BY <1>t, <1>9, <1>10, <1>i DEF HelperFits, GadgetFits, Unmarked, PiActions
  <2>3. GadgetFits'
    BY <1>1, <1>t, <1>6, <1>8, <1>10, <1>i, <2>1, <2>k, <1>9, <1>3 DEF GadgetFits, Unmarked, ModeOf, PiActions
  <2>n. ~At({"disconnect", "sync", "wait", "flush", "select"}) /\ ~At({"wait", "flush", "select"})
    BY <1>12, <1>i
  <2>o. ~At({"undo.disconnect"})
    BY <1>12, <1>i
  <2>p. ~At({"attach"})
    BY <1>12, <1>i
  <2>4. RequestFits'
    BY <1>1, <1>10, <1>13, <1>i, <2>1, <2>k, <2>n, <2>o, <2>p DEF RequestFits, PiActions, ModeOf
  <2>5. HelperFits(j)'
    BY <1>1, <1>t, <1>6, <1>8, <1>10, <1>i, <2>1, <2>k, <1>9, <1>3, <1>4 DEF HelperFits, Unmarked, ModeOf, PiActions
  <2>6. QED
    BY <1>1, <1>7, <2>3, <2>4, <2>5 DEF AInv
<1>j. CASE helper[j].action = "attach" /\ Left(j) = 3 /\ Head(helper[j].rest) = "attach.check"
  <2>1. /\ usb' = usb /\ usbFlag' = usbFlag /\ nbdFlag' = nbdFlag /\ mode' = mode
        /\ nbd' = nbd /\ UNCHANGED <<current, state, pinned>>
    BY <1>5, <1>j DEF Effect, managerVars
  <2>2. nbdFlag
    BY <1>5, <1>j DEF Possible
  <2>k. nbd # None => mode \in {"none", ModeOf(current)}
    BY <1>t, <1>9, <1>10, <1>j, <2>2 DEF HelperFits, GadgetFits, Unmarked, PiActions
  <2>3. GadgetFits'
    BY <1>1, <1>t, <1>6, <1>8, <1>10, <1>j, <2>1, <2>2, <2>k, <1>9 DEF GadgetFits, Unmarked, ModeOf, PiActions
  <2>4. RequestFits'
    BY <1>1, <1>t, <1>6, <1>8, <1>10, <1>j, <2>1, <2>2, <2>k, <1>9, <1>12, <1>13 DEF RequestFits, Unmarked, ModeOf, PiActions
  <2>5. HelperFits(j)'
    BY <1>1, <1>t, <1>6, <1>8, <1>10, <1>j, <2>1, <2>2, <2>k, <1>9, <1>3, <1>4 DEF HelperFits, Unmarked, ModeOf, PiActions
  <2>6. QED
    BY <1>1, <1>7, <2>3, <2>4, <2>5 DEF AInv
<1>k. CASE helper[j].action = "attach" /\ Left(j) = 2 /\ Head(helper[j].rest) = "gadget.start"
  <2>1. /\ usb' = TRUE /\ usbFlag' = usbFlag /\ nbdFlag' = nbdFlag /\ mode' = mode
        /\ nbd' = nbd /\ UNCHANGED <<current, state, pinned>>
    BY <1>5, <1>k DEF Effect, managerVars
  <2>2. ~usb
    BY <1>5, <1>k DEF Possible
  <2>k. nbdFlag /\ (nbd # None => mode \in {"none", ModeOf(current)})
    BY <1>t, <1>9, <1>10, <1>k, <2>2 DEF HelperFits, GadgetFits, Unmarked, PiActions
  <2>3. GadgetFits'
    BY <1>1, <1>t, <1>6, <1>8, <1>10, <1>k, <2>1, <2>2, <2>k, <1>9 DEF GadgetFits, Unmarked, ModeOf, PiActions
  <2>n. ~At({"disconnect", "sync", "wait", "flush", "select"}) /\ ~At({"wait", "flush", "select"})
    BY <1>12, <1>k
  <2>o. ~At({"undo.disconnect"})
    BY <1>12, <1>k
  <2>4. RequestFits'
    BY <1>1, <1>10, <1>13, <1>k, <2>1, <2>k, <2>n, <2>o DEF RequestFits, PiActions, ModeOf
  <2>5. HelperFits(j)'
    BY <1>1, <1>t, <1>6, <1>8, <1>10, <1>k, <2>1, <2>2, <2>k, <1>9, <1>3, <1>4 DEF HelperFits, Unmarked, ModeOf, PiActions
  <2>6. QED
    BY <1>1, <1>7, <2>3, <2>4, <2>5 DEF AInv
<1>l. CASE helper[j].action = "attach" /\ Left(j) = 1 /\ Head(helper[j].rest) = "touch.usb"
  <2>1. /\ usb' = usb /\ usbFlag' = TRUE /\ nbdFlag' = nbdFlag /\ mode' = mode
        /\ nbd' = nbd /\ UNCHANGED <<current, state, pinned>>
    BY <1>5, <1>l DEF Effect, managerVars
  <2>k. nbdFlag /\ (nbd # None => mode \in {"none", ModeOf(current)})
    BY <1>t, <1>9, <1>10, <1>l DEF HelperFits, GadgetFits, Unmarked, PiActions
  <2>3. GadgetFits'
    BY <1>1, <1>t, <1>6, <1>8, <1>10, <1>l, <2>1, <2>k, <1>9 DEF GadgetFits, Unmarked, ModeOf, PiActions
  <2>4. RequestFits'
    BY <1>1, <1>t, <1>6, <1>8, <1>10, <1>l, <2>1, <2>k, <1>9, <1>12, <1>13 DEF RequestFits, Unmarked, ModeOf, PiActions
  <2>5. HelperFits(j)'
    BY <1>1, <1>t, <1>6, <1>8, <1>10, <1>l, <2>1, <2>k, <1>9, <1>3, <1>4 DEF HelperFits, Unmarked, ModeOf, PiActions
  <2>6. QED
    BY <1>1, <1>7, <2>3, <2>4, <2>5 DEF AInv
<1>z. Left(j) = Len(helper[j].rest)
  BY DEF Left
<1>q. QED
  BY <1>3, <1>z, ScriptGoes, <1>a, <1>b, <1>c, <1>d, <1>e, <1>f, <1>g, <1>h, <1>i, <1>j, <1>k, <1>l DEF PiActions

\* A process fails: a disconnect goes on after its detach, or after its nbd-client.
LEMMA HelperFailsFits ==
    ASSUME OneHelper, SInv, AInv, NEW j \in Slot, HelperFails(j)
    PROVE  AInv'
<1>1. /\ \A i \in Slot : i = j
      /\ UNCHANGED <<request, todo, next, awaited, local, state, current, pinned>>
      /\ UNCHANGED <<usb, usbFlag, nbd, nbdFlag, mode>>
      /\ faults \in Nat /\ local \in Nat
  BY DEF OneHelper, HelperFails, hostVars, managerVars, AInv
<1>2. PiTypes
  BY SInvParts
<1>3. usb \in BOOLEAN /\ usbFlag \in BOOLEAN /\ nbdFlag \in BOOLEAN
  BY <1>2 DEF PiTypes
<1>4. /\ helper[j].status = "run" /\ helper[j].rest # <<>> /\ helper[j].action \in PiActions
      /\ helper[j].rest \in Rests(helper[j].action) /\ helper[j].mode # "none"
  BY DEF AInv, HelperFits, JobOK, HelperFails
<1>5. Refused(Head(helper[j].rest)) \/ Faulty
  BY DEF HelperFails
<1>6. faults' \in Nat /\ faults' >= faults
  BY <1>1, <1>5 DEF Refused, Faulty
<1>7. GadgetFits /\ RequestFits /\ HelperFits(j)
  BY DEF AInv
<1>8. Left(j) \in 1 .. 4
  BY <1>4, ScriptGoes DEF Left
<1>9. Sequel' /\ (\A T : At(T)' <=> At(T))
  BY <1>1 DEF AInv, Sequel, At
<1>10. awaited # None => awaited = j /\ todo # <<>> /\ Head(todo) \in PiActions \cup Undo
  BY <1>1, <1>2, SInvParts DEF Course, HostTypes
<1>z. \/ helper[j].action = "disconnect" /\ Ignored(helper[j])
            /\ Head(helper[j].rest) \in {"gadget.stop", "rm.usb"} /\ Left(j) \in {3, 4}
      \/ helper[j].action = "disconnect" /\ Ignored(helper[j])
            /\ Head(helper[j].rest) = "nbd.stop" /\ Left(j) = 2
      \/ ~Ignored(helper[j])
  BY <1>4, ScriptGoes DEF Ignored, Left
<1>11. CASE /\ helper[j].action = "disconnect" /\ Ignored(helper[j])
            /\ Head(helper[j].rest) \in {"gadget.stop", "rm.usb"} /\ Left(j) \in {3, 4}
  <2>1. /\ helper'[j].status = "run" /\ helper'[j].action = "disconnect"
        /\ helper'[j].mode = helper[j].mode /\ helper'[j].rest = <<"nbd.stop", "rm.nbd">>
    BY <1>2, <1>4, <1>11 DEF HelperFails, RestIgnoring, PiTypes, Process
  <2>2. Left(j)' = 2 /\ JobOK(helper'[j]) /\ helper'[j] # NoJob /\ helper[j] # NoJob
    BY <1>4, <2>1, ScriptStarts DEF Left, JobOK, NoJob, PiActions
  <2>3. faults' = faults + 1
    BY <1>1, <1>5, <1>11 DEF Refused, Faulty, Possible
  <2>5. GadgetFits'
    BY <1>1, <1>3, <1>6, <1>7, <1>11 DEF GadgetFits, Unmarked, ModeOf, Going
  <2>6. RequestFits'
    BY <1>1, <1>3, <1>4, <1>6, <1>7, <1>9, <1>11, <2>1, <2>2
    DEF RequestFits, Unmarked, ModeOf, Going, Busy
  <2>7. HelperFits(j)'
    BY <1>1, <1>3, <1>4, <1>6, <1>7, <1>11, <2>1, <2>2, <2>3
    DEF HelperFits, Unmarked, ModeOf, Going, Busy
  <2>8. QED
    BY <1>1, <1>6, <1>9, <2>5, <2>6, <2>7 DEF AInv
<1>n. CASE /\ helper[j].action = "disconnect" /\ Ignored(helper[j])
           /\ Head(helper[j].rest) = "nbd.stop" /\ Left(j) = 2
  <2>1. /\ helper'[j].status = "run" /\ helper'[j].action = "disconnect"
        /\ helper'[j].mode = helper[j].mode /\ helper'[j].rest = <<"rm.nbd">>
    BY <1>2, <1>4, <1>n DEF HelperFails, RestIgnoring, PiTypes, Process
  <2>2. Left(j)' = 1 /\ JobOK(helper'[j]) /\ helper'[j] # NoJob /\ helper[j] # NoJob
    BY <1>4, <2>1, ScriptStarts DEF Left, JobOK, NoJob, PiActions
  <2>3. faults' = faults + 1
    BY <1>1, <1>5, <1>n DEF Refused, Faulty, Possible
  <2>5. GadgetFits'
    BY <1>1, <1>3, <1>6, <1>7, <1>n DEF GadgetFits, Unmarked, ModeOf, Going
  <2>6. RequestFits'
    BY <1>1, <1>3, <1>4, <1>6, <1>7, <1>9, <1>n, <2>1, <2>2
    DEF RequestFits, Unmarked, ModeOf, Going, Busy
  <2>7. HelperFits(j)'
    BY <1>1, <1>3, <1>4, <1>6, <1>7, <1>n, <2>1, <2>2, <2>3
    DEF HelperFits, Unmarked, ModeOf, Going, Busy
  <2>8. QED
    BY <1>1, <1>6, <1>9, <2>5, <2>6, <2>7 DEF AInv
<1>12. CASE ~Ignored(helper[j])
  <2>1. /\ helper'[j].status = "failed" /\ helper'[j].action = helper[j].action
        /\ helper'[j].mode = helper[j].mode /\ helper'[j].rest = helper[j].rest
    BY <1>2, <1>4, <1>12 DEF HelperFails, PiTypes, Process
  <2>2. Left(j)' = Left(j) /\ JobOK(helper'[j]) /\ helper'[j] # NoJob /\ helper[j] # NoJob
    BY <1>4, <2>1 DEF Left, JobOK, NoJob
  <2>a. /\ helper[j].action = "detach" => Head(helper[j].rest) \in {"gadget.stop", "rm.usb"}
                                         /\ Left(j) \in {1, 2}
        /\ helper[j].action = "attach" /\ Left(j) = 1 => Head(helper[j].rest) = "touch.usb"
    BY <1>4, ScriptGoes DEF Left, PiActions
  <2>b. Head(helper[j].rest) \in {"gadget.stop", "rm.usb", "touch.usb"} => faults' = faults + 1
    BY <1>5 DEF Refused, Faulty, Possible
  <2>c. helper[j].action = "detach" /\ Left(j) = 1 => ~usb
    BY <1>4, <1>7 DEF HelperFits, Going
  <2>3. helper[j].action = "detach" /\ usb => Left(j) = 2 /\ faults' = faults + 1
    BY <2>a, <2>b, <2>c
  <2>4. helper[j].action = "attach" /\ Left(j) = 1 => faults' = faults + 1
    BY <2>a, <2>b
  <2>5. GadgetFits'
    BY <1>1, <1>3, <1>6, <1>7, <2>1, <2>2, <2>4 DEF GadgetFits, Unmarked, ModeOf, Going
  <2>6. RequestFits'
    BY <1>1, <1>3, <1>4, <1>6, <1>7, <1>9, <2>1, <2>2
    DEF RequestFits, Unmarked, ModeOf, Going, Busy
  <2>7. HelperFits(j)'
    BY <1>1, <1>3, <1>4, <1>6, <1>7, <2>1, <2>2, <2>3
    DEF HelperFits, GadgetFits, Unmarked, ModeOf, Going, Busy
  <2>8. QED
    BY <1>1, <1>6, <1>9, <2>5, <2>6, <2>7 DEF AInv
<1>13. QED
  BY <1>z, <1>11, <1>n, <1>12

LEMMA HelperExitsFits ==
    ASSUME OneHelper, SInv, AInv, NEW j \in Slot, HelperExits(j)
    PROVE  AInv'
<1>1. /\ \A i \in Slot : i = j
      /\ UNCHANGED <<request, todo, next, awaited, faults, local, state, current, pinned>>
      /\ UNCHANGED <<usb, usbFlag, nbd, nbdFlag, mode>>
      /\ faults \in Nat /\ local \in Nat
  BY DEF OneHelper, HelperExits, hostVars, managerVars, budgets, AInv
<1>2. PiTypes
  BY SInvParts
<1>3. helper[j].status = "run" /\ helper[j].rest = <<>> /\ helper[j].action \in PiActions
  BY DEF AInv, HelperFits, JobOK, HelperExits
<1>4. /\ helper'[j].status = "ok" /\ helper'[j].action = helper[j].action
      /\ helper'[j].mode = helper[j].mode /\ helper'[j].rest = helper[j].rest
  BY <1>2, <1>3 DEF HelperExits, PiTypes, Process
<1>5. GadgetFits /\ RequestFits /\ HelperFits(j)
  BY DEF AInv
<1>6. Left(j)' = Left(j) /\ JobOK(helper'[j]) /\ helper'[j] # NoJob /\ helper[j] # NoJob
  BY <1>3, <1>4, <1>5 DEF Left, JobOK, NoJob, HelperFits
<1>7. Sequel' /\ (\A T : At(T)' <=> At(T))
  BY <1>1 DEF AInv, Sequel, At
<1>8. \A a \in PiActions : (Going(j, a)' <=> Going(j, a)) /\ (Busy(j, a)' <=> Busy(j, a))
  BY <1>3, <1>4 DEF Going, Busy
<1>9. GadgetFits'
  BY <1>1, <1>5, <1>6, <1>8 DEF GadgetFits, Unmarked, ModeOf, PiActions
<1>10. RequestFits'
  BY <1>1, <1>5, <1>6, <1>7, <1>8 DEF RequestFits, Unmarked, ModeOf, PiActions
<1>11. HelperFits(j)'
  BY <1>1, <1>4, <1>5, <1>6, <1>8 DEF HelperFits, Unmarked, ModeOf, PiActions
<1>12. QED
  BY <1>1, <1>7, <1>9, <1>10, <1>11 DEF AInv

\* A slot becomes free.
LEMMA SlotFreed ==
    ASSUME OneHelper, SInv, AInv, NEW j \in Slot, helper[j].status \in {"ok", "failed"},
           helper' = [helper EXCEPT ![j] = NoJob],
           UNCHANGED <<usb, usbFlag, nbd, nbdFlag, mode, state, current, pinned, faults>>,
           awaited' # j
    PROVE  GadgetFits' /\ (\A i \in Slot : HelperFits(i)') /\ helper'[j] = NoJob
<1>1. \A i \in Slot : i = j
  BY DEF OneHelper
<1>2. PiTypes /\ faults \in Nat
  BY SInvParts DEF AInv
<1>3. helper'[j] = NoJob
  BY <1>2 DEF PiTypes
<1>4. GadgetFits /\ HelperFits(j)
  BY DEF AInv
<1>5. helper'[j].status = "free" /\ helper'[j].action = "none"
  BY <1>3 DEF NoJob
<1>6. ~(Going(j, "attach") /\ Left(j) = 1)
  <2>1. Going(j, "attach") => helper[j].rest = <<>>
    BY <1>4 DEF Going, HelperFits, JobOK
  <2>2. QED
    BY <2>1, EmptySeq DEF Left
<1>7. GadgetFits'
  BY <1>1, <1>4, <1>6 DEF GadgetFits, Unmarked, ModeOf
<1>8. HelperFits(j)'
  BY <1>3, <1>5 DEF HelperFits, JobOK, Going, Busy
<1>9. QED
  BY <1>1, <1>3, <1>7, <1>8

LEMMA HelperReapedFits ==
    ASSUME OneHelper, SInv, AInv, NEW j \in Slot, HelperReaped(j)
    PROVE  AInv'
<1>1. /\ \A i \in Slot : i = j
      /\ UNCHANGED <<request, todo, next, awaited, faults, local, state, current, pinned>>
      /\ UNCHANGED <<usb, usbFlag, nbd, nbdFlag, mode>>
      /\ helper[j].status \in {"ok", "failed"} /\ awaited # j
      /\ helper' = [helper EXCEPT ![j] = NoJob]
  BY DEF OneHelper, HelperReaped, hostVars, managerVars, budgets
<1>2. GadgetFits' /\ (\A i \in Slot : HelperFits(i)') /\ helper'[j] = NoJob
  BY <1>1, SlotFreed
<1>3. RequestFits /\ HelperFits(j) /\ helper[j] # NoJob
  BY <1>1 DEF AInv, NoJob
<1>4. Sequel' /\ (\A T : At(T)' <=> At(T))
  BY <1>1 DEF AInv, Sequel, At
<1>5. RequestFits'
  BY <1>1, <1>2, <1>3, <1>4 DEF RequestFits, Unmarked, ModeOf, Going, NoJob
<1>6. QED
  BY <1>1, <1>2, <1>4, <1>5 DEF AInv

\* The handler starts a process.
LEMMA CallFits ==
    ASSUME OneHelper, SInv, AInv, NEW j \in Slot, CallPi(j)
    PROVE  AInv'
<1>1. /\ \A i \in Slot : i = j
      /\ UNCHANGED <<request, todo, next, faults, local, state, current, pinned>>
      /\ UNCHANGED <<usb, usbFlag, nbd, nbdFlag, mode>>
      /\ awaited = None /\ awaited' = j /\ j # None
      /\ helper[j] = NoJob /\ todo # <<>> /\ Head(todo) \in PiActions \cup Undo
      /\ helper' = [helper EXCEPT ![j] = Job(ActionOf(Head(todo)), ModeOf(current))]
  BY SwitchAssumption DEF OneHelper, CallPi, managerVars, budgets
<1>2. PiTypes /\ MInv /\ faults \in Nat
  BY SInvParts DEF AInv
<1>3. PICK a \in PiActions : a = ActionOf(Head(todo))
  BY <1>1 DEF ActionOf, PiActions, Undo
<1>4. /\ helper'[j].status = "run" /\ helper'[j].action = a /\ helper'[j].rest = Script(a)
      /\ helper'[j].mode = ModeOf(current)
  BY <1>1, <1>2, <1>3 DEF PiTypes, Job
<1>5. ModeOf(current) # "none"
  BY SwitchAssumption DEF ModeOf
<1>6. Left(j)' = CASE a = "detach" -> 2 [] a = "disconnect" -> 4 [] OTHER -> 3
  BY <1>4, ScriptStarts DEF Left
<1>7. JobOK(helper'[j]) /\ helper'[j] # NoJob
  BY <1>4, <1>5, ScriptStarts DEF JobOK, NoJob
<1>8. GadgetFits /\ RequestFits
  BY DEF AInv
<1>9. /\ a = "disconnect" => At({"disconnect"}) \/ At({"undo.disconnect"})
      /\ a = "attach" => At({"attach"})
      /\ At({"disconnect", "sync", "wait", "flush", "select"}) => At({"disconnect"})
      /\ At({"disconnect"}) => At({"disconnect", "sync", "wait", "flush", "select"})
      /\ ~At({"wait", "flush", "select"})
      /\ At({"attach"}) => a = "attach"
  BY <1>1, <1>3 DEF ActionOf, At, PiActions, Undo
<1>10. a = "disconnect" => (usb => faults >= 1) /\ (Unmarked => faults >= 2)
  BY <1>1, <1>8, <1>9 DEF RequestFits, Unmarked
<1>11. a = "attach" /\ nbd # None => mode \in {"none", ModeOf(current)}
  BY <1>8, <1>9 DEF RequestFits
<1>12. Sequel' /\ (\A T : At(T)' <=> At(T)) /\ ActionOf(Head(todo))' = a
  BY <1>1, <1>3 DEF AInv, Sequel, At, ActionOf
<1>13. GadgetFits'
  BY <1>1, <1>2, <1>8 DEF GadgetFits, Unmarked, ModeOf, Going, NoJob
<1>14. RequestFits'
  BY <1>1, <1>4, <1>6, <1>8, <1>9, <1>12 DEF RequestFits, Unmarked, ModeOf, Going
<1>15. HelperFits(j)'
  BY <1>1, <1>4, <1>6, <1>7, <1>10, <1>11, <1>12 DEF HelperFits, Going, Busy, Unmarked, ModeOf
<1>16. QED
  BY <1>1, <1>2, <1>12, <1>13, <1>14, <1>15 DEF AInv

\* The export may be withdrawn or replaced.
Quiet == ~usb /\ ~nbdFlag /\ \A i \in Slot : helper[i] = NoJob

\* A step of somebody else; nbd0 may die of it.
LEMMA PiStill ==
    ASSUME SInv, AInv, UNCHANGED <<usb, usbFlag, nbdFlag, mode, helper>>,
           nbd' = nbd \/ nbd' = None, nbd' # None => pinned'[nbd'] # None,
           faults' \in Nat, faults' >= faults,
           awaited' = None \/ UNCHANGED <<awaited, todo>>,
           current' = current \/ Quiet \/ (nbd' = None /\ awaited' = None),
           (state \in Serving => state' \in Serving) \/ Quiet
    PROVE  GadgetFits' /\ (\A i \in Slot : HelperFits(i)')
<1>1. PiTypes /\ faults \in Nat
  BY SInvParts DEF AInv
<1>2. usb \in BOOLEAN /\ usbFlag \in BOOLEAN /\ nbdFlag \in BOOLEAN
  BY <1>1 DEF PiTypes
<1>3. GadgetFits
  BY DEF AInv
<1>4. \A i \in Slot : /\ Left(i)' = Left(i) /\ helper'[i] = helper[i]
                      /\ \A a : (Going(i, a)' <=> Going(i, a)) /\ (Busy(i, a)' <=> Busy(i, a))
  BY DEF Left, Going, Busy
<1>5. GadgetFits'
  BY <1>1, <1>2, <1>3, <1>4 DEF GadgetFits, Unmarked, ModeOf, Quiet
<1>6. ASSUME NEW i \in Slot PROVE HelperFits(i)'
  <2>1. HelperFits(i)
    BY DEF AInv
  <2>2. CASE Quiet
    <3>1. helper'[i] = NoJob
      BY <2>2 DEF Quiet
    <3>2. /\ helper'[i].status = "free" /\ helper'[i].action = "none" /\ helper[i].status = "free"
      BY <3>1, <2>2 DEF NoJob, Quiet
    <3>3. awaited' # i
      BY <2>1, <3>2, SwitchAssumption DEF HelperFits
    <3>4. QED
      BY <3>1, <3>2, <3>3 DEF HelperFits, JobOK, Going, Busy
  <2>3. CASE ~Quiet
    <3>1. state \in Serving => state' \in Serving
      BY <2>3
    <3>2. awaited' = i => awaited = i /\ todo' = todo /\ current' = current
      BY <2>3, SwitchAssumption
    <3>3. nbd' # None => nbd' = nbd /\ (current' = current \/ awaited' = None)
      BY <2>3
    <3>4. nbd' # None => current' = current
      BY <2>3
    <3>5. QED
      BY <1>1, <1>2, <1>4, <2>1, <3>1, <3>2, <3>3, <3>4 DEF HelperFits, Unmarked, ModeOf
  <2>4. QED
    BY <2>2, <2>3
<1>7. QED
  BY <1>5, <1>6

\* The same, seen from the request.
LEMMA RequestStill ==
    ASSUME SInv, AInv, UNCHANGED <<usb, usbFlag, nbdFlag, mode, helper>>,
           nbd' = nbd \/ nbd' = None, faults' \in Nat, faults' >= faults,
           UNCHANGED <<awaited, todo, current>>
    PROVE  RequestFits' /\ Sequel'
<1>1. PiTypes /\ faults \in Nat /\ RequestFits
  BY SInvParts DEF AInv
<1>2. usb \in BOOLEAN /\ usbFlag \in BOOLEAN /\ nbdFlag \in BOOLEAN
  BY <1>1 DEF PiTypes
<1>3. /\ \A i \in Slot : /\ Left(i)' = Left(i) /\ helper'[i] = helper[i]
                         /\ \A a : (Going(i, a)' <=> Going(i, a)) /\ (Busy(i, a)' <=> Busy(i, a))
      /\ \A T : At(T)' <=> At(T)
  BY DEF Left, Going, Busy, At
<1>4. RequestFits'
  BY <1>1, <1>2, <1>3 DEF RequestFits, Unmarked, ModeOf
<1>5. QED
  BY <1>4 DEF AInv, Sequel

\* The steps of the console, of connections and of the background backup.
LEMMA OutsideFits ==
    ASSUME SInv, AInv,
           \/ \E s \in Session : SessionEnds(s)
           \/ ConnectionLost \/ ConsoleWrite \/ BackgroundFlush \/ UNCHANGED vars
    PROVE  AInv'
<1> USE DEF managerVars, hostVars, piVars, budgets
<1>1. MInv /\ faults \in Nat /\ local \in Nat /\ (nbd # None => pinned[nbd] # None)
  BY SInvParts DEF AInv, GadgetFits
<1>2. /\ UNCHANGED <<usb, usbFlag, nbdFlag, mode, helper, awaited, todo, current, local>>
      /\ nbd' = nbd \/ nbd' = None
      /\ faults' \in Nat /\ faults' >= faults
  BY <1>1
  DEF SessionEnds, Release, ConnectionLost, Faulty, ConsoleWrite, BackgroundFlush, vars
<1>3. (state \in Serving => state' \in Serving) /\ (nbd' # None => pinned'[nbd'] # None)
  <2>1. ASSUME NEW s \in Session, SessionEnds(s)
        PROVE  (state \in Serving => state' \in Serving) /\ (nbd' # None => pinned'[nbd'] # None)
    <3>1. pinned' = [pinned EXCEPT ![s] = None] /\ nbd # s /\ nbd' = nbd
          /\ (state' = state \/ state' = "CONNECTED")
      BY <2>1 DEF SessionEnds, Release
    <3>2. nbd # None => pinned'[nbd] = pinned[nbd]
      BY <1>1, <3>1, SInvParts DEF MInv, ManagerTypeOK, PiTypes
    <3>3. QED
      BY <1>1, <3>1, <3>2 DEF Serving
  <2>2. QED
    BY <1>1, <2>1 DEF ConnectionLost, ConsoleWrite, BackgroundFlush, vars
<1>4. QED
  BY <1>1, <1>2, <1>3, PiStill, RequestStill DEF AInv

\* A restart of the Pi leaves nothing but the answer that the handler waits for.
LEMMA PiRestartFits ==
    ASSUME OneHelper, SInv, AInv, PiRestart
    PROVE  AInv'
<1>1. /\ usb' = FALSE /\ usbFlag' = FALSE /\ nbd' = None /\ nbdFlag' = FALSE /\ mode' = "none"
      /\ UNCHANGED <<todo, awaited, state, current, faults, local>>
      /\ faults \in Nat /\ local \in Nat
      /\ helper' = [i \in Slot |-> IF i = awaited THEN [helper[i] EXCEPT !.status = "failed"]
                                   ELSE NoJob]
  BY DEF PiRestart, hostVars, managerVars, AInv
<1>2. PiTypes
  BY SInvParts
<1>3. GadgetFits'
  BY <1>1 DEF GadgetFits, Unmarked
<1>4. ASSUME NEW i \in Slot PROVE HelperFits(i)' /\ ~Going(i, "connect")'
  <2>1. HelperFits(i)
    BY DEF AInv
  <2>2. CASE i = awaited
    <3>1. /\ helper'[i].status = "failed" /\ helper'[i].action = helper[i].action
          /\ helper'[i].mode = helper[i].mode /\ helper'[i].rest = helper[i].rest
      BY <1>1, <1>2, <2>2 DEF PiTypes, Process
    <3>2. JobOK(helper'[i])
      BY <2>1, <2>2, <3>1 DEF HelperFits, JobOK
    <3>3. QED
      BY <1>1, <2>1, <2>2, <3>1, <3>2 DEF HelperFits, Unmarked, ModeOf, Going
  <2>3. CASE i # awaited
    <3>1. helper'[i] = NoJob
      BY <1>1, <2>3
    <3>2. helper'[i].status = "free" /\ helper'[i].action = "none"
      BY <3>1 DEF NoJob
    <3>3. QED
      BY <1>1, <2>3, <3>1, <3>2 DEF HelperFits, JobOK, Going, Busy
  <2>4. QED
    BY <2>2, <2>3
<1>5. RequestFits'
  <2>1. awaited' = None => \A i \in Slot : helper'[i] = NoJob
    BY <1>1, SwitchAssumption
  <2>2. QED
    BY <1>1, <1>4, <2>1 DEF RequestFits, Unmarked
<1>6. QED
  BY <1>1, <1>3, <1>4, <1>5 DEF AInv, Sequel

\* The plans, and what follows a step of theirs.
LEMMA PlanSequel ==
    ASSUME NEW r \in Requests \ {"none"}
    PROVE  /\ \A i \in 1 .. Len(Plan(r)) - 1 : Plan(r)[i + 1] \in After(Plan(r)[i])
           /\ Plan(r) # <<>> /\ Head(Plan(r)) \in {"detach", "open", "connect", "attach"}
           /\ Head(Plan(r)) = "attach" => r = "attach"
<1>1. CASE r = "wii"
  BY <1>1 DEF Plan, After
<1>2. CASE r = "gamecube"
  BY <1>2 DEF Plan, After
<1>3. CASE r = "detach"
  BY <1>3 DEF Plan, After
<1>4. CASE r = "disconnect"
  BY <1>4 DEF Plan, After
<1>5. CASE r = "connect"
  BY <1>5 DEF Plan, After
<1>a. CASE r = "attach"
  BY <1>a DEF Plan, After
<1>6. CASE r = "reconcile"
  BY <1>6 DEF Plan, After
<1>7. QED
  BY <1>1, <1>2, <1>3, <1>4, <1>5, <1>6, <1>a DEF Requests

LEMMA Advance ==
    ASSUME HostTypes, Sequel, todo # <<>>, todo' = Tail(todo)
    PROVE  Sequel' /\ (todo' # <<>> => Head(todo') \in After(Head(todo)))
<1>1. /\ Head(todo) = todo[1] /\ Len(todo) \in Nat \ {0} /\ Len(todo') = Len(todo) - 1
      /\ \A i \in 1 .. Len(todo) - 1 : todo'[i] = todo[i + 1]
      /\ todo' # <<>> => Len(todo) > 1 /\ Head(todo') = todo[2]
  BY StepsTail DEF HostTypes
<1>2. PICK n \in Nat \ {0} : n = Len(todo)
  BY <1>1
<1>3. \A i \in 1 .. n - 1 : todo[i + 1] \in After(todo[i])
  BY <1>2 DEF Sequel
<1>4. Sequel'
  <2>1. \A i \in 1 .. (n - 1) - 1 : i \in 1 .. n - 1 /\ i + 1 \in 1 .. n - 1
    OBVIOUS
  <2>2. \A i \in 1 .. (n - 1) - 1 : todo'[i] = todo[i + 1] /\ todo'[i + 1] = todo[(i + 1) + 1]
    BY <1>1, <1>2, <2>1
  <2>3. \A i \in 1 .. (n - 1) - 1 : todo'[i + 1] \in After(todo'[i])
    BY <1>3, <2>1, <2>2
  <2>4. QED
    BY <1>1, <1>2, <2>3 DEF Sequel
<1>5. todo' # <<>> => Head(todo') \in After(Head(todo))
  <2>1. n > 1 => 1 \in 1 .. n - 1 /\ 1 + 1 = 2
    OBVIOUS
  <2>2. n > 1 => todo[2] \in After(todo[1])
    BY <1>3, <2>1
  <2>3. QED
    BY <1>1, <1>2, <2>2
<1>6. QED
  BY <1>4, <1>5

\* A request that ends or goes on with safePiDisconnect.
LEMMA EndsOrUndoes ==
    ASSUME StepFails(Head(todo)) \/ \E result \in {"ok", "error"} : Finish(result)
    PROVE  Sequel' /\ RequestFits'
<1> DEFINE u == <<"undo.detach", "undo.disconnect">>
<1>1. /\ Len(u) = 2 /\ u[1] = "undo.detach" /\ u[2] = "undo.disconnect"
      /\ Head(u) = "undo.detach"
  OBVIOUS
<1>2. todo' = <<>> \/ todo' = u
  BY DEF StepFails, Finish
<1> HIDE DEF u
<1>3. Sequel'
  <2>1. CASE todo' = <<>>
    BY <2>1, EmptySeq DEF Sequel
  <2>2. CASE todo' = u
    <3>1. \A i \in 1 .. Len(u) - 1 : i = 1
      BY <1>1
    <3>2. u[1 + 1] \in After(u[1])
      BY <1>1 DEF After
    <3>3. \A i \in 1 .. Len(u) - 1 : u[i + 1] \in After(u[i])
      BY <3>1, <3>2
    <3>4. QED
      BY <2>2, <3>3 DEF Sequel
  <2>3. QED
    BY <1>2, <2>1, <2>2
<1>4. todo' # <<>> => Head(todo') = "undo.detach"
  BY <1>1, <1>2
<1>5. QED
  BY <1>3, <1>4 DEF RequestFits, At

\* What DropNext leaves alone.
LEMMA DropStill ==
    ASSUME DropNext \/ UNCHANGED <<managerVars, saveVars>>
    PROVE  UNCHANGED <<state, current, pinned>>
BY DEF DropNext, CloseRejected, managerVars

LEMMA RequestStarts ==
    ASSUME OneHelper, SInv, AInv, NEW r \in Requests \ {"none"}, Request(r)
    PROVE  AInv'
<1>1. /\ UNCHANGED <<usb, usbFlag, nbd, nbdFlag, mode, helper, state, current, pinned, faults, local>>
      /\ todo' = Plan(r) /\ (r = "attach" => mode = ModeOf(current))
      /\ UNCHANGED awaited /\ todo = <<>>
  BY SInvParts DEF Request, managerVars, piVars, Course
<1>2. awaited = None /\ PiTypes /\ faults \in Nat /\ local \in Nat
  BY <1>1, SInvParts DEF Course, AInv
<1>3. GadgetFits' /\ (\A i \in Slot : HelperFits(i)')
  BY <1>1, <1>2, PiStill DEF AInv, GadgetFits
<1>4. Sequel'
  BY <1>1, PlanSequel DEF Sequel
<1>5. RequestFits'
  <2>1. Head(todo') \in {"detach", "open", "connect", "attach"}
        /\ (Head(todo') = "attach" => mode = ModeOf(current))
    BY <1>1, PlanSequel
  <2>2. CASE Head(todo') # "attach"
    BY <2>1, <2>2 DEF RequestFits, At
  <2>3. CASE Head(todo') = "attach"
    <3>1. mode = ModeOf(current) /\ mode # "none"
      BY <2>1, <2>3, SwitchAssumption DEF ModeOf
    <3>2. ASSUME NEW i \in Slot, Going(i, "connect")
          PROVE  Left(i) = 0 \/ (Left(i) = 3 /\ nbdFlag)
      <4>1. HelperFits(i) /\ GadgetFits
        BY DEF AInv
      <4>2. Left(i) \in 0 .. 3
        BY <3>2, <4>1, ScriptGoes DEF HelperFits, JobOK, Going, Left, PiActions
      <4>3. Left(i) \notin {1, 2}
        BY <3>1, <3>2, <4>1 DEF HelperFits
      <4>4. nbdFlag
        BY <3>1, <4>1 DEF GadgetFits
      <4>5. QED
        BY <4>2, <4>3, <4>4
    <3>3. \A i \in Slot : Left(i)' = Left(i) /\ (Going(i, "connect")' <=> Going(i, "connect"))
      BY <1>1 DEF Left, Going
    <3>4. QED
      BY <1>1, <2>3, <3>1, <3>2, <3>3 DEF RequestFits, At, ModeOf
  <2>4. QED
    BY <2>2, <2>3
<1>6. QED
  BY <1>1, <1>2, <1>3, <1>4, <1>5 DEF AInv

\* The steps that are the host's own: from a quiet Pi on, it stays quiet.
LEMMA HostStepFits ==
    ASSUME OneHelper, SInv, AInv, todo # <<>>, awaited = None, awaited' = None,
           Head(todo) \in HostSteps, UNCHANGED <<piVars, pinned, local>>,
           faults' \in Nat, faults' >= faults,
           \/ todo' = Tail(todo)
           \/ StepFails(Head(todo)) \/ \E result \in {"ok", "error"} : Finish(result),
           \/ UNCHANGED <<state, current>>
           \/ Head(todo) \in {"wait", "select"}
    PROVE  AInv'
<1>1. /\ HostTypes /\ PiTypes /\ GadgetFits /\ RequestFits /\ Sequel
      /\ faults \in Nat /\ local \in Nat
  BY SInvParts DEF AInv
<1>2. UNCHANGED <<usb, usbFlag, nbd, nbdFlag, mode, helper>>
  BY DEF piVars
<1>3. Head(todo) \in {"wait", "flush", "select"} => Quiet
  BY <1>1 DEF RequestFits, At, Quiet
<1>4. Head(todo) = "sync" => ~usb /\ \A i \in Slot : helper[i] = NoJob
  BY <1>1 DEF RequestFits, At
<1>5. GadgetFits' /\ (\A i \in Slot : HelperFits(i)')
  BY <1>1, <1>2, <1>3, PiStill DEF GadgetFits
<1>6. CASE todo' = Tail(todo)
  <2>1. Sequel' /\ (todo' # <<>> => Head(todo') \in After(Head(todo)))
    BY <1>1, <1>6, Advance
  <2>2. /\ At({"disconnect", "sync", "wait", "flush", "select"})' =>
                Head(todo) \in {"sync", "wait", "flush"}
        /\ At({"wait", "flush", "select"})' => Head(todo) \in {"wait", "flush"}
        /\ ~At({"undo.disconnect"})' /\ ~At({"attach"})'
    BY <2>1 DEF At, After, HostSteps
  <2>3. RequestFits'
    BY <1>2, <1>3, <1>4, <2>2 DEF RequestFits, Quiet
  <2>4. QED
    BY <1>1, <1>5, <2>1, <2>3 DEF AInv
<1>7. CASE StepFails(Head(todo)) \/ \E result \in {"ok", "error"} : Finish(result)
  BY <1>1, <1>5, <1>7, EndsOrUndoes DEF AInv
<1>8. QED
  BY <1>6, <1>7

\* What the handler does with an answer or without one.
LEMMA AnswerFits ==
    ASSUME OneHelper, SInv, AInv, NEW ok \in BOOLEAN, awaited # None, awaited' = None,
           Answered(ok), UNCHANGED <<usb, usbFlag, nbd, nbdFlag, mode, state, current, pinned>>,
           UNCHANGED <<faults, local>>,
           GadgetFits', \A i \in Slot : HelperFits(i)',
           \/ helper'[awaited] = NoJob /\ (ok <=> helper[awaited].status = "ok")
              /\ helper[awaited].status \in {"ok", "failed"}
           \/ helper' = helper /\ ok = FALSE /\ Head(todo) \notin Undo
    PROVE  AInv'
<1>1. PICK j \in Slot : j = awaited
  BY SInvParts DEF HostTypes
<1>2. /\ HostTypes /\ PiTypes /\ GadgetFits /\ RequestFits /\ Sequel /\ HelperFits(j)
      /\ faults \in Nat /\ local \in Nat
      /\ todo # <<>> /\ Head(todo) \in PiActions \cup Undo
      /\ \A i \in Slot : i = j
  BY <1>1, SInvParts DEF AInv, Course, OneHelper
<1>3. /\ helper[j].status # "free" /\ helper[j].action = ActionOf(Head(todo))
      /\ helper[j].mode = ModeOf(current)
  BY <1>1, <1>2 DEF HelperFits
<1>4. SUFFICES Sequel' /\ RequestFits'
  BY <1>2 DEF AInv
<1>5. CASE StepFails(Head(todo)) \/ \E result \in {"ok", "error"} : Finish(result)
  BY <1>5, EndsOrUndoes
<1>6. CASE Head(todo) \in Undo /\ Proceed
  <2>1. Sequel' /\ (todo' # <<>> => Head(todo') \in After(Head(todo)))
    BY <1>2, <1>6, Advance DEF Proceed
  <2>2. todo' # <<>> => Head(todo) = "undo.detach" /\ Head(todo') = "undo.disconnect"
    BY <1>6, <2>1 DEF Undo, After
  <2>3. CASE todo' = <<>>
    BY <2>1, <2>3 DEF RequestFits, At
  <2>4. CASE todo' # <<>>
    <3>1. helper[j].action = "detach"
      BY <1>3, <2>2, <2>4 DEF ActionOf
    <3>2. helper'[j] = NoJob /\ helper[j].status \in {"ok", "failed"}
      BY <1>1, <1>6
    <3>3. (usb => faults >= 1) /\ (Unmarked => faults >= 2)
      <4>1. CASE helper[j].status = "failed"
        BY <1>2, <3>1, <4>1 DEF HelperFits
      <4>2. CASE helper[j].status = "ok"
        <5>1. Left(j) = 0
          BY <1>2, <4>2, EmptySeq DEF HelperFits, JobOK, Left
        <5>2. QED
          BY <1>2, <3>1, <4>2, <5>1 DEF HelperFits, Going, Unmarked
      <4>3. QED
        BY <3>2, <4>1, <4>2
    <3>4. \A i \in Slot : helper'[i] = NoJob
      BY <1>2, <3>2
    <3>5. (usb => faults >= 1)' /\ (Unmarked => faults >= 2)'
      BY <3>3 DEF Unmarked
    <3>6. QED
      BY <2>1, <2>2, <3>4, <3>5 DEF RequestFits, At
  <2>5. QED
    BY <2>1, <2>3, <2>4
<1>7. CASE Head(todo) \notin Undo /\ ok /\ Proceed
  <2>1. Sequel' /\ (todo' # <<>> => Head(todo') \in After(Head(todo)))
    BY <1>2, <1>7, Advance DEF Proceed
  <2>2. helper[j].status = "ok" /\ helper'[j] = NoJob /\ helper[j].action = Head(todo)
    BY <1>1, <1>3, <1>7 DEF ActionOf, Undo
  <2>3. Left(j) = 0
    BY <1>2, <2>2, EmptySeq DEF HelperFits, JobOK, Left
  <2>4. /\ Head(todo) = "detach" => ~usb
        /\ Head(todo) = "disconnect" => ~nbdFlag /\ ~usb
        /\ Head(todo) = "connect" => mode = ModeOf(current)
    <3>1. Head(todo) = "detach" => ~usb
      BY <1>2, <2>2, <2>3 DEF HelperFits, Going
    <3>2. Head(todo) = "disconnect" => ~nbdFlag /\ ~usb
      BY <1>2, <2>2, <2>3 DEF HelperFits, Going, RequestFits, At
    <3>3. Head(todo) = "connect" => mode = ModeOf(current)
      BY <1>2, <1>3, <2>2, <2>3 DEF HelperFits, Going
    <3>4. QED
      BY <3>1, <3>2, <3>3
  <2>5. /\ At({"disconnect", "sync", "wait", "flush", "select"})' => Head(todo) \in {"detach", "disconnect"}
        /\ At({"wait", "flush", "select"})' => Head(todo) = "disconnect"
        /\ ~At({"undo.disconnect"})'
        /\ At({"attach"})' => Head(todo) = "connect"
    BY <1>2, <1>7, <2>1 DEF At, After, PiActions, Undo
  <2>6. ~Going(j, "connect")'
    BY <2>2 DEF Going, NoJob
  <2>7. RequestFits'
    BY <1>2, <2>2, <2>4, <2>5, <2>6 DEF RequestFits, ModeOf
  <2>8. QED
    BY <2>1, <2>7
<1>8. QED
  BY <1>5, <1>6, <1>7 DEF Answered

LEMMA PiAnswersFits ==
    ASSUME OneHelper, SInv, AInv, PiAnswers
    PROVE  AInv'
<1>1. awaited \in Slot /\ awaited # None
  BY SInvParts DEF HostTypes, PiAnswers
<1>2. PICK j \in Slot : j = awaited
  BY <1>1
<1>3. PICK ok \in BOOLEAN : ok = (helper[j].status = "ok")
  OBVIOUS
<1>4. /\ helper[j].status \in {"ok", "failed"} /\ Answered(ok) /\ awaited' = None
      /\ helper' = [helper EXCEPT ![j] = NoJob]
      /\ UNCHANGED <<usb, usbFlag, nbd, nbdFlag, mode, faults, local>>
      /\ DropNext \/ UNCHANGED <<managerVars, saveVars>>
  BY <1>2, <1>3 DEF PiAnswers, budgets
<1>5. UNCHANGED <<state, current, pinned>>
  BY <1>4, DropStill
<1>6. awaited' # j
  BY <1>4, SwitchAssumption
<1>7. GadgetFits' /\ (\A i \in Slot : HelperFits(i)') /\ helper'[j] = NoJob
  BY <1>4, <1>5, <1>6, SlotFreed
<1>8. QED
  BY <1>1, <1>2, <1>3, <1>4, <1>5, <1>7, AnswerFits

LEMMA PiTimesOutFits ==
    ASSUME OneHelper, SInv, AInv, PiTimesOut
    PROVE  AInv'
<1>1. /\ awaited # None /\ awaited' = None
      /\ IF Head(todo) \in Undo THEN Finish("error") ELSE Answered(FALSE)
      /\ UNCHANGED <<usb, usbFlag, nbd, nbdFlag, mode, helper, faults, local>>
      /\ DropNext \/ UNCHANGED <<managerVars, saveVars>>
  BY DEF PiTimesOut, piVars
<1>2. UNCHANGED <<state, current, pinned>>
  BY <1>1, DropStill
<1>3. faults \in Nat /\ (nbd # None => pinned[nbd] # None)
  BY DEF AInv, GadgetFits
<1>4. GadgetFits' /\ (\A i \in Slot : HelperFits(i)')
  BY <1>1, <1>2, <1>3, PiStill
<1>5. CASE Head(todo) \in Undo
  BY <1>1, <1>3, <1>4, <1>5, EndsOrUndoes DEF AInv
<1>6. CASE Head(todo) \notin Undo
  BY <1>1, <1>2, <1>4, <1>6, AnswerFits
<1>7. QED
  BY <1>5, <1>6

\* The handler's own steps, one by one.
LEMMA HostFits ==
    ASSUME OneHelper, SInv, AInv,
           OpenBackend \/ WaitForDisconnect \/ FlushSaves \/ SelectExport
    PROVE  AInv'
<1> USE DEF budgets, NextStep, HostSteps
<1>0. faults \in Nat
  BY DEF AInv
<1>1. CASE OpenBackend
  <2>1. /\ todo # <<>> /\ Head(todo) = "open" /\ awaited = None
        /\ UNCHANGED <<awaited, piVars, managerVars, local>>
        /\ (todo' = Tail(todo) /\ faults' = faults) \/ (Faulty /\ Finish("error"))
    BY <1>1 DEF OpenBackend
  <2>2. faults' \in Nat /\ faults' >= faults /\ (todo' = Tail(todo) \/ Finish("error"))
    BY <1>0, <2>1 DEF Faulty
  <2>3. QED
    BY <2>1, <2>2, HostStepFits DEF managerVars
<1>2. CASE WaitForDisconnect
  <2>1. /\ todo # <<>> /\ Head(todo) = "wait" /\ awaited = None
        /\ UNCHANGED <<awaited, piVars, local, faults>>
        /\ (Disconnect /\ Proceed) \/ (StepFails("wait") /\ DropNext)
    BY <1>2 DEF WaitForDisconnect
  <2>2. pinned' = pinned /\ (todo' = Tail(todo) \/ StepFails(Head(todo)))
    BY <2>1, DropStill DEF Disconnect, Proceed
  <2>3. QED
    BY <1>0, <2>1, <2>2, HostStepFits
<1>3. CASE FlushSaves
  <2>1. /\ todo # <<>> /\ Head(todo) \in {"flush", "sync"} /\ awaited = None
        /\ UNCHANGED <<awaited, piVars, managerVars, local>>
        /\ faults' = faults \/ Faulty
        /\ Proceed \/ Finish("ok") \/ StepFails(Head(todo))
    BY <1>3 DEF FlushSaves
  <2>2. faults' \in Nat /\ faults' >= faults
        /\ (todo' = Tail(todo) \/ Finish("ok") \/ StepFails(Head(todo)))
    BY <1>0, <2>1 DEF Faulty, Proceed
  <2>3. QED
    BY <2>1, <2>2, HostStepFits DEF managerVars
<1>4. CASE SelectExport
  <2>1. /\ todo # <<>> /\ Head(todo) = "select" /\ awaited = None
        /\ UNCHANGED <<awaited, piVars, local>> /\ pinned' = pinned
        /\ faults' = faults \/ Faulty
        /\ Proceed \/ Finish("error")
    BY <1>4 DEF SelectExport, SelectValid
  <2>2. faults' \in Nat /\ faults' >= faults /\ (todo' = Tail(todo) \/ Finish("error"))
    BY <1>0, <2>1 DEF Faulty, Proceed
  <2>3. QED
    BY <2>1, <2>2, HostStepFits
<1>5. QED
  BY <1>1, <1>2, <1>3, <1>4

LEMMA RestartFits ==
    ASSUME SInv, AInv, HostRestart
    PROVE  AInv'
<1>1. /\ state' \in Serving /\ nbd' = None /\ awaited' = None /\ todo' = <<>>
      /\ UNCHANGED <<usb, usbFlag, nbdFlag, mode, helper, faults, local>>
      /\ faults \in Nat /\ local \in Nat
  BY DEF HostRestart, Serving, AInv
<1>2. GadgetFits' /\ (\A i \in Slot : HelperFits(i)')
  BY <1>1, PiStill
<1>3. Sequel' /\ RequestFits'
  BY <1>1, EmptySeq DEF Sequel, RequestFits, At
<1>4. QED
  BY <1>1, <1>2, <1>3 DEF AInv

LEMMA AInvStep ==
    ASSUME OneHelper, MaxLocal = 0, SInv, AInv, [Next]_vars
    PROVE  AInv'
<1>1. ASSUME NEW j \in Slot PROVE ~LocalAction(j)
  BY DEF LocalAction, AInv
<1>2. QED
  BY <1>1, RequestStarts, HostFits, PiAnswersFits, PiTimesOutFits, CallFits, HelperStepFits,
     HelperFailsFits, HelperExitsFits, HelperReapedFits, OutsideFits, RestartFits, PiRestartFits
  DEF Next, HostStep, HelperRuns

LEMMA AInvInit == Init => AInv
<1> SUFFICES ASSUME Init PROVE AInv
  OBVIOUS
<1> USE DEF Init
<1>1. todo = <<>> /\ Len(<<>>) = 0
  BY EmptySeq
<1>2. Sequel /\ RequestFits
  BY <1>1 DEF Sequel, RequestFits, At
<1>3. GadgetFits
  BY DEF GadgetFits, Unmarked
<1>4. ASSUME NEW j \in Slot PROVE HelperFits(j)
  <2>1. helper[j] = NoJob /\ helper[j].status = "free" /\ helper[j].action = "none" /\ awaited # j
    BY SwitchAssumption DEF NoJob
  <2>2. QED
    BY <2>1 DEF HelperFits, JobOK, Going, Busy
<1>5. QED
  BY <1>2, <1>3, <1>4 DEF AInv

\* With one helper process at a time and none started on the Pi itself, the
\* console that is attached sees the exported library in its write mode, as long
\* as no more than two commands have failed or connections have broken; time-outs,
\* restarts of either end and requests there may be any number of.
THEOREM AttachedSeesExport ==
    ASSUME OneHelper, MaxLocal = 0
    PROVE  Spec => [](faults <= 2 => AttachedMatchesExport)
<1>1. SInv /\ AInv => (faults <= 2 => AttachedMatchesExport)
  <2> SUFFICES ASSUME SInv, AInv, faults <= 2, usb
               PROVE  state \in Serving /\ (nbd # None => pinned[nbd] = current /\ mode = ModeOf(current))
    BY DEF AttachedMatchesExport
  <2>1. MInv /\ PiTypes /\ GadgetFits /\ faults \in Nat
    BY SInvParts DEF AInv
  <2>2. nbd # None => pinned[nbd] = current
    BY <2>1 DEF GadgetFits, PiTypes, MInv, PinnedBackendOpen, OpenSessions
  <2>3. QED
    BY <2>1, <2>2 DEF GadgetFits
<1>2. SInv /\ AInv /\ [Next]_vars => AInv'
  BY AInvStep
<1>3. QED
  BY <1>1, <1>2, AInvInit, SInvInit, SInvStep, PTL DEF Spec

RestartsCounted == restarts \in Nat

LEMMA RestartsInit == Init => RestartsCounted
BY DEF Init, RestartsCounted

LEMMA RestartsStep == RestartsCounted /\ [Next]_vars => RestartsCounted'
<1> SUFFICES ASSUME restarts \in Nat, [Next]_vars PROVE restarts' \in Nat
  BY DEF RestartsCounted
<1> USE DEF budgets
<1>1. ASSUME NEW j \in Slot, CallPi(j) \/ HelperRuns(j) \/ HelperReaped(j) \/ LocalAction(j)
      PROVE  restarts' = restarts
  BY <1>1 DEF CallPi, HelperRuns, HelperStep, HelperFails, HelperExits, HelperReaped, LocalAction
<1>2. HostStep \/ PiTimesOut => restarts' = restarts
  BY DEF HostStep, OpenBackend, PiAnswers, WaitForDisconnect, FlushSaves, SelectExport, PiTimesOut
<1>3. QED
  BY <1>1, <1>2
  DEF Next, vars, Request, SessionEnds, ConnectionLost, ConsoleWrite, BackgroundFlush,
      HostRestart, PiRestart

\* Under the same hypothesis the export is never switched, but by a restart of the
\* daemon, while the gadget is bound: whatever fails, and however often.
THEOREM NeverSwitchesAttached ==
    ASSUME OneHelper, MaxLocal = 0
    PROVE  Spec => NeverSwitchedWhileAttached
<1>1. SInv /\ AInv /\ RestartsCounted /\ [Next]_vars =>
         [current' # current /\ restarts' = restarts => ~usb]_vars
  <2> SUFFICES ASSUME SInv, AInv, restarts \in Nat, Next, current' # current, restarts' = restarts
               PROVE  ~usb
    BY DEF vars, managerVars, RestartsCounted
  <2>1. SelectExport
    <3>1. ~HostRestart
      BY DEF HostRestart
    <3>2. ~OpenBackend /\ ~WaitForDisconnect /\ ~FlushSaves
      BY DropStill DEF OpenBackend, WaitForDisconnect, FlushSaves, Disconnect, managerVars
    <3>3. ~PiAnswers /\ ~PiTimesOut
      BY DropStill DEF PiAnswers, PiTimesOut
    <3>4. ASSUME NEW r \in Requests PROVE ~Request(r)
      BY DEF Request, managerVars
    <3>5. ASSUME NEW j \in Slot
          PROVE  ~(CallPi(j) \/ HelperRuns(j) \/ HelperReaped(j) \/ LocalAction(j))
      BY DEF CallPi, HelperRuns, HelperStep, Effect, BeginSession, HelperFails, HelperExits,
         HelperReaped, LocalAction, managerVars
    <3>6. /\ ~ConnectionLost /\ ~ConsoleWrite /\ ~BackgroundFlush /\ ~PiRestart
          /\ \A s \in Session : ~SessionEnds(s)
      BY DEF ConnectionLost, ConsoleWrite, BackgroundFlush, PiRestart, SessionEnds, Release,
         managerVars
    <3>7. QED
      BY <3>1, <3>2, <3>3, <3>4, <3>5, <3>6 DEF Next, HostStep
  <2>2. QED
    BY <2>1 DEF AInv, RequestFits, At, SelectExport, NextStep
<1>2. SInv /\ AInv /\ [Next]_vars => AInv'
  BY AInvStep
<1>3. QED
  BY <1>1, <1>2, AInvInit, SInvInit, SInvStep, RestartsInit, RestartsStep, PTL
  DEF Spec, NeverSwitchedWhileAttached
=============================================================================
