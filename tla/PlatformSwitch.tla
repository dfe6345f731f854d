--------------------------- MODULE PlatformSwitch ---------------------------
(***************************************************************************)
(* Switching the exported platform and controlling the bridge: the host's  *)
(* HTTP handlers selectExport and piStorageAction                          *)
(* (server/host-daemon/main.go), the export manager they drive, and the    *)
(* Raspberry Pi they drive over HTTPS, whose privileged helper is a shell  *)
(* script (pi/packaging/pi-gen/common/files/wiibridge-helper).             *)
(*                                                                         *)
(* A handler holds app.switchMu to its end, so one request runs at a time; *)
(* its remaining steps are the sequence todo.  A step that is a Pi action  *)
(* starts a helper process on the Pi and waits for the answer.  Helper     *)
(* processes take no lock: one whose caller gave up, or that the Pi's own  *)
(* dashboard or auto-attach service started, runs next to another.         *)
(*                                                                         *)
(* The memory cards are abstracted to one cell: SaveCard is about the      *)
(* protocol inside a SaveStore, this module about which store is used.     *)
(***************************************************************************)
EXTENDS ExportManager, Sequences

CONSTANTS
    GameCubeMode,   \* app.gcMode: "gamecube-emulated" or "gamecube-physical"
    Slot,           \* helper processes that can run at one time
    MaxRequests,    \* bound: dashboard requests
    MaxWrites,      \* bound: writes by the console
    MaxFaults,      \* bound: failing steps, lost connections
    MaxLate,        \* bound: host time-outs with the helper still running
    MaxLocal,       \* bound: helpers started on the Pi itself
    MaxRestarts,    \* bound: restarts of the host daemon or of the Pi
    MaxRepeats      \* bound: GameCube activated although it is exported

ASSUME SwitchAssumption ==
    /\ GameCubeMode \in {"gamecube-emulated", "gamecube-physical"}
    /\ None \notin Slot
    /\ {MaxRequests, MaxWrites, MaxFaults, MaxLate, MaxLocal, MaxRestarts,
        MaxRepeats} \subseteq Nat

GameCube == Profile \ {Wii}
Emulated == GameCubeMode = "gamecube-emulated"

VARIABLES
    \* the host's request
    request, todo, next, awaited, last, outcome,
    gcSaves,        \* app.gcSaves, named by its profile
    \* the Pi: the gadget, nbd0 and the files under /run/wiibridge
    usb, usbFlag, nbd, nbdFlag, mode, readonly, helper,
    \* the memory card on disk, its journal, and the open stores' memory
    disk, log, base, dirty,
    acked,          \* observer: the console's last acknowledged write
    requests, faults, late, local, restarts, repeats

hostVars == <<request, todo, next, awaited, last, outcome, gcSaves>>
piVars == <<usb, usbFlag, nbd, nbdFlag, mode, readonly, helper>>
saveVars == <<disk, log, base, dirty, acked>>
budgets == <<requests, faults, late, local, restarts, repeats>>
vars == <<managerVars, hostVars, piVars, saveVars, budgets>>

Requests == {"none", "wii", "gamecube", "detach", "disconnect", "connect",
             "attach", "reconcile"}
HostSteps == {"open", "wait", "flush", "select", "sync"}
PiActions == {"detach", "disconnect", "connect", "attach"}
Undo == {"undo.detach", "undo.disconnect"}
HelperSteps == {"gadget.stop", "rm.usb", "nbd.stop", "rm.nbd", "connect.check",
                "nbd.start", "nbd.mode", "attach.check", "gadget.start",
                "touch.usb"}
Modes == {"none", "wii", "gamecube-emulated", "gamecube-physical"}
NoJob == [action |-> "none", mode |-> "wii", rest |-> <<>>, status |-> "free"]

TypeOK ==
    /\ ManagerTypeOK
    /\ request \in Requests /\ last \in Requests
    /\ todo \in Seq(HostSteps \cup PiActions \cup Undo)
    /\ next \in Profile \cup {None} /\ gcSaves \in GameCube \cup {None}
    /\ awaited \in Slot \cup {None}
    /\ outcome \in {"none", "ok", "error"}
    /\ usb \in BOOLEAN /\ usbFlag \in BOOLEAN /\ nbdFlag \in BOOLEAN
    /\ nbd \in Session \cup {None}
    /\ mode \in Modes /\ readonly \in BOOLEAN
    /\ helper \in [Slot -> [action : PiActions \cup {"none"}, mode : Modes,
                            rest : Seq(HelperSteps),
                            status : {"free", "run", "ok", "failed"}]]
    /\ disk \in Nat /\ log \in Nat /\ acked \in Nat
    /\ base \in [GameCube -> Nat] /\ dirty \in [GameCube -> Nat]

Init ==
    /\ ManagerInit
    /\ request = "none" /\ todo = <<>> /\ next = None /\ awaited = None
    /\ last = "none" /\ outcome = "none" /\ gcSaves = None
    /\ usb = FALSE /\ usbFlag = FALSE /\ nbd = None /\ nbdFlag = FALSE
    /\ mode = "none" /\ readonly = FALSE
    /\ helper = [j \in Slot |-> NoJob]
    /\ disk = 0 /\ log = 0 /\ acked = 0
    /\ base = [p \in GameCube |-> 0] /\ dirty = [p \in GameCube |-> 0]
    /\ requests = 0 /\ faults = 0 /\ late = 0 /\ local = 0 /\ restarts = 0
    /\ repeats = 0

-----------------------------------------------------------------------------
(***************************************************************************)
(* Save stores.  0 in log and dirty: nothing is journaled, nothing dirty.  *)
(***************************************************************************)
View(p) == IF dirty[p] # 0 THEN dirty[p] ELSE base[p]

\* OpenSaveStore replays whatever the journal holds and truncates it.
OpenStore(p) ==
    LET replayed == IF log # 0 THEN log ELSE disk
    IN  /\ disk' = replayed /\ log' = 0
        /\ base' = [base EXCEPT ![p] = replayed]
        /\ dirty' = [dirty EXCEPT ![p] = 0]
        /\ UNCHANGED acked

\* Mutant: the journal is truncated and the card not written.
FlushDropped(p) ==
    IF dirty[p] = 0 THEN UNCHANGED saveVars
    ELSE /\ log' = 0
         /\ dirty' = [dirty EXCEPT ![p] = 0]
         /\ UNCHANGED <<disk, base, acked>>

\* flushCard, from Sync, Backup and Close.
FlushStore(p) ==
    IF dirty[p] = 0 THEN UNCHANGED saveVars
    ELSE /\ disk' = dirty[p] /\ log' = 0
         /\ base' = [base EXCEPT ![p] = dirty[p]]
         /\ dirty' = [dirty EXCEPT ![p] = 0]
         /\ UNCHANGED acked

\* The console writes through the gadget; the write is journaled, then buffered.
ConsoleWrite ==
    /\ usb /\ ~readonly /\ nbd # None /\ acked < MaxWrites
    /\ LET p == pinned[nbd]
       IN  /\ p \in GameCube \ closed /\ Emulated
           /\ acked' = acked + 1 /\ log' = acked + 1
           /\ dirty' = [dirty EXCEPT ![p] = acked + 1]
    /\ UNCHANGED <<managerVars, hostVars, piVars, disk, base, budgets>>

\* The console's flush command or the automatic backup of features.go.
BackgroundFlush ==
    /\ gcSaves # None /\ gcSaves \notin closed /\ dirty[gcSaves] # 0
    /\ FlushStore(gcSaves)
    /\ UNCHANGED <<managerVars, hostVars, piVars, budgets>>

-----------------------------------------------------------------------------
(***************************************************************************)
(* The Pi's helper.                                                        *)
(***************************************************************************)
\* Mutant: the gadget is left bound, only the flag goes.
ScriptFlagOnly(action) ==
    CASE action = "detach" -> <<"rm.usb">>
      [] action = "disconnect" -> <<"rm.usb", "nbd.stop", "rm.nbd">>
      [] action = "connect" -> <<"connect.check", "nbd.start", "nbd.mode">>
      [] action = "attach" -> <<"attach.check", "gadget.start", "touch.usb">>

Script(action) ==
    CASE action = "detach" -> <<"gadget.stop", "rm.usb">>
      [] action = "disconnect" -> <<"gadget.stop", "rm.usb", "nbd.stop", "rm.nbd">>
      [] action = "connect" -> <<"connect.check", "nbd.start", "nbd.mode">>
      [] action = "attach" -> <<"attach.check", "gadget.start", "touch.usb">>

Job(action, m) ==
    [action |-> action, mode |-> m, rest |-> Script(action), status |-> "run"]

WriteModeMatches == readonly = (mode # "gamecube-emulated")

\* The test a step makes before it has any effect.
Possible(step) ==
    CASE step = "connect.check" -> ~usbFlag /\ ~nbdFlag /\ nbd = None
      [] step = "nbd.start" -> nbd = None /\ state \in Serving
      [] step = "attach.check" -> nbdFlag /\ WriteModeMatches
      [] step = "gadget.start" -> ~usb /\ WriteModeMatches
      [] OTHER -> TRUE

Effect(step, m) ==
    /\ usb' = CASE step = "gadget.start" -> TRUE
                [] step = "gadget.stop" -> FALSE
                [] OTHER -> usb
    /\ usbFlag' = CASE step = "touch.usb" -> TRUE
                    [] step = "rm.usb" -> FALSE
                    [] OTHER -> usbFlag
    /\ nbdFlag' = CASE step = "nbd.mode" -> TRUE
                    [] step = "rm.nbd" -> FALSE
                    [] OTHER -> nbdFlag
    /\ mode' = CASE step = "nbd.mode" -> m
                 [] step = "rm.nbd" -> "none"
                 [] OTHER -> mode
    /\ readonly' = IF step = "nbd.mode" THEN m # "gamecube-emulated" ELSE readonly
    /\ IF step = "nbd.start"
       THEN \E s \in Session : BeginSession(s) /\ nbd' = s
       ELSE /\ nbd' = IF step = "nbd.stop" THEN None ELSE nbd
            /\ UNCHANGED managerVars

\* One command of the script.
HelperStep(j) ==
    LET job == helper[j] IN
    /\ job.status = "run"
    /\ job.rest # <<>>
    /\ Possible(Head(job.rest))
    /\ Effect(Head(job.rest), job.mode)
    /\ helper' = [helper EXCEPT ![j].rest = Tail(@)]
    /\ UNCHANGED <<hostVars, saveVars, budgets>>

Refused(step) == ~Possible(step) /\ UNCHANGED faults
Faulty == faults < MaxFaults /\ faults' = faults + 1

\* A failing command ends the script; but disconnect ignores that its detach has
\* failed, and that its nbd-client -d has, and goes on after it.
Ignored(job) == job.action = "disconnect" /\ Head(job.rest) # "rm.nbd"
RestIgnoring(step) ==
    IF step = "nbd.stop" THEN <<"rm.nbd">> ELSE <<"nbd.stop", "rm.nbd">>

HelperFails(j) ==
    LET job == helper[j] IN
    /\ job.status = "run"
    /\ job.rest # <<>>
    /\ Refused(Head(job.rest)) \/ Faulty
    /\ helper' = [helper EXCEPT ![j] =
          IF Ignored(job) THEN [job EXCEPT !.rest = RestIgnoring(Head(@))]
          ELSE [job EXCEPT !.status = "failed"]]
    /\ UNCHANGED <<managerVars, hostVars, usb, usbFlag, nbd, nbdFlag, mode,
                   readonly, saveVars, requests, late, local, restarts, repeats>>

HelperExits(j) ==
    /\ helper[j].status = "run" /\ helper[j].rest = <<>>
    /\ helper' = [helper EXCEPT ![j].status = "ok"]
    /\ UNCHANGED <<managerVars, hostVars, usb, usbFlag, nbd, nbdFlag, mode,
                   readonly, saveVars, budgets>>

\* A process nobody waits for is gone when it has ended.
HelperReaped(j) ==
    /\ helper[j].status \in {"ok", "failed"} /\ awaited # j
    /\ helper' = [helper EXCEPT ![j] = NoJob]
    /\ UNCHANGED <<managerVars, hostVars, usb, usbFlag, nbd, nbdFlag, mode,
                   readonly, saveVars, budgets>>

\* The Pi's dashboard, or its auto-attach service: connect is in Wii mode there.
LocalAction(j) ==
    /\ helper[j] = NoJob /\ local < MaxLocal
    /\ local' = local + 1
    /\ \E action \in PiActions : helper' = [helper EXCEPT ![j] = Job(action, "wii")]
    /\ UNCHANGED <<managerVars, hostVars, usb, usbFlag, nbd, nbdFlag, mode,
                   readonly, saveVars, requests, faults, late, restarts, repeats>>

\* The connection breaks; nbd0 is dead, the flag files stay.
ConnectionLost ==
    /\ nbd # None /\ Faulty
    /\ nbd' = None
    /\ UNCHANGED <<managerVars, hostVars, usb, usbFlag, nbdFlag, mode, readonly,
                   helper, saveVars, requests, late, local, restarts, repeats>>

\* The host's end of a connection that is gone: the NBD handler returns.
SessionEnds(s) ==
    /\ nbd # s
    /\ Release(s)
    /\ UNCHANGED <<hostVars, piVars, saveVars, budgets>>

-----------------------------------------------------------------------------
(***************************************************************************)
(* The host's requests, as the steps they take in order.                   *)
(***************************************************************************)
ModeOf(p) == IF p = Wii THEN "wii" ELSE GameCubeMode

Plan(r) ==
    CASE r = "wii" -> <<"detach", "disconnect", "wait", "flush", "select",
                        "connect", "attach">>
      [] r = "gamecube" -> <<"open", "detach", "disconnect", "wait", "select",
                             "connect", "attach">>
      [] r = "detach" -> <<"detach", "sync">>
      [] r = "disconnect" -> <<"detach", "sync", "disconnect">>
      [] r = "connect" -> <<"connect">>
      [] r = "attach" -> <<"attach">>
      [] r = "reconcile" -> <<"detach", "sync", "disconnect", "wait", "connect",
                              "attach">>

\* Profiles that no switch has opened yet.
Unopened == GameCube \ (closed \cup {current})

\* A request that passed the checks of a fresh status: attach also compares the
\* Pi's mode with the selected library.
Request(r) ==
    /\ request = "none" /\ requests < MaxRequests
    /\ requests' = requests + 1
    /\ r = "attach" => mode = ModeOf(current)
    /\ r = "gamecube" => Unopened # {}      \* bound: profiles
    /\ IF r = "gamecube" /\ current # Wii
       THEN repeats < MaxRepeats /\ repeats' = repeats + 1
       ELSE UNCHANGED repeats
    /\ request' = r /\ todo' = Plan(r)
    /\ next' = IF r = "wii" THEN Wii ELSE None
    /\ outcome' = "none"
    /\ UNCHANGED <<managerVars, awaited, last, gcSaves, piVars, saveVars, faults,
                   late, local, restarts>>

\* The request's next step succeeded, or the request is over.
Proceed == todo' = Tail(todo) /\ UNCHANGED <<request, next, last, outcome>>
Finish(result) ==
    /\ request' = "none" /\ todo' = <<>> /\ next' = None
    /\ last' = request /\ outcome' = result

\* A failed step: a switch that has selected its profile, and a reconciliation,
\* end with safePiDisconnect; anything else ends there.
StepFails(step) ==
    IF \/ request = "reconcile"
       \/ request \in {"wii", "gamecube"} /\ step \in {"connect", "attach"}
    THEN /\ todo' = <<"undo.detach", "undo.disconnect">>
         /\ outcome' = "error"
         /\ UNCHANGED <<request, next, last>>
    ELSE Finish("error")

\* The profile that a failed switch opened for nothing is closed.
DropNext ==
    IF next \in GameCube
    THEN CloseRejected(next) /\ FlushStore(next)
    ELSE UNCHANGED <<managerVars, saveVars>>

NextStep(step) == todo # <<>> /\ Head(todo) = step /\ awaited = None

\* OpenLibraryBackendAndSaveStore: a new backend with a save store of its own.
OpenBackend ==
    /\ NextStep("open")
    /\ \/ \E p \in Unopened :
            /\ next' = p
            /\ IF Emulated THEN OpenStore(p) ELSE UNCHANGED saveVars
            /\ todo' = Tail(todo)
            /\ UNCHANGED <<request, last, outcome, faults>>
       \/ Faulty /\ Finish("error") /\ UNCHANGED saveVars
    /\ UNCHANGED <<managerVars, awaited, gcSaves, piVars, requests, late, local,
                   restarts, repeats>>

ActionOf(step) ==
    CASE step = "undo.detach" -> "detach"
      [] step = "undo.disconnect" -> "disconnect"
      [] OTHER -> step

\* pi.Action sends a request; the helper starts.
CallPi(j) ==
    /\ todo # <<>> /\ awaited = None /\ helper[j] = NoJob
    /\ Head(todo) \in PiActions \cup Undo
    /\ helper' = [helper EXCEPT ![j] = Job(ActionOf(Head(todo)), ModeOf(current))]
    /\ awaited' = j
    /\ UNCHANGED <<managerVars, request, todo, next, last, outcome, gcSaves, usb,
                   usbFlag, nbd, nbdFlag, mode, readonly, saveVars, budgets>>

\* What the handler does with an answer, or without one.
Answered(ok) ==
    IF Head(todo) \in Undo
    THEN IF Len(todo) > 1 THEN Proceed ELSE Finish("error")
    ELSE IF ok
         THEN IF Len(todo) > 1 THEN Proceed ELSE Finish("ok")
         ELSE StepFails(Head(todo))

PiAnswers ==
    /\ awaited # None /\ helper[awaited].status \in {"ok", "failed"}
    /\ LET ok == helper[awaited].status = "ok"
       IN  /\ Answered(ok)
           /\ IF ~ok /\ Head(todo) \in {"detach", "disconnect"} THEN DropNext
              ELSE UNCHANGED <<managerVars, saveVars>>
    /\ helper' = [helper EXCEPT ![awaited] = NoJob]
    /\ awaited' = None
    /\ UNCHANGED <<gcSaves, usb, usbFlag, nbd, nbdFlag, mode, readonly, budgets>>

\* The 15 s of the HTTP client pass.  The helper that sudo started goes on.  The
\* two actions of safePiDisconnect share 10 s: after the first, none are left.
PiTimesOut ==
    /\ awaited # None /\ late < MaxLate
    /\ late' = late + 1
    /\ IF Head(todo) \in Undo THEN Finish("error") ELSE Answered(FALSE)
    /\ IF Head(todo) \in {"detach", "disconnect"} THEN DropNext
       ELSE UNCHANGED <<managerVars, saveVars>>
    /\ awaited' = None
    /\ UNCHANGED <<gcSaves, piVars, requests, faults, local, restarts, repeats>>

\* Mutant: the wait has no end.
WaitForEver ==
    /\ NextStep("wait")
    /\ Disconnect /\ Proceed /\ UNCHANGED saveVars
    /\ UNCHANGED <<awaited, gcSaves, piVars, budgets>>

\* waitForExportDisconnect: fifty attempts, then the last refusal.
WaitForDisconnect ==
    /\ NextStep("wait")
    /\ \/ Disconnect /\ Proceed /\ UNCHANGED saveVars
       \/ ~CanDisconnect /\ StepFails("wait") /\ DropNext
    /\ UNCHANGED <<awaited, gcSaves, piVars, budgets>>

\* Leaving GameCube: Sync and Backup of the store in use, then on to Select.
\* syncGameCubeSaves of the storage controls is the same without the backup.
FlushSaves ==
    /\ NextStep("flush") \/ NextStep("sync")
    /\ \/ /\ gcSaves = None
          /\ IF Len(todo) > 1 THEN Proceed ELSE Finish("ok")
          /\ UNCHANGED <<saveVars, faults>>
       \/ /\ gcSaves # None /\ gcSaves \notin closed
          /\ FlushStore(gcSaves)
          /\ IF Len(todo) > 1 THEN Proceed ELSE Finish("ok")
          /\ UNCHANGED faults
       \/ /\ gcSaves # None
          /\ (gcSaves \in closed /\ UNCHANGED faults) \/ Faulty
          /\ StepFails(Head(todo))
          /\ UNCHANGED saveVars
    /\ UNCHANGED <<managerVars, awaited, gcSaves, piVars, requests, late, local,
                   restarts, repeats>>

\* Mutant: app.gcSaves is only ever set.
StoreKept(p) == IF p \in GameCube /\ Emulated THEN p ELSE gcSaves

\* The store that app.gcSaves gets with a profile.
StoreOf(p) == IF p \in GameCube /\ Emulated THEN p ELSE None

\* Select and the assignments after it.  Closing the previous profile flushes
\* its store; when that fails the journal still has the writes.
SelectExport ==
    /\ NextStep("select")
    /\ \/ /\ SelectValid(next)
          /\ gcSaves' = StoreOf(next)
          /\ IF current \in GameCube \ {next} THEN FlushStore(current)
             ELSE UNCHANGED saveVars
          /\ Proceed
          /\ UNCHANGED faults
       \/ /\ Faulty
          /\ state' = "ERROR" /\ CanSelect /\ closed' = closed \cup ({next} \ {Wii})
          /\ UNCHANGED <<current, sessions, pinned, gcSaves, saveVars>>
          /\ Finish("error")
       \/ /\ Faulty
          /\ CanSelect /\ current \notin {next, Wii}
          /\ state' = "RECOVERY_REQUIRED" /\ current' = next
          /\ closed' = ClosedBy(next) \cup ({next} \ {Wii})
          /\ UNCHANGED <<sessions, pinned, gcSaves, saveVars>>
          /\ Finish("error")
    /\ UNCHANGED <<awaited, piVars, requests, late, local, restarts, repeats>>

\* The daemon restarts: Wii is exported, every connection and every open store
\* is gone; a helper it had started goes on.
HostRestart ==
    /\ restarts < MaxRestarts /\ restarts' = restarts + 1
    /\ state' = "EXPORTING" /\ current' = Wii
    /\ sessions' = 0 /\ pinned' = [s \in Session |-> None]
    /\ closed' = closed \cup ({current, next} \cap GameCube)
    /\ request' = "none" /\ todo' = <<>> /\ next' = None /\ awaited' = None
    /\ last' = "none" /\ outcome' = "none" /\ gcSaves' = None
    /\ nbd' = None
    /\ UNCHANGED <<usb, usbFlag, nbdFlag, mode, readonly, helper, saveVars,
                   requests, faults, late, local, repeats>>

\* The Pi reboots or loses power; /run is empty afterwards.
PiRestart ==
    /\ restarts < MaxRestarts /\ restarts' = restarts + 1
    /\ usb' = FALSE /\ usbFlag' = FALSE /\ nbd' = None /\ nbdFlag' = FALSE
    /\ mode' = "none" /\ readonly' = FALSE
    /\ helper' = [j \in Slot |->
                    IF j = awaited THEN [helper[j] EXCEPT !.status = "failed"]
                    ELSE NoJob]
    /\ UNCHANGED <<managerVars, hostVars, saveVars, requests, faults, late, local,
                   repeats>>

HostStep ==
    OpenBackend \/ PiAnswers \/ WaitForDisconnect \/ FlushSaves \/ SelectExport
HelperRuns(j) == HelperStep(j) \/ HelperFails(j) \/ HelperExits(j)

Next ==
    \/ \E r \in Requests \ {"none"} : Request(r)
    \/ HostStep \/ PiTimesOut
    \/ \E j \in Slot : CallPi(j) \/ HelperRuns(j) \/ HelperReaped(j) \/ LocalAction(j)
    \/ \E s \in Session : SessionEnds(s)
    \/ ConnectionLost \/ ConsoleWrite \/ BackgroundFlush
    \/ HostRestart \/ PiRestart

\* Goroutines and processes that can run do: the handler, the helpers, and the
\* NBD handler of a closed connection (its reads fail, or time out after 30 s).
Fairness ==
    /\ WF_vars(HostStep)
    /\ \A j \in Slot : WF_vars(CallPi(j)) /\ WF_vars(HelperRuns(j))
                       /\ WF_vars(HelperReaped(j))
    /\ \A s \in Session : WF_vars(SessionEnds(s))

Spec == Init /\ [][Next]_vars
FairSpec == Spec /\ Fairness

-----------------------------------------------------------------------------
\* The backing store is never switched while the gadget is bound to the
\* console, whatever helper, answer or connection fails on the way.
NeverSwitchedWhileAttached ==
    [][current' # current /\ restarts' = restarts => ~usb]_vars

\* While the gadget is bound to the console the host keeps its export up, and a
\* connected console reads the library that the host has selected, through a
\* gadget in that library's write mode: no failed or repeated request leaves it
\* attached to a withdrawn or another export.
AttachedMatchesExport ==
    usb => /\ state \in Serving
           /\ nbd # None => pinned[nbd] = current /\ mode = ModeOf(current)

\* The console reads back its last acknowledged write, across switches to Wii
\* and back, failed switches, failed flushes and restarts of either end.
AckedWriteIsRead ==
    usb /\ nbd # None /\ Emulated =>
        \A p \in GameCube : pinned[nbd] = p => View(p) = acked

\* While the host serves an export and runs no request, the store that the save
\* administration uses is the one of the exported profile.
AdministeredStoreIsExported ==
    request = "none" /\ state \in Serving =>
        gcSaves = (IF current \in GameCube /\ Emulated THEN current ELSE None)

\* Every request ends, also when connections stay open, helpers fail and the
\* Pi restarts: no handler keeps switchMu for ever.
RequestsEnd == request # "none" ~> request = "none"

\* Reconcile, with a host that serves an export and a Pi that obeys, ends with
\* the console attached.
ReconcileReattaches ==
    request = "none" /\ last = "reconcile" => outcome = "ok"

=============================================================================
