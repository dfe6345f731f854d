--------------------------- MODULE BridgeControl ---------------------------
(***************************************************************************)
(* The host's link to the Raspberry Pi: the manager with the one client,   *)
(* the status poller and the address that the dashboard may change         *)
(* (bridgecontrol), and the compatibility check before every operation on  *)
(* the Pi (freshCompatibility in features.go, shared/compat).              *)
(*                                                                         *)
(* Threads: the poller, the handlers that check and then act (one at a     *)
(* time under switchMu; the check alone takes no lock), and the handlers   *)
(* that set the address, which take no lock but Manager.mu.  What an       *)
(* operation does on the Pi is PlatformSwitch; here it is one action.      *)
(*                                                                         *)
(* Data.  A client is the address it was made for and the call that made   *)
(* it, because the code compares pointers.  Firmware is what the status    *)
(* answer of a Pi says: its descriptor, and whether it is ready for a      *)
(* switch.  Of a compatibility result only the device is ever used again.  *)
(***************************************************************************)
EXTENDS Integers, FiniteSets

CONSTANTS
    Address,        \* the addresses a Pi may be found at
    Base,           \* the one of WIIBRIDGE_PI_URL, or None
    Installed,      \* the Pi behind each address at first, or None
    Remembered,     \* the device of the result that an earlier daemon saved, or ""
    Firmware,       \* the Pis there are, and their
    Descriptor,     \* compatibility descriptor and status, as a record for each
    Kinds,          \* <<handler, operation>> of the requests considered
    Request,        \* HTTP requests that check compatibility
    Setter,         \* HTTP requests that set the address
    Poller, None,
    Waiting, Failed,\* no answer yet, or an error
    MaxEvents       \* bound: changes of the Pis, and restarts of the daemon

Handlers == {"select", "storage", "power", "check"}
Operations == {"status", "wii-connect", "gamecube-physical", "gamecube-emulated",
               "usb-detach", "usb-attach", "nbd-disconnect", "safe-disconnect",
               "automatic-switch", "reboot", "shutdown", "performance-metrics"}

ASSUME ControlAssumption ==
    /\ Base \in Address \cup {None} /\ None \notin Address \cup Setter
    /\ Installed \in [Address -> Firmware \cup {None}]
    /\ Poller \notin Request /\ {Waiting, Failed} \cap Firmware = {}
    /\ Remembered \in {Descriptor[f].device : f \in Firmware} \cup {""}
    /\ Kinds \subseteq Handlers \X Operations
    /\ MaxEvents \in Nat
    /\ \A f \in Firmware :
         DOMAIN Descriptor[f] =
                    {"valid", "board", "detected", "supported", "device", "min",
                     "max", "caps", "ready"}

VARIABLES
    pi,             \* the Pi behind each address, None when it does not answer
    saved,          \* the pi-address file, None without one
    cache,          \* the device of the row of compatibility_cache
    client,         \* Manager.client
    status,         \* Manager.status: whose it is, and what it says
    metrics,        \* Manager.metrics: whose they are
    wake,           \* Manager.wake holds a token
    compatibility,  \* the device of app.compatibility
    call,           \* the poller's and the requests' local state
    setter,         \* the running SetAddress calls
    live,           \* observer: what the configured address led to since a request began
    events

envVars == <<pi, events>>
managerVars == <<client, status, metrics, wake>>
vars == <<pi, saved, cache, client, status, metrics, wake, compatibility, call,
          setter, live, events>>

Caller == Request \cup {Poller}
Clients == [addr : Address, by : Setter \cup {None}]
Answer == Firmware \cup {Waiting, Failed}
States == {"unknown", "unreachable", "blocked", "compatible", "compatible-with-warnings"}
Devices == {Descriptor[f].device : f \in Firmware} \cup {""}
Result == [state : States, device : Devices]
Unknown == [state |-> "unknown", device |-> ""]
Unreachable == [state |-> "unreachable", device |-> ""]
NoCall == [step |-> "idle", kind |-> <<"check", "status">>, client |-> None,
           answer |-> Waiting, result |-> Unknown]
Done == [NoCall EXCEPT !.step = "done"]
NoSetter == [step |-> "idle", client |-> None]
Served == [step |-> "done", client |-> None]
Pending(c) == [of |-> c, got |-> Waiting]

ControlTypeOK ==
    /\ pi \in [Address -> Firmware \cup {None}]
    /\ saved \in Address \cup {None}
    /\ cache \in Devices /\ compatibility \in Devices
    /\ client \in Clients \cup {None}
    /\ status \in [of : Clients \cup {None}, got : Answer]
    /\ metrics \in Clients \cup {None}
    /\ wake \in BOOLEAN
    /\ call \in [Caller -> [step : {"idle", "probe", "asked", "answered", "metrics",
                                    "metricsAsked", "evaluate", "save", "persist",
                                    "act", "done"},
                            kind : Handlers \X Operations, client : Clients \cup {None},
                            answer : Answer, result : Result]]
    /\ setter \in [Setter -> [step : {"idle", "persist", "install", "wake", "done"},
                              client : Clients \cup {None}]]
    /\ live \in [Request -> SUBSET Firmware]

-----------------------------------------------------------------------------
\* shared/compat ------------------------------------------------------------

HostMin == 1
HostMax == 1

\* RequirementsFor: what an operation cannot do without ...
Required(operation) ==
    CASE operation = "wii-connect" -> {"wii-read-only", "nbd-connect", "usb-attach"}
      [] operation = "gamecube-physical" ->
           {"gamecube-schema2", "physical-card", "safe-switching", "nbd-connect", "usb-attach"}
      [] operation = "gamecube-emulated" ->
           {"gamecube-schema2", "save-overlay", "safe-switching", "nbd-connect", "usb-attach"}
      [] operation = "usb-detach" -> {"usb-detach"}
      [] operation = "usb-attach" -> {"usb-attach"}
      [] operation = "nbd-disconnect" -> {"nbd-disconnect"}
      [] operation = "safe-disconnect" -> {"usb-detach", "nbd-disconnect"}
      [] operation = "automatic-switch" ->
           {"automatic-switching", "safe-switching", "usb-detach", "nbd-disconnect",
            "nbd-connect", "usb-attach"}
      [] operation = "reboot" -> {"reboot"}
      [] operation = "shutdown" -> {"shutdown"}
      [] operation = "performance-metrics" -> {}
      [] OTHER -> {"diagnostic-status"}
\* ... and what it only warns about.
Optional(operation) ==
    IF operation \in {"status", "performance-metrics"} THEN {"runtime-metrics"} ELSE {}

Overlap(d) == d.min <= HostMax /\ HostMin <= d.max
Suits(d, operation) ==
    /\ d.valid /\ d.detected \in {"", d.board} /\ d.supported /\ Overlap(d)
    /\ Required(operation) \subseteq d.caps

\* Evaluate, with the device ID of the last result as the expected one.  The host's
\* own descriptor is a constant of the build and valid, so it is never refused.
Evaluate(d, operation, expected) ==
    [state |-> IF ~Suits(d, operation) \/ (d.valid /\ expected \notin {"", d.device})
               THEN "blocked"
               ELSE IF Optional(operation) \subseteq d.caps
                    THEN "compatible" ELSE "compatible-with-warnings",
     device |-> d.device]

-----------------------------------------------------------------------------
\* What the configured address leads to.
Behind(p, c) == {f \in Firmware : c # None /\ p[c.addr] = f}
Observe == live' = [r \in Request |->
                      IF call'[r].step \in {"idle", "done"} THEN {}
                      ELSE live[r] \cup Behind(pi', client')]

\* NewManager: the saved address, or that of the configured URL.
Started == LET a == IF saved = None THEN Base ELSE saved
           IN  IF a = None THEN None ELSE [addr |-> a, by |-> None]

Init ==
    /\ pi = Installed
    /\ saved = None /\ cache = Remembered /\ compatibility = cache
    /\ client = Started
    /\ status = Pending(client) /\ metrics = client /\ wake = FALSE
    /\ call = [c \in Caller |-> IF c = Poller THEN [NoCall EXCEPT !.step = "probe"]
                                ELSE NoCall]
    /\ setter = [u \in Setter |-> NoSetter]
    /\ live = [r \in Request |-> {}] /\ events = 0

Step(c, next) == call' = [call EXCEPT ![c] = next]
Go(c, step) == Step(c, [call[c] EXCEPT !.step = step])
At(c, step) == call[c].step = step

\* Probe and poll -----------------------------------------------------------

\* Probe returns: poll ignores what it says.
Probed(c, answer) ==
    Step(c, IF c = Poller THEN [NoCall EXCEPT !.step = "metrics"]
            ELSE [call[c] EXCEPT !.step = "evaluate", !.client = None, !.answer = answer])

\* Probe reads the client under the lock; without one it fails at once.
ProbeBegin(c) ==
    /\ At(c, "probe")
    /\ IF client = None THEN Probed(c, Failed)
       ELSE Step(c, [call[c] EXCEPT !.client = client, !.step = "asked"])
    /\ UNCHANGED <<envVars, saved, cache, managerVars, compatibility, setter, live>>

\* client.Status runs without the lock, and may fail or time out.
PiAnswers(c) ==
    /\ At(c, "asked")
    /\ \E a \in {Failed} \cup Behind(pi, call[c].client) :
          Step(c, [call[c] EXCEPT !.answer = a, !.step = "answered"])
    /\ UNCHANGED <<envVars, saved, cache, managerVars, compatibility, setter, live>>

\* Mutant: every answer is stored.
ProbeStoreAlways(c) ==
    /\ At(c, "answered")
    /\ status' = [of |-> call[c].client, got |-> call[c].answer]
    /\ Probed(c, call[c].answer)
    /\ UNCHANGED <<envVars, saved, cache, client, metrics, wake, compatibility, setter,
                   live>>

\* The answer counts only while the client is still the manager's.
ProbeStore(c) ==
    /\ At(c, "answered")
    /\ IF call[c].client = client
       THEN /\ status' = [of |-> client, got |-> call[c].answer]
            /\ Probed(c, call[c].answer)
       ELSE Probed(c, Failed) /\ UNCHANGED status
    /\ UNCHANGED <<envVars, saved, cache, client, metrics, wake, compatibility, setter,
                   live>>

\* The second half of poll reads the client again.
MetricsBegin ==
    /\ At(Poller, "metrics")
    /\ IF client = None THEN Step(Poller, NoCall)
       ELSE Step(Poller, [call[Poller] EXCEPT !.step = "metricsAsked", !.client = client])
    /\ UNCHANGED <<envVars, saved, cache, managerVars, compatibility, setter, live>>

\* client.Metrics has answered, or failed.
MetricsStore ==
    /\ At(Poller, "metricsAsked")
    /\ metrics' = IF call[Poller].client = client THEN call[Poller].client ELSE metrics
    /\ Step(Poller, NoCall)
    /\ UNCHANGED <<envVars, saved, cache, client, status, wake, compatibility, setter,
                   live>>

\* Run: a poll at the start, at every token of wake and at every tick.
PollOnWake ==
    /\ At(Poller, "idle") /\ wake /\ wake' = FALSE
    /\ Go(Poller, "probe")
    /\ UNCHANGED <<envVars, saved, cache, client, status, metrics, compatibility, setter,
                   live>>
PollOnTick ==
    /\ At(Poller, "idle") /\ Go(Poller, "probe")
    /\ UNCHANGED <<envVars, saved, cache, managerVars, compatibility, setter, live>>

\* SetAddress ---------------------------------------------------------------

\* Mutant: the poller is woken before there is anything new to poll.
NextStepEarlyWake(step) == CASE step = "idle" -> "persist" [] step = "persist" -> "wake"
                             [] step = "wake" -> "install" [] OTHER -> "done"
NextStep(step) == CASE step = "idle" -> "persist" [] step = "persist" -> "install"
                    [] step = "install" -> "wake" [] OTHER -> "done"

Setting(u, step) ==
    /\ setter[u].step = step
    /\ setter' = [setter EXCEPT ![u] = IF NextStep(step) = "done" THEN Served
                                       ELSE [@ EXCEPT !.step = NextStep(step)]]

\* The address is parsed, and a client made for it.  The names of the calls are given
\* out in a fixed order.
NewClient(u, a) ==
    /\ setter[u].step = "idle" /\ u = (CHOOSE v \in Setter : setter[v].step = "idle")
    /\ setter' = [setter EXCEPT ![u] = [step |-> NextStep("idle"),
                                        client |-> [addr |-> a, by |-> u]]]
    /\ UNCHANGED <<envVars, saved, cache, managerVars, compatibility, call, live>>

\* persistAddress: a temporary file, synced and renamed, or an error and no change.
PersistAddress(u) ==
    /\ \/ Setting(u, "persist") /\ saved' = setter[u].client.addr
       \/ /\ setter[u].step = "persist" /\ UNCHANGED saved
          /\ setter' = [setter EXCEPT ![u] = Served]
    /\ UNCHANGED <<envVars, cache, managerVars, compatibility, call, live>>

\* Under the lock: client and address, and the answers of the old one are dropped.
Install(u) ==
    /\ Setting(u, "install")
    /\ client' = setter[u].client
    /\ status' = Pending(client') /\ metrics' = client'
    /\ UNCHANGED <<envVars, saved, cache, wake, compatibility, call>>
    /\ Observe

\* The token is dropped when there is one.
Wake(u) ==
    /\ Setting(u, "wake") /\ wake' = TRUE
    /\ UNCHANGED <<envVars, saved, cache, client, status, metrics, compatibility, call,
                   live>>

\* freshCompatibility and its callers ---------------------------------------

\* The handler holds switchMu; NoCall and Done do not.
Locked(kind) == kind[1] # "check"

Begin(r, kind) ==
    /\ At(r, "idle")
    /\ Locked(kind) => \A q \in Request : ~Locked(call[q].kind)
    /\ Step(r, [NoCall EXCEPT !.step = "probe", !.kind = kind])
    /\ live' = [live EXCEPT ![r] = Behind(pi, client)]
    /\ UNCHANGED <<envVars, saved, cache, managerVars, compatibility, setter>>

\* Mutant: the cached status will do.
EvidenceCached(r) == status.got
Evidence(r) == call[r].answer

EvaluateCall(r) ==
    /\ At(r, "evaluate")
    /\ Step(r, [call[r] EXCEPT !.step = "save", !.answer = Evidence(r),
                  !.result = IF Evidence(r) \in Firmware
                             THEN Evaluate(Descriptor[Evidence(r)], call[r].kind[2], compatibility)
                             ELSE Unreachable])
    /\ UNCHANGED <<envVars, saved, cache, managerVars, compatibility, setter, live>>

\* app.compatibility is replaced by whatever came out.
SaveResult(r) ==
    /\ At(r, "save") /\ compatibility' = call[r].result.device
    /\ Go(r, "persist")
    /\ UNCHANGED <<envVars, saved, cache, managerVars, setter, live>>

\* validatePiSwitchReadiness, for a switch only.
Ready(r) == call[r].kind[1] = "select" => Descriptor[call[r].answer].ready

\* SaveCompatibility, whose error is ignored; then the verdict.
PersistResult(r) ==
    /\ At(r, "persist")
    /\ cache' \in {cache, call[r].result.device}
    /\ IF /\ call[r].result.state \in {"compatible", "compatible-with-warnings"}
          /\ Locked(call[r].kind) /\ Ready(r)
       THEN Go(r, "act") ELSE Step(r, Done)
    /\ UNCHANGED <<envVars, saved, managerVars, compatibility, setter>>
    /\ Observe

\* Manager.Action reads the client again; the request goes out and the handler ends.
\* That a reboot takes the Pi away is a Change.
Act(r) ==
    /\ At(r, "act") /\ Step(r, Done)
    /\ UNCHANGED <<envVars, saved, cache, managerVars, compatibility, setter>>
    /\ Observe

\* The rest of the world ----------------------------------------------------

\* A Pi comes, goes, is flashed or exchanged.
Change(a, f) ==
    /\ events < MaxEvents /\ events' = events + 1 /\ pi[a] # f
    /\ pi' = [pi EXCEPT ![a] = f]
    /\ UNCHANGED <<saved, cache, managerVars, compatibility, call, setter>>
    /\ Observe

\* The daemon is restarted: LoadCompatibility and NewManager.
Restart ==
    /\ events < MaxEvents /\ events' = events + 1
    /\ compatibility' = cache /\ client' = Started
    /\ status' = Pending(client') /\ metrics' = client' /\ wake' = FALSE
    /\ call' = [c \in Caller |-> IF c = Poller THEN [NoCall EXCEPT !.step = "probe"]
                                 ELSE IF At(c, "idle") THEN call[c] ELSE Done]
    /\ setter' = [u \in Setter |-> IF setter[u].step = "idle" THEN setter[u] ELSE Served]
    /\ live' = [r \in Request |-> {}]
    /\ UNCHANGED <<pi, saved, cache>>

PollStep == ProbeBegin(Poller) \/ PiAnswers(Poller) \/ ProbeStore(Poller) \/ MetricsBegin
            \/ MetricsStore \/ PollOnWake
SetStep(u) == PersistAddress(u) \/ Install(u) \/ Wake(u)
CheckStep(r) == ProbeBegin(r) \/ PiAnswers(r) \/ ProbeStore(r) \/ EvaluateCall(r)
                \/ SaveResult(r) \/ PersistResult(r) \/ Act(r)

Next ==
    \/ PollStep \/ PollOnTick
    \/ \E u \in Setter : SetStep(u) \/ \E a \in Address : NewClient(u, a)
    \/ \E r \in Request : CheckStep(r) \/ \E kind \in Kinds : Begin(r, kind)
    \/ \E a \in Address, f \in Firmware \cup {None} : Change(a, f)
    \/ Restart

Spec == Init /\ [][Next]_vars

\* The threads run on; requests to the Pi end, by their timeouts if need be.  The
\* ticker is given no fairness: waking has to be enough.
FairSpec ==
    /\ Spec /\ WF_vars(PollStep)
    /\ \A u \in Setter : WF_vars(SetStep(u))

-----------------------------------------------------------------------------
\* The cached status and metrics, which the dashboard shows as the Pi's, are answers
\* of the address that is configured now: an answer that arrives after SetAddress
\* does not replace what it reset (the comparisons of clients in Probe and poll).
CacheIsOfCurrentClient == status.of = client /\ metrics = client

\* Whenever a handler goes on to act, the configured address did lead, at some time
\* since the request began, to a Pi that can do the operation and, for a switch, is
\* ready: neither a cached status nor an answer from a former address authorises it
\* ("so a stale successful poll cannot authorize a platform switch", Probe).
LivePiAuthorises ==
    \A r \in Request :
       At(r, "act") => \E f \in live[r] :
                          /\ Suits(Descriptor[f], call[r].kind[2])
                          /\ call[r].kind[1] = "select" => Descriptor[f].ready

\* After SetAddress the status does not stay pending, whatever polls and other
\* SetAddress calls are under way: the one token of wake is enough, the ticker is
\* not needed.
NewAddressIsPolled ==
    (client # None /\ status.got = Waiting) ~> (status.got # Waiting)
=============================================================================
