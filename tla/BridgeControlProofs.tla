------------------------ MODULE BridgeControlProofs ------------------------
(***************************************************************************)
(* Theorems about BridgeControl, for every set of addresses, Pis, requests *)
(* and address changes and every number of restarts.                       *)
(***************************************************************************)
EXTENDS BridgeControl, TLAPS

\* A client that a SetAddress call has made and not installed yet is new to
\* everybody else: nobody asked through it.
Pristine(u) == setter[u].step \in {"persist", "install"}
FreshClients ==
    \A u \in Setter :
        /\ Pristine(u) => setter[u].client \in Clients /\ setter[u].client.by = u
        /\ setter[u].step = "idle" \/ Pristine(u) =>
              /\ client # None => client.by # u
              /\ \A c \in Caller : call[c].client # None => call[c].client.by # u

Working(r) == call[r].step \notin {"idle", "done"}

\* live has what the configured address leads to now, and every answer that may
\* still count.
AnswerIsLive(r) ==
    /\ Working(r) => Behind(pi, client) \subseteq live[r]
    /\ At(r, "asked") \/ At(r, "answered") => call[r].client # None
    /\ At(r, "answered") /\ call[r].client = client /\ call[r].answer \in Firmware
          => call[r].answer \in live[r]
    /\ At(r, "evaluate") /\ call[r].answer \in Firmware => call[r].answer \in live[r]

Accepted == {"compatible", "compatible-with-warnings"}

\* A favourable result was computed from such an answer.
ResultIsLive(r) ==
    At(r, "act") \/ (call[r].step \in {"save", "persist"} /\ call[r].result.state \in Accepted) =>
        /\ call[r].answer \in live[r] \cap Firmware
        /\ Suits(Descriptor[call[r].answer], call[r].kind[2])
        /\ At(r, "act") => Ready(r)

AnswersAreLive == \A r \in Request : AnswerIsLive(r) /\ ResultIsLive(r)

IInv == ControlTypeOK /\ CacheIsOfCurrentClient /\ FreshClients
        /\ AnswersAreLive

-----------------------------------------------------------------------------
Steps == {"idle", "probe", "asked", "answered", "metrics", "metricsAsked", "evaluate",
          "save", "persist", "act", "done"}
CallRecord == [step : Steps, kind : Handlers \X Operations, client : Clients \cup {None},
               answer : Answer, result : Result]
SetRecord == [step : {"idle", "persist", "install", "wake", "done"},
              client : Clients \cup {None}]

\* The types of the steps that only move a call on.
LEMMA CallTyped ==
    ASSUME ControlTypeOK, NEW c \in Caller
    PROVE  /\ call[c] \in CallRecord
           /\ NoCall \in CallRecord /\ Done \in CallRecord
           /\ \A step \in Steps : [call[c] EXCEPT !.step = step] \in CallRecord
<1>1. call[c] \in CallRecord
  BY DEF ControlTypeOK, CallRecord, Steps
<1>2. NoCall \in CallRecord /\ Done \in CallRecord
  BY DEF CallRecord, NoCall, Done, Steps, Handlers, Operations, Answer, Result, Unknown,
         States, Devices
<1>3. QED
  BY <1>1, <1>2 DEF CallRecord

LEMMA StepTyped ==
    ASSUME ControlTypeOK, NEW c \in Caller, NEW next \in CallRecord, Step(c, next)
    PROVE  call' \in [Caller -> CallRecord]
BY DEF ControlTypeOK, CallRecord, Steps, Step

LEMMA TypeInit == Init => ControlTypeOK
<1> SUFFICES ASSUME Init PROVE ControlTypeOK
  OBVIOUS
<1>1. client \in Clients \cup {None}
  BY ControlAssumption DEF Init, Started, Clients
<1>2. call \in [Caller -> CallRecord]
  BY DEF Init, CallRecord, NoCall, Steps, Handlers, Operations, Answer, Result, Unknown,
         States, Devices
<1>3. setter \in [Setter -> [step : {"idle", "persist", "install", "wake", "done"},
                             client : Clients \cup {None}]]
  BY DEF Init, NoSetter
<1>4. status \in [of : Clients \cup {None}, got : Answer]
  BY <1>1 DEF Init, Pending, Answer
<1>5. QED
  BY <1>1, <1>2, <1>3, <1>4, ControlAssumption
     DEF Init, ControlTypeOK, CallRecord, Steps, Devices

\* What a step leaves to show once it has moved one call on.
LEMMA TypeFrame ==
    ASSUME ControlTypeOK, call' \in [Caller -> CallRecord],
           UNCHANGED <<pi, saved, cache, client, metrics, compatibility, setter>>,
           wake' \in BOOLEAN, status' \in [of : Clients \cup {None}, got : Answer],
           live' \in [Request -> SUBSET Firmware]
    PROVE  ControlTypeOK'
BY DEF ControlTypeOK, CallRecord, Steps, Clients, Answer, Devices, Result

LEMMA ObserveTyped ==
    ASSUME ControlTypeOK, Observe
    PROVE  live' \in [Request -> SUBSET Firmware]
BY DEF ControlTypeOK, Observe, Behind

LEMMA ProbedTyped ==
    ASSUME ControlTypeOK, NEW c \in Caller, NEW answer \in Answer, Probed(c, answer)
    PROVE  call' \in [Caller -> CallRecord]
<1>1. call[c] \in CallRecord
  BY CallTyped
<1>2. [NoCall EXCEPT !.step = "metrics"] \in CallRecord
  BY DEF CallRecord, NoCall, Steps, Handlers, Operations, Answer, Result, Unknown,
         States, Devices
<1>3. [call[c] EXCEPT !.step = "evaluate", !.client = None, !.answer = answer] \in CallRecord
  BY <1>1 DEF CallRecord, Steps
<1>4. QED
  BY <1>2, <1>3, StepTyped DEF Probed

LEMMA EvaluateTyped ==
    ASSUME NEW f \in Firmware, NEW operation, NEW expected
    PROVE  Evaluate(Descriptor[f], operation, expected) \in Result
BY DEF Evaluate, Result, States, Devices

LEMMA TypeNext == ControlTypeOK /\ FreshClients /\ [Next]_vars => ControlTypeOK'
<1> SUFFICES ASSUME ControlTypeOK, FreshClients, [Next]_vars PROVE ControlTypeOK'
  OBVIOUS
<1> USE DEF managerVars, envVars
<1>0. /\ wake \in BOOLEAN /\ status \in [of : Clients \cup {None}, got : Answer]
      /\ live \in [Request -> SUBSET Firmware] /\ client \in Clients \cup {None}
  BY DEF ControlTypeOK
<1>1. ASSUME NEW c \in Caller, ProbeBegin(c) PROVE ControlTypeOK'
  <2>1. Failed \in Answer /\ call[c] \in CallRecord
    BY CallTyped DEF Answer
  <2>2. [call[c] EXCEPT !.client = client, !.step = "asked"] \in CallRecord
    BY <1>0, <2>1 DEF CallRecord, Steps
  <2>3. call' \in [Caller -> CallRecord]
    BY <1>1, <2>1, <2>2, StepTyped, ProbedTyped DEF ProbeBegin
  <2>4. QED
    BY <1>0, <1>1, <2>3, TypeFrame DEF ProbeBegin
<1>2. ASSUME NEW c \in Caller, PiAnswers(c) PROVE ControlTypeOK'
  <2>1. PICK a \in Answer : Step(c, [call[c] EXCEPT !.answer = a, !.step = "answered"])
    BY <1>2 DEF PiAnswers, Behind, Answer
  <2>2. call[c] \in CallRecord
    BY CallTyped
  <2>3. [call[c] EXCEPT !.answer = a, !.step = "answered"] \in CallRecord
    BY <2>2 DEF CallRecord, Steps
  <2>4. call' \in [Caller -> CallRecord]
    BY <2>1, <2>3, StepTyped
  <2>5. QED
    BY <1>0, <1>2, <2>4, TypeFrame DEF PiAnswers
<1>3. ASSUME NEW c \in Caller, ProbeStore(c) PROVE ControlTypeOK'
  <2>1. call[c].answer \in Answer /\ Failed \in Answer
    BY CallTyped DEF CallRecord, Answer
  <2>2. call' \in [Caller -> CallRecord]
    BY <1>3, <2>1, ProbedTyped DEF ProbeStore
  <2>3. status' \in [of : Clients \cup {None}, got : Answer]
    BY <1>0, <1>3, <2>1 DEF ProbeStore
  <2>4. QED
    BY <1>0, <1>3, <2>2, <2>3, TypeFrame DEF ProbeStore
<1>4. ASSUME MetricsBegin PROVE ControlTypeOK'
  <2>1. Poller \in Caller
    BY DEF Caller
  <2>2. NoCall \in CallRecord /\ call[Poller] \in CallRecord
    BY <2>1, CallTyped
  <2>3. [call[Poller] EXCEPT !.step = "metricsAsked", !.client = client] \in CallRecord
    BY <1>0, <2>2 DEF CallRecord, Steps
  <2>4. call' \in [Caller -> CallRecord]
    BY <1>4, <2>1, <2>2, <2>3, StepTyped DEF MetricsBegin
  <2>5. QED
    BY <1>0, <1>4, <2>4, TypeFrame DEF MetricsBegin
<1>5. ASSUME MetricsStore PROVE ControlTypeOK'
  <2>1. Poller \in Caller
    BY DEF Caller
  <2>2. call' \in [Caller -> CallRecord]
    BY <1>5, <2>1, CallTyped, StepTyped DEF MetricsStore
  <2>3. metrics' \in Clients \cup {None}
    BY <1>5, <2>1, CallTyped DEF MetricsStore, ControlTypeOK, CallRecord
  <2>4. QED
    BY <1>5, <2>2, <2>3 DEF MetricsStore, ControlTypeOK, CallRecord, Steps, Clients,
                            Answer, Devices, Result
<1>6. ASSUME PollOnWake \/ PollOnTick PROVE ControlTypeOK'
  <2>1. Poller \in Caller /\ "probe" \in Steps
    BY DEF Caller, Steps
  <2>2. call' \in [Caller -> CallRecord]
    BY <1>6, <2>1, CallTyped, StepTyped DEF PollOnWake, PollOnTick, Go
  <2>3. QED
    BY <1>0, <1>6, <2>2, TypeFrame DEF PollOnWake, PollOnTick
<1>7. ASSUME NEW u \in Setter, SetStep(u) \/ \E a \in Address : NewClient(u, a)
      PROVE ControlTypeOK'
  <2> USE DEF Setting, NextStep, Served, ControlTypeOK, Clients
  <2>1. CASE \E a \in Address : NewClient(u, a)
    <3>1. setter' \in [Setter -> SetRecord]
      BY <2>1 DEF NewClient, SetRecord
    <3>2. QED
      BY <2>1, <3>1 DEF NewClient, Answer, Devices, Result, SetRecord
  <2>2. CASE PersistAddress(u)
    <3>1. setter[u].step = "persist" /\ setter[u].client \in Clients
      BY <2>2 DEF PersistAddress, FreshClients, Pristine
    <3>2. setter' \in [Setter -> SetRecord] /\ saved' \in Address \cup {None}
      BY <2>2, <3>1 DEF PersistAddress, SetRecord
    <3>3. QED
      BY <2>2, <3>2 DEF PersistAddress, Answer, Devices, Result, SetRecord
  <2>3. CASE Install(u)
    <3>1. live' \in [Request -> SUBSET Firmware]
      BY <2>3, ObserveTyped DEF Install
    <3>2. setter' \in [Setter -> SetRecord] /\ client' \in Clients \cup {None}
      BY <2>3 DEF Install, SetRecord
    <3>3. status' \in [of : Clients \cup {None}, got : Answer]
      BY <2>3, <3>2 DEF Install, Answer, Pending
    <3>4. QED
      BY <2>3, <3>1, <3>2, <3>3 DEF Install, Answer, Devices, Result, SetRecord
  <2>4. CASE Wake(u)
    BY <2>4 DEF Wake, Answer, Devices, Result
  <2>5. QED
    BY <1>7, <2>1, <2>2, <2>3, <2>4 DEF SetStep
<1>8. ASSUME NEW r \in Request, NEW kind \in Kinds, Begin(r, kind) PROVE ControlTypeOK'
  <2>1. r \in Caller /\ kind \in Handlers \X Operations
    BY ControlAssumption DEF Caller
  <2>2. [NoCall EXCEPT !.step = "probe", !.kind = kind] \in CallRecord
    BY <2>1, CallTyped DEF CallRecord, NoCall, Steps
  <2>3. call' \in [Caller -> CallRecord]
    BY <1>8, <2>1, <2>2, StepTyped DEF Begin
  <2>4. live' \in [Request -> SUBSET Firmware]
    BY <1>0, <1>8 DEF Begin, Behind
  <2>5. QED
    BY <1>0, <1>8, <2>3, <2>4, TypeFrame DEF Begin
<1>9. ASSUME NEW r \in Request, EvaluateCall(r) PROVE ControlTypeOK'
  <2>1. r \in Caller /\ call[r] \in CallRecord
    BY CallTyped DEF Caller
  <2> DEFINE result == IF Evidence(r) \in Firmware
                       THEN Evaluate(Descriptor[Evidence(r)], call[r].kind[2], compatibility)
                       ELSE Unreachable
  <2>2. result \in Result /\ Evidence(r) \in Answer
    <3>1. Unreachable \in Result
      BY DEF Unreachable, Result, States, Devices
    <3>2. QED
      BY <2>1, <3>1, EvaluateTyped DEF Evidence, CallRecord
  <2>3. [call[r] EXCEPT !.step = "save", !.answer = Evidence(r), !.result = result]
           \in CallRecord
    BY <2>1, <2>2 DEF CallRecord, Steps
  <2>4. call' \in [Caller -> CallRecord]
    BY <1>9, <2>1, <2>3, StepTyped DEF EvaluateCall
  <2>5. QED
    BY <1>0, <1>9, <2>4, TypeFrame DEF EvaluateCall
<1>10. ASSUME NEW r \in Request, SaveResult(r) \/ PersistResult(r) \/ Act(r)
       PROVE ControlTypeOK'
  <2>1. r \in Caller /\ call[r] \in CallRecord /\ {"persist", "act"} \subseteq Steps
    BY CallTyped DEF Caller, Steps
  <2>2. call' \in [Caller -> CallRecord]
    BY <1>10, <2>1, CallTyped, StepTyped DEF SaveResult, PersistResult, Act, Go
  <2>3. call[r].result.device \in Devices
    BY <2>1 DEF CallRecord, Result
  <2>4. live' \in [Request -> SUBSET Firmware]
    BY <1>0, <1>10, ObserveTyped DEF SaveResult, PersistResult, Act
  <2>5. QED
    BY <1>10, <2>2, <2>3, <2>4 DEF SaveResult, PersistResult, Act, ControlTypeOK,
          CallRecord, Steps, Clients, Answer, Devices, Result
<1>11. ASSUME NEW a \in Address, NEW f \in Firmware \cup {None}, Change(a, f)
       PROVE ControlTypeOK'
  <2>1. pi' \in [Address -> Firmware \cup {None}]
    BY <1>11 DEF Change, ControlTypeOK
  <2>2. live' \in [Request -> SUBSET Firmware]
    BY <1>11, ObserveTyped DEF Change
  <2>3. QED
    BY <1>11, <2>1, <2>2 DEF Change, ControlTypeOK, Clients, Answer, Devices, Result
<1>12. ASSUME Restart PROVE ControlTypeOK'
  <2>1. client' \in Clients \cup {None}
    BY <1>12, ControlAssumption DEF Restart, Started, Clients, ControlTypeOK
  <2>2. ASSUME NEW c \in Caller
        PROVE (IF c = Poller THEN [NoCall EXCEPT !.step = "probe"]
               ELSE IF At(c, "idle") THEN call[c] ELSE Done) \in CallRecord
    <3>1. [NoCall EXCEPT !.step = "probe"] \in CallRecord
      BY <2>2, CallTyped DEF CallRecord, NoCall, Steps
    <3>2. QED
      BY <3>1, <2>2, CallTyped
  <2>3. call' \in [Caller -> CallRecord]
    BY <1>12, <2>2 DEF Restart
  <2>4. status' \in [of : Clients \cup {None}, got : Answer]
    BY <1>12, <2>1 DEF Restart, Pending, Answer
  <2>5. setter' \in [Setter -> [step : {"idle", "persist", "install", "wake", "done"},
                                client : Clients \cup {None}]]
    BY <1>12 DEF Restart, Served, ControlTypeOK
  <2>6. QED
    BY <1>12, <2>1, <2>3, <2>4, <2>5 DEF Restart, ControlTypeOK, CallRecord, Steps,
          Clients, Answer, Devices, Result
<1>13. CASE UNCHANGED vars
  BY <1>13 DEF vars, ControlTypeOK, Clients, Answer, Devices, Result
<1>14. QED
  <2>1. Poller \in Caller /\ \A r \in Request : r \in Caller
    BY DEF Caller
  <2>2. CASE Next
    BY <2>1, <2>2, <1>1, <1>2, <1>3, <1>4, <1>5, <1>6, <1>7, <1>8, <1>9, <1>10, <1>11, <1>12
       DEF Next, PollStep, CheckStep
  <2>3. QED
    BY <1>13, <2>2

-----------------------------------------------------------------------------
\* A call's client is the manager's, the one it had, or none.
Inherits(c) == call'[c].client \in {None, client, call[c].client}

\* What Step leaves behind.
LEMMA StepAt ==
    ASSUME ControlTypeOK, NEW d \in Caller, NEW next, Step(d, next)
    PROVE  call'[d] = next /\ \A c \in Caller \ {d} : call'[c] = call[c]
BY DEF ControlTypeOK, Step

LEMMA CallInherits ==
    ASSUME ControlTypeOK, NEW d \in Caller,
           \/ ProbeBegin(d) \/ PiAnswers(d) \/ ProbeStore(d)
           \/ MetricsBegin \/ MetricsStore \/ PollOnWake \/ PollOnTick
           \/ d \in Request /\ \E kind \in Kinds : Begin(d, kind)
           \/ d \in Request /\ (EvaluateCall(d) \/ SaveResult(d) \/ PersistResult(d) \/ Act(d))
    PROVE  \A c \in Caller : Inherits(c)
<1>1. ASSUME NEW e \in Caller, NEW next, Step(e, next),
             next.client = None \/ next.client = client \/ next.client = call[e].client
      PROVE  \A c \in Caller : Inherits(c)
  BY <1>1, StepAt DEF Inherits
<1>2. \A e \in Caller : call[e] \in CallRecord
  BY CallTyped
<1>3. Poller \in Caller
  BY DEF Caller
<1>4. NoCall.client = None /\ Done.client = None
  BY DEF NoCall, Done
<1>5. ASSUME NEW e \in Caller, NEW step, Go(e, step) PROVE \A c \in Caller : Inherits(c)
  <2>1. [call[e] EXCEPT !.step = step].client = call[e].client
    BY <1>2 DEF CallRecord
  <2>2. QED
    BY <1>1, <1>5, <2>1 DEF Go
<1>6. ASSUME NEW answer, Probed(d, answer) PROVE \A c \in Caller : Inherits(c)
  <2>1. CASE d = Poller
    <3>1. [NoCall EXCEPT !.step = "metrics"].client = None
      BY DEF NoCall
    <3>2. Step(d, [NoCall EXCEPT !.step = "metrics"])
      BY <1>6, <2>1 DEF Probed
    <3>3. QED
      BY <1>1, <3>1, <3>2
  <2>2. CASE d # Poller
    <3>1. [call[d] EXCEPT !.step = "evaluate", !.client = None, !.answer = answer].client
             = None
      BY <1>2 DEF CallRecord
    <3>2. Step(d, [call[d] EXCEPT !.step = "evaluate", !.client = None, !.answer = answer])
      BY <1>6, <2>2 DEF Probed
    <3>3. QED
      BY <1>1, <3>1, <3>2
  <2>3. QED
    BY <2>1, <2>2
<1>7. CASE ProbeBegin(d)
  <2>1. CASE client = None
    BY <1>6, <1>7, <2>1 DEF ProbeBegin
  <2>2. CASE client # None
    <3>1. [call[d] EXCEPT !.client = client, !.step = "asked"].client = client
      BY <1>2 DEF CallRecord
    <3>2. Step(d, [call[d] EXCEPT !.client = client, !.step = "asked"])
      BY <1>7, <2>2 DEF ProbeBegin
    <3>3. QED
      BY <1>1, <3>1, <3>2
  <2>3. QED
    BY <2>1, <2>2
<1>8. CASE PiAnswers(d)
  <2>1. PICK a : Step(d, [call[d] EXCEPT !.answer = a, !.step = "answered"])
    BY <1>8 DEF PiAnswers
  <2>2. [call[d] EXCEPT !.answer = a, !.step = "answered"].client = call[d].client
    BY <1>2 DEF CallRecord
  <2>3. QED
    BY <1>1, <2>1, <2>2
<1>9. CASE ProbeStore(d)
  BY <1>6, <1>9 DEF ProbeStore
<1>10. CASE MetricsBegin
  <2>1. CASE client = None
    BY <1>1, <1>3, <1>4, <1>10, <2>1 DEF MetricsBegin
  <2>2. CASE client # None
    <3>1. [call[Poller] EXCEPT !.step = "metricsAsked", !.client = client].client = client
      BY <1>2, <1>3 DEF CallRecord
    <3>2. Step(Poller, [call[Poller] EXCEPT !.step = "metricsAsked", !.client = client])
      BY <1>10, <2>2 DEF MetricsBegin
    <3>3. QED
      BY <1>1, <1>3, <3>1, <3>2
  <2>3. QED
    BY <2>1, <2>2
<1>11. CASE MetricsStore
  BY <1>1, <1>3, <1>4, <1>11 DEF MetricsStore
<1>12. CASE PollOnWake \/ PollOnTick
  BY <1>3, <1>5, <1>12 DEF PollOnWake, PollOnTick
<1>13. CASE d \in Request /\ \E kind \in Kinds : Begin(d, kind)
  <2>1. PICK kind \in Kinds : Step(d, [NoCall EXCEPT !.step = "probe", !.kind = kind])
    BY <1>13 DEF Begin
  <2>2. [NoCall EXCEPT !.step = "probe", !.kind = kind].client = None
    BY DEF NoCall
  <2>3. QED
    BY <1>1, <2>1, <2>2
<1>14. CASE d \in Request /\ EvaluateCall(d)
  <2>1. PICK a, x : Step(d, [call[d] EXCEPT !.step = "save", !.answer = a, !.result = x])
    BY <1>14 DEF EvaluateCall
  <2>2. [call[d] EXCEPT !.step = "save", !.answer = a, !.result = x].client = call[d].client
    BY <1>2 DEF CallRecord
  <2>3. QED
    BY <1>1, <2>1, <2>2
<1>15. CASE d \in Request /\ (SaveResult(d) \/ PersistResult(d) \/ Act(d))
  BY <1>1, <1>4, <1>5, <1>15 DEF SaveResult, PersistResult, Act
<1>16. QED
  BY <1>7, <1>8, <1>9, <1>10, <1>11, <1>12, <1>13, <1>14, <1>15

LEMMA FreshNext == ControlTypeOK /\ FreshClients /\ [Next]_vars => FreshClients'
<1> SUFFICES ASSUME ControlTypeOK, FreshClients, [Next]_vars PROVE FreshClients'
  OBVIOUS
<1> USE DEF managerVars, envVars
<1>1. ASSUME UNCHANGED <<setter, client>>, \A c \in Caller : Inherits(c)
      PROVE  FreshClients'
  BY <1>1 DEF FreshClients, Pristine, Inherits, Clients
<1>2. ASSUME NEW d \in Caller,
             \/ ProbeBegin(d) \/ PiAnswers(d) \/ ProbeStore(d)
             \/ MetricsBegin \/ MetricsStore \/ PollOnWake \/ PollOnTick
             \/ d \in Request /\ \E kind \in Kinds : Begin(d, kind)
             \/ d \in Request
                /\ (EvaluateCall(d) \/ SaveResult(d) \/ PersistResult(d) \/ Act(d))
      PROVE  FreshClients'
  <2>1. \A c \in Caller : Inherits(c)
    BY <1>2, CallInherits
  <2>2. UNCHANGED <<setter, client>>
    BY <1>2 DEF ProbeBegin, PiAnswers, ProbeStore, MetricsBegin, MetricsStore, PollOnWake,
          PollOnTick, Begin, EvaluateCall, SaveResult, PersistResult, Act
  <2>3. QED
    BY <1>1, <2>1, <2>2
<1>3. ASSUME NEW u \in Setter, NEW a \in Address, NewClient(u, a) PROVE FreshClients'
  <2>1. [addr |-> a, by |-> u] \in Clients
    BY DEF Clients
  <2>2. QED
    BY <1>3, <2>1 DEF NewClient, NextStep, FreshClients, Pristine, ControlTypeOK, Clients
<1>4. ASSUME NEW u \in Setter, PersistAddress(u) PROVE FreshClients'
  BY <1>4 DEF PersistAddress, Setting, NextStep, Served, FreshClients, Pristine,
              ControlTypeOK, Clients
<1>5. ASSUME NEW u \in Setter, Install(u) PROVE FreshClients'
  <2>1. client' = setter[u].client /\ client'.by = u /\ UNCHANGED call
    BY <1>5 DEF Install, Setting, FreshClients, Pristine
  <2>2. setter' = [setter EXCEPT ![u] = [@ EXCEPT !.step = "wake"]]
    BY <1>5 DEF Install, Setting, NextStep
  <2>3. QED
    BY <2>1, <2>2 DEF FreshClients, Pristine, ControlTypeOK, Clients
<1>6. ASSUME NEW u \in Setter, Wake(u) PROVE FreshClients'
  <2>1. setter' = [setter EXCEPT ![u] = Served] /\ UNCHANGED <<client, call>>
    BY <1>6 DEF Wake, Setting, NextStep
  <2>2. QED
    BY <2>1 DEF Served, FreshClients, Pristine, ControlTypeOK, Clients
<1>7. ASSUME NEW a \in Address, NEW f \in Firmware \cup {None}, Change(a, f)
      PROVE  FreshClients'
  BY <1>7 DEF Change, FreshClients, Pristine, Clients
<1>8. ASSUME Restart PROVE FreshClients'
  <2>1. client' = None \/ client'.by = None
    BY <1>8 DEF Restart, Started
  <2>2. ASSUME NEW c \in Caller PROVE call'[c].client \in {None, call[c].client}
    <3>1. [NoCall EXCEPT !.step = "probe"].client = None /\ Done.client = None
      BY DEF NoCall, Done
    <3>2. QED
      BY <1>8, <2>2, <3>1 DEF Restart
  <2>3. \A u \in Setter : setter'[u] = IF setter[u].step = "idle" THEN setter[u] ELSE Served
    BY <1>8 DEF Restart
  <2>4. \A u \in Setter : setter'[u].step = "idle" => setter[u].step = "idle"
    BY <2>3 DEF Served
  <2>5. \A u \in Setter : ~Pristine(u)'
    BY <2>3 DEF Served, Pristine
  <2>6. \A u \in Setter : client' # None => client'.by # u
    BY <2>1, ControlAssumption
  <2>7. ASSUME NEW u \in Setter, setter'[u].step = "idle", NEW c \in Caller,
               call'[c].client # None
        PROVE  call'[c].client.by # u
    BY <2>2, <2>4, <2>7 DEF FreshClients
  <2>8. QED
    BY <2>5, <2>6, <2>7 DEF FreshClients
<1>9. CASE UNCHANGED vars
  BY <1>9 DEF vars, FreshClients, Pristine, Clients
<1>10. QED
  <2>1. Poller \in Caller /\ \A r \in Request : r \in Caller
    BY DEF Caller
  <2>2. CASE Next
    BY <2>1, <2>2, <1>2, <1>3, <1>4, <1>5, <1>6, <1>7, <1>8
       DEF Next, PollStep, SetStep, CheckStep
  <2>3. QED
    BY <1>9, <2>2

-----------------------------------------------------------------------------
\* A request that does not move keeps its answer: what it may count on only grows.
LEMMA LiveFrame ==
    ASSUME ControlTypeOK, NEW r \in Request, AnswerIsLive(r), ResultIsLive(r),
           call'[r] = call[r], UNCHANGED <<pi, client>>, live' = live \/ Observe
    PROVE  AnswerIsLive(r)' /\ ResultIsLive(r)'
<1>1. Working(r) => live[r] \subseteq live'[r]
  BY DEF ControlTypeOK, Observe, Working
<1>2. AnswerIsLive(r)'
  BY <1>1 DEF AnswerIsLive, Working, At, Behind
<1>3. ResultIsLive(r)'
  BY <1>1 DEF ResultIsLive, Working, At, Ready
<1>4. QED
  BY <1>2, <1>3

\* So does one during which the Pi, or the manager's client, is exchanged.
LEMMA LiveChange ==
    ASSUME ControlTypeOK, NEW r \in Request, AnswerIsLive(r), ResultIsLive(r),
           UNCHANGED call, Observe, client' = client \/ client' # call[r].client
    PROVE  AnswerIsLive(r)' /\ ResultIsLive(r)'
<1>1. Working(r) => live[r] \subseteq live'[r] /\ Behind(pi', client') \subseteq live'[r]
  BY DEF ControlTypeOK, Observe, Working
<1>2. AnswerIsLive(r)'
  BY <1>1 DEF AnswerIsLive, Working, At, Behind
<1>3. ResultIsLive(r)'
  BY <1>1 DEF ResultIsLive, Working, At, Ready
<1>4. QED
  BY <1>2, <1>3

\* The steps of the request itself.
LEMMA LiveProbe ==
    ASSUME ControlTypeOK, NEW r \in Request, AnswerIsLive(r), ResultIsLive(r),
           ProbeBegin(r) \/ PiAnswers(r) \/ ProbeStore(r)
    PROVE  AnswerIsLive(r)' /\ ResultIsLive(r)'
<1> USE DEF managerVars, envVars
<1>1. r \in Caller /\ r # Poller /\ call[r] \in CallRecord
  BY ControlAssumption, CallTyped DEF Caller
<1>2. UNCHANGED <<pi, client, live>>
  BY DEF ProbeBegin, PiAnswers, ProbeStore
<1>3. ASSUME NEW answer, Probed(r, answer), Working(r),
             answer \in Firmware => answer \in live[r]
      PROVE  AnswerIsLive(r)' /\ ResultIsLive(r)'
  <2>1. call'[r] = [call[r] EXCEPT !.step = "evaluate", !.client = None, !.answer = answer]
    BY <1>1, <1>3, StepAt DEF Probed
  <2>2. call'[r].step = "evaluate" /\ call'[r].answer = answer
    BY <1>1, <2>1 DEF CallRecord
  <2>3. QED
    BY <1>2, <1>3, <2>2 DEF AnswerIsLive, ResultIsLive, Working, At, Behind
<1>4. CASE ProbeBegin(r)
  <2>1. CASE client = None
    BY <1>3, <1>4, <2>1, ControlAssumption DEF ProbeBegin, Working, At
  <2>2. CASE client # None
    <3>1. call'[r] = [call[r] EXCEPT !.client = client, !.step = "asked"]
      BY <1>1, <1>4, <2>2, StepAt DEF ProbeBegin
    <3>2. call'[r].step = "asked" /\ call'[r].client = client
      BY <1>1, <3>1 DEF CallRecord
    <3>3. QED
      BY <1>2, <1>4, <2>2, <3>2
         DEF AnswerIsLive, ResultIsLive, Working, At, Behind, ProbeBegin
  <2>3. QED
    BY <2>1, <2>2
<1>5. CASE PiAnswers(r)
  <2>1. PICK a \in {Failed} \cup Behind(pi, call[r].client) :
             Step(r, [call[r] EXCEPT !.answer = a, !.step = "answered"])
    BY <1>5 DEF PiAnswers
  <2>2. call'[r] = [call[r] EXCEPT !.answer = a, !.step = "answered"]
    BY <1>1, <2>1, StepAt
  <2>3. call'[r].step = "answered" /\ call'[r].answer = a /\ call'[r].client = call[r].client
    BY <1>1, <2>2 DEF CallRecord
  <2>4. QED
    BY <1>2, <1>5, <2>1, <2>3, ControlAssumption
       DEF AnswerIsLive, ResultIsLive, Working, At, Behind, PiAnswers
<1>6. CASE ProbeStore(r)
  <2>1. Working(r) /\ Failed \notin Firmware
    BY <1>6, ControlAssumption DEF ProbeStore, Working, At
  <2>2. CASE call[r].client = client
    BY <1>3, <1>6, <2>1, <2>2 DEF ProbeStore, AnswerIsLive
  <2>3. CASE call[r].client # client
    BY <1>3, <1>6, <2>1, <2>3 DEF ProbeStore
  <2>4. QED
    BY <2>2, <2>3
<1>7. QED
  BY <1>4, <1>5, <1>6

LEMMA LiveHandler ==
    ASSUME ControlTypeOK, NEW r \in Request, AnswerIsLive(r), ResultIsLive(r),
           \/ \E kind \in Kinds : Begin(r, kind)
           \/ EvaluateCall(r) \/ SaveResult(r) \/ PersistResult(r) \/ Act(r)
    PROVE  AnswerIsLive(r)' /\ ResultIsLive(r)'
<1> USE DEF managerVars, envVars
<1>1. r \in Caller /\ call[r] \in CallRecord
  BY CallTyped DEF Caller
<1>2. UNCHANGED <<pi, client>>
  BY DEF Begin, EvaluateCall, SaveResult, PersistResult, Act
<1>3. ASSUME NEW step, Go(r, step)
      PROVE  /\ call'[r].step = step /\ call'[r].client = call[r].client
             /\ call'[r].answer = call[r].answer /\ call'[r].kind = call[r].kind
             /\ call'[r].result = call[r].result
  <2>1. call'[r] = [call[r] EXCEPT !.step = step]
    BY <1>1, <1>3, StepAt DEF Go
  <2>2. QED
    BY <1>1, <2>1 DEF CallRecord
<1>4. ASSUME Step(r, Done) PROVE AnswerIsLive(r)' /\ ResultIsLive(r)'
  <2>1. call'[r].step = "done"
    BY <1>1, <1>4, StepAt DEF Done, NoCall
  <2>2. QED
    BY <2>1 DEF AnswerIsLive, ResultIsLive, Working, At
<1>5. ASSUME NEW kind \in Kinds, Begin(r, kind) PROVE AnswerIsLive(r)' /\ ResultIsLive(r)'
  <2>1. call'[r] = [NoCall EXCEPT !.step = "probe", !.kind = kind]
    BY <1>1, <1>5, StepAt DEF Begin
  <2>2. call'[r].step = "probe"
    BY <2>1 DEF NoCall
  <2>3. live'[r] = Behind(pi, client)
    BY <1>5 DEF Begin, ControlTypeOK
  <2>4. QED
    BY <1>2, <2>2, <2>3 DEF AnswerIsLive, ResultIsLive, Working, At, Behind
<1>6. CASE EvaluateCall(r)
  <2> DEFINE result == IF Evidence(r) \in Firmware
                       THEN Evaluate(Descriptor[Evidence(r)], call[r].kind[2], compatibility)
                       ELSE Unreachable
  <2>1. call'[r] = [call[r] EXCEPT !.step = "save", !.answer = Evidence(r), !.result = result]
    BY <1>1, <1>6, StepAt DEF EvaluateCall
  <2>2. /\ call'[r].step = "save" /\ call'[r].answer = call[r].answer
        /\ call'[r].result = result /\ call'[r].kind = call[r].kind
    BY <1>1, <2>1 DEF CallRecord, Evidence
  <2>3. ASSUME result.state \in Accepted
        PROVE  /\ call[r].answer \in Firmware
               /\ Suits(Descriptor[call[r].answer], call[r].kind[2])
    BY <2>3 DEF Accepted, Evidence, Evaluate, Unreachable
  <2>4. live' = live /\ At(r, "evaluate")
    BY <1>6 DEF EvaluateCall
  <2>5. ResultIsLive(r)'
    <3> HIDE DEF result
    <3>1. QED
      BY <2>2, <2>3, <2>4 DEF ResultIsLive, AnswerIsLive, At
  <2>6. AnswerIsLive(r)'
    BY <1>2, <2>2, <2>4 DEF AnswerIsLive, Working, At, Behind
  <2>7. QED
    BY <2>5, <2>6
<1>7. CASE SaveResult(r)
  <2>1. live' = live /\ At(r, "save") /\ Go(r, "persist")
    BY <1>7 DEF SaveResult
  <2>2. QED
    BY <1>2, <1>3, <2>1 DEF AnswerIsLive, ResultIsLive, Working, At, Behind
<1>8. CASE PersistResult(r)
  <2>1. CASE Go(r, "act") /\ call[r].result.state \in Accepted /\ Ready(r)
    <3>1. At(r, "persist") /\ Observe
      BY <1>8 DEF PersistResult
    <3>2. live'[r] = live[r] \cup Behind(pi', client')
      BY <1>3, <2>1, <3>1 DEF Observe
    <3>3. Ready(r)'
      BY <1>3, <2>1 DEF Ready
    <3>4. QED
      BY <1>2, <1>3, <2>1, <3>1, <3>2, <3>3 DEF AnswerIsLive, ResultIsLive, Working, At
  <2>2. QED
    BY <1>4, <1>8, <2>1 DEF PersistResult, Accepted
<1>9. CASE Act(r)
  BY <1>4, <1>9 DEF Act
<1>10. QED
  BY <1>5, <1>6, <1>7, <1>8, <1>9

LEMMA LiveNext ==
    ControlTypeOK /\ FreshClients /\ AnswersAreLive /\ [Next]_vars => AnswersAreLive'
<1> SUFFICES ASSUME ControlTypeOK, FreshClients, AnswersAreLive, [Next]_vars,
                    NEW r \in Request
             PROVE  AnswerIsLive(r)' /\ ResultIsLive(r)'
  BY DEF AnswersAreLive
<1> USE DEF managerVars, envVars
<1>1. AnswerIsLive(r) /\ ResultIsLive(r) /\ r \in Caller /\ r # Poller /\ Poller \in Caller
  BY ControlAssumption DEF AnswersAreLive, Caller
<1>2. ASSUME NEW c \in Caller, c # r, NEW next, Step(c, next), UNCHANGED <<pi, client>>,
             live' = live \/ Observe
      PROVE  AnswerIsLive(r)' /\ ResultIsLive(r)'
  BY <1>1, <1>2, StepAt, LiveFrame
<1>3. ASSUME NEW c \in Caller, c # r, ProbeBegin(c) \/ PiAnswers(c) \/ ProbeStore(c)
      PROVE  AnswerIsLive(r)' /\ ResultIsLive(r)'
  <2>1. UNCHANGED <<pi, client, live>> /\ \E next : Step(c, next)
    BY <1>3 DEF ProbeBegin, PiAnswers, ProbeStore, Probed
  <2>2. QED
    BY <1>2, <1>3, <2>1
<1>4. ASSUME MetricsBegin \/ MetricsStore \/ PollOnWake \/ PollOnTick
      PROVE  AnswerIsLive(r)' /\ ResultIsLive(r)'
  <2>1. UNCHANGED <<pi, client, live>> /\ \E next : Step(Poller, next)
    BY <1>4 DEF MetricsBegin, MetricsStore, PollOnWake, PollOnTick, Go
  <2>2. QED
    BY <1>1, <1>2, <2>1
<1>5. ASSUME NEW q \in Request, q # r, NEW kind \in Kinds, Begin(q, kind)
      PROVE  AnswerIsLive(r)' /\ ResultIsLive(r)'
  <2>1. UNCHANGED <<pi, client>> /\ live'[r] = live[r]
    BY <1>5 DEF Begin, ControlTypeOK
  <2>2. call'[r] = call[r]
    BY <1>1, <1>5, StepAt DEF Begin, Caller
  <2>3. QED
    BY <1>1, <2>1, <2>2 DEF AnswerIsLive, ResultIsLive, Working, At, Behind, Ready
<1>6. ASSUME NEW q \in Request, q # r,
             EvaluateCall(q) \/ SaveResult(q) \/ PersistResult(q) \/ Act(q)
      PROVE  AnswerIsLive(r)' /\ ResultIsLive(r)'
  <2>1. UNCHANGED <<pi, client>> /\ (live' = live \/ Observe) /\ \E next : Step(q, next)
    BY <1>6 DEF EvaluateCall, SaveResult, PersistResult, Act, Go
  <2>2. QED
    BY <1>2, <1>6, <2>1 DEF Caller
<1>7. ASSUME NEW u \in Setter, NEW a \in Address,
             PersistAddress(u) \/ Wake(u) \/ NewClient(u, a)
      PROVE  AnswerIsLive(r)' /\ ResultIsLive(r)'
  <2>1. UNCHANGED <<pi, client, live, call>>
    BY <1>7 DEF PersistAddress, Wake, NewClient
  <2>2. QED
    BY <1>1, <2>1, LiveFrame
<1>8. ASSUME NEW u \in Setter, Install(u) PROVE AnswerIsLive(r)' /\ ResultIsLive(r)'
  <2>1. UNCHANGED call /\ Observe /\ client' = setter[u].client /\ Pristine(u)
    BY <1>8 DEF Install, Setting, Pristine
  <2>2. client'.by = u /\ (call[r].client # None => call[r].client.by # u)
    BY <1>1, <2>1 DEF FreshClients
  <2>3. CASE call[r].client # None
    BY <1>1, <2>1, <2>2, <2>3, LiveChange
  <2>4. CASE call[r].client = None
    <3>1. Working(r) => live[r] \subseteq live'[r] /\ Behind(pi', client') \subseteq live'[r]
      BY <2>1 DEF Observe, Working
    <3>2. ~At(r, "answered") /\ ~At(r, "asked")
      BY <1>1, <2>4 DEF AnswerIsLive
    <3>3. QED
      BY <1>1, <2>1, <3>1, <3>2 DEF AnswerIsLive, ResultIsLive, Working, At, Ready
  <2>5. QED
    BY <2>3, <2>4
<1>9. ASSUME NEW a \in Address, NEW f \in Firmware \cup {None}, Change(a, f)
      PROVE  AnswerIsLive(r)' /\ ResultIsLive(r)'
  <2>1. UNCHANGED <<call, client>> /\ Observe
    BY <1>9 DEF Change
  <2>2. QED
    BY <1>1, <2>1, LiveChange
<1>10. ASSUME Restart PROVE AnswerIsLive(r)' /\ ResultIsLive(r)'
  <2>1. call'[r].step \in {"idle", "done"}
    BY <1>1, <1>10 DEF Restart, Done, NoCall, At
  <2>2. QED
    BY <2>1 DEF AnswerIsLive, ResultIsLive, Working, At
<1>11. CASE UNCHANGED vars
  BY <1>1, <1>11, LiveFrame DEF vars
<1>12. CASE Next
  <2>1. ASSUME NEW q \in Request, CheckStep(q) \/ \E kind \in Kinds : Begin(q, kind)
        PROVE  AnswerIsLive(r)' /\ ResultIsLive(r)'
    <3>1. CASE q = r
      BY <1>1, <2>1, <3>1, LiveProbe, LiveHandler DEF CheckStep
    <3>2. CASE q # r
      BY <1>3, <1>5, <1>6, <2>1, <3>2 DEF CheckStep, Caller
    <3>3. QED
      BY <3>1, <3>2
  <2>2. CASE PollStep \/ PollOnTick
    BY <1>1, <1>3, <1>4, <2>2 DEF PollStep
  <2>3. ASSUME NEW u \in Setter, SetStep(u) \/ \E a \in Address : NewClient(u, a)
        PROVE  AnswerIsLive(r)' /\ ResultIsLive(r)'
    <3>1. CASE PersistAddress(u) \/ Wake(u)
      <4>1. UNCHANGED <<pi, client, live, call>>
        BY <3>1 DEF PersistAddress, Wake
      <4>2. QED
        BY <1>1, <4>1, LiveFrame
    <3>2. QED
      BY <1>7, <1>8, <2>3, <3>1 DEF SetStep
  <2>4. QED
    BY <1>9, <1>10, <1>12, <2>1, <2>2, <2>3 DEF Next
<1>13. QED
  BY <1>11, <1>12

LEMMA CacheNext ==
    CacheIsOfCurrentClient /\ [Next]_vars => CacheIsOfCurrentClient'
<1> SUFFICES ASSUME CacheIsOfCurrentClient, [Next]_vars PROVE CacheIsOfCurrentClient'
  OBVIOUS
<1> USE DEF CacheIsOfCurrentClient, managerVars, envVars
<1>0. ASSUME NEW c, ProbeBegin(c) \/ PiAnswers(c) \/ ProbeStore(c)
      PROVE  CacheIsOfCurrentClient'
  <2>1. CASE ProbeStore(c) /\ call[c].client = client
    BY <2>1 DEF ProbeStore
  <2>2. CASE ProbeStore(c) /\ call[c].client # client
    BY <2>2 DEF ProbeStore
  <2>3. CASE ProbeBegin(c) \/ PiAnswers(c)
    BY <2>3 DEF ProbeBegin, PiAnswers
  <2>4. QED
    BY <1>0, <2>1, <2>2, <2>3
<1>1. CASE PollStep \/ PollOnTick
  <2>1. CASE MetricsBegin \/ MetricsStore \/ PollOnWake \/ PollOnTick
    BY <2>1 DEF MetricsBegin, MetricsStore, PollOnWake, PollOnTick
  <2>2. QED
    BY <1>0, <1>1, <2>1 DEF PollStep
<1>2. ASSUME NEW u \in Setter, SetStep(u) \/ \E a \in Address : NewClient(u, a)
      PROVE  CacheIsOfCurrentClient'
  BY <1>2 DEF SetStep, NewClient, PersistAddress, Install, Wake, Pending
<1>3. ASSUME NEW r \in Request, CheckStep(r) \/ \E kind \in Kinds : Begin(r, kind)
      PROVE  CacheIsOfCurrentClient'
  <2>1. CASE EvaluateCall(r) \/ SaveResult(r) \/ PersistResult(r) \/ Act(r)
    BY <2>1 DEF EvaluateCall, SaveResult, PersistResult, Act
  <2>2. CASE \E kind \in Kinds : Begin(r, kind)
    BY <2>2 DEF Begin
  <2>3. QED
    BY <1>0, <1>3, <2>1, <2>2 DEF CheckStep
<1>4. ASSUME NEW a \in Address, NEW f \in Firmware \cup {None}, Change(a, f)
      PROVE  CacheIsOfCurrentClient'
  BY <1>4 DEF Change
<1>5. CASE Restart
  BY <1>5 DEF Restart, Pending
<1>6. CASE UNCHANGED vars
  BY <1>6 DEF vars
<1>7. QED
  BY <1>1, <1>2, <1>3, <1>4, <1>5, <1>6 DEF Next

\* The inductive invariant of the manager, the poller and the handlers.
THEOREM ControlInvariant == Spec => []IInv
<1>1. Init => IInv
  <2> SUFFICES ASSUME Init PROVE IInv
    OBVIOUS
  <2>1. CacheIsOfCurrentClient
    BY DEF Init, CacheIsOfCurrentClient, Pending
  <2>2. \A c \in Caller : call[c].client = None /\ (c \in Request => call[c].step = "idle")
    BY ControlAssumption DEF Init, NoCall, Caller
  <2>3. FreshClients
    BY <2>2, ControlAssumption DEF Init, FreshClients, Pristine, NoSetter, Started
  <2>4. AnswersAreLive
    BY <2>2 DEF AnswersAreLive, AnswerIsLive, ResultIsLive, Working, At, Caller
  <2>5. QED
    BY <2>1, <2>3, <2>4, TypeInit DEF IInv
<1>2. IInv /\ [Next]_vars => IInv'
  BY TypeNext, FreshNext, LiveNext, CacheNext DEF IInv
<1>3. QED
  BY <1>1, <1>2, PTL DEF Spec

\* The status and the metrics that the dashboard shows are of the configured address
\* (Probe, poll and SetAddress in bridgecontrol/manager.go), for every number of
\* addresses, address changes, requests, exchanged Pis and restarts.
THEOREM CacheOfCurrentClient == Spec => []CacheIsOfCurrentClient
BY ControlInvariant, PTL DEF IInv

\* A handler acts only after a Pi that the configured address led to since the
\* request began has answered that it can do the operation (freshCompatibility): a
\* cached status, an answer of a former address or a Pi that failed never suffice.
THEOREM LivePiAlwaysAuthorises == Spec => []LivePiAuthorises
<1>1. IInv => LivePiAuthorises
  <2> SUFFICES ASSUME IInv, NEW r \in Request, At(r, "act")
               PROVE  \E f \in live[r] : /\ Suits(Descriptor[f], call[r].kind[2])
                                         /\ call[r].kind[1] = "select" => Descriptor[f].ready
    BY DEF LivePiAuthorises
  <2>1. ResultIsLive(r)
    BY DEF IInv, AnswersAreLive
  <2>2. QED
    BY <2>1 DEF ResultIsLive, Ready
<1>2. QED
  BY <1>1, ControlInvariant, PTL
=============================================================================
