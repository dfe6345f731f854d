---------------------- MODULE LibraryGenerationsProofs ----------------------
(***************************************************************************)
(* Theorems about LibraryGenerations, for every number of files, changes,  *)
(* scans, disturbances and generations and every retention.                *)
(***************************************************************************)
EXTENDS LibraryGenerations, FiniteSetTheorems, WellFoundedInduction, TLAPS

Final(g) == gens[g].dir = "final"

\* Names and versions are given out in order.
Counters ==
    /\ builds \in 0 .. MaxGenerations /\ changes \in 0 .. MaxChanges
    /\ pointer <= builds
    /\ \A f \in File : source[f] <= changes

\* What was hashed or recorded is not newer than the source; a name that no
\* build has had yet names nothing; what has its final name was mapped after it
\* was hashed; and what has a receipt was summed.
GenerationOK(g) ==
    /\ \A f \in File : gens[g].sha[f] <= source[f] /\ gens[g].id[f] <= source[f]
    /\ g > builds => gens[g] = NoGeneration
    /\ Final(g) => \A f \in File : gens[g].sha[f] <= gens[g].id[f]
    /\ gens[g].receipt => \A f \in File : gens[g].sha[f] = gens[g].id[f]

Mapped == {"stat", "sum", "receipt", "write", "rename", "promote", "prune", "finish"}
Summed == {"receipt", "write", "rename", "promote", "prune", "finish"}
Unnamed == {"hash", "stage", "map", "stat", "sum", "receipt", "write", "rename"}

\* Where a job is, and what it has found out so far about its generation g: the
\* identities are not older than the hashes, and equal as far as it has summed.
JobKnows(g) ==
    /\ step \in {"hash", "stage", "map"} => job = "build" /\ ~gens[g].receipt
    /\ step = "stage" => done = 0
    /\ step \in {"rename", "promote", "prune"} => job = "build"
    /\ job = "validate" => Final(g)
    /\ job = "build" /\ step \in Unnamed => ~Final(g)
    /\ job = "build" /\ step \notin Unnamed => Final(g)
    /\ job = "build" /\ step \in {"prune", "finish"} => pointer = g
    /\ \A f \in File : step \in Mapped \/ (step = "map" /\ f <= done) =>
                           gens[g].sha[f] <= gens[g].id[f]
    /\ \A f \in File : step \in Summed \/ (step \in {"stat", "sum"} /\ f <= done) =>
                           gens[g].sha[f] = gens[g].id[f]
JobState ==
    /\ job = "none" <=> step = "idle"
    /\ job # "none" => gen \in 1 .. builds /\ done < NumFiles /\ JobKnows(gen)

\* The generation that a thread rechecks is not one under construction, and a
\* file that it has found changed stays changed; in a run that began without the
\* source's path nothing needs to have changed.
CheckOK(t) ==
    /\ checker[t].pc = "pointer" => pointer # 0
    /\ checker[t].pc \in {"stat", "apply"} =>
          /\ checker[t].gen \in 1 .. builds
          /\ job = "build" /\ step \in Unnamed => checker[t].gen # gen
    /\ checker[t].pc = "apply" /\ checker[t].result = "changed" =>
          ~rooted \/ \E f \in File : gens[checker[t].gen].id[f] < source[f]
CheckerState == \A t \in Threads : CheckOK(t)

Core == /\ Counters /\ JobState /\ PointerNamesGeneration
        /\ \A g \in Gen : GenerationOK(g)

IInv == TypeOK /\ Core /\ CheckerState /\ RetentionAfterBuild

-----------------------------------------------------------------------------
\* The generation g gets these fields, and no other generation changes.
Becomes(g, dir, sha, id, receipt) ==
    /\ gens' \in [Gen -> Generation]
    /\ gens'[g].dir = dir /\ gens'[g].receipt = receipt
    /\ \A f \in File : gens'[g].sha[f] = sha[f] /\ gens'[g].id[f] = id[f]
    /\ \A h \in Gen \ {g} : gens'[h] = gens[h]

LEMMA GenerationFields ==
    ASSUME TypeOK, NEW g \in Gen
    PROVE  /\ gens[g] \in Generation
           /\ gens[g].dir \in {"none", "staging", "final"}
           /\ gens[g].sha \in [File -> Version] /\ gens[g].id \in [File -> Version]
           /\ gens[g].receipt \in BOOLEAN
           /\ gens[g] = [dir |-> gens[g].dir, sha |-> gens[g].sha, id |-> gens[g].id,
                         receipt |-> gens[g].receipt]
BY DEF TypeOK, Generation

LEMMA NoGenerationTyped == NoGeneration \in Generation
<1>1. 0 \in Version
  BY LibraryAssumption DEF Version
<1>2. Unchecked \in [File -> Version]
  BY <1>1 DEF Unchecked
<1>3. QED
  BY <1>2 DEF NoGeneration, Generation

LEMMA ReceiptSet ==
    ASSUME TypeOK, NEW g \in Gen, NEW b \in BOOLEAN,
           gens' = [gens EXCEPT ![g].receipt = b]
    PROVE  Becomes(g, gens[g].dir, gens[g].sha, gens[g].id, b)
<1>1. gens \in [Gen -> Generation]
  BY DEF TypeOK
<1>2. [gens[g] EXCEPT !.receipt = b] \in Generation
  BY GenerationFields DEF Generation
<1>3. gens' \in [Gen -> Generation] /\ gens'[g] = [gens[g] EXCEPT !.receipt = b]
  BY <1>1, <1>2
<1>4. \A h \in Gen \ {g} : gens'[h] = gens[h]
  BY <1>1
<1>5. QED
  BY <1>3, <1>4, GenerationFields DEF Becomes, Generation

LEMMA DirSet ==
    ASSUME TypeOK, NEW g \in Gen, NEW d \in {"none", "staging", "final"},
           gens' = [gens EXCEPT ![g].dir = d]
    PROVE  Becomes(g, d, gens[g].sha, gens[g].id, gens[g].receipt)
<1>1. gens \in [Gen -> Generation]
  BY DEF TypeOK
<1>2. [gens[g] EXCEPT !.dir = d] \in Generation
  BY GenerationFields DEF Generation
<1>3. gens' \in [Gen -> Generation] /\ gens'[g] = [gens[g] EXCEPT !.dir = d]
  BY <1>1, <1>2
<1>4. \A h \in Gen \ {g} : gens'[h] = gens[h]
  BY <1>1
<1>5. QED
  BY <1>3, <1>4, GenerationFields DEF Becomes, Generation

LEMMA ShaSet ==
    ASSUME TypeOK, NEW g \in Gen, NEW f \in File, NEW v \in Version,
           gens' = [gens EXCEPT ![g].sha[f] = v]
    PROVE  Becomes(g, gens[g].dir, [gens[g].sha EXCEPT ![f] = v], gens[g].id,
                   gens[g].receipt)
<1> DEFINE sha == [gens[g].sha EXCEPT ![f] = v]
<1>1. gens \in [Gen -> Generation]
  BY DEF TypeOK
<1>2. sha \in [File -> Version]
  BY GenerationFields
<1>3. [gens[g] EXCEPT !.sha = sha] \in Generation
  <2> HIDE DEF sha
  <2> QED BY <1>2, GenerationFields DEF Generation
<1>4. gens' = [gens EXCEPT ![g] = [gens[g] EXCEPT !.sha = sha]]
  BY <1>1
<1> HIDE DEF sha
<1>5. gens' \in [Gen -> Generation] /\ gens'[g] = [gens[g] EXCEPT !.sha = sha]
  BY <1>1, <1>3, <1>4
<1>6. \A h \in Gen \ {g} : gens'[h] = gens[h]
  BY <1>1, <1>4
<1>7. gens'[g].sha = sha /\ gens'[g].id = gens[g].id /\ gens'[g].dir = gens[g].dir
      /\ gens'[g].receipt = gens[g].receipt
  BY <1>5, GenerationFields
<1>8. QED
  BY <1>5, <1>6, <1>7 DEF Becomes, sha

LEMMA IdSet ==
    ASSUME TypeOK, NEW g \in Gen, NEW f \in File, NEW v \in Version,
           gens' = [gens EXCEPT ![g].id[f] = v]
    PROVE  Becomes(g, gens[g].dir, gens[g].sha, [gens[g].id EXCEPT ![f] = v],
                   gens[g].receipt)
<1> DEFINE id == [gens[g].id EXCEPT ![f] = v]
<1>1. gens \in [Gen -> Generation]
  BY DEF TypeOK
<1>2. id \in [File -> Version]
  BY GenerationFields
<1>3. [gens[g] EXCEPT !.id = id] \in Generation
  <2> HIDE DEF id
  <2> QED BY <1>2, GenerationFields DEF Generation
<1>4. gens' = [gens EXCEPT ![g] = [gens[g] EXCEPT !.id = id]]
  BY <1>1
<1> HIDE DEF id
<1>5. gens' \in [Gen -> Generation] /\ gens'[g] = [gens[g] EXCEPT !.id = id]
  BY <1>1, <1>3, <1>4
<1>6. \A h \in Gen \ {g} : gens'[h] = gens[h]
  BY <1>1, <1>4
<1>7. gens'[g].sha = gens[g].sha /\ gens'[g].id = id /\ gens'[g].dir = gens[g].dir
      /\ gens'[g].receipt = gens[g].receipt
  BY <1>5, GenerationFields
<1>8. QED
  BY <1>5, <1>6, <1>7 DEF Becomes, id

\* Generations are taken away.
Vanish(victims) ==
    /\ gens' \in [Gen -> Generation]
    /\ \A g \in Gen \ victims : gens'[g] = gens[g]
    /\ \A g \in victims : /\ gens'[g] = NoGeneration /\ gens'[g].dir = "none"
                          /\ ~gens'[g].receipt
                          /\ \A f \in File : gens'[g].sha[f] = 0 /\ gens'[g].id[f] = 0

LEMMA Vanishing ==
    ASSUME TypeOK, NEW victims \in SUBSET Gen,
           gens' = [g \in Gen |-> IF g \in victims THEN NoGeneration ELSE gens[g]]
    PROVE  Vanish(victims)
<1>1. NoGeneration.dir = "none" /\ NoGeneration.receipt = FALSE
      /\ \A f \in File : NoGeneration.sha[f] = 0 /\ NoGeneration.id[f] = 0
  BY DEF NoGeneration, Unchecked
<1>2. gens \in [Gen -> Generation]
  BY DEF TypeOK
<1>3. gens' \in [Gen -> Generation]
  BY <1>2, NoGenerationTyped
<1>4. \A g \in Gen : gens'[g] = IF g \in victims THEN NoGeneration ELSE gens[g]
  OBVIOUS
<1> HIDE DEF NoGeneration
<1>5. QED
  BY <1>1, <1>3, <1>4 DEF Vanish

LEMMA Removed ==
    ASSUME TypeOK, NEW g \in Gen, gens' = [gens EXCEPT ![g] = NoGeneration]
    PROVE  Vanish({g})
<1>1. gens' = [h \in Gen |-> IF h \in {g} THEN NoGeneration ELSE gens[h]]
  BY DEF TypeOK
<1>2. QED
  BY <1>1, Vanishing

-----------------------------------------------------------------------------
CheckRecord == [pc : {"idle", "scan", "pointer", "stat", "apply", "after"},
                kind : {"startup", "rescan", "recovery"}, gen : Gen \cup {0},
                result : {"ok", "unavailable", "changed"}]
BootResults == {"none", "blocked", "validated", "pending"}

LEMMA CheckerTyped ==
    ASSUME TypeOK, NEW t \in Threads
    PROVE  /\ checker[t] \in CheckRecord
           /\ Idle \in CheckRecord /\ AtStartup \in CheckRecord
           /\ \A k \in {"startup", "rescan", "recovery"} :
                \A p \in {"scan", "idle", "after"} :
                    [Idle EXCEPT !.pc = p, !.kind = k] \in CheckRecord
BY DEF TypeOK, CheckRecord, Idle, AtStartup

LEMMA CheckerSet ==
    ASSUME TypeOK, NEW t \in Threads, NEW r \in CheckRecord,
           checker' = [checker EXCEPT ![t] = r]
    PROVE  /\ checker' \in [Threads -> CheckRecord] /\ checker'[t] = r
           /\ \A u \in Threads \ {t} : checker'[u] = checker[u]
BY DEF TypeOK, CheckRecord

LEMMA BootTyped ==
    /\ BootValidation \in BootResults /\ BootValidation' \in BootResults
    /\ \A v \in BootResults :
          StateOf(v) \in {"Not built", "Validating", "Ready", "Source blocked"}
BY DEF BootValidation, BootResults, StateOf

\* What is left to show of a step that leaves the summary and the checks alone.
LEMMA TypeFrame ==
    ASSUME TypeOK, UNCHANGED <<source, online, rooted, state, validation>>,
           UNCHANGED <<checker, catalog, queued>>,
           gens' \in [Gen -> Generation], pointer' \in Gen \cup {0},
           job' = job, gen' = gen, canceled' = canceled,
           step' \in JobSteps, done' \in 0 .. NumFiles, removalFailed' \in BOOLEAN
    PROVE  TypeOK'
<1>1. (canceled \in BOOLEAN /\ (job = "none" => ~canceled))'
  BY Zenon DEF TypeOK
<1>2. (source \in [File -> Version] /\ online \in BOOLEAN /\ rooted \in BOOLEAN
       /\ queued \in BOOLEAN)'
  BY Zenon DEF TypeOK
<1>3. QED
  BY <1>1, <1>2 DEF TypeOK, Generation, Version

\* What is left to show when a job ends.
LEMMA TypeOver ==
    ASSUME TypeOK, UNCHANGED <<source, online, rooted, checker, catalog, queued>>,
           gens' \in [Gen -> Generation], pointer' \in Gen \cup {0},
           NEW result \in {"Failed", "Canceled", "Ready"}, JobOver(result),
           validation' \in {validation, "failed", "validated"}, removalFailed' \in BOOLEAN
    PROVE  TypeOK'
<1>1. 0 \in 0 .. NumFiles
  BY LibraryAssumption
<1>2. QED
  BY <1>1 DEF TypeOK, Generation, Version, JobOver, JobSteps

LEMMA FailsTyped ==
    ASSUME TypeOK, Counters, JobState, job # "none",
           NEW result \in {"Failed", "Canceled"}, JobFails(result)
    PROVE  /\ gens' \in [Gen -> Generation] /\ pointer' \in Gen \cup {0}
           /\ JobOver(result) /\ validation' \in {validation, "failed", "validated"}
<1>1. gen \in Gen
  BY LibraryAssumption DEF JobState, Counters, Gen
<1>2. gens' \in [Gen -> Generation]
  <2>1. CASE job = "build" /\ gens[gen].dir # "final"
    BY <1>1, <2>1, Removed DEF JobFails, Vanish
  <2>2. CASE ~(job = "build" /\ gens[gen].dir # "final")
    BY <2>2 DEF JobFails, TypeOK
  <2>3. QED
    BY <2>1, <2>2
<1>3. QED
  BY <1>2 DEF JobFails, TypeOK

\* The next file is one.
LEMMA CurrentIsFile ==
    ASSUME TypeOK, Counters, JobState, job # "none"
    PROVE  /\ Current \in File /\ gen \in Gen /\ source[Current] \in Version
           /\ \A same \in JobSteps, next \in JobSteps :
                Advance(same, next) => step' \in JobSteps /\ done' \in 0 .. NumFiles
<1>1. gen \in Gen
  BY LibraryAssumption DEF JobState, Counters, Gen
<1>2. done \in Nat /\ done < NumFiles /\ NumFiles \in Nat
  <2>1. NumFiles \in Nat
    BY LibraryAssumption
  <2>2. done \in 0 .. NumFiles /\ done < NumFiles
    BY Zenon DEF TypeOK, JobState
  <2>3. QED
    BY <2>1, <2>2
<1>3. Current \in File
  BY <1>2 DEF Current, File
<1>4. source[Current] \in Version
  BY <1>3 DEF TypeOK
<1>5. ASSUME NEW same \in JobSteps, NEW next \in JobSteps, Advance(same, next)
      PROVE  step' \in JobSteps /\ done' \in 0 .. NumFiles
  BY <1>2, <1>3, <1>5 DEF Advance, File
<1>6. QED
  BY <1>1, <1>3, <1>4, <1>5

LEMMA TypeInit == Init => TypeOK
<1> SUFFICES ASSUME Init PROVE TypeOK
  OBVIOUS
<1>1. 0 \in Version /\ 0 \in 0 .. NumFiles /\ 1 \in Gen
  BY LibraryAssumption DEF Version, Gen
<1>2. source \in [File -> Version]
  BY <1>1 DEF Init
<1>3. gens \in [Gen -> Generation] /\ pointer \in Gen \cup {0}
  <2>1. \A r \in BOOLEAN : [NoGeneration EXCEPT !.dir = "final", !.receipt = r] \in Generation
    BY NoGenerationTyped DEF NoGeneration, Generation
  <2>2. QED
    BY <1>1, <2>1, NoGenerationTyped DEF Init
<1>4. checker \in [Threads -> CheckRecord]
  BY DEF Init, CheckRecord, Idle, AtStartup
<1>5. validation \in BootResults
      /\ state \in {"Not built", "Validating", "Ready", "Source blocked"}
  BY BootTyped DEF Init
<1>6. QED
  BY <1>1, <1>2, <1>3, <1>4, <1>5
     DEF Init, TypeOK, CheckRecord, BootResults, JobSteps

\* Threads move their checks on.
LEMMA TypeChecks ==
    ASSUME TypeOK, UNCHANGED <<source, online, rooted, pointer, canceled>>,
           gens' \in [Gen -> Generation],
           removalFailed' = removalFailed, queued' \in BOOLEAN,
           UNCHANGED <<job, step, done, gen>>,
           state' \in {state, "Not built", "Validating", "Ready", "Source blocked"},
           validation' \in {validation} \cup BootResults,
           checker' \in [Threads -> CheckRecord],
           catalog' \in {catalog, "available", "offline"}
    PROVE  TypeOK'
<1>1. (canceled \in BOOLEAN /\ (job = "none" => ~canceled))'
  BY Zenon DEF TypeOK
<1>2. (source \in [File -> Version] /\ online \in BOOLEAN /\ rooted \in BOOLEAN
       /\ removalFailed \in BOOLEAN)'
  BY Zenon DEF TypeOK
<1>3. (job \in {"none", "build", "validate"} /\ step \in JobSteps
       /\ done \in 0 .. NumFiles /\ gen \in Gen \cup {0} /\ pointer \in Gen \cup {0})'
  BY DEF TypeOK
<1>4. (catalog \in {"unknown", "available", "offline"} /\ queued \in BOOLEAN)'
  BY DEF TypeOK
<1>5. (/\ state \in {"Not built", "Building", "Validating", "Ready", "Source blocked",
                     "Failed", "Canceled"}
       /\ validation \in {"none", "pending", "blocked", "validating", "validated",
                          "failed"})'
  BY DEF TypeOK, BootResults
<1>6. QED
  BY <1>1, <1>2, <1>3, <1>4, <1>5 DEF TypeOK, CheckRecord

LEMMA TypeThreads ==
    ASSUME TypeOK, Counters, CheckerState, NEW t \in Threads, ThreadStep(t)
    PROVE  TypeOK'
<1> USE DEF sourceVars, diskVars, jobVars, summaryVars, daemonVars, budgets
<1>0. gens \in [Gen -> Generation] /\ queued \in BOOLEAN
  BY DEF TypeOK
<1>a. \A k \in {"startup", "rescan", "recovery"} : checker[t].kind = k =>
         AfterRecheck(t) \in {"idle", "after"}
  BY DEF AfterRecheck
<1>c. checker[t] \in CheckRecord
  BY CheckerTyped
<1>b. checker[t].kind \in {"startup", "rescan", "recovery"}
  BY <1>c DEF CheckRecord
<1>1. CASE Scan(t)
  <2>1. checker' \in [Threads -> CheckRecord]
    <3>1. CASE ~online
      BY <1>1, <3>1, CheckerTyped, CheckerSet DEF Scan
    <3>2. CASE online
      <4>1. PICK p \in {"pointer", "idle", "after"} :
               checker' = [checker EXCEPT ![t] = [checker[t] EXCEPT !.pc = p]]
        BY <1>1, <3>2 DEF Scan, AfterRecheck
      <4>2. [checker[t] EXCEPT !.pc = p] \in CheckRecord
        BY CheckerTyped DEF CheckRecord
      <4>3. QED
        BY <4>1, <4>2, CheckerSet
    <3>3. QED
      BY <3>1, <3>2
  <2>2. catalog' \in {catalog, "available", "offline"}
    BY <1>1 DEF Scan
  <2>3. QED
    BY <1>0, <1>1, <2>1, <2>2, TypeChecks DEF Scan
<1>2. CASE RecheckPointer(t)
  <2>1. [checker[t] EXCEPT !.pc = "stat", !.gen = pointer] \in CheckRecord
    <3>1. pointer \in Gen \cup {0}
      BY DEF TypeOK
    <3>2. QED
      BY <3>1, <1>c DEF CheckRecord
  <2>2. checker' = [checker EXCEPT ![t] = [checker[t] EXCEPT !.pc = "stat", !.gen = pointer]]
    BY <1>2 DEF RecheckPointer
  <2>3. QED
    BY <1>0, <1>2, <2>1, <2>2, CheckerSet, TypeChecks DEF RecheckPointer
<1>3. CASE RecheckFiles(t)
  <2> DEFINE result == IF gens[checker[t].gen].dir = "final"
                       THEN FastResult(checker[t].gen) ELSE "unavailable"
  <2>1. result \in {"ok", "unavailable", "changed"}
    BY DEF FastResult, FilesResult
  <2>2. checker' = [checker EXCEPT ![t] = [checker[t] EXCEPT !.pc = "apply", !.result = result]]
    BY <1>3 DEF RecheckFiles
  <2> HIDE DEF result
  <2>3. [checker[t] EXCEPT !.pc = "apply", !.result = result] \in CheckRecord
    BY <2>1, <1>c DEF CheckRecord
  <2>4. QED
    BY <1>0, <1>3, <2>2, <2>3, CheckerSet, TypeChecks DEF RecheckFiles
<1>4. CASE RecheckApply(t)
  <2>1. checker' \in [Threads -> CheckRecord]
    <3>1. \/ checker' = [checker EXCEPT ![t] = Idle]
          \/ checker' = [checker EXCEPT ![t] = [Idle EXCEPT !.pc = AfterRecheck(t),
                                                            !.kind = checker[t].kind]]
      BY <1>4 DEF RecheckApply
    <3>2. QED
      BY <3>1, <1>a, <1>b, CheckerTyped, CheckerSet
  <2>2. gens' \in [Gen -> Generation]
    <3>1. checker[t].gen \in Gen
      BY <1>4, LibraryAssumption DEF CheckerState, CheckOK, RecheckApply, Counters, Gen
    <3>2. QED
      BY <1>0, <1>4, <3>1, ReceiptSet DEF RecheckApply, Revoked, Becomes
  <2>3. validation' \in BootResults
        /\ state' \in {"Not built", "Validating", "Ready", "Source blocked"}
    BY <1>4, BootTyped DEF RecheckApply, BootResults
  <2>4. catalog' \in {catalog, "available", "offline"}
    BY <1>4 DEF RecheckApply
  <2>5. QED
    BY <1>0, <1>4, <2>1, <2>2, <2>3, <2>4, TypeChecks DEF RecheckApply
<1>5. CASE StartActiveValidation(t)
  <2>1. checker' \in [Threads -> CheckRecord]
    BY <1>5, CheckerTyped, CheckerSet DEF StartActiveValidation
  <2>2. CASE UNCHANGED <<job, gen, step, done, state, validation>>
    BY <1>0, <1>5, <2>1, <2>2, TypeChecks DEF StartActiveValidation
  <2>3. CASE job' = "validate" /\ gen' = pointer /\ step' = "stat" /\ done' = 0
             /\ state' = "Validating" /\ validation' = "validating"
    <3>1. 0 \in 0 .. NumFiles
      BY LibraryAssumption
    <3>2. (canceled \in BOOLEAN /\ (job = "none" => ~canceled))'
      BY <1>5, <2>3 DEF TypeOK, StartActiveValidation
    <3>3. (source \in [File -> Version] /\ online \in BOOLEAN /\ rooted \in BOOLEAN
           /\ removalFailed \in BOOLEAN /\ queued \in BOOLEAN)'
      BY <1>5 DEF TypeOK, StartActiveValidation
    <3>4. QED
      BY <1>5, <2>1, <2>3, <3>1, <3>2, <3>3
         DEF TypeOK, StartActiveValidation, JobSteps, CheckRecord
  <2>4. QED
    BY <1>5, <2>2, <2>3 DEF StartActiveValidation
<1>6. QED
  BY <1>1, <1>2, <1>3, <1>4, <1>5 DEF ThreadStep

\* A job that takes a step is there.
LEMMA JobRuns ==
    ASSUME TypeOK, Counters, JobState, step # "idle"
    PROVE  job \in {"build", "validate"} /\ gen \in Gen /\ JobKnows(gen)
           /\ gen \in 1 .. builds
<1>1. job # "none" /\ job \in {"none", "build", "validate"}
  BY DEF JobState, TypeOK
<1>2. gen \in 1 .. builds /\ JobKnows(gen)
  BY <1>1 DEF JobState
<1>3. QED
  BY <1>1, <1>2, LibraryAssumption DEF Counters, Gen

LEMMA TypeJobs ==
    ASSUME TypeOK, Counters, JobState, JobStep
    PROVE  TypeOK'
<1> USE DEF sourceVars, diskVars, jobVars, summaryVars, daemonVars, budgets
<1>0. gens \in [Gen -> Generation] /\ pointer \in Gen \cup {0} /\ step \in JobSteps
      /\ done \in 0 .. NumFiles /\ removalFailed \in BOOLEAN
  BY DEF TypeOK
<1>a. step # "idle"
  BY DEF JobStep, HashFile, MakeStaging, MapFile, StatFile, SumFile, ReadFails, Reads,
         CheckReceipt, WriteReceipt, RenameGeneration, Promote, Prune, Finish
<1>b. job # "none" /\ gen \in Gen /\ Current \in File /\ source[Current] \in Version
  BY <1>a, JobRuns, CurrentIsFile
<1>c. {"hash", "stage", "map", "stat", "sum", "receipt", "write", "rename", "promote",
       "prune", "finish"} \subseteq JobSteps
  BY DEF JobSteps
<1>1. CASE HashFile
  <2>1. gens' \in [Gen -> Generation]
    BY <1>1, <1>b, ShaSet DEF HashFile, Becomes
  <2>2. step' \in JobSteps /\ done' \in 0 .. NumFiles
    BY <1>1, <1>b, <1>c, CurrentIsFile DEF HashFile
  <2>3. QED
    BY <1>0, <1>1, <2>1, <2>2, TypeFrame DEF HashFile
<1>2. CASE MakeStaging
  <2>1. gens' \in [Gen -> Generation]
    BY <1>2, <1>b, DirSet DEF MakeStaging, Becomes
  <2>2. QED
    BY <1>0, <1>2, <1>c, <2>1, TypeFrame DEF MakeStaging
<1>3. CASE MapFile
  <2>1. gens' \in [Gen -> Generation]
    BY <1>3, <1>b, IdSet DEF MapFile, Becomes
  <2>2. step' \in JobSteps /\ done' \in 0 .. NumFiles
    BY <1>3, <1>b, <1>c, CurrentIsFile DEF MapFile
  <2>3. QED
    BY <1>0, <1>3, <2>1, <2>2, TypeFrame DEF MapFile
<1>4. CASE StatFile
  BY <1>0, <1>4, <1>c, TypeFrame DEF StatFile
<1>5. CASE SumFile
  <2>1. step' \in JobSteps /\ done' \in 0 .. NumFiles
    BY <1>5, <1>b, <1>c, CurrentIsFile DEF SumFile
  <2>2. QED
    BY <1>0, <1>5, <2>1, TypeFrame DEF SumFile
<1>6. CASE ReadFails
  <2>1. PICK result \in {"Failed", "Canceled"} : JobFails(result)
    BY <1>6 DEF ReadFails
  <2>2. QED
    BY <1>0, <1>6, <1>b, <2>1, FailsTyped, TypeOver DEF ReadFails
<1>7. CASE CheckReceipt
  <2>1. CASE step' = "write" /\ UNCHANGED <<job, done, gen, canceled, diskVars, summaryVars>>
    BY <1>0, <1>7, <1>c, <2>1, TypeFrame DEF CheckReceipt
  <2>2. CASE JobFails("Failed")
    BY <1>0, <1>7, <1>b, <2>2, FailsTyped, TypeOver DEF CheckReceipt
  <2>3. QED
    BY <1>7, <2>1, <2>2 DEF CheckReceipt
<1>8. CASE WriteReceipt
  <2>1. gens' \in [Gen -> Generation]
    BY <1>8, <1>b, ReceiptSet DEF WriteReceipt, Becomes
  <2>2. QED
    BY <1>0, <1>8, <1>c, <2>1, TypeFrame DEF WriteReceipt
<1>9. CASE RenameGeneration
  <2>1. CASE canceled
    BY <1>0, <1>9, <1>b, <2>1, FailsTyped, TypeOver DEF RenameGeneration
  <2>2. CASE ~canceled
    <3>1. gens' \in [Gen -> Generation]
      BY <1>9, <1>b, <2>2, DirSet DEF RenameGeneration, Becomes
    <3>2. QED
      BY <1>0, <1>9, <1>c, <2>2, <3>1, TypeFrame DEF RenameGeneration
  <2>3. QED
    BY <2>1, <2>2
<1>10. CASE Promote
  BY <1>0, <1>10, <1>b, <1>c, TypeFrame DEF Promote
<1>11. CASE Prune
  <2>1. Victims \subseteq Gen
    BY DEF Victims
  <2>2. gens' \in [Gen -> Generation]
    BY <1>0, <1>11, <2>1, Removed DEF Prune, Vanish
  <2>3. step' \in JobSteps
    BY <1>0, <1>11, <1>c DEF Prune
  <2>4. QED
    BY <1>0, <1>11, <2>2, <2>3, TypeFrame DEF Prune
<1>12. CASE Finish
  BY <1>0, <1>12, TypeOver DEF Finish
<1>13. QED
  BY <1>1, <1>2, <1>3, <1>4, <1>5, <1>6, <1>7, <1>8, <1>9, <1>10, <1>11, <1>12 DEF JobStep

LEMMA TypeFault ==
    ASSUME TypeOK, Counters, JobState, JobFault
    PROVE  TypeOK'
<1> USE DEF sourceVars, diskVars, jobVars, summaryVars, daemonVars, budgets
<1>0. gens \in [Gen -> Generation] /\ pointer \in Gen \cup {0} /\ removalFailed' \in BOOLEAN
      /\ done \in 0 .. NumFiles /\ "finish" \in JobSteps
  BY DEF TypeOK, JobFault, JobSteps
<1>1. job # "none" /\ gen \in Gen
  BY JobRuns DEF JobFault
<1>2. CASE step \in {"stage", "write", "rename"} /\ JobFails("Failed")
  BY <1>0, <1>1, <1>2, FailsTyped, TypeOver DEF JobFault
<1>3. CASE /\ JobOver("Failed") /\ gens' = [gens EXCEPT ![gen].receipt = TRUE]
           /\ validation' = "failed" /\ UNCHANGED pointer
  <2>1. gens' \in [Gen -> Generation]
    BY <1>1, <1>3, ReceiptSet DEF Becomes
  <2>2. QED
    BY <1>0, <1>3, <2>1, TypeOver DEF JobFault
<1>4. CASE JobOver("Failed") /\ pointer' \in {pointer, gen} /\ UNCHANGED <<gens, validation>>
  BY <1>0, <1>1, <1>4, TypeOver DEF JobFault
<1>5. CASE /\ \E kept \in (SUBSET Victims) \ {{}} :
                gens' = [g \in Gen |-> IF g \in Victims \ kept THEN NoGeneration
                                       ELSE gens[g]]
           /\ step' = "finish"
           /\ UNCHANGED <<pointer, job, done, gen, canceled, summaryVars>>
  <2>1. Victims \subseteq Gen
    BY DEF Victims
  <2>2. gens' \in [Gen -> Generation]
    BY <1>5, <2>1, Vanishing DEF Vanish
  <2>3. QED
    BY <1>0, <1>5, <2>2, TypeFrame DEF JobFault
<1>6. QED
  BY <1>2, <1>3, <1>4, <1>5 DEF JobFault

\* What is left to show when only the world around the library changes.
LEMMA TypeQuiet ==
    ASSUME TypeOK, UNCHANGED <<gens, pointer, job, step, done, gen>>,
           UNCHANGED <<state, validation, checker, catalog, removalFailed>>,
           source' \in [File -> Version], online' \in BOOLEAN, rooted' = rooted,
           queued' \in BOOLEAN,
           canceled' \in BOOLEAN, job = "none" => ~canceled'
    PROVE  TypeOK'
<1>1. (canceled \in BOOLEAN /\ (job = "none" => ~canceled))'
  BY Zenon
<1>2. (/\ source \in [File -> Version] /\ online \in BOOLEAN /\ rooted \in BOOLEAN
       /\ removalFailed \in BOOLEAN /\ queued \in BOOLEAN)'
  BY Zenon DEF TypeOK
<1>3. QED
  BY <1>1, <1>2 DEF TypeOK, Generation, Version

LEMMA TypeNext ==
    ASSUME TypeOK, Counters, JobState, CheckerState, [Next]_vars
    PROVE  TypeOK'
<1> USE DEF sourceVars, diskVars, jobVars, summaryVars, daemonVars, budgets
<1>0. gens \in [Gen -> Generation] /\ checker \in [Threads -> CheckRecord]
  BY DEF TypeOK, CheckRecord
<1>a. /\ source \in [File -> Version] /\ online \in BOOLEAN /\ queued \in BOOLEAN
      /\ canceled \in BOOLEAN /\ (job = "none" => ~canceled)
  BY DEF TypeOK
<1>1. ASSUME NEW f \in File, ChangeFile(f) PROVE TypeOK'
  <2>1. source' \in [File -> Version]
    <3>1. changes' \in Version
      BY <1>1, LibraryAssumption DEF ChangeFile, Version, Counters
    <3>2. QED
      BY <1>1, <3>1 DEF ChangeFile, TypeOK
  <2>2. QED
    BY <1>a, <1>1, <2>1, TypeQuiet DEF ChangeFile
<1>2. CASE GoOffline
  <2>1. queued' \in BOOLEAN
    BY <1>2 DEF GoOffline, TypeOK
  <2>2. QED
    BY <1>a, <1>2, <2>1, TypeQuiet DEF GoOffline
<1>3. CASE GoOnline
  BY <1>a, <1>3, TypeQuiet DEF GoOnline
<1>4. ASSUME NEW kind \in {"rescan", "recovery"}, StartScan(kind) PROVE TypeOK'
  <2>1. "scan" \in Threads
    BY DEF Threads
  <2>2. checker' \in [Threads -> CheckRecord]
    BY <1>4, <2>1, CheckerTyped, CheckerSet DEF StartScan
  <2>3. QED
    BY <1>0, <1>a, <1>4, <2>2, TypeChecks DEF StartScan
<1>5. CASE RecordFailure
  BY <1>0, <1>5, TypeChecks DEF RecordFailure
<1>6. ASSUME NEW t \in Threads, ThreadStep(t) PROVE TypeOK'
  BY <1>6, TypeThreads
<1>7. CASE StartBuild
  <2>1. builds + 1 \in Gen /\ 0 \in 0 .. NumFiles
    BY <1>7, LibraryAssumption DEF StartBuild, Counters, Gen
  <2>2. QED
    BY <1>7, <2>1 DEF StartBuild, TypeOK, JobSteps
<1>8. CASE Cancel
  BY <1>a, <1>8, TypeQuiet DEF Cancel
<1>9. CASE JobStep
  BY <1>9, TypeJobs
<1>10. CASE JobFault
  BY <1>10, TypeFault
<1>11. CASE Crash
  <2>1. checker' \in [Threads -> CheckRecord]
    BY <1>11 DEF Crash, CheckRecord, Idle, AtStartup
  <2>2. validation' \in BootResults
        /\ state' \in {"Not built", "Validating", "Ready", "Source blocked"}
    BY <1>11, BootTyped DEF Crash
  <2>3. rooted' \in BOOLEAN
    BY <1>a, <1>11, Zenon DEF Crash
  <2>4. 0 \in 0 .. NumFiles
    BY LibraryAssumption
  <2>5. QED
    BY <1>11, <2>1, <2>2, <2>3, <2>4 DEF Crash, TypeOK, CheckRecord, BootResults, JobSteps
<1>12. CASE UNCHANGED vars
  BY <1>a, <1>12, TypeQuiet DEF vars
<1>13. QED
  BY <1>1, <1>2, <1>3, <1>4, <1>5, <1>6, <1>7, <1>8, <1>9, <1>10, <1>11, <1>12 DEF Next

-----------------------------------------------------------------------------
LEMMA Numbers ==
    ASSUME TypeOK, Counters, NEW g \in Gen, NEW f \in File
    PROVE  /\ source[f] \in Int /\ gens[g].sha[f] \in Int /\ gens[g].id[f] \in Int
           /\ g \in Int /\ f \in Int /\ builds \in Int /\ changes \in Int
           /\ gens[g].sha[f] >= 0 /\ gens[g].id[f] >= 0 /\ source[f] >= 0
<1>1. MaxChanges \in Nat /\ MaxGenerations \in Nat /\ NumFiles \in Nat
  BY LibraryAssumption
<1>2. source[f] \in Version /\ gens[g].sha[f] \in Version /\ gens[g].id[f] \in Version
  BY GenerationFields DEF TypeOK
<1>3. QED
  BY <1>1, <1>2 DEF Version, Gen, File, Counters

LEMMA KeepGeneration ==
    ASSUME TypeOK, Counters, NEW g \in Gen, GenerationOK(g), gens'[g] = gens[g],
           builds' \in Int, builds <= builds', source' \in [File -> Version],
           \A f \in File : source[f] <= source'[f]
    PROVE  GenerationOK(g)'
<1>1. \A f \in File : source'[f] \in Int
  BY LibraryAssumption DEF Version
<1>2. \A f \in File : gens[g].sha[f] <= source'[f] /\ gens[g].id[f] <= source'[f]
  BY <1>1, Numbers DEF GenerationOK
<1>3. g > builds' => g > builds
  BY Numbers, LibraryAssumption DEF Counters, Gen
<1>4. QED
  BY <1>2, <1>3 DEF GenerationOK, Final

\* A step that changes at most one generation has to look at that one only.
LEMMA OneGeneration ==
    ASSUME TypeOK, Core, UNCHANGED <<source, builds>>, NEW g \in Gen, GenerationOK(g)',
           \A h \in Gen \ {g} : gens'[h] = gens[h]
    PROVE  \A h \in Gen : GenerationOK(h)'
<1> SUFFICES ASSUME NEW h \in Gen, h # g PROVE GenerationOK(h)'
  OBVIOUS
<1>1. \A f \in File : source[f] <= source[f]
  BY Numbers DEF Core
<1>2. builds \in Int /\ builds <= builds
  BY LibraryAssumption DEF Core, Counters
<1>3. QED
  BY <1>1, <1>2, KeepGeneration DEF Core, TypeOK

LEMMA CoreQuiet ==
    ASSUME TypeOK, Core, UNCHANGED <<source, gens, pointer, builds, changes>>,
           UNCHANGED <<job, step, done, gen>> \/ (job' = "none" /\ step' = "idle")
    PROVE  Core'
<1>1. Counters' /\ PointerNamesGeneration'
  BY DEF Core, Counters, PointerNamesGeneration
<1>2. \A g \in Gen : GenerationOK(g)'
  BY DEF Core, GenerationOK, Final
<1>3. JobState'
  BY DEF Core, JobState, JobKnows, Final
<1>4. QED
  BY <1>1, <1>2, <1>3 DEF Core

LEMMA CoreChange ==
    ASSUME TypeOK, TypeOK', Core, NEW f \in File, ChangeFile(f)
    PROVE  Core'
<1> USE DEF sourceVars, diskVars, jobVars, summaryVars, daemonVars, budgets
<1>1. changes' \in 0 .. MaxChanges /\ changes \in Int /\ changes' = changes + 1
  BY LibraryAssumption DEF ChangeFile, Core, Counters
<1>2. source' = [source EXCEPT ![f] = changes'] /\ source \in [File -> Version]
  BY DEF ChangeFile, TypeOK
<1>3. \A h \in File : source[h] \in Int /\ source[h] <= changes
  <2>1. \A h \in File : source[h] \in 0 .. MaxChanges
    BY <1>2 DEF Version
  <2>2. QED
    BY <2>1, LibraryAssumption DEF Core, Counters
<1>4. \A h \in File : source[h] <= source'[h] /\ source'[h] <= changes'
  BY <1>1, <1>2, <1>3
<1>5. Counters' /\ PointerNamesGeneration'
  BY <1>1, <1>4 DEF Core, Counters, PointerNamesGeneration, ChangeFile
<1>6. \A g \in Gen : GenerationOK(g)'
  <2>1. builds' = builds /\ builds \in Int /\ builds <= builds
    BY LibraryAssumption DEF ChangeFile, Core, Counters
  <2>2. source' \in [File -> Version]
    BY DEF TypeOK
  <2>3. QED
    BY <1>4, <2>1, <2>2, KeepGeneration DEF Core, ChangeFile
<1>7. JobState'
  BY DEF Core, JobState, JobKnows, Final, ChangeFile
<1>8. QED
  BY <1>5, <1>6, <1>7 DEF Core

\* A recheck revokes a receipt.
LEMMA CoreRevoked ==
    ASSUME TypeOK, Core, NEW g \in 1 .. builds, g \in Gen,
           Becomes(g, gens[g].dir, gens[g].sha, gens[g].id, FALSE),
           UNCHANGED <<source, pointer, builds, changes>>,
           UNCHANGED <<job, step, done, gen>>
    PROVE  Core'
<1>1. Counters'
  BY DEF Core, Counters
<1>2. \A h \in Gen : gens'[h].dir = gens[h].dir
  BY DEF Becomes
<1>3. PointerNamesGeneration'
  BY <1>2 DEF Core, PointerNamesGeneration, TypeOK
<1>4. \A h \in Gen : GenerationOK(h)'
  <2>1. ~(g > builds)
    BY LibraryAssumption DEF Core, Counters
  <2>2. GenerationOK(g)'
    BY <2>1 DEF Core, GenerationOK, Final, Becomes
  <2>3. QED
    BY <2>2, OneGeneration DEF Becomes
<1>5. JobState'
  <2> SUFFICES ASSUME job # "none" PROVE (gen \in 1 .. builds /\ done < NumFiles /\ JobKnows(gen))'
    BY DEF JobState, Core
  <2>1. gen \in 1 .. builds /\ done < NumFiles /\ JobKnows(gen) /\ gen \in Gen
    BY LibraryAssumption DEF Core, JobState, Counters, Gen
  <2>2. gens'[gen].dir = gens[gen].dir /\ (gens'[gen].receipt => gens[gen].receipt)
        /\ \A h \in File : gens'[gen].sha[h] = gens[gen].sha[h]
                           /\ gens'[gen].id[h] = gens[gen].id[h]
    BY <2>1 DEF Becomes
  <2>3. JobKnows(gen)'
    BY <2>1, <2>2 DEF JobKnows, Final
  <2>4. QED
    BY <2>1, <2>3
<1>6. QED
  BY <1>1, <1>3, <1>4, <1>5 DEF Core

\* The end of a job: its generation may be gone.
LEMMA CoreGone ==
    ASSUME TypeOK, Core, NEW victims \in SUBSET Gen, Vanish(victims), pointer \notin victims,
           UNCHANGED <<source, pointer, builds, changes>>
    PROVE  Counters' /\ PointerNamesGeneration' /\ \A g \in Gen : GenerationOK(g)'
<1>1. Counters' /\ PointerNamesGeneration'
  BY DEF Core, Counters, PointerNamesGeneration, Vanish, TypeOK
<1>2. ASSUME NEW g \in Gen PROVE GenerationOK(g)'
  <2>1. CASE g \in victims
    BY <2>1, Numbers DEF GenerationOK, Final, Vanish, Core
  <2>2. CASE g \notin victims
    <3>1. gens'[g] = gens[g]
      BY <2>2 DEF Vanish
    <3>2. QED
      BY <3>1 DEF Core, GenerationOK, Final
  <2>3. QED
    BY <2>1, <2>2
<1>3. QED
  BY <1>1, <1>2

LEMMA CoreFails ==
    ASSUME TypeOK, Core, step # "idle", NEW result, JobFails(result),
           UNCHANGED <<source, builds, changes>>
    PROVE  Core'
<1>1. job \in {"build", "validate"} /\ gen \in Gen
  BY JobRuns DEF Core
<1>2. JobState' /\ pointer' = pointer
  BY DEF JobFails, JobOver, JobState
<1>3. CASE job = "build" /\ gens[gen].dir # "final"
  <2>1. Vanish({gen})
    BY <1>1, <1>3, Removed DEF JobFails
  <2>2. pointer # gen
    <3>1. gen # 0
      BY <1>1, LibraryAssumption DEF Gen
    <3>2. QED
      BY <1>3, <3>1 DEF Core, PointerNamesGeneration
  <2>3. QED
    BY <1>1, <1>2, <2>1, <2>2, CoreGone DEF Core
<1>4. CASE ~(job = "build" /\ gens[gen].dir # "final")
  BY <1>2, <1>4, CoreQuiet DEF JobFails, JobOver
<1>5. QED
  BY <1>3, <1>4

\* A job goes on.
LEMMA CoreGoes ==
    ASSUME TypeOK, Core, step # "idle", step' # "idle",
           UNCHANGED <<source, builds, changes, job, gen>>,
           done' < NumFiles, JobKnows(gen)', pointer' \in {pointer, gen},
           PointerNamesGeneration', \A g \in Gen : GenerationOK(g)'
    PROVE  Core'
<1>1. Counters'
  BY JobRuns, LibraryAssumption DEF Core, Counters, Gen
<1>2. JobState'
  BY DEF Core, JobState
<1>3. QED
  BY <1>1, <1>2 DEF Core

\* The file after this one is one, or the step is over.
LEMMA Advances ==
    ASSUME TypeOK, Core, step # "idle", NEW same, NEW next, Advance(same, next)
    PROVE  /\ done \in Nat /\ Current \in File /\ Current \in Nat /\ done < Current
           /\ done' < NumFiles
           /\ \/ step' = same /\ done' = Current
              \/ step' = next /\ done' = 0 /\ \A f \in File : f <= Current
           /\ \A f \in File : f <= Current => f <= done \/ f = Current
<1>1. NumFiles \in Nat /\ NumFiles > 0
  BY LibraryAssumption
<1>2. job # "none" /\ done \in 0 .. NumFiles /\ done < NumFiles
  BY DEF Core, JobState, TypeOK
<1>3. QED
  BY <1>1, <1>2 DEF Advance, Current, File

LEMMA CoreHash ==
    ASSUME TypeOK, Core, HashFile
    PROVE  Core'
<1> USE DEF sourceVars, diskVars, jobVars, summaryVars, daemonVars, budgets
<1>1. step = "hash" /\ Advance("hash", "stage") /\ UNCHANGED <<source, pointer, builds, changes, job, gen>>
  BY DEF HashFile, Reads
<1>2. job = "build" /\ gen \in Gen /\ JobKnows(gen) /\ gen \in 1 .. builds
  BY <1>1, JobRuns DEF Core, JobKnows
<1>3. Current \in File /\ source[Current] \in Version
  BY <1>1, Advances DEF TypeOK
<1>4. Becomes(gen, gens[gen].dir, [gens[gen].sha EXCEPT ![Current] = source[Current]],
              gens[gen].id, gens[gen].receipt)
  BY <1>2, <1>3, ShaSet DEF HashFile
<1>5. ~gens'[gen].receipt /\ gens'[gen].dir # "final"
  BY <1>1, <1>2, <1>4 DEF Becomes, JobKnows, Final, Unnamed
<1>6. \A f \in File : gens'[gen].sha[f] <= source[f] /\ gens'[gen].id[f] <= source[f]
  <2>1. \A f \in File : gens'[gen].sha[f] \in {gens[gen].sha[f], source[f]}
                        /\ gens'[gen].id[f] = gens[gen].id[f]
    BY <1>2, <1>3, <1>4, GenerationFields DEF Becomes
  <2>2. QED
    BY <1>2, <2>1, Numbers DEF Core, GenerationOK
<1>7. GenerationOK(gen)'
  <2>1. ~(gen > builds)
    BY <1>2, LibraryAssumption DEF Core, Counters
  <2>2. QED
    BY <1>1, <1>5, <1>6, <2>1 DEF GenerationOK, Final
<1>8. \A g \in Gen : GenerationOK(g)'
  BY <1>1, <1>2, <1>4, <1>7, OneGeneration DEF Becomes
<1>9. JobKnows(gen)' /\ step' # "idle" /\ done' < NumFiles
  <2>1. step' = "hash" \/ (step' = "stage" /\ done' = 0)
    BY <1>1, Advances
  <2>2. QED
    BY <1>1, <1>2, <1>5, <2>1, Advances DEF JobKnows, Final, Mapped, Summed, Unnamed
<1>10. PointerNamesGeneration'
  <2>1. gen # pointer \/ pointer = 0
    BY <1>1, <1>2 DEF Core, PointerNamesGeneration, JobKnows, Final, Unnamed
  <2>2. QED
    BY <1>1, <1>4, <2>1 DEF Core, PointerNamesGeneration, Becomes, TypeOK
<1>11. QED
  BY <1>1, <1>8, <1>9, <1>10, CoreGoes

LEMMA CoreStaging ==
    ASSUME TypeOK, Core, MakeStaging
    PROVE  Core'
<1> USE DEF sourceVars, diskVars, jobVars, summaryVars, daemonVars, budgets
<1>1. step = "stage" /\ step' = "map" /\ done' = done /\ UNCHANGED <<source, pointer, builds, changes, job, gen>>
  BY DEF MakeStaging
<1>2. job = "build" /\ gen \in Gen /\ JobKnows(gen) /\ gen \in 1 .. builds /\ done = 0
  BY <1>1, JobRuns DEF Core, JobKnows
<1>4. Becomes(gen, "staging", gens[gen].sha, gens[gen].id, gens[gen].receipt)
  BY <1>2, DirSet DEF MakeStaging
<1>5. ~gens'[gen].receipt /\ gens'[gen].dir # "final"
  BY <1>1, <1>2, <1>4 DEF Becomes, JobKnows, Final, Unnamed
<1>7. GenerationOK(gen)'
  <2>1. ~(gen > builds)
    BY <1>2, LibraryAssumption DEF Core, Counters
  <2>2. QED
    BY <1>1, <1>2, <1>4, <1>5, <2>1 DEF GenerationOK, Final, Becomes, Core
<1>8. \A g \in Gen : GenerationOK(g)'
  BY <1>1, <1>2, <1>4, <1>7, OneGeneration DEF Becomes
<1>9. JobKnows(gen)'
  <2>1. \A f \in File : ~(f <= 0)
    BY LibraryAssumption DEF File
  <2>2. QED
    BY <1>1, <1>2, <1>5, <2>1 DEF JobKnows, Final, Mapped, Summed, Unnamed
<1>10. PointerNamesGeneration'
  <2>1. gen # pointer \/ pointer = 0
    BY <1>1, <1>2 DEF Core, PointerNamesGeneration, JobKnows, Final, Unnamed
  <2>2. QED
    BY <1>1, <1>4, <2>1 DEF Core, PointerNamesGeneration, Becomes, TypeOK
<1>11. 0 < NumFiles
  BY LibraryAssumption
<1>12. QED
  BY <1>1, <1>2, <1>8, <1>9, <1>10, <1>11, CoreGoes

LEMMA CoreMap ==
    ASSUME TypeOK, Core, MapFile
    PROVE  Core'
<1> USE DEF sourceVars, diskVars, jobVars, summaryVars, daemonVars, budgets
<1>1. step = "map" /\ Advance("map", "stat") /\ UNCHANGED <<source, pointer, builds, changes, job, gen>>
  BY DEF MapFile, Reads
<1>2. job = "build" /\ gen \in Gen /\ JobKnows(gen) /\ gen \in 1 .. builds
  BY <1>1, JobRuns DEF Core, JobKnows
<1>3. Current \in File /\ source[Current] \in Version
  BY <1>1, Advances DEF TypeOK
<1>4. Becomes(gen, gens[gen].dir, gens[gen].sha,
              [gens[gen].id EXCEPT ![Current] = source[Current]], gens[gen].receipt)
  BY <1>2, <1>3, IdSet DEF MapFile
<1>5. ~gens'[gen].receipt /\ gens'[gen].dir # "final"
  BY <1>1, <1>2, <1>4 DEF Becomes, JobKnows, Final, Unnamed
<1>a. \A f \in File : /\ gens'[gen].id[f] = IF f = Current THEN source[f] ELSE gens[gen].id[f]
                      /\ gens'[gen].sha[f] = gens[gen].sha[f]
  BY <1>2, <1>3, <1>4, GenerationFields DEF Becomes
<1>6. \A f \in File : gens'[gen].sha[f] <= source[f] /\ gens'[gen].id[f] <= source[f]
  BY <1>2, <1>a, Numbers DEF Core, GenerationOK
<1>7. GenerationOK(gen)'
  <2>1. ~(gen > builds)
    BY <1>2, LibraryAssumption DEF Core, Counters
  <2>2. QED
    BY <1>1, <1>5, <1>6, <2>1 DEF GenerationOK, Final
<1>8. \A g \in Gen : GenerationOK(g)'
  BY <1>1, <1>2, <1>4, <1>7, OneGeneration DEF Becomes
<1>b. \A f \in File : f <= Current => gens'[gen].sha[f] <= gens'[gen].id[f]
  <2> SUFFICES ASSUME NEW f \in File, f <= Current PROVE gens'[gen].sha[f] <= gens'[gen].id[f]
    OBVIOUS
  <2>1. f <= done \/ f = Current
    BY <1>1, Advances
  <2>2. CASE f = Current
    BY <1>2, <1>a, <2>2 DEF Core, GenerationOK
  <2>3. CASE f <= done /\ f # Current
    BY <1>1, <1>2, <1>a, <2>3 DEF JobKnows
  <2>4. QED
    BY <2>1, <2>2, <2>3
<1>9. JobKnows(gen)' /\ step' # "idle" /\ done' < NumFiles
  <2>1. \/ step' = "map" /\ done' = Current
        \/ step' = "stat" /\ done' = 0 /\ \A f \in File : f <= Current
    BY <1>1, Advances
  <2>2. \A f \in File : ~(f <= 0)
    BY LibraryAssumption DEF File
  <2>3. \A f \in File : step' \in Mapped \/ (step' = "map" /\ f <= done') =>
                            gens'[gen].sha[f] <= gens'[gen].id[f]
    BY <1>b, <2>1 DEF Mapped
  <2>4. \A f \in File : step' \in Summed \/ (step' \in {"stat", "sum"} /\ f <= done') =>
                            gens'[gen].sha[f] = gens'[gen].id[f]
    BY <2>1, <2>2 DEF Summed
  <2>5. QED
    BY <1>1, <1>2, <1>5, <2>1, <2>3, <2>4, Advances DEF JobKnows, Final, Unnamed
<1>10. PointerNamesGeneration'
  <2>1. gen # pointer \/ pointer = 0
    BY <1>1, <1>2 DEF Core, PointerNamesGeneration, JobKnows, Final, Unnamed
  <2>2. QED
    BY <1>1, <1>4, <2>1 DEF Core, PointerNamesGeneration, Becomes, TypeOK
<1>11. QED
  BY <1>1, <1>8, <1>9, <1>10, CoreGoes

\* Steps of a job that leave the generations alone.
LEMMA CoreSame ==
    ASSUME TypeOK, Core, UNCHANGED <<source, gens, builds, changes>>
    PROVE  \A g \in Gen : GenerationOK(g)'
BY DEF Core, GenerationOK, Final

LEMMA CoreSum ==
    ASSUME TypeOK, Core, SumFile
    PROVE  Core'
<1> USE DEF sourceVars, diskVars, jobVars, summaryVars, daemonVars, budgets
<1>1. /\ step = "sum" /\ Advance("stat", "receipt")
      /\ UNCHANGED <<source, gens, pointer, builds, changes, job, gen>>
      /\ source[Current] = gens[gen].sha[Current]
  BY DEF SumFile, Reads, SumMatches
<1>2. job \in {"build", "validate"} /\ gen \in Gen /\ JobKnows(gen) /\ gen \in 1 .. builds
  BY <1>1, JobRuns DEF Core
<1>3. Current \in File
  BY <1>1, Advances
<1>4. gens[gen].sha[Current] = gens[gen].id[Current]
  <2>1. gens[gen].sha[Current] <= gens[gen].id[Current]
    BY <1>1, <1>2, <1>3 DEF JobKnows, Mapped
  <2>2. gens[gen].id[Current] <= source[Current]
    BY <1>2, <1>3 DEF Core, GenerationOK
  <2>3. QED
    BY <1>1, <1>2, <1>3, <2>1, <2>2, Numbers DEF Core
<1>5. \A f \in File : f <= Current => gens[gen].sha[f] = gens[gen].id[f]
  <2> SUFFICES ASSUME NEW f \in File, f <= Current PROVE gens[gen].sha[f] = gens[gen].id[f]
    OBVIOUS
  <2>1. f <= done \/ f = Current
    BY <1>1, Advances
  <2>2. CASE f <= done
    BY <1>1, <1>2, <2>2 DEF JobKnows
  <2>3. QED
    BY <1>4, <2>1, <2>2
<1>6. \/ step' = "stat" /\ done' = Current
      \/ step' = "receipt" /\ done' = 0 /\ \A f \in File : f <= Current
  BY <1>1, Advances
<1>7. \A f \in File : step' \in Summed \/ (step' \in {"stat", "sum"} /\ f <= done') =>
                          gens'[gen].sha[f] = gens'[gen].id[f]
  BY <1>1, <1>5, <1>6 DEF Summed
<1>8. JobKnows(gen)'
  BY <1>1, <1>2, <1>6, <1>7 DEF JobKnows, Final, Mapped, Unnamed
<1>9. PointerNamesGeneration' /\ done' < NumFiles
  BY <1>1, Advances DEF Core, PointerNamesGeneration
<1>10. QED
  BY <1>1, <1>6, <1>8, <1>9, CoreSame, CoreGoes

LEMMA CoreReceipt ==
    ASSUME TypeOK, Core, step = "write", gens' = [gens EXCEPT ![gen].receipt = TRUE],
           UNCHANGED <<source, builds, changes, pointer>>
    PROVE  /\ \A g \in Gen : GenerationOK(g)'
           /\ PointerNamesGeneration'
           /\ Becomes(gen, gens[gen].dir, gens[gen].sha, gens[gen].id, TRUE)
<1>1. gen \in Gen /\ JobKnows(gen) /\ gen \in 1 .. builds
  BY JobRuns DEF Core
<1>2. PICK h \in Gen : h = gen
  BY <1>1
<1>3. Becomes(h, gens[h].dir, gens[h].sha, gens[h].id, TRUE)
  BY <1>2, ReceiptSet
<1>4. GenerationOK(h)'
  <2>1. ~(h > builds)
    BY <1>1, <1>2, LibraryAssumption DEF Core, Counters
  <2>2. \A f \in File : gens[h].sha[f] = gens[h].id[f]
    BY <1>1, <1>2 DEF JobKnows, Summed
  <2>3. QED
    BY <1>3, <2>1, <2>2 DEF GenerationOK, Final, Becomes, Core
<1>5. \A g \in Gen : GenerationOK(g)'
  BY <1>3, <1>4, OneGeneration DEF Becomes
<1>6. PointerNamesGeneration'
  BY <1>3 DEF Core, PointerNamesGeneration, Becomes, TypeOK
<1>7. QED
  BY <1>2, <1>3, <1>5, <1>6

LEMMA CoreWrite ==
    ASSUME TypeOK, Core, WriteReceipt
    PROVE  Core'
<1> USE DEF sourceVars, diskVars, jobVars, summaryVars, daemonVars, budgets
<1>1. /\ step = "write" /\ step' = (IF job = "build" THEN "rename" ELSE "finish")
      /\ UNCHANGED <<source, pointer, builds, changes, job, gen, done>>
  BY DEF WriteReceipt
<1>2. job \in {"build", "validate"} /\ gen \in Gen /\ JobKnows(gen) /\ done < NumFiles
  BY <1>1, JobRuns DEF Core, JobState
<1>3. Becomes(gen, gens[gen].dir, gens[gen].sha, gens[gen].id, TRUE)
  BY <1>1, CoreReceipt DEF WriteReceipt
<1>4. JobKnows(gen)'
  BY <1>1, <1>2, <1>3 DEF JobKnows, Final, Mapped, Summed, Unnamed, Becomes
<1>5. QED
  BY <1>1, <1>2, <1>4, CoreReceipt, CoreGoes DEF WriteReceipt

LEMMA CoreRename ==
    ASSUME TypeOK, Core, RenameGeneration
    PROVE  Core'
<1> USE DEF sourceVars, diskVars, jobVars, summaryVars, daemonVars, budgets
<1>0. step = "rename" /\ UNCHANGED <<source, builds, changes>>
  BY DEF RenameGeneration
<1>1. CASE canceled
  BY <1>0, <1>1, CoreFails DEF RenameGeneration
<1>2. CASE ~canceled
  <2>1. /\ step' = "promote" /\ gens' = [gens EXCEPT ![gen].dir = "final"]
        /\ UNCHANGED <<pointer, job, done, gen>>
    BY <1>2 DEF RenameGeneration
  <2>2. job = "build" /\ gen \in Gen /\ JobKnows(gen) /\ done < NumFiles /\ gen \in 1 .. builds
    BY <1>0, JobRuns DEF Core, JobState, JobKnows
  <2>3. Becomes(gen, "final", gens[gen].sha, gens[gen].id, gens[gen].receipt)
    BY <2>1, <2>2, DirSet
  <2>4. GenerationOK(gen)'
    <3>1. ~(gen > builds)
      BY <2>2, LibraryAssumption DEF Core, Counters
    <3>2. \A f \in File : gens[gen].sha[f] <= gens[gen].id[f]
      BY <1>0, <2>2 DEF JobKnows, Mapped
    <3>3. QED
      BY <1>0, <2>1, <2>2, <2>3, <3>1, <3>2 DEF GenerationOK, Final, Becomes, Core
  <2>5. \A g \in Gen : GenerationOK(g)'
    BY <1>0, <2>1, <2>2, <2>3, <2>4, OneGeneration DEF Becomes
  <2>6. PointerNamesGeneration'
    BY <2>1, <2>3 DEF Core, PointerNamesGeneration, Becomes, TypeOK
  <2>7. JobKnows(gen)'
    BY <1>0, <2>1, <2>2, <2>3 DEF JobKnows, Final, Mapped, Summed, Unnamed, Becomes
  <2>8. QED
    BY <1>0, <2>1, <2>2, <2>5, <2>6, <2>7, CoreGoes
<1>3. QED
  BY <1>1, <1>2

\* Steps of a job that only look, and the promotion.
LEMMA CoreLooks ==
    ASSUME TypeOK, Core, UNCHANGED <<source, gens, builds, changes, job, gen, done>>,
           \/ step = "stat" /\ step' = "sum" /\ pointer' = pointer
           \/ step = "receipt" /\ step' = "write" /\ pointer' = pointer
           \/ step = "promote" /\ step' = "prune" /\ pointer' = gen
           \/ step = "prune" /\ step' = "finish" /\ pointer' = pointer
    PROVE  Core'
<1>1. job \in {"build", "validate"} /\ gen \in Gen /\ JobKnows(gen) /\ done < NumFiles
  BY JobRuns DEF Core, JobState
<1>2. JobKnows(gen)'
  BY <1>1 DEF JobKnows, Final, Mapped, Summed, Unnamed
<1>3. PointerNamesGeneration'
  BY <1>1 DEF Core, PointerNamesGeneration, JobKnows, Final, Unnamed
<1>4. QED
  BY <1>1, <1>2, <1>3, CoreSame, CoreGoes

\* Victims of a prune go, some or all of them.
LEMMA CorePruned ==
    ASSUME TypeOK, Core, step = "prune", step' \in {"prune", "finish"},
           UNCHANGED <<source, builds, changes, job, gen, done, pointer>>,
           NEW gone \in SUBSET Victims, Vanish(gone)
    PROVE  Core'
<1>1. job = "build" /\ gen \in Gen /\ JobKnows(gen) /\ done < NumFiles
  BY JobRuns DEF Core, JobState, JobKnows
<1>2. gone \subseteq Gen /\ gen \notin gone /\ pointer = gen
  BY <1>1 DEF Victims, JobKnows
<1>3. PointerNamesGeneration' /\ \A g \in Gen : GenerationOK(g)'
  BY <1>2, CoreGone
<1>4. gens'[gen] = gens[gen]
  BY <1>1, <1>2 DEF Vanish
<1>5. JobKnows(gen)'
  BY <1>1, <1>2, <1>4 DEF JobKnows, Final, Mapped, Summed, Unnamed
<1>6. QED
  BY <1>1, <1>3, <1>5, CoreGoes

LEMMA CoreJobs ==
    ASSUME TypeOK, Core, JobStep
    PROVE  Core'
<1> USE DEF sourceVars, diskVars, jobVars, summaryVars, daemonVars, budgets
<1>1. CASE StatFile
  BY <1>1, CoreLooks DEF StatFile, Reads
<1>2. CASE ReadFails
  <2>1. PICK result : JobFails(result)
    BY <1>2 DEF ReadFails
  <2>2. QED
    BY <1>2, <2>1, CoreFails DEF ReadFails
<1>3. CASE CheckReceipt
  <2>1. CASE step' = "write" /\ UNCHANGED <<job, done, gen, canceled, diskVars, summaryVars>>
    BY <1>3, <2>1, CoreLooks DEF CheckReceipt
  <2>2. CASE JobFails("Failed")
    BY <1>3, <2>2, CoreFails DEF CheckReceipt
  <2>3. QED
    BY <1>3, <2>1, <2>2 DEF CheckReceipt
<1>4. CASE Promote
  BY <1>4, CoreLooks DEF Promote
<1>5. CASE Prune
  <2>1. CASE Victims = {}
    BY <1>5, <2>1, CoreLooks DEF Prune
  <2>2. CASE Victims # {}
    <3>1. PICK g \in Victims : gens' = [gens EXCEPT ![g] = NoGeneration]
      BY <1>5, <2>2 DEF Prune
    <3>2. g \in Gen
      BY DEF Victims
    <3>3. Vanish({g})
      BY <3>1, <3>2, Removed
    <3>4. QED
      BY <1>5, <2>2, <3>1, <3>3, CorePruned DEF Prune
  <2>3. QED
    BY <2>1, <2>2
<1>6. CASE Finish
  BY <1>6, CoreQuiet DEF Finish, JobOver
<1>7. QED
  BY <1>1, <1>2, <1>3, <1>4, <1>5, <1>6, CoreHash, CoreStaging, CoreMap, CoreSum, CoreWrite,
     CoreRename DEF JobStep

LEMMA CoreFault ==
    ASSUME TypeOK, Core, JobFault
    PROVE  Core'
<1> USE DEF sourceVars, diskVars, jobVars, summaryVars, daemonVars, budgets
<1>0. UNCHANGED <<source, builds, changes>>
  BY DEF JobFault
<1>1. CASE step \in {"stage", "write", "rename"} /\ JobFails("Failed")
  BY <1>0, <1>1, CoreFails
<1>2. CASE /\ step = "write" /\ JobOver("Failed")
           /\ gens' = [gens EXCEPT ![gen].receipt = TRUE] /\ UNCHANGED pointer
  <2>1. Counters' /\ JobState'
    BY <1>0, <1>2 DEF Core, Counters, JobState, JobOver
  <2>2. QED
    BY <1>0, <1>2, <2>1, CoreReceipt DEF Core
<1>3. CASE step = "promote" /\ JobOver("Failed") /\ pointer' \in {pointer, gen} /\ UNCHANGED gens
  <2>1. gen \in 1 .. builds /\ Final(gen)
    BY <1>3, JobRuns DEF Core, JobKnows, Unnamed
  <2>2. Counters' /\ JobState'
    BY <1>0, <1>3, <2>1, LibraryAssumption DEF Core, Counters, JobState, JobOver
  <2>3. PointerNamesGeneration'
    BY <1>3, <2>1 DEF Core, PointerNamesGeneration, Final
  <2>4. QED
    BY <1>0, <1>3, <2>2, <2>3, CoreSame DEF Core
<1>4. CASE /\ step = "prune"
           /\ \E kept \in (SUBSET Victims) \ {{}} :
                gens' = [g \in Gen |-> IF g \in Victims \ kept THEN NoGeneration
                                       ELSE gens[g]]
           /\ step' = "finish"
           /\ UNCHANGED <<pointer, job, done, gen, canceled, summaryVars>>
  <2>1. Victims \subseteq Gen
    BY DEF Victims
  <2>2. PICK kept \in (SUBSET Victims) \ {{}} :
           gens' = [g \in Gen |-> IF g \in Victims \ kept THEN NoGeneration ELSE gens[g]]
    BY <1>4
  <2>3. Vanish(Victims \ kept)
    BY <2>1, <2>2, Vanishing
  <2>4. QED
    BY <1>0, <1>4, <2>3, CorePruned
<1>5. QED
  BY <1>1, <1>2, <1>3, <1>4 DEF JobFault

LEMMA CoreBuild ==
    ASSUME TypeOK, Core, StartBuild
    PROVE  Core'
<1> USE DEF sourceVars, diskVars, jobVars, summaryVars, daemonVars, budgets
<1>1. builds \in Int /\ builds + 1 \in Gen /\ builds' = builds + 1 /\ gen' = builds + 1
      /\ UNCHANGED <<source, gens, pointer, changes>>
  BY LibraryAssumption DEF StartBuild, Core, Counters, Gen
<1>a. pointer \in Int
  <2>1. pointer \in Gen \cup {0}
    BY DEF TypeOK
  <2>2. QED
    BY <2>1, LibraryAssumption DEF Gen
<1>2. Counters' /\ PointerNamesGeneration'
  BY <1>1, <1>a, LibraryAssumption DEF Core, Counters, PointerNamesGeneration, Gen
<1>3. \A g \in Gen : GenerationOK(g)'
  <2>1. source' \in [File -> Version] /\ source' = source
    BY <1>1 DEF TypeOK
  <2>2. \A f \in File : source[f] <= source'[f]
    BY <2>1, Numbers, <1>1 DEF Core
  <2>3. builds' \in Int /\ builds <= builds'
    BY <1>1
  <2>4. QED
    BY <1>1, <2>1, <2>2, <2>3, KeepGeneration DEF Core
<1>4. gens[builds + 1] = NoGeneration
  BY <1>1 DEF Core, GenerationOK
<1>5. ~gens'[gen'].receipt /\ gens'[gen'].dir # "final"
  BY <1>1, <1>4 DEF NoGeneration
<1>6. JobState'
  <2>1. job' = "build" /\ step' = "hash" /\ done' = 0 /\ 0 < NumFiles
    BY LibraryAssumption DEF StartBuild
  <2>2. gen' \in 1 .. builds'
    BY <1>1, LibraryAssumption DEF Gen
  <2>3. QED
    BY <1>5, <2>1, <2>2 DEF JobState, JobKnows, Final, Mapped, Summed, Unnamed
<1>7. QED
  BY <1>2, <1>3, <1>6 DEF Core

LEMMA CoreValidation ==
    ASSUME TypeOK, Core, NEW t \in Threads, StartActiveValidation(t)
    PROVE  Core'
<1> USE DEF sourceVars, diskVars, jobVars, summaryVars, daemonVars, budgets
<1>0. UNCHANGED <<source, gens, pointer, builds, changes>>
  BY DEF StartActiveValidation
<1>1. CASE UNCHANGED <<job, gen, step, done, state, validation>>
  BY <1>0, <1>1, CoreQuiet
<1>2. CASE job' = "validate" /\ pointer # 0 /\ gen' = pointer /\ step' = "stat" /\ done' = 0
  <2>1. pointer \in Gen /\ pointer \in 1 .. builds /\ Final(pointer) /\ 0 < NumFiles
    <3>1. pointer \in Gen /\ pointer <= builds /\ builds \in 0 .. MaxGenerations
      BY <1>2 DEF TypeOK, Core, Counters
    <3>2. pointer \in 1 .. builds /\ 0 < NumFiles
      BY <3>1, LibraryAssumption DEF Gen
    <3>3. QED
      BY <1>2, <3>1, <3>2 DEF Core, PointerNamesGeneration, Final
  <2>2. \A f \in File : ~(f <= 0)
    BY LibraryAssumption DEF File
  <2>3. \A f \in File : gens[pointer].sha[f] <= gens[pointer].id[f]
    BY <2>1 DEF Core, GenerationOK
  <2>4. JobState'
    BY <1>0, <1>2, <2>1, <2>2, <2>3 DEF JobState, JobKnows, Final, Mapped, Summed, Unnamed
  <2>5. Counters' /\ PointerNamesGeneration'
    BY <1>0 DEF Core, Counters, PointerNamesGeneration
  <2>6. QED
    BY <1>0, <2>4, <2>5, CoreSame DEF Core
<1>3. QED
  BY <1>1, <1>2 DEF StartActiveValidation

-----------------------------------------------------------------------------
\* What no step does to a recheck under way: the generation under construction
\* apart, recorded identities only vanish, and a build takes a new name.
Calm ==
    /\ pointer # 0 => pointer' # 0
    /\ builds' \in Int /\ builds <= builds'
    /\ \A f \in File : source[f] <= source'[f]
    /\ \A g \in 1 .. builds : \/ job = "build" /\ step \in Unnamed /\ g = gen
                              \/ \A f \in File : gens'[g].id[f] <= gens[g].id[f]
    /\ (job = "build" /\ step \in Unnamed)' =>
          gen' > builds \/ (job = "build" /\ step \in Unnamed /\ gen' = gen)

\* No step but a recheck takes the receipt and leaves the generation.
Keeps ==
    \A g \in Gen : Final(g) /\ gens[g].receipt => gens'[g].receipt \/ gens'[g].dir = "none"

LEMMA CheckKept ==
    ASSUME TypeOK, TypeOK', Core, Core', Calm, NEW t \in Threads, CheckOK(t),
           checker'[t] = checker[t], rooted' = rooted
    PROVE  CheckOK(t)'
<1>0. builds \in Nat /\ MaxGenerations \in Nat /\ builds \in 0 .. MaxGenerations
  BY LibraryAssumption DEF Core, Counters
<1>1. (checker[t].pc = "pointer" => pointer # 0)'
  BY DEF CheckOK, Calm
<1>2. ASSUME checker[t].pc \in {"stat", "apply"}
      PROVE  /\ checker[t].gen \in 1 .. builds'
             /\ (job = "build" /\ step \in Unnamed)' => checker[t].gen # gen'
  BY <1>0, <1>2 DEF CheckOK, Calm
<1>3. ASSUME checker[t].pc = "apply", checker[t].result = "changed", rooted
      PROVE  \E f \in File : gens'[checker[t].gen].id[f] < source'[f]
  <2>1. PICK g \in 1 .. builds : g = checker[t].gen
    BY <1>3 DEF CheckOK
  <2>2. PICK f \in File : gens[g].id[f] < source[f]
    BY <1>3, <2>1 DEF CheckOK
  <2>3. g \in Gen
    BY <1>0 DEF Gen
  <2>4. gens'[g].id[f] <= gens[g].id[f] /\ source[f] <= source'[f]
    BY <1>3, <2>1 DEF Calm, CheckOK
  <2>5. gens'[g].id[f] \in Int /\ gens[g].id[f] \in Int /\ source[f] \in Int /\ source'[f] \in Int
    <3>1. gens' \in [Gen -> Generation] /\ source' \in [File -> Version]
      BY DEF TypeOK
    <3>2. gens'[g].id \in [File -> Version]
      BY <2>3, <3>1 DEF Generation
    <3>3. gens'[g].id[f] \in Version /\ source'[f] \in Version
      BY <3>1, <3>2
    <3>4. QED
      BY <2>3, <3>3, Numbers, LibraryAssumption DEF Core, Version
  <2>6. gens'[g].id[f] < source'[f]
    BY <2>2, <2>4, <2>5
  <2>7. QED
    BY <2>1, <2>6
<1>4. QED
  BY <1>1, <1>2, <1>3 DEF CheckOK

\* A step that leaves the source, the counter of builds and the identities alone.
LEMMA CalmGens ==
    ASSUME TypeOK, Core, UNCHANGED <<source, builds>>, pointer' \in {pointer, gen},
           pointer' = gen => gen # 0,
           NEW g \in Gen,
           \/ g = gen /\ job = "build" /\ step \in Unnamed
           \/ \A f \in File : gens'[g].id[f] = gens[g].id[f],
           \A h \in Gen \ {g} : gens'[h] = gens[h],
           \/ ~(job = "build" /\ step \in Unnamed)'
           \/ job = "build" /\ step \in Unnamed /\ gen' = gen
    PROVE  Calm
<1>1. builds \in Nat /\ 1 .. builds \subseteq Gen
  BY LibraryAssumption DEF Core, Counters, Gen
<1>2. \A f \in File : source[f] <= source'[f]
  BY Numbers DEF Core
<1>3. ASSUME NEW h \in 1 .. builds, ~(job = "build" /\ step \in Unnamed /\ h = gen),
             NEW f \in File
      PROVE  gens'[h].id[f] <= gens[h].id[f]
  <2>1. gens'[h].id[f] = gens[h].id[f]
    BY <1>1, <1>3
  <2>2. QED
    BY <1>1, <2>1, Numbers DEF Core
<1>4. QED
  BY <1>1, <1>2, <1>3 DEF Calm

LEMMA CalmQuiet ==
    ASSUME TypeOK, Core, UNCHANGED <<source, gens, builds>>, pointer' \in {pointer, gen},
           pointer' = gen => gen # 0,
           \/ ~(job = "build" /\ step \in Unnamed)'
           \/ job = "build" /\ step \in Unnamed /\ gen' = gen
    PROVE  Calm /\ Keeps
<1>1. 1 \in Gen
  BY LibraryAssumption DEF Gen
<1>2. Calm
  BY <1>1, CalmGens
<1>3. QED
  BY <1>2 DEF Keeps

LEMMA CalmGone ==
    ASSUME TypeOK, Core, UNCHANGED <<source, builds, pointer>>,
           NEW victims \in SUBSET Gen, Vanish(victims),
           ~(job = "build" /\ step \in Unnamed)'
    PROVE  Calm /\ Keeps
<1>1. builds \in Nat /\ 1 .. builds \subseteq Gen
  BY LibraryAssumption DEF Core, Counters, Gen
<1>2. \A f \in File : source[f] <= source'[f]
  <2>1. 1 \in Gen
    BY LibraryAssumption DEF Gen
  <2>2. QED
    BY <2>1, Numbers DEF Core
<1>3. ASSUME NEW h \in Gen, NEW f \in File
      PROVE  gens'[h].id[f] <= gens[h].id[f]
  <2>1. gens'[h].id[f] = gens[h].id[f] \/ gens'[h].id[f] = 0
    BY DEF Vanish
  <2>2. QED
    BY <2>1, Numbers DEF Core
<1>4. Calm
  BY <1>1, <1>2, <1>3 DEF Calm
<1>5. Keeps
  BY DEF Keeps, Vanish
<1>6. QED
  BY <1>4, <1>5

LEMMA CalmFails ==
    ASSUME TypeOK, Core, UNCHANGED <<source, builds>>, step # "idle", NEW result,
           JobFails(result)
    PROVE  Calm /\ Keeps
<1>1. gen \in Gen /\ gen # 0 /\ job' = "none" /\ pointer' = pointer
  BY JobRuns, LibraryAssumption DEF Core, Gen, JobFails, JobOver
<1>2. CASE job = "build" /\ gens[gen].dir # "final"
  <2>1. Vanish({gen})
    BY <1>1, <1>2, Removed DEF JobFails
  <2>2. QED
    BY <1>1, <2>1, CalmGone
<1>3. CASE ~(job = "build" /\ gens[gen].dir # "final")
  BY <1>1, <1>3, CalmQuiet DEF JobFails
<1>4. QED
  BY <1>2, <1>3

LEMMA CalmJobs ==
    ASSUME TypeOK, Core, JobStep
    PROVE  Calm /\ Keeps
<1> USE DEF sourceVars, diskVars, jobVars, summaryVars, daemonVars, budgets
<1>0. step # "idle" /\ UNCHANGED <<source, builds>>
  BY DEF JobStep, HashFile, MakeStaging, MapFile, StatFile, SumFile, ReadFails, Reads,
         CheckReceipt, WriteReceipt, RenameGeneration, Promote, Prune, Finish
<1>a. gen \in Gen /\ gen # 0 /\ JobKnows(gen) /\ job \in {"build", "validate"}
  BY <1>0, JobRuns, LibraryAssumption DEF Core, Gen
<1>1. CASE HashFile
  <2>1. step = "hash" /\ job' = job /\ gen' = gen /\ pointer' = pointer /\ job = "build"
        /\ Advance("hash", "stage")
    BY <1>1, <1>a DEF HashFile, Reads, JobKnows
  <2>2. Current \in File /\ source[Current] \in Version
    BY <1>0, <2>1, Advances DEF TypeOK
  <2>3. Becomes(gen, gens[gen].dir, [gens[gen].sha EXCEPT ![Current] = source[Current]],
                gens[gen].id, gens[gen].receipt)
    BY <1>1, <1>a, <2>2, ShaSet DEF HashFile
  <2>4. Calm
    BY <1>0, <1>a, <2>1, <2>3, CalmGens DEF Becomes, Unnamed
  <2>5. QED
    BY <2>3, <2>4 DEF Becomes, Keeps
<1>2. CASE MakeStaging
  <2>1. step = "stage" /\ job' = job /\ gen' = gen /\ pointer' = pointer /\ job = "build"
    BY <1>2, <1>a DEF MakeStaging, JobKnows
  <2>2. Becomes(gen, "staging", gens[gen].sha, gens[gen].id, gens[gen].receipt)
    BY <1>2, <1>a, DirSet DEF MakeStaging
  <2>3. Calm
    BY <1>0, <1>a, <2>1, <2>2, CalmGens DEF Becomes, Unnamed
  <2>4. QED
    BY <2>2, <2>3 DEF Becomes, Keeps
<1>3. CASE MapFile
  <2>1. step = "map" /\ job' = job /\ gen' = gen /\ pointer' = pointer /\ job = "build"
        /\ Advance("map", "stat")
    BY <1>3, <1>a DEF MapFile, Reads, JobKnows
  <2>2. Current \in File /\ source[Current] \in Version
    BY <1>0, <2>1, Advances DEF TypeOK
  <2>3. Becomes(gen, gens[gen].dir, gens[gen].sha,
                [gens[gen].id EXCEPT ![Current] = source[Current]], gens[gen].receipt)
    BY <1>3, <1>a, <2>2, IdSet DEF MapFile
  <2>4. Calm
    BY <1>0, <1>a, <2>1, <2>3, CalmGens DEF Becomes, Unnamed
  <2>5. QED
    BY <2>3, <2>4 DEF Becomes, Keeps
<1>4. CASE StatFile
  BY <1>0, <1>4, <1>a, CalmQuiet DEF StatFile, Reads, Unnamed
<1>5. CASE SumFile
  BY <1>0, <1>5, <1>a, CalmQuiet DEF SumFile, Reads, Unnamed
<1>6. CASE ReadFails
  BY <1>0, <1>6, CalmFails DEF ReadFails
<1>7. CASE CheckReceipt
  <2>1. CASE step' = "write" /\ UNCHANGED <<job, done, gen, canceled, diskVars, summaryVars>>
    BY <1>0, <1>7, <1>a, <2>1, CalmQuiet DEF CheckReceipt, Unnamed
  <2>2. CASE JobFails("Failed")
    BY <1>0, <1>7, <2>2, CalmFails DEF CheckReceipt
  <2>3. QED
    BY <1>7, <2>1, <2>2 DEF CheckReceipt
<1>8. CASE WriteReceipt
  <2>1. step = "write" /\ job' = job /\ gen' = gen /\ pointer' = pointer
    BY <1>8 DEF WriteReceipt
  <2>2. Becomes(gen, gens[gen].dir, gens[gen].sha, gens[gen].id, TRUE)
    BY <1>8, <1>a, ReceiptSet DEF WriteReceipt
  <2>3. Calm
    BY <1>0, <1>a, <2>1, <2>2, CalmGens DEF Becomes, Unnamed
  <2>4. QED
    BY <2>2, <2>3 DEF Becomes, Keeps
<1>9. CASE RenameGeneration
  <2>1. CASE canceled
    BY <1>0, <1>9, <2>1, CalmFails DEF RenameGeneration
  <2>2. CASE ~canceled
    <3>1. step' = "promote" /\ pointer' = pointer
      BY <1>9, <2>2 DEF RenameGeneration
    <3>2. Becomes(gen, "final", gens[gen].sha, gens[gen].id, gens[gen].receipt)
      BY <1>9, <1>a, <2>2, DirSet DEF RenameGeneration
    <3>3. Calm
      BY <1>0, <1>a, <3>1, <3>2, CalmGens DEF Becomes, Unnamed
    <3>4. QED
      BY <3>2, <3>3 DEF Becomes, Keeps
  <2>3. QED
    BY <2>1, <2>2
<1>10. CASE Promote
  BY <1>0, <1>10, <1>a, CalmQuiet DEF Promote, Unnamed
<1>11. CASE Prune
  <2>1. ~(job = "build" /\ step \in Unnamed)'
    BY <1>11 DEF Prune, Unnamed
  <2>2. CASE Victims = {}
    BY <1>0, <1>a, <1>11, <2>1, <2>2, CalmQuiet DEF Prune
  <2>3. CASE Victims # {}
    <3>1. PICK g \in Victims : gens' = [gens EXCEPT ![g] = NoGeneration]
      BY <1>11, <2>3 DEF Prune
    <3>2. g \in Gen
      BY DEF Victims
    <3>3. Vanish({g})
      BY <3>1, <3>2, Removed
    <3>4. QED
      BY <1>0, <1>11, <2>1, <3>2, <3>3, CalmGone DEF Prune
  <2>4. QED
    BY <2>2, <2>3
<1>12. CASE Finish
  BY <1>0, <1>12, <1>a, CalmQuiet DEF Finish, JobOver
<1>13. QED
  BY <1>1, <1>2, <1>3, <1>4, <1>5, <1>6, <1>7, <1>8, <1>9, <1>10, <1>11, <1>12 DEF JobStep

LEMMA CalmFault ==
    ASSUME TypeOK, Core, JobFault
    PROVE  Calm /\ Keeps
<1> USE DEF sourceVars, diskVars, jobVars, summaryVars, daemonVars, budgets
<1>0. UNCHANGED <<source, builds>> /\ step # "idle"
  BY DEF JobFault
<1>a. gen \in Gen /\ gen # 0
  BY <1>0, JobRuns, LibraryAssumption DEF Core, Gen
<1>1. CASE step \in {"stage", "write", "rename"} /\ JobFails("Failed")
  BY <1>0, <1>1, CalmFails
<1>2. CASE /\ step = "write" /\ JobOver("Failed")
           /\ gens' = [gens EXCEPT ![gen].receipt = TRUE] /\ UNCHANGED pointer
  <2>1. Becomes(gen, gens[gen].dir, gens[gen].sha, gens[gen].id, TRUE) /\ job' = "none"
    BY <1>2, <1>a, ReceiptSet DEF JobOver
  <2>2. Calm
    BY <1>0, <1>2, <1>a, <2>1, CalmGens DEF Becomes
  <2>3. QED
    BY <2>1, <2>2 DEF Becomes, Keeps
<1>3. CASE step = "promote" /\ JobOver("Failed") /\ pointer' \in {pointer, gen} /\ UNCHANGED gens
  BY <1>0, <1>3, <1>a, CalmQuiet DEF JobOver
<1>4. CASE /\ step = "prune"
           /\ \E kept \in (SUBSET Victims) \ {{}} :
                gens' = [g \in Gen |-> IF g \in Victims \ kept THEN NoGeneration
                                       ELSE gens[g]]
           /\ step' = "finish"
           /\ UNCHANGED <<pointer, job, done, gen, canceled, summaryVars>>
  <2>1. Victims \subseteq Gen
    BY DEF Victims
  <2>2. PICK kept \in (SUBSET Victims) \ {{}} :
           gens' = [g \in Gen |-> IF g \in Victims \ kept THEN NoGeneration ELSE gens[g]]
    BY <1>4
  <2>3. Vanish(Victims \ kept)
    BY <2>1, <2>2, Vanishing
  <2>4. QED
    BY <1>0, <1>4, <2>1, <2>3, CalmGone DEF Unnamed
<1>5. QED
  BY <1>1, <1>2, <1>3, <1>4 DEF JobFault

\* A thread that is not in the middle of a recheck has nothing to remember.
LEMMA CheckIdle ==
    ASSUME NEW t \in Threads, checker'[t].pc \in {"idle", "scan", "after"}
    PROVE  CheckOK(t)'
BY DEF CheckOK

LEMMA ThreadChecks ==
    ASSUME TypeOK, TypeOK', Core, Core', CheckerState, NEW t \in Threads, ThreadStep(t)
    PROVE  CheckOK(t)'
<1> USE DEF sourceVars, diskVars, jobVars, summaryVars, daemonVars, budgets
<1>0. checker \in [Threads -> CheckRecord] /\ checker[t] \in CheckRecord
  <2>1. checker \in [Threads -> CheckRecord]
    BY DEF TypeOK, CheckRecord
  <2>2. QED
    BY <2>1
<1>a. Idle.pc = "idle" /\ AfterRecheck(t) \in {"idle", "after"}
  BY DEF Idle, AfterRecheck
<1>1. CASE Scan(t)
  <2>1. CASE ~online
    BY <1>0, <1>1, <1>a, <2>1, CheckIdle DEF Scan
  <2>2. CASE online
    <3>1. checker' = [checker EXCEPT ![t] = [checker[t] EXCEPT !.pc =
                                     IF pointer # 0 THEN "pointer" ELSE AfterRecheck(t)]]
      BY <1>1, <2>2 DEF Scan
    <3>2. checker'[t].pc = IF pointer # 0 THEN "pointer" ELSE AfterRecheck(t)
      BY <1>0, <3>1 DEF CheckRecord
    <3>3. pointer' = pointer
      BY <1>1 DEF Scan
    <3>4. QED
      BY <1>a, <3>2, <3>3 DEF CheckOK
  <2>3. QED
    BY <2>1, <2>2
<1>2. CASE RecheckPointer(t)
  <2>1. checker' = [checker EXCEPT ![t] = [checker[t] EXCEPT !.pc = "stat", !.gen = pointer]]
        /\ checker[t].pc = "pointer" /\ UNCHANGED <<pointer, job, step, gen, builds, gens>>
    BY <1>2 DEF RecheckPointer
  <2>2. checker'[t].pc = "stat" /\ checker'[t].gen = pointer
    BY <1>0, <2>1 DEF CheckRecord
  <2>3. pointer # 0 /\ pointer \in Gen /\ pointer <= builds /\ builds \in 0 .. MaxGenerations
    BY <2>1 DEF CheckerState, CheckOK, TypeOK, Core, Counters
  <2>4. pointer \in 1 .. builds
    BY <2>3, LibraryAssumption DEF Gen
  <2>5. job = "build" /\ step \in Unnamed => pointer # gen
    BY <2>3 DEF Core, JobState, JobKnows, PointerNamesGeneration, Final
  <2>6. QED
    BY <2>1, <2>2, <2>4, <2>5 DEF CheckOK
<1>3. CASE RecheckFiles(t)
  <2> DEFINE g == checker[t].gen
             result == IF gens[g].dir = "final" THEN FastResult(g) ELSE "unavailable"
  <2>1. checker' = [checker EXCEPT ![t] = [checker[t] EXCEPT !.pc = "apply", !.result = result]]
        /\ checker[t].pc = "stat" /\ UNCHANGED <<source, rooted, pointer, job, step, gen, builds, gens>>
    BY <1>3 DEF RecheckFiles
  <2>2. result = "changed" => ~rooted \/ \E f \in File : source[f] # gens[g].id[f]
    BY DEF FastResult, FilesResult
  <2> HIDE DEF result
  <2>3. checker'[t].pc = "apply" /\ checker'[t].gen = g /\ checker'[t].result = result
    BY <1>0, <2>1 DEF CheckRecord
  <2>4. g \in 1 .. builds /\ (job = "build" /\ step \in Unnamed => g # gen)
    BY <2>1 DEF CheckerState, CheckOK
  <2>5. g \in Gen
    BY <2>4, LibraryAssumption DEF Core, Counters, Gen
  <2>6. ASSUME NEW f \in File, source[f] # gens[g].id[f] PROVE gens[g].id[f] < source[f]
    <3>1. gens[g].id[f] <= source[f]
      BY <2>5 DEF Core, GenerationOK
    <3>2. gens[g].id[f] \in Int /\ source[f] \in Int
      BY <2>5, Numbers DEF Core
    <3>3. QED
      BY <2>6, <3>1, <3>2
  <2>7. QED
    BY <2>1, <2>2, <2>3, <2>4, <2>6 DEF CheckOK
<1>4. CASE RecheckApply(t)
  <2>1. \/ checker'[t] = Idle
        \/ checker'[t] = [Idle EXCEPT !.pc = AfterRecheck(t), !.kind = checker[t].kind]
    BY <1>0, <1>4 DEF RecheckApply
  <2>2. checker'[t].pc \in {"idle", "after"}
    BY <1>a, <2>1 DEF Idle
  <2>3. QED
    BY <2>2, CheckIdle
<1>5. CASE StartActiveValidation(t)
  BY <1>0, <1>5, <1>a, CheckIdle DEF StartActiveValidation
<1>6. QED
  BY <1>1, <1>2, <1>3, <1>4, <1>5 DEF ThreadStep

\* The generation of a recheck that is applied.
LEMMA Rechecked ==
    ASSUME TypeOK, Core, CheckerState, NEW t \in Threads, RecheckApply(t)
    PROVE  /\ checker[t].gen \in Gen /\ checker[t].gen \in 1 .. builds
           /\ \/ UNCHANGED gens
              \/ /\ checker[t].result = "changed"
                 /\ Becomes(checker[t].gen, gens[checker[t].gen].dir, gens[checker[t].gen].sha,
                            gens[checker[t].gen].id, FALSE)
<1>1. checker[t].gen \in 1 .. builds
  BY DEF CheckerState, CheckOK, RecheckApply
<1>2. checker[t].gen \in Gen
  BY <1>1, LibraryAssumption DEF Core, Counters, Gen
<1>3. QED
  BY <1>1, <1>2, ReceiptSet DEF RecheckApply, Revoked

\* A step of a thread, or of the world around the library.
LEMMA CalmStill ==
    ASSUME TypeOK, Core, UNCHANGED <<source, builds, pointer>>,
           \A g \in Gen, f \in File : gens'[g].id[f] = gens[g].id[f],
           UNCHANGED <<job, step, gen>> \/ job' \in {"none", "validate"}
    PROVE  Calm
<1>1. 1 \in Gen /\ builds \in Int /\ 1 .. builds \subseteq Gen
  BY LibraryAssumption DEF Core, Counters, Gen
<1>2. \A f \in File : source[f] <= source'[f]
  BY <1>1, Numbers DEF Core
<1>3. \A g \in Gen, f \in File : gens'[g].id[f] <= gens[g].id[f]
  BY Numbers DEF Core
<1>4. QED
  BY <1>1, <1>2, <1>3 DEF Calm

LEMMA ThreadCore ==
    ASSUME TypeOK, Core, CheckerState, NEW t \in Threads, ThreadStep(t)
    PROVE  Core' /\ Calm /\ (Keeps \/ RecheckApply(t))
<1> USE DEF sourceVars, diskVars, jobVars, summaryVars, daemonVars, budgets
<1>1. CASE Scan(t) \/ RecheckPointer(t) \/ RecheckFiles(t)
  <2>1. UNCHANGED <<source, gens, pointer, builds, changes, job, step, done, gen>>
    BY <1>1 DEF Scan, RecheckPointer, RecheckFiles
  <2>2. QED
    BY <2>1, CoreQuiet, CalmStill DEF Keeps
<1>2. CASE RecheckApply(t)
  <2>1. UNCHANGED <<source, pointer, builds, changes, job, step, done, gen>>
    BY <1>2 DEF RecheckApply
  <2>2. PICK g \in Gen : g = checker[t].gen
    BY <1>2, Rechecked
  <2>3. CASE UNCHANGED gens
    BY <1>2, <2>1, <2>3, CoreQuiet, CalmStill
  <2>4. CASE Becomes(g, gens[g].dir, gens[g].sha, gens[g].id, FALSE)
    <3>1. Core'
      BY <1>2, <2>1, <2>2, <2>4, Rechecked, CoreRevoked
    <3>2. \A h \in Gen, f \in File : gens'[h].id[f] = gens[h].id[f]
      BY <2>4 DEF Becomes
    <3>3. QED
      BY <1>2, <2>1, <3>1, <3>2, CalmStill
  <2>5. QED
    BY <1>2, <2>2, <2>3, <2>4, Rechecked
<1>3. CASE StartActiveValidation(t)
  <2>1. Core' /\ UNCHANGED <<source, gens, pointer, builds>>
    BY <1>3, CoreValidation DEF StartActiveValidation
  <2>2. UNCHANGED <<job, step, gen>> \/ job' \in {"none", "validate"}
    BY <1>3 DEF StartActiveValidation
  <2>3. QED
    BY <2>1, <2>2, CalmStill DEF Keeps
<1>4. QED
  BY <1>1, <1>2, <1>3 DEF ThreadStep

\* Every step, but for the thread that it moves on.
LEMMA CoreNext ==
    ASSUME TypeOK, TypeOK', Core, CheckerState, [Next]_vars
    PROVE  /\ Core' /\ Calm
           /\ Keeps \/ \E t \in Threads : RecheckApply(t)
<1> USE DEF sourceVars, diskVars, jobVars, summaryVars, daemonVars, budgets
<1>1. ASSUME NEW f \in File, ChangeFile(f) PROVE Core' /\ Calm /\ Keeps
  <2>1. UNCHANGED <<gens, pointer, builds, job, step, gen>> /\ source' = [source EXCEPT ![f] = changes']
        /\ changes' = changes + 1 /\ source \in [File -> Version]
    BY <1>1 DEF ChangeFile, TypeOK
  <2>2. 1 \in Gen /\ builds \in Int /\ 1 .. builds \subseteq Gen
    BY LibraryAssumption DEF Core, Counters, Gen
  <2>3. \A h \in File : source[h] <= source'[h]
    BY <2>1, <2>2, Numbers DEF Core, Counters
  <2>4. \A g \in Gen, h \in File : gens'[g].id[h] <= gens[g].id[h]
    BY <2>1, Numbers DEF Core
  <2>5. Calm /\ Keeps
    BY <2>1, <2>2, <2>3, <2>4 DEF Calm, Keeps
  <2>6. QED
    BY <1>1, <2>5, CoreChange
<1>2. CASE \/ GoOffline \/ GoOnline \/ RecordFailure \/ Cancel \/ UNCHANGED vars
           \/ \E kind \in {"rescan", "recovery"} : StartScan(kind)
  <2>1. UNCHANGED <<source, gens, pointer, builds, changes, job, step, done, gen>>
    BY <1>2 DEF GoOffline, GoOnline, RecordFailure, Cancel, StartScan, vars
  <2>2. QED
    BY <2>1, CoreQuiet, CalmStill DEF Keeps
<1>3. ASSUME NEW t \in Threads, ThreadStep(t) PROVE Core' /\ Calm /\ (Keeps \/ RecheckApply(t))
  BY <1>3, ThreadCore
<1>4. CASE StartBuild
  <2>1. UNCHANGED <<source, gens, pointer>> /\ builds' = builds + 1 /\ gen' = builds + 1
    BY <1>4 DEF StartBuild
  <2>2. 1 \in Gen /\ builds \in Int /\ 1 .. builds \subseteq Gen
    BY LibraryAssumption DEF Core, Counters, Gen
  <2>3. \A h \in File : source[h] <= source'[h]
    BY <2>1, <2>2, Numbers DEF Core
  <2>4. \A g \in Gen, h \in File : gens'[g].id[h] <= gens[g].id[h]
    BY <2>1, Numbers DEF Core
  <2>5. Calm /\ Keeps
    BY <2>1, <2>2, <2>3, <2>4 DEF Calm, Keeps
  <2>6. QED
    BY <1>4, <2>5, CoreBuild
<1>5. CASE JobStep
  BY <1>5, CoreJobs, CalmJobs
<1>6. CASE JobFault
  BY <1>6, CoreFault, CalmFault
<1>7. CASE Crash
  <2>1. UNCHANGED <<source, gens, pointer, builds, changes>> /\ job' = "none" /\ step' = "idle"
    BY <1>7 DEF Crash
  <2>2. QED
    BY <2>1, CoreQuiet, CalmStill DEF Keeps
<1>8. QED
  BY <1>1, <1>2, <1>3, <1>4, <1>5, <1>6, <1>7 DEF Next

LEMMA CheckerNext ==
    ASSUME TypeOK, TypeOK', Core, Core', Calm, CheckerState, [Next]_vars
    PROVE  CheckerState'
<1> USE DEF sourceVars, diskVars, jobVars, summaryVars, daemonVars, budgets
<1>0. checker \in [Threads -> CheckRecord]
  BY DEF TypeOK, CheckRecord
<1>1. CASE UNCHANGED <<checker, rooted>>
  BY <1>1, CheckKept DEF CheckerState
<1>2. ASSUME NEW kind \in {"rescan", "recovery"}, StartScan(kind) PROVE CheckerState'
  <2>1. checker' = [checker EXCEPT !["scan"] = [Idle EXCEPT !.pc = "scan", !.kind = kind]]
    BY <1>2 DEF StartScan
  <2>2. checker'["scan"].pc = "scan" /\ \A t \in Threads \ {"scan"} : checker'[t] = checker[t]
    BY <1>0, <2>1 DEF Threads, Idle
  <2>3. QED
    BY <1>2, <2>2, CheckIdle, CheckKept DEF CheckerState, StartScan
<1>3. ASSUME NEW t \in Threads, ThreadStep(t) PROVE CheckerState'
  <2>1. rooted' = rooted /\ \A u \in Threads \ {t} : checker'[u] = checker[u]
    BY <1>0, <1>3 DEF ThreadStep, Scan, RecheckPointer, RecheckFiles, RecheckApply,
                      StartActiveValidation
  <2>2. QED
    BY <1>3, <2>1, ThreadChecks, CheckKept DEF CheckerState
<1>4. CASE Crash
  <2>1. \A t \in Threads : checker'[t].pc \in {"idle", "scan"}
    BY <1>4 DEF Crash, Idle, AtStartup
  <2>2. QED
    BY <2>1, CheckIdle DEF CheckerState
<1>5. JobStep \/ JobFault \/ StartBuild \/ Cancel \/ GoOffline \/ GoOnline \/ RecordFailure
      \/ (\E f \in File : ChangeFile(f)) \/ UNCHANGED vars => UNCHANGED <<checker, rooted>>
  BY DEF JobStep, HashFile, MakeStaging, MapFile, StatFile, SumFile, ReadFails,
         CheckReceipt, WriteReceipt, RenameGeneration, Promote, Prune, Finish, JobFault,
         StartBuild, Cancel, GoOffline, GoOnline, RecordFailure, ChangeFile, vars
<1>6. QED
  BY <1>1, <1>2, <1>3, <1>4, <1>5 DEF Next

-----------------------------------------------------------------------------
LEMMA Smallest ==
    ASSUME NEW S \in SUBSET Nat, S # {}
    PROVE  \E m \in S : \A n \in S : m <= n
<1> DEFINE less == OpToRel(<, Nat)
<1>1. IsWellFoundedOn(less, Nat)
  BY NatLessThanWellFounded
<1>2. \A m, n \in Nat : m < n => <<m, n>> \in less
  BY DEF OpToRel
<1> HIDE DEF less
<1>3. PICK m \in S : \A n \in S : ~(<<n, m>> \in less)
  BY <1>1, WFMin
<1>4. \A n \in S : ~(n < m)
  BY <1>2, <1>3
<1>5. S \subseteq Nat /\ m \in Nat
  OBVIOUS
<1>6. QED
  BY <1>4, <1>5

\* Of the complete generations other than the new one, no victim is left only
\* when there are fewer than Retention: the oldest one has the others after it.
LEMMA NoVictims ==
    ASSUME TypeOK, gen \in Gen, Final(gen), Victims = {}
    PROVE  Cardinality({g \in Gen : gens[g].dir = "final"}) <= Retention
<1> DEFINE complete == {g \in Gen : gens[g].dir = "final"}
           others == complete \ {gen}
<1>1. Retention \in Nat /\ Retention > 0 /\ Gen \subseteq Nat
  BY LibraryAssumption DEF Gen
<1>2. IsFiniteSet(Gen)
  BY FS_Interval, LibraryAssumption DEF Gen
<1>3. IsFiniteSet(others)
  BY <1>2, FS_Subset
<1>4. complete = others \cup {gen} /\ gen \notin others
  BY DEF Final
<1>5. Cardinality(complete) = Cardinality(others) + 1
  <2> HIDE DEF complete, others
  <2>1. QED BY <1>3, <1>4, FS_AddElement
<1>6. CASE others = {}
  BY <1>1, <1>5, <1>6, FS_EmptySet
<1>7. CASE others # {}
  <2>1. PICK m \in others : \A n \in others : m <= n
    BY <1>1, <1>7, Smallest
  <2> DEFINE rest == {h \in others : h > m}
  <2>2. m \in Gen
    OBVIOUS
  <2>3. ~(Cardinality(rest) >= Retention - 1)
    BY <2>1 DEF Victims
  <2>4. IsFiniteSet(rest)
    BY <1>3, FS_Subset
  <2>5. others = rest \cup {m} /\ m \notin rest
    <3>1. others \subseteq Nat /\ m \in Nat
      BY <1>1
    <3> HIDE DEF others
    <3>2. \A n \in others : n = m \/ n > m
      BY <2>1, <3>1
    <3>3. ~(m > m) /\ m \in others
      BY <2>1, <3>1
    <3>4. QED
      BY <3>2, <3>3
  <2>6. Cardinality(rest) \in Nat
    BY <2>4, FS_CardinalityType
  <2> HIDE DEF rest, others, complete
  <2>7. Cardinality(others) = Cardinality(rest) + 1
    BY <2>4, <2>5, FS_AddElement
  <2>8. Cardinality(complete) <= Retention
    BY <1>1, <1>5, <2>3, <2>6, <2>7
  <2>9. QED
    BY <2>8 DEF complete
<1>8. QED
  BY <1>6, <1>7

LEMMA RetentionNext ==
    ASSUME TypeOK, Core, CheckerState, RetentionAfterBuild, [Next]_vars
    PROVE  RetentionAfterBuild'
<1> USE DEF sourceVars, diskVars, jobVars, summaryVars, daemonVars, budgets
<1> SUFFICES ASSUME (job = "build" /\ step = "finish" /\ ~removalFailed)'
             PROVE  (Cardinality({g \in Gen : gens[g].dir = "final"}) <= Retention)'
  BY DEF RetentionAfterBuild
<1>1. CASE job = "build" /\ step = "finish" /\ ~removalFailed
           /\ \A g \in Gen : gens'[g].dir = gens[g].dir
  <2>1. {g \in Gen : gens'[g].dir = "final"} = {g \in Gen : gens[g].dir = "final"}
    BY <1>1
  <2>2. QED
    BY <1>1, <2>1 DEF RetentionAfterBuild
<1>2. CASE Prune
  <2>1. step = "prune" /\ step' = "finish"
    BY <1>2 DEF Prune
  <2>2. Victims = {} /\ UNCHANGED gens
    BY <1>2, <2>1 DEF Prune
  <2>3. gen \in Gen /\ Final(gen)
    BY <2>1, JobRuns DEF Core, JobKnows, Unnamed
  <2>4. QED
    BY <2>2, <2>3, NoVictims
<1>3. ASSUME NEW t \in Threads, ThreadStep(t)
      PROVE  job = "build" /\ step = "finish" /\ ~removalFailed
             /\ \A g \in Gen : gens'[g].dir = gens[g].dir
  <2>1. CASE RecheckApply(t)
    BY <2>1, Rechecked DEF RecheckApply, Becomes
  <2>2. CASE ~RecheckApply(t)
    BY <1>3, <2>2 DEF ThreadStep, Scan, RecheckPointer, RecheckFiles, StartActiveValidation
  <2>3. QED
    BY <2>1, <2>2
<1>4. CASE \/ GoOffline \/ GoOnline \/ RecordFailure \/ Cancel \/ UNCHANGED vars
           \/ (\E kind \in {"rescan", "recovery"} : StartScan(kind))
           \/ (\E f \in File : ChangeFile(f))
  <2>1. UNCHANGED <<gens, job, step, removalFailed>>
    BY <1>4 DEF GoOffline, GoOnline, RecordFailure, Cancel, StartScan, ChangeFile, vars
  <2>2. QED
    BY <1>1, <2>1
<1>5. ~StartBuild /\ ~JobFault /\ ~Crash
  BY DEF StartBuild, JobFault, Crash, JobFails, JobOver
<1>6. ASSUME JobStep PROVE Prune
  <2>1. ~HashFile /\ ~MakeStaging /\ ~MapFile /\ ~StatFile /\ ~SumFile /\ ~CheckReceipt
        /\ ~WriteReceipt /\ ~RenameGeneration /\ ~Promote /\ ~Finish /\ ~ReadFails
    BY DEF HashFile, MakeStaging, MapFile, StatFile, SumFile, ReadFails, CheckReceipt,
           WriteReceipt, RenameGeneration, Promote, Finish, Advance, JobFails, JobOver
  <2>2. QED
    BY <1>6, <2>1 DEF JobStep
<1>7. QED
  BY <1>1, <1>2, <1>3, <1>4, <1>5, <1>6 DEF Next

-----------------------------------------------------------------------------
LEMMA InitInvariant == Init => IInv
<1> SUFFICES ASSUME Init PROVE IInv
  OBVIOUS
<1>1. TypeOK
  BY TypeInit
<1>2. /\ source = [f \in File |-> 0] /\ job = "none" /\ step = "idle" /\ changes = 0
      /\ builds = pointer /\ pointer \in {0, 1}
  BY DEF Init
<1>3. Counters
  BY <1>2, LibraryAssumption DEF Counters
<1>4. \A g \in Gen :
        /\ gens[g].dir = (IF pointer = 1 /\ g = 1 THEN "final" ELSE "none")
        /\ gens[g].sha = Unchecked /\ gens[g].id = Unchecked
        /\ (~(pointer = 1 /\ g = 1) => gens[g] = NoGeneration)
  <2>1. CASE gens = [g \in Gen |-> NoGeneration] /\ pointer = 0
    BY <2>1 DEF NoGeneration
  <2>2. ASSUME NEW r \in BOOLEAN, pointer = 1,
               gens = [g \in Gen |->
                         IF g = 1 THEN [NoGeneration EXCEPT !.dir = "final", !.receipt = r]
                         ELSE NoGeneration]
        PROVE  \A g \in Gen :
                  /\ gens[g].dir = (IF g = 1 THEN "final" ELSE "none")
                  /\ gens[g].sha = Unchecked /\ gens[g].id = Unchecked
                  /\ g # 1 => gens[g] = NoGeneration
    <3>1. \A g \in Gen \ {1} : gens[g] = NoGeneration
      BY <2>2
    <3>2. 1 \in Gen => gens[1] = [NoGeneration EXCEPT !.dir = "final", !.receipt = r]
      BY <2>2
    <3>3. ASSUME NEW g \in Gen, g # 1
          PROVE  gens[g].dir = "none" /\ gens[g].sha = Unchecked /\ gens[g].id = Unchecked
      BY <3>1, <3>3 DEF NoGeneration
    <3>4. ASSUME 1 \in Gen
          PROVE  gens[1].dir = "final" /\ gens[1].sha = Unchecked /\ gens[1].id = Unchecked
      BY <3>2, <3>4 DEF NoGeneration
    <3>5. QED
      BY <3>1, <3>3, <3>4
  <2>3. QED
    BY <2>1, <2>2 DEF Init
<1>5. ASSUME NEW g \in Gen PROVE GenerationOK(g)
  <2>1. \A f \in File : gens[g].sha[f] = 0 /\ gens[g].id[f] = 0 /\ source[f] = 0
    BY <1>2, <1>4 DEF Unchecked
  <2>2. g > builds => gens[g] = NoGeneration
    BY <1>2, <1>4, LibraryAssumption DEF Gen
  <2>3. QED
    BY <2>1, <2>2 DEF GenerationOK
<1>6. PointerNamesGeneration
  BY <1>2, <1>4, LibraryAssumption DEF PointerNamesGeneration, Gen
<1>7. JobState /\ RetentionAfterBuild
  BY <1>2 DEF JobState, RetentionAfterBuild
<1>8. CheckerState
  BY DEF Init, CheckerState, CheckOK, Idle, AtStartup
<1>9. QED
  BY <1>1, <1>3, <1>5, <1>6, <1>7, <1>8 DEF IInv, Core

\* The invariant holds in every behaviour of the library, whatever fails,
\* changes or crashes.
THEOREM LibraryInvariant == Spec => []IInv
<1>1. IInv /\ [Next]_vars => IInv'
  <2> SUFFICES ASSUME IInv, [Next]_vars PROVE IInv'
    OBVIOUS
  <2>1. TypeOK'
    BY TypeNext DEF IInv, Core
  <2>2. Core' /\ Calm
    BY <2>1, CoreNext DEF IInv
  <2>3. CheckerState'
    BY <2>1, <2>2, CheckerNext DEF IInv
  <2>4. QED
    BY <2>1, <2>2, <2>3, RetentionNext DEF IInv
<1>2. QED
  BY InitInvariant, <1>1, PTL DEF Spec

\* active.json always names a generation that is completely there: promote
\* writes it after the rename and prune spares what it names.
THEOREM PointerAlwaysValid == Spec => []PointerNamesGeneration
<1>1. IInv => PointerNamesGeneration
  BY DEF IInv, Core
<1>2. QED
  BY <1>1, LibraryInvariant, PTL

\* A validation receipt always vouches for the bytes that were fingerprinted
\* (writeValidationReceipt, ValidateLibraryManifestDeep).
THEOREM ReceiptsAlwaysVouch == Spec => []ReceiptVouches
<1>1. IInv => ReceiptVouches
  <2> SUFFICES ASSUME IInv, NEW g \in Gen, gens[g].receipt PROVE gens[g].sha = gens[g].id
    BY DEF ReceiptVouches
  <2>1. \A f \in File : gens[g].sha[f] = gens[g].id[f]
    BY DEF IInv, Core, GenerationOK
  <2>2. gens[g].sha \in [File -> Version] /\ gens[g].id \in [File -> Version]
    BY GenerationFields DEF IInv
  <2>3. QED
    BY <2>1, <2>2
<1>2. QED
  BY <1>1, LibraryInvariant, PTL

\* A build that reports Ready has pruned to Retention generations, unless a
\* removal failed.
THEOREM PruneKeepsRetention == Spec => []RetentionAfterBuild
<1>1. IInv => RetentionAfterBuild
  BY DEF IInv
<1>2. QED
  BY <1>1, LibraryInvariant, PTL

\* Types, and no cancellation is pending between two jobs: a job that is canceled
\* at its end does not cancel the next one (manager.cancel).
THEOREM LibraryTypes == Spec => []TypeOK
<1>1. IInv => TypeOK
  BY DEF IInv
<1>2. QED
  BY <1>1, LibraryInvariant, PTL

\* RecheckActive takes a receipt only from a generation one of whose files really
\* differs at that moment, although it looked at the files long before; or in a run
\* of the daemon that could not resolve the source's path when it began.
THEOREM OutagesWhileRunningCostNoReceipt == Spec => RunningKeepsReceipt
<1> DEFINE Kept == \A g \in Gen :
                      gens[g].dir = "final" /\ gens[g].receipt /\ ~gens'[g].receipt =>
                          \/ gens'[g].dir = "none"
                          \/ \E f \in File : source[f] # gens[g].id[f]
                          \/ ~rooted
<1>1. IInv /\ [Next]_vars => [Kept]_vars
  <2> SUFFICES ASSUME IInv, [Next]_vars PROVE Kept
    OBVIOUS
  <2>1. TypeOK /\ Core /\ CheckerState /\ TypeOK'
    BY TypeNext DEF IInv, Core
  <2>2. CASE Keeps
    BY <2>2 DEF Keeps, Final
  <2>3. ASSUME NEW t \in Threads, RecheckApply(t) PROVE Kept
    <3>1. PICK g \in Gen : g = checker[t].gen
      BY <2>1, <2>3, Rechecked
    <3>2. CASE UNCHANGED gens \/ ~rooted
      BY <3>2
    <3>3. CASE rooted /\ checker[t].result = "changed"
               /\ Becomes(g, gens[g].dir, gens[g].sha, gens[g].id, FALSE)
      <4>1. PICK f \in File : gens[g].id[f] < source[f]
        BY <2>1, <2>3, <3>1, <3>3 DEF CheckerState, CheckOK, RecheckApply
      <4>2. source[f] # gens[g].id[f]
        BY <2>1, <4>1, Numbers DEF Core
      <4>3. \A h \in Gen \ {g} : gens'[h] = gens[h]
        BY <3>3 DEF Becomes
      <4>4. QED
        BY <4>2, <4>3
    <3>4. QED
      BY <2>1, <2>3, <3>1, <3>2, <3>3, Rechecked
  <2>4. QED
    BY <2>1, <2>2, <2>3, CoreNext
<1>2. QED
  BY <1>1, LibraryInvariant, PTL DEF Spec, RunningKeepsReceipt
=============================================================================
