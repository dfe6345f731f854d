------------------------ MODULE LibraryGenerations ------------------------
(***************************************************************************)
(* The GameCube library's generations: background builds and validations   *)
(* (LibraryManager, server/host-daemon/gamecube/library.go), and the       *)
(* source checks that startup and scans make next to them                  *)
(* (initializeGameCube, scanLibraryGroup, recoverSources).                 *)
(*                                                                         *)
(* Threads: one job at a time (manager.cancel), the startup thread, and    *)
(* one scan at a time (scanMu).  The source files belong to others and     *)
(* change, disappear and return at any moment.                             *)
(*                                                                         *)
(* Data.  A file's content and identity (size, mtime, inode, filesystem)   *)
(* are one version number: a changed file never gets an old identity back. *)
(* A manifest is, per file, the version that was hashed and the version    *)
(* whose identity was recorded; layout, metadata and checksum files are    *)
(* written before the manifest and are part of it.  Generation names carry *)
(* the time and are numbers in the order of the builds.  manager.active    *)
(* and manager.validated are left out: pages and probes show them, and     *)
(* what may be activated is read from the disk (KnownGenerationID, Active).*)
(***************************************************************************)
EXTENDS Integers, FiniteSets

CONSTANTS
    NumFiles,       \* source files of the library
    Retention,      \* LibraryConfig.Retention
    MaxGenerations, \* bound: generations, an initial one and those being built
    MaxScans,       \* bound: scans after startup
    MaxChanges,     \* bound: changes of source files
    MaxDisturbances \* bound: outages of the source, cancel requests, crashes and
                    \* failing file operations in managed storage, taken together

ASSUME LibraryAssumption ==
    /\ {NumFiles, Retention, MaxGenerations} \subseteq Nat \ {0}
    /\ {MaxScans, MaxChanges, MaxDisturbances} \subseteq Nat

File == 1 .. NumFiles
Gen == 1 .. MaxGenerations      \* the first one may be there from the beginning
Threads == {"startup", "scan"}

VARIABLES
    source, online,             \* the source files' versions, and the mount
    rooted,                     \* config.SourceRoot is the path of the source
    gens,                       \* generations/<generation-id>
    pointer,                    \* active.json; 0 when there is none
    \* LibraryManager
    job, step, done, gen, canceled,
    state, validation,          \* progress.State, progress.Validation
    \* the daemon
    checker,                    \* the thread's scan and RecheckActive
    catalog, queued,            \* app.gcSource.State, a failure in sourceFailures
    removalFailed,              \* observer: a prune could not remove a generation
    builds, scans, changes, disturbances

sourceVars == <<source, online, rooted>>
diskVars == <<gens, pointer>>
jobVars == <<job, step, done, gen, canceled>>
summaryVars == <<state, validation>>
daemonVars == <<checker, catalog, queued>>
budgets == <<removalFailed, builds, scans, changes, disturbances>>
vars == <<source, online, rooted, gens, pointer, job, step, done, gen, canceled,
          state, validation, checker, catalog, queued, removalFailed,
          builds, scans, changes, disturbances>>

Version == 0 .. MaxChanges
Generation == [dir : {"none", "staging", "final"}, sha : [File -> Version],
               id : [File -> Version], receipt : BOOLEAN]
Unchecked == [f \in File |-> 0]
NoGeneration == [dir |-> "none", sha |-> Unchecked, id |-> Unchecked,
                 receipt |-> FALSE]
JobSteps == {"idle", "hash", "stage", "map", "stat", "sum", "receipt", "write",
             "rename", "promote", "prune", "finish"}
Idle == [pc |-> "idle", kind |-> "rescan", gen |-> 0, result |-> "ok"]
AtStartup == [Idle EXCEPT !.pc = "scan", !.kind = "startup"]

\* Types; and no cancellation is pending between two jobs, so that the next one
\* does not start canceled.
TypeOK ==
    /\ source \in [File -> Version] /\ online \in BOOLEAN /\ rooted \in BOOLEAN
    /\ gens \in [Gen -> Generation] /\ pointer \in Gen \cup {0}
    /\ job \in {"none", "build", "validate"} /\ step \in JobSteps
    /\ done \in 0 .. NumFiles /\ gen \in Gen \cup {0}
    /\ canceled \in BOOLEAN /\ (job = "none" => ~canceled)
    /\ state \in {"Not built", "Building", "Validating", "Ready", "Source blocked",
                  "Failed", "Canceled"}
    /\ validation \in {"none", "pending", "blocked", "validating", "validated",
                       "failed"}
    /\ checker \in [Threads -> [pc : {"idle", "scan", "pointer", "stat", "apply",
                                      "after"},
                                kind : {"startup", "rescan", "recovery"},
                                gen : Gen \cup {0},
                                result : {"ok", "unavailable", "changed"}]]
    /\ catalog \in {"unknown", "available", "offline"} /\ queued \in BOOLEAN
    /\ removalFailed \in BOOLEAN

\* Outages, cancellations, crashes and faults share a bound.
Disturb == disturbances < MaxDisturbances /\ disturbances' = disturbances + 1

-----------------------------------------------------------------------------
\* The identity checks of validateLibraryManifestData without hashing.
FilesResult(g) ==
    IF ~online THEN "unavailable"
    ELSE IF \A f \in File : source[f] = gens[g].id[f] THEN "ok" ELSE "changed"

\* validateConfiguredSources, which activeFast asks: another library path than the
\* manifest's is a changed source, before any file is looked at.
FastResult(g) == IF rooted THEN FilesResult(g) ELSE "changed"

\* NewLibraryManager's progress for the generation it finds.
BootValidation ==
    IF pointer = 0 THEN "none"
    ELSE IF FastResult(pointer) # "ok" THEN "blocked"
    ELSE IF gens[pointer].receipt THEN "validated" ELSE "pending"
StateOf(v) == CASE v = "none" -> "Not built" [] v = "blocked" -> "Source blocked"
                [] v = "validated" -> "Ready" [] v = "pending" -> "Validating"

\* The first start, on empty storage, on a finished library, or after an
\* upgrade from a version that wrote no receipts.
Init ==
    /\ source = [f \in File |-> 0] /\ online = TRUE /\ rooted = TRUE
    /\ \/ gens = [g \in Gen |-> NoGeneration] /\ pointer = 0
       \/ /\ \E r \in BOOLEAN :
                gens = [g \in Gen |->
                          IF g = 1 THEN [NoGeneration EXCEPT !.dir = "final",
                                                             !.receipt = r]
                          ELSE NoGeneration]
          /\ pointer = 1
    /\ job = "none" /\ step = "idle" /\ done = 0 /\ gen = 0 /\ canceled = FALSE
    /\ validation = BootValidation /\ state = StateOf(validation)
    /\ checker = [t \in Threads |-> IF t = "startup" THEN AtStartup ELSE Idle]
    /\ catalog = "unknown" /\ queued = FALSE /\ removalFailed = FALSE
    /\ builds = pointer /\ scans = 0 /\ changes = 0 /\ disturbances = 0

-----------------------------------------------------------------------------
(***************************************************************************)
(* The source.                                                             *)
(***************************************************************************)
ChangeFile(f) ==
    /\ changes < MaxChanges /\ changes' = changes + 1
    /\ source' = [source EXCEPT ![f] = changes']
    /\ UNCHANGED <<online, rooted, diskVars, jobVars, summaryVars, daemonVars,
                   removalFailed, builds, scans, disturbances>>

\* A read of the exported library may notice it (queueGameCubeSourceFailure).
GoOffline ==
    /\ online /\ online' = FALSE /\ Disturb
    /\ queued' \in {queued, TRUE}
    /\ UNCHANGED <<source, rooted, diskVars, jobVars, summaryVars, checker, catalog,
                   removalFailed, builds, scans, changes>>

GoOnline ==
    /\ ~online /\ online' = TRUE
    /\ UNCHANGED <<source, rooted, diskVars, jobVars, summaryVars, daemonVars, budgets>>

-----------------------------------------------------------------------------
(***************************************************************************)
(* Scans and RecheckActive.                                                *)
(***************************************************************************)
\* A scan from the dashboard, or by recoverSources once the source is back.
StartScan(kind) ==
    /\ checker["scan"].pc = "idle" /\ checker["startup"].pc # "scan"
    /\ scans < MaxScans /\ scans' = scans + 1
    /\ kind = "recovery" => catalog = "offline" /\ online
    /\ checker' = [checker EXCEPT !["scan"] =
                     [Idle EXCEPT !.pc = "scan", !.kind = kind]]
    /\ UNCHANGED <<sourceVars, diskVars, jobVars, summaryVars, catalog, queued,
                   removalFailed, builds, changes, disturbances>>

\* runSourceFailureReconciler, under scanMu; the source may be back by then.
RecordFailure ==
    /\ queued /\ queued' = FALSE
    /\ checker["scan"].pc \in {"idle", "after"} /\ checker["startup"].pc # "scan"
    /\ catalog' = "offline"
    /\ UNCHANGED <<sourceVars, diskVars, jobVars, summaryVars, checker, budgets>>

\* What a thread does after its recheck, or without one: startup and recovery
\* look whether a validation is pending.
AfterRecheck(t) == IF checker[t].kind = "rescan" THEN "idle" ELSE "after"

\* The walk over the source; a generation in managed storage is rechecked.
Scan(t) ==
    /\ checker[t].pc = "scan"
    /\ IF ~online
       THEN checker' = [checker EXCEPT ![t] = Idle] /\ catalog' = "offline"
       ELSE /\ checker' = [checker EXCEPT ![t].pc =
                             IF pointer # 0 THEN "pointer" ELSE AfterRecheck(t)]
            /\ catalog' = IF t = "startup" \/ pointer = 0 THEN "available"
                          ELSE catalog
    /\ UNCHANGED <<sourceVars, diskVars, jobVars, summaryVars, queued, budgets>>

\* RecheckActive before it takes manager.mu: active.json, then the manifest and
\* the files.  A generation pruned in between cannot be read.
RecheckPointer(t) ==
    /\ checker[t].pc = "pointer"
    /\ checker' = [checker EXCEPT ![t].pc = "stat", ![t].gen = pointer]
    /\ UNCHANGED <<sourceVars, diskVars, jobVars, summaryVars, catalog, queued,
                   budgets>>

RecheckFiles(t) ==
    /\ checker[t].pc = "stat"
    /\ LET g == checker[t].gen
       IN  checker' = [checker EXCEPT ![t].pc = "apply",
                         ![t].result = IF gens[g].dir = "final" THEN FastResult(g)
                                       ELSE "unavailable"]
    /\ UNCHANGED <<sourceVars, diskVars, jobVars, summaryVars, catalog, queued,
                   budgets>>

\* Mutant: a source that cannot be read costs the generation its receipt too.
RevokedOnError(g, result) ==
    IF result # "ok" THEN [gens EXCEPT ![g].receipt = FALSE] ELSE gens

\* Only a source that was found changed revokes the receipt.
Revoked(g, result) ==
    IF result = "changed" THEN [gens EXCEPT ![g].receipt = FALSE] ELSE gens

\* The rest of RecheckActive, under manager.mu.  upgradeValidationReceipt reads
\* the identities once more.
RecheckApply(t) ==
    LET g == checker[t].gen
        result == checker[t].result
        ready == result = "ok" /\ gens[g].receipt /\ FilesResult(g) = "ok"
    IN
    /\ checker[t].pc = "apply"
    /\ gens' = Revoked(g, result)
    /\ validation' = IF ready THEN "validated"
                     ELSE IF result = "ok" /\ ~gens[g].receipt THEN "pending"
                     ELSE "blocked"
    /\ state' = StateOf(validation')
    \* initializeGameCube ends on any error, the others ignore it
    /\ checker' = [checker EXCEPT ![t] =
                     IF t = "startup" /\ ~ready THEN Idle
                     ELSE [Idle EXCEPT !.pc = AfterRecheck(t),
                                       !.kind = checker[t].kind]]
    /\ catalog' = IF t = "scan" THEN "available" ELSE catalog
    /\ UNCHANGED <<sourceVars, pointer, jobVars, queued, budgets>>

\* A pending validation is started, unless a job runs or the files do not match.
\* Startup ends when the last job has failed.
ValidationWanted(t) ==
    IF t = "startup"
    THEN state # "Failed" /\ validation \in {"pending", "validating"}
    ELSE validation = "pending"

StartActiveValidation(t) ==
    /\ checker[t].pc = "after"
    /\ checker' = [checker EXCEPT ![t] = Idle]
    /\ IF /\ ValidationWanted(t)
          /\ job = "none" /\ pointer # 0 /\ FastResult(pointer) = "ok"
       THEN /\ job' = "validate" /\ gen' = pointer /\ step' = "stat" /\ done' = 0
            /\ state' = "Validating" /\ validation' = "validating"
       ELSE UNCHANGED <<job, gen, step, done, state, validation>>
    /\ UNCHANGED <<sourceVars, diskVars, canceled, catalog,
                   queued, budgets>>

-----------------------------------------------------------------------------
(***************************************************************************)
(* Jobs: a build, or the validation of the active generation.              *)
(***************************************************************************)
StartBuild ==
    /\ job = "none" /\ catalog = "available" /\ builds < MaxGenerations
    /\ builds' = builds + 1
    /\ job' = "build" /\ gen' = builds' /\ step' = "hash" /\ done' = 0
    /\ state' = "Building" /\ validation' = "pending"
    /\ UNCHANGED <<sourceVars, diskVars, canceled, daemonVars,
                   removalFailed, scans, changes, disturbances>>

Cancel ==
    /\ job # "none" /\ Disturb
    /\ canceled' = TRUE
    /\ UNCHANGED <<sourceVars, diskVars, job, step, done, gen, summaryVars,
                   daemonVars, removalFailed, builds, scans, changes>>

\* Mutants: manager.cancel is not reset; the canceled context is kept.
JobLeftOver(result) ==
    /\ step' = "idle" /\ state' = result
    /\ UNCHANGED <<job, done, gen, canceled>>
JobOverCanceled(result) ==
    /\ job' = "none" /\ step' = "idle" /\ done' = 0 /\ gen' = 0
    /\ state' = result
    /\ UNCHANGED canceled

\* The goroutine's end: manager.cancel is nil again.
JobOver(result) ==
    /\ job' = "none" /\ step' = "idle" /\ done' = 0 /\ gen' = 0
    /\ canceled' = FALSE
    /\ state' = result

\* A job that ends with an error.  The deferred RemoveAll takes the staging
\* directory; a failed build leaves the validation pending.
JobFails(result) ==
    /\ JobOver(result)
    /\ gens' = IF job = "build" /\ gens[gen].dir # "final"
               THEN [gens EXCEPT ![gen] = NoGeneration] ELSE gens
    /\ validation' = IF job = "validate" THEN "failed" ELSE validation
    /\ UNCHANGED pointer

\* The job's next file, and the step after it or after the last one.
Current == done + 1
Advance(same, next) ==
    IF Current = NumFiles THEN step' = next /\ done' = 0
    ELSE step' = same /\ done' = Current

\* A step that reads one source file first looks at the context, and fails when
\* the file cannot be read or is not as expected.
Reads(s, expected) == step = s /\ ~canceled /\ online /\ expected

\* hashGameSourcesContext and validateDiscSource: the file is below SourceRoot.
HashFile ==
    /\ Reads("hash", rooted)
    /\ gens' = [gens EXCEPT ![gen].sha[Current] = source[Current]]
    /\ Advance("hash", "stage")
    /\ UNCHANGED <<sourceVars, pointer, job, gen, canceled, summaryVars, daemonVars,
                   budgets>>

\* The staging directory, and the save cards of the new generation.
MakeStaging ==
    /\ step = "stage"
    /\ gens' = [gens EXCEPT ![gen].dir = "staging"]
    /\ step' = "map"
    /\ UNCHANGED <<sourceVars, pointer, job, done, gen, canceled, summaryVars,
                   daemonVars, budgets>>

MapFile ==
    /\ Reads("map", TRUE)
    /\ gens' = [gens EXCEPT ![gen].id[Current] = source[Current]]
    /\ Advance("map", "stat")
    /\ UNCHANGED <<sourceVars, pointer, job, gen, canceled, summaryVars, daemonVars,
                   budgets>>

\* ValidateLibraryManifestDeep, file by file: identity, then content.
IdentityMatches == source[Current] = gens[gen].id[Current]
\* Mutant: the content is read and not compared.
SumIgnored == TRUE
SumMatches == source[Current] = gens[gen].sha[Current]

StatFile ==
    /\ Reads("stat", IdentityMatches)
    /\ step' = "sum"
    /\ UNCHANGED <<sourceVars, diskVars, job, done, gen, canceled, summaryVars,
                   daemonVars, budgets>>

SumFile ==
    /\ Reads("sum", SumMatches)
    /\ Advance("stat", "receipt")
    /\ UNCHANGED <<sourceVars, diskVars, job, gen, canceled, summaryVars, daemonVars,
                   budgets>>

ReadFails ==
    /\ step \in {"hash", "map", "stat", "sum"}
    /\ \/ canceled \/ ~online
       \/ step = "hash" /\ ~rooted
       \/ step = "stat" /\ ~IdentityMatches
       \/ step = "sum" /\ ~SumMatches
    /\ JobFails(IF canceled THEN "Canceled" ELSE "Failed")
    /\ UNCHANGED <<sourceVars, daemonVars, budgets>>

\* writeValidationReceipt: every identity again, then the file.
CheckReceipt ==
    /\ step = "receipt"
    /\ IF FilesResult(gen) = "ok"
       THEN step' = "write"
            /\ UNCHANGED <<job, done, gen, canceled, diskVars, summaryVars>>
       ELSE JobFails("Failed")
    /\ UNCHANGED <<sourceVars, daemonVars, budgets>>

WriteReceipt ==
    /\ step = "write"
    /\ gens' = [gens EXCEPT ![gen].receipt = TRUE]
    /\ step' = IF job = "build" THEN "rename" ELSE "finish"
    /\ UNCHANGED <<sourceVars, pointer, job, done, gen, canceled, summaryVars,
                   daemonVars, budgets>>

\* The last look at the context; then the manifest's directory gets its name.
RenameGeneration ==
    /\ step = "rename"
    /\ IF canceled THEN JobFails("Canceled")
       ELSE /\ gens' = [gens EXCEPT ![gen].dir = "final"]
            /\ step' = "promote"
            /\ UNCHANGED <<pointer, job, done, gen, canceled, summaryVars>>
    /\ UNCHANGED <<sourceVars, daemonVars, budgets>>

Promote ==
    /\ step = "promote"
    /\ pointer' = gen
    /\ step' = "prune"
    /\ UNCHANGED <<sourceVars, gens, job, done, gen, canceled, summaryVars,
                   daemonVars, budgets>>

\* Mutants: one too many is kept; the generation just promoted is not spared.
VictimsLate ==
    LET others == {g \in Gen : gens[g].dir = "final"} \ {gen}
    IN  {g \in others : Cardinality({h \in others : h > g}) >= Retention}
VictimsAll ==
    LET complete == {g \in Gen : gens[g].dir = "final"}
    IN  {g \in complete : Cardinality({h \in complete : h > g}) >= Retention - 1}

\* prune: of the complete generations other than the new one, all but the
\* newest Retention - 1.
Victims ==
    LET others == {g \in Gen : gens[g].dir = "final"} \ {gen}
    IN  {g \in others : Cardinality({h \in others : h > g}) >= Retention - 1}

\* The newest victim goes first.
Prune ==
    /\ step = "prune"
    /\ IF Victims = {}
       THEN step' = "finish" /\ UNCHANGED gens
       ELSE /\ \E g \in Victims :
                  /\ \A h \in Victims : h <= g
                  /\ gens' = [gens EXCEPT ![g] = NoGeneration]
            /\ UNCHANGED step
    /\ UNCHANGED <<sourceVars, pointer, job, done, gen, canceled, summaryVars,
                   daemonVars, budgets>>

Finish ==
    /\ step = "finish"
    /\ JobOver("Ready")
    /\ validation' = "validated"
    /\ UNCHANGED <<sourceVars, diskVars, daemonVars, budgets>>

\* A file operation in managed storage fails.  The sync after a rename comes too
\* late: the receipt is there although its validation fails, active.json names
\* the new generation although its build fails.  A failing removal is ignored.
JobFault ==
    /\ Disturb
    /\ removalFailed' = (removalFailed \/ step = "prune")
    /\ \/ /\ step \in {"stage", "write", "rename"}
          /\ JobFails("Failed")
       \/ /\ step = "write" /\ job = "validate"
          /\ JobOver("Failed")
          /\ gens' = [gens EXCEPT ![gen].receipt = TRUE]
          /\ validation' = "failed"
          /\ UNCHANGED pointer
       \/ /\ step = "promote"
          /\ JobOver("Failed")
          /\ pointer' \in {pointer, gen}
          /\ UNCHANGED <<gens, validation>>
       \/ /\ step = "prune"
          /\ \E kept \in (SUBSET Victims) \ {{}} :
                gens' = [g \in Gen |-> IF g \in Victims \ kept THEN NoGeneration
                                       ELSE gens[g]]
          /\ step' = "finish"
          /\ UNCHANGED <<pointer, job, done, gen, canceled, summaryVars>>
    /\ UNCHANGED <<sourceVars, daemonVars, builds, scans, changes>>

\* The process dies and is started again.  Staging directories stay.  Where the
\* source's path does not exist, trustedRoot answers "", and filepath.Abs("") makes
\* the working directory the SourceRoot of the whole run; a mount point that is
\* still there resolves.
Crash ==
    /\ Disturb
    /\ rooted' \in {online, TRUE}
    /\ UNCHANGED <<source, online, diskVars, removalFailed, builds, scans, changes>>
    /\ job' = "none" /\ step' = "idle" /\ done' = 0 /\ gen' = 0
    /\ canceled' = FALSE
    /\ validation' = BootValidation' /\ state' = StateOf(validation')
    /\ checker' = [t \in Threads |-> IF t = "startup" THEN AtStartup ELSE Idle]
    /\ catalog' = "unknown" /\ queued' = FALSE

-----------------------------------------------------------------------------
JobStep ==
    \/ HashFile \/ MakeStaging \/ MapFile \/ StatFile \/ SumFile \/ ReadFails
    \/ CheckReceipt \/ WriteReceipt \/ RenameGeneration \/ Promote \/ Prune
    \/ Finish
ThreadStep(t) ==
    \/ Scan(t) \/ RecheckPointer(t) \/ RecheckFiles(t) \/ RecheckApply(t)
    \/ StartActiveValidation(t)

Next ==
    \/ \E f \in File : ChangeFile(f)
    \/ GoOffline \/ GoOnline
    \/ \E kind \in {"rescan", "recovery"} : StartScan(kind)
    \/ RecordFailure
    \/ \E t \in Threads : ThreadStep(t)
    \/ StartBuild \/ Cancel \/ JobStep \/ JobFault \/ Crash

Spec == Init /\ [][Next]_vars

\* Goroutines that can run do.
FairSpec == Spec /\ WF_vars(JobStep) /\ \A t \in Threads : WF_vars(ThreadStep(t))

-----------------------------------------------------------------------------
\* At every moment, after every crash and every failed build, active.json names
\* a generation that is completely there: promote and prune are in the right
\* order and spare the right generation.
PointerNamesGeneration == pointer # 0 => gens[pointer].dir = "final"

\* A receipt vouches for the content: the recorded identity of every file, all
\* that Active compares, belongs to the very bytes that were fingerprinted,
\* although identities are taken later than the hashes, files change during all
\* of it, and rechecks, validations and builds write and revoke receipts.
ReceiptVouches ==
    \A g \in Gen : gens[g].receipt => gens[g].sha = gens[g].id

\* A generation loses its receipt only when it is pruned, when one of its files
\* has changed, or in a run of the daemon that began while the source's path did
\* not exist: an outage that begins and ends while the daemon runs costs nothing,
\* at whatever moment a scan, a recheck, a build or a validation meets it.
RunningKeepsReceipt ==
    [][\A g \in Gen :
          gens[g].dir = "final" /\ gens[g].receipt /\ ~gens'[g].receipt =>
              \/ gens'[g].dir = "none"
              \/ \E f \in File : source[f] # gens[g].id[f]
              \/ ~rooted]_vars

\* What docs/source-reconciliation.md says, of restarts too: "never ... removes a
\* GameCube validation receipt merely because a source is offline", and "Returning
\* unchanged files can reuse the trusted generation".
OfflineKeepsReceipt ==
    [][\A g \in Gen :
          gens[g].dir = "final" /\ gens[g].receipt /\ ~gens'[g].receipt =>
              \/ gens'[g].dir = "none"
              \/ \E f \in File : source[f] # gens[g].id[f]]_vars

\* A build that is about to report Ready, no removal having failed, leaves at
\* most Retention complete generations, however many orphans crashes and failed
\* promotions had left before it.
RetentionAfterBuild ==
    job = "build" /\ step = "finish" /\ ~removalFailed =>
        Cardinality({g \in Gen : gens[g].dir = "final"}) <= Retention

\* Every build and every validation ends and lets the next one start: whatever
\* fails or is canceled, manager.cancel is nil again.
JobsEnd == job # "none" ~> job = "none"

\* A generation whose receipt is missing and whose files are unchanged is
\* validated in the background after startup and gets its receipt.
MissingReceiptIsRestored == pointer # 0 ~> pointer # 0 /\ gens[pointer].receipt

=============================================================================
