--------------------------- MODULE SourceCatalog ---------------------------
(***************************************************************************)
(* The game sources and the catalog: which mount is trusted, which games   *)
(* are known, and when a game counts as lost (shared/sourcehealth, store,  *)
(* libraries.go, source_recovery.go, features.go, and the startup thread   *)
(* of main.go).                                                            *)
(*                                                                         *)
(* Threads: startup, then initializeGameCube, rescans, the recovery timer  *)
(* and the reconciler of read failures, one at a time under scanMu; next   *)
(* to them acknowledgements, which take no lock.  The mounts belong to     *)
(* others and change between any two steps of a scan.                      *)
(*                                                                         *)
(* Data.  A mount is the place behind the configured path.  A source       *)
(* record keeps the state, the filesystem ID with the directory's inode    *)
(* (fs), the device with the mount table's identity (dev) and whether the  *)
(* last scan found anything.  The five states that the recovery timer      *)
(* retries (offline, unreachable, mount-missing, temporarily-unavailable,  *)
(* permission-denied) are one state, "unavailable": nothing in the program *)
(* tells them apart.  A row of catalog_items is its missing_observations,  *)
(* counted up to the threshold; -1 stands for no row.  a.ready is always   *)
(* assigned together with a.source, and is Ready below.                    *)
(***************************************************************************)
EXTENDS Integers, Sequences, FiniteSets

CONSTANTS
    WiiGames, CubeGames, \* the games there are
    Elsewhere,           \* those on a second filesystem
    Outages,             \* the places that a mount may turn into
    Installations,       \* the values of <<shared, kind, upgrade>> considered
    QueueLimit,          \* capacity of app.sourceFailures (8 in the code)
    MaxEvents            \* bound: disturbances (a mount leaves, a file cannot be
                         \* read, a database write fails), reported read failures,
                         \* games deleted from or put back on the source, and
                         \* crashes, taken together

ASSUME CatalogAssumption ==
    /\ IsFiniteSet(WiiGames) /\ IsFiniteSet(CubeGames)
    /\ WiiGames \cap CubeGames = {}
    /\ Elsewhere \subseteq WiiGames \cup CubeGames
    /\ Outages \subseteq {"moved", "writable", "other", "bare", "gone"}
    /\ Installations \subseteq BOOLEAN \X {"stable", "mount", "device"} \X (0 .. 3)
    /\ QueueLimit \in Nat \ {0}
    /\ MaxEvents \in Nat

Platform == {"wii", "gamecube"}
Games == WiiGames \cup CubeGames
GamesOf(p) == IF p = "wii" THEN WiiGames ELSE CubeGames
Threshold == 2                  \* reconcileCatalogTx's confirmationThreshold

VARIABLES
    \* configuration: one root for both platforms, and how the sources' file
    \* systems can be told apart (persistent ID, mount table, device only)
    shared, kind,
    \* environment: the place behind each root, the games on the original one
    mount, onHome,
    \* the database
    schema, backups,            \* applied migrations, .pre-schema<n>.bak files
    row,                        \* source_roots
    cat,                        \* catalog_items
    snapshot,                   \* the active snapshot's games
    \* the daemon
    src,                        \* app.source, app.gcSource
    shown,                      \* app.scan, app.gcScan: each game's availability
    queue,                      \* app.sourceFailures
    job,                        \* the holder of scanMu
    initPending,                \* initializeGameCube has not taken scanMu yet
    \* observers
    removed,                    \* games that were off the original source at some time
    accepted,                   \* an administrator confirmed another location
    lost,                       \* the daemon could not write a row or a catalog
    upgrade,                    \* the schema the database had at the very first start
    disturbances, reports, edits, restarts

config == <<shared, kind, upgrade>>
envVars == <<mount, onHome, removed>>
dbVars == <<schema, backups, row, cat, snapshot>>
memVars == <<src, shown, queue, initPending>>
observers == <<accepted, lost>>
budgets == <<disturbances, reports, edits, restarts>>
vars == <<shared, kind, upgrade, mount, onHome, removed, schema, backups, row,
          cat, snapshot, src, shown, queue, initPending, accepted,
          lost, disturbances, reports, edits, restarts, job>>

Home == {"home", "moved", "writable"}   \* the original filesystem
Place == Home \cup {"other", "bare", "gone"}
State == {"none", "unknown", "available", "unavailable", "changed", "invalid"}
Record == [state : State, fs : {"", "F", "G"}, dev : {"", "d1", "d2", "d3", "d4"},
           some : BOOLEAN]
NoRecord == [state |-> "none", fs |-> "", dev |-> "", some |-> FALSE]
Unknown == [NoRecord EXCEPT !.state = "unknown"]
Availability == {"unlisted", "playable", "validation-required", "missing-confirmed",
                 "source-offline", "source-changed", "invalid"}
Failure == [platform : Platform, code : {"read", "changed"}]

NoJob == [who |-> "none", step |-> "idle", root |-> "wii", todo |-> {},
          accept |-> FALSE, existed |-> FALSE, prev |-> NoRecord,
          cand |-> NoRecord, found |-> {}, walked |-> {}]
Job == [who : {"none", "boot", "init", "rescan", "recovery"},
        step : {"idle", "mounts", "schema", "check", "walk", "reconcile", "row", "publish",
                "finish", "abort", "failed"},
        root : Platform, todo : SUBSET Platform, accept : BOOLEAN,
        existed : BOOLEAN, prev : Record, cand : Record, found : SUBSET Games,
        walked : SUBSET Platform]
Booting(version) == [NoJob EXCEPT !.who = "boot", !.step = "mounts",
                                  !.existed = version > 0]

\* Types; and only startup works while the database is still being migrated.
TypeOK ==
    /\ <<shared, kind, upgrade>> \in Installations
    /\ mount \in [Platform -> Place] /\ onHome \in SUBSET Games
    /\ schema \in 0 .. 3 /\ backups \in SUBSET {2, 3}
    /\ row \in [Platform -> Record] /\ cat \in [Games -> -1 .. Threshold]
    /\ snapshot \in SUBSET WiiGames
    /\ src \in [Platform -> Record] /\ shown \in [Games -> Availability]
    /\ queue \in Seq(Failure) /\ Len(queue) <= QueueLimit
    /\ job \in Job /\ (schema < 3 => job.who = "boot")
    /\ initPending \in BOOLEAN

Event == disturbances + reports + edits + restarts < MaxEvents
Disturb == Event /\ disturbances' = disturbances + 1
Calm == UNCHANGED disturbances

-----------------------------------------------------------------------------
\* sourcehealth: what a look at a place says.  A place without a mount ("gone")
\* does not answer; an empty one is the bare mount point.
Dev(p) == CASE p = "moved" -> "d2" [] p = "other" -> "d3" [] p = "bare" -> "d4"
            [] OTHER -> "d1"
Fs(p) == IF kind # "stable" \/ p = "bare" THEN ""
         ELSE IF p \in Home THEN "F" ELSE "G"

Failed(previous, state) == [previous EXCEPT !.state = state]

\* Mutant: legacy records are not compared.
SameIdentityLoose(p, r) == r.fs \in {"", Fs(p)}

SameIdentity(p, r) == IF r.fs # "" THEN Fs(p) = r.fs ELSE r.dev \in {"", Dev(p)}

\* The record after a preflight; it passed when the state is "available".
Preflight(p, previous) ==
    IF p = "gone" THEN Failed(previous, "unavailable")
    ELSE IF ~SameIdentity(p, previous)
      THEN Failed(previous, IF previous.fs = "" /\ kind # "device"
                            THEN "unavailable" ELSE "changed")
    ELSE IF p = "bare" /\ previous.some THEN Failed(previous, "unavailable")
    ELSE [previous EXCEPT !.state = "available", !.dev = Dev(p),
                          !.fs = IF Fs(p) = "" THEN @ ELSE Fs(p)]

\* A replacement is looked at without the trusted identity, which a failure keeps.
PreflightReplacement(p, previous) ==
    LET result == Preflight(p, [previous EXCEPT !.fs = "", !.dev = ""])
    IN  IF result.state = "available" THEN result
        ELSE Failed(previous, result.state)

Successful(record, some) == [record EXCEPT !.state = "available", !.some = some]
Partial(record) == Failed(record, "unavailable")
RuntimeFailure(record, code) ==
    Failed(record, IF code = "changed" THEN "changed" ELSE "unavailable")
Retryable(state) == state = "unavailable"

Derived(state, item) == CASE state = "available" -> item
                          [] state = "changed" -> "source-changed"
                          [] state = "invalid" -> "invalid"
                          [] OTHER -> "source-offline"

-----------------------------------------------------------------------------
\* The catalog table.
Listed(c, p) == {g \in GamesOf(p) : c[g] # -1}
ItemAvailability(n) == CASE n = -1 -> "unlisted" [] n = 0 -> "playable"
                         [] n = 1 -> "validation-required"
                         [] OTHER -> "missing-confirmed"

\* Mutant: one absence is enough.
ReconciledAtOnce(c, p, found) ==
    [g \in Games |-> IF g \notin GamesOf(p) THEN c[g]
                     ELSE IF g \in found THEN 0
                     ELSE IF c[g] = -1 THEN -1 ELSE Threshold]

\* reconcileCatalogTx: a complete scan of platform p found these games.
Reconciled(c, p, found) ==
    [g \in Games |->
       IF g \notin GamesOf(p) THEN c[g]
       ELSE IF g \in found THEN 0
       ELSE IF c[g] \in {-1, Threshold} THEN c[g] ELSE c[g] + 1]

\* decodeWiiItems, decodeGameCubeItems: the games of platforms P as a page shows
\* them when the source is in this state.
Decoded(c, P, state) ==
    [g \in Games |->
       IF \A p \in P : g \notin GamesOf(p) THEN shown[g]
       ELSE IF c[g] = -1 THEN "unlisted"
       ELSE Derived(state, ItemAvailability(c[g]))]

\* loadWiiCatalog, loadGameCubeCatalog: the last complete catalog, or for Wii
\* without one, the games of the active snapshot.
Cached(p, state) ==
    IF p = "wii" /\ Listed(cat, p) = {}
    THEN [g \in Games |->
            IF g \in snapshot THEN Derived(state, "playable")
            ELSE IF g \in WiiGames THEN "unlisted" ELSE shown[g]]
    ELSE Decoded(cat, {p}, state)
Emptied(p) == [g \in Games |-> IF g \in GamesOf(p) THEN "unlisted" ELSE shown[g]]

-----------------------------------------------------------------------------
\* Roots, and the records a scan starts from.
Root(p) == IF shared THEN "wii" ELSE p
Group(r) == IF shared THEN Platform ELSE {r}
Roots == {Root(p) : p \in Platform}

\* What a walk over the root sees of platform p.
Seen(r, p) == GamesOf(p) \cap (CASE mount[r] \in Home -> onHome
                                 [] mount[r] = "other" -> Elsewhere
                                 [] OTHER -> {})

\* previousSource, previousPlatformSource: the row, or for a database that has
\* games but no row, what is mounted now with a scan that found something.
Saved(p) ==
    IF row[Root(p)] # NoRecord THEN row[Root(p)]
    ELSE IF (IF p = "wii" THEN snapshot ELSE Listed(cat, p)) = {} THEN Unknown
    ELSE [Preflight(mount[Root(p)], Unknown) EXCEPT !.some = TRUE]

\* librarySourceLocked, with scanLibraryGroup's fallback to the database.
InMemory(p) == IF src[p] = NoRecord /\ shared THEN src["wii"] ELSE src[p]
Previous(p) == IF InMemory(p) = NoRecord THEN Saved(p) ELSE InMemory(p)

\* UpsertSource outside a scan's transaction: its error is ignored.
Upsert(r, record) ==
    \/ row' = [row EXCEPT ![r] = record] /\ Calm /\ UNCHANGED lost
    \/ row' = row /\ Disturb /\ lost' = TRUE

\* recordLibraryFailure
RecordFailure(P, r, record) ==
    /\ Upsert(r, record)
    /\ src' = [p \in Platform |-> IF p \in P THEN record ELSE src[p]]
    /\ shown' = [g \in Games |->
                   IF shown[g] # "unlisted" /\ \E p \in P : g \in GamesOf(p)
                   THEN Derived(record.state, "playable") ELSE shown[g]]
    /\ UNCHANGED <<cat, snapshot>>

\* a.ready
Ready == job.who # "boot" /\ src["wii"].state = "available"

-----------------------------------------------------------------------------
\* A first start: on no database, on one that a version with schema 1 left (a
\* snapshot and no source row), with schema 2 (legacy identities), or schema 3.
Init ==
    /\ \E i \in Installations : shared = i[1] /\ kind = i[2] /\ upgrade = i[3]
    /\ mount = [p \in Platform |-> "home"] /\ onHome = Games
    /\ schema = upgrade /\ backups = {}
    /\ row = [p \in Platform |->
                IF upgrade < 2 \/ p \notin Roots THEN NoRecord
                ELSE [state |-> "available", dev |-> "d1", some |-> TRUE,
                      fs |-> IF upgrade = 3 THEN Fs("home") ELSE ""]]
    /\ cat = [g \in Games |-> IF upgrade < 2 THEN -1 ELSE 0]
    /\ snapshot = IF upgrade = 0 THEN {} ELSE WiiGames
    /\ src = [p \in Platform |-> NoRecord]
    /\ shown = [g \in Games |-> "unlisted"]
    /\ queue = <<>> /\ initPending = FALSE
    /\ job = Booting(upgrade)
    /\ removed = {} /\ accepted = FALSE /\ lost = FALSE
    /\ disturbances = 0 /\ reports = 0 /\ edits = 0 /\ restarts = 0

Running == job.who # "boot"

\* Startup and initializeGameCube -------------------------------------------

\* assertReadOnly in serve: a writable source refuses the start.
BootMounts ==
    /\ job.step = "mounts" /\ \A r \in Roots : mount[r] # "writable"
    /\ job' = [job EXCEPT !.step = IF schema = 3 THEN "check" ELSE "schema"]
    /\ UNCHANGED <<config, envVars, dbVars, memVars, observers, budgets>>

\* backupDatabase: staged, synced and renamed; an existing backup is kept.
BackupDatabase ==
    /\ job.step = "schema" /\ job.existed /\ schema \in {1, 2}
    /\ schema + 1 \notin backups /\ backups' = backups \cup {schema + 1}
    /\ UNCHANGED <<config, envVars, schema, row, cat, snapshot, memVars,
                   observers, budgets, job>>

\* migrate and migrateSourceIdentity: one transaction per version; the second
\* one seeds the Wii catalog from the active snapshot.
BackedUp(version) == job.existed /\ version > 1 => version \in backups
Seeded(c) == [g \in Games |-> IF g \in snapshot /\ c[g] = -1 THEN 0 ELSE c[g]]

Migrate ==
    /\ job.step = "schema" /\ BackedUp(schema + 1)
    /\ schema' = schema + 1
    /\ cat' = IF schema' = 2 THEN Seeded(cat) ELSE cat
    /\ job' = [job EXCEPT !.step = IF schema' = 3 THEN "check" ELSE "schema"]
    /\ UNCHANGED <<config, envVars, backups, row, snapshot, memVars, observers,
                   budgets>>

\* The goroutine of initializeGameCube takes scanMu.
InitBegin ==
    /\ job = NoJob /\ initPending
    /\ initPending' = FALSE
    /\ job' = [NoJob EXCEPT !.who = "init", !.step = "check",
                            !.root = Root("gamecube")]
    /\ UNCHANGED <<config, envVars, dbVars, src, shown, queue, observers, budgets>>

Starting(step) == job.who \in {"boot", "init"} /\ job.step = step
Own == IF job.who = "boot" THEN "wii" ELSE "gamecube"
AfterStart == IF job.who = "boot" THEN [job EXCEPT !.step = "publish"] ELSE NoJob

\* The source is not usable: the record is kept and the cached catalog is shown.
StartFails(record) ==
    /\ Upsert(Root(Own), record)
    /\ src' = [src EXCEPT ![Own] = record] /\ shown' = Cached(Own, record.state)
    /\ job' = AfterStart
    /\ UNCHANGED <<schema, backups, cat, snapshot>>

\* A database write fails: the error comes back with an empty result and a
\* record that still says available.
StartLoses(record) ==
    /\ Disturb /\ lost' = TRUE
    /\ src' = [src EXCEPT ![Own] = record] /\ shown' = Emptied(Own)
    /\ job' = AfterStart
    /\ UNCHANGED <<schema, backups, row, cat, snapshot>>

StartFrame == UNCHANGED <<config, envVars, queue, initPending,
                          accepted, reports, edits, restarts>>

StartCheck ==
    /\ Starting("check") /\ StartFrame
    /\ LET record == Preflight(mount[Root(Own)], Saved(Own))
       IN  IF record.state = "available"
           THEN /\ job' = [job EXCEPT !.step = "walk", !.cand = record] /\ Calm
                /\ UNCHANGED <<dbVars, src, shown, lost>>
           ELSE StartFails(record)

\* scanner.Scan, gamecube.Scan: an error of the walk fails the scan (a place that
\* is gone for that moment), an unreadable file is only left out.
Walk(r, p, found) ==
    /\ mount[r] # "gone"
    /\ \/ found = Seen(r, p) /\ Calm
       \/ Disturb /\ \E g \in Seen(r, p) : found = Seen(r, p) \ {g}

StartWalk ==
    /\ Starting("walk") /\ StartFrame
    /\ \/ \E found \in SUBSET Seen(Root(Own), Own) :
             /\ Walk(Root(Own), Own, found)
             /\ job' = [job EXCEPT !.step = "reconcile", !.found = found]
             /\ UNCHANGED <<dbVars, src, shown, lost>>
       \/ mount[Root(Own)] = "gone" /\ StartFails(Partial(job.cand))

\* ReconcileCatalog, a transaction of its own ...
StartReconcile ==
    /\ Starting("reconcile") /\ StartFrame
    /\ \/ /\ cat' = Reconciled(cat, Own, job.found) /\ Calm
          /\ job' = [job EXCEPT !.step = "row"]
          /\ UNCHANGED <<schema, backups, row, snapshot, src, shown, lost>>
       \/ StartLoses(job.cand)

\* ... and UpsertSource after it.  A shared root counts the Wii games too.
StartRow ==
    LET some == \/ job.found # {}
                \/ job.who = "init" /\ shared /\ Listed(cat, "wii") # {}
        record == Successful(job.cand, some)
    IN  /\ Starting("row") /\ StartFrame
        /\ \/ /\ row' = [row EXCEPT ![Root(Own)] = record] /\ Calm
              /\ src' = [src EXCEPT ![Own] = record]
              /\ shown' = Decoded(cat, {Own}, "available")
              /\ job' = AfterStart
              /\ UNCHANGED <<schema, backups, cat, snapshot, lost>>
           \/ StartLoses(record)

\* vdisk.Build and persistSnapshot: what is served is published.  A failure
\* leaves the startup page until the daemon is restarted.
BootPublish ==
    /\ Starting("publish")
    /\ \/ /\ snapshot' = {g \in WiiGames : shown[g] # "unlisted"} /\ Calm
          /\ job' = NoJob /\ initPending' = TRUE
       \/ /\ Disturb /\ job' = [job EXCEPT !.step = "failed"]
          /\ UNCHANGED <<snapshot, initPending>>
    /\ UNCHANGED <<config, envVars, schema, backups, row, cat, src, shown, queue,
                   observers, reports, edits, restarts>>

\* Scans of a running daemon (scanLibraryGroup) -----------------------------

\* rescan and acceptSourceLocation take scanMu.
RescanBegin(choice, accept) ==
    /\ job = NoJob
    /\ choice = "all" => ~accept
    /\ LET todo == {r \in Roots : shared \/ choice \in {"all", r}}
           first == IF "wii" \in todo THEN "wii" ELSE "gamecube"
       IN  job' = [NoJob EXCEPT !.who = "rescan", !.step = "check", !.root = first,
                                !.todo = todo \ {first}, !.accept = accept]
    /\ UNCHANGED <<config, envVars, dbVars, memVars, observers, budgets>>

\* recoverSources, for one root: TryLock, a retryable state, and a preflight
\* against the saved identity; then the normal scan.
ProbedWii(r) == "wii"            \* mutant: not the platforms of the group
Probed(r) == LET P == {p \in Group(r) : Retryable(InMemory(p).state)}
             IN  IF "wii" \in P THEN "wii" ELSE IF P # {} THEN "gamecube" ELSE r
Recover(r) ==
    /\ job = NoJob /\ r \in Roots
    /\ Retryable(InMemory(Probed(r)).state)
    /\ Preflight(mount[r], InMemory(Probed(r))).state = "available"
    /\ job' = [NoJob EXCEPT !.who = "recovery", !.step = "check", !.root = r]
    /\ UNCHANGED <<config, envVars, dbVars, memVars, observers, budgets>>

Scanning(step) == job.who \in {"rescan", "recovery"} /\ job.step = step
ScanFrame == UNCHANGED <<config, envVars, reports, edits, restarts, schema,
                         backups, queue, initPending>>

\* On to the next group, or scanMu is released.
AfterGroup == IF job.todo = {} THEN NoJob
              ELSE [NoJob EXCEPT !.who = job.who, !.step = "check",
                                 !.root = "gamecube", !.accept = job.accept]

GroupFails(record) ==
    /\ RecordFailure(Group(job.root), job.root, record)
    /\ job' = AfterGroup /\ UNCHANGED accepted

\* The read-only check comes first: only errors of an absent source pass it.
GroupCheck ==
    LET r == job.root
        prev == Previous(r)
        record == IF job.accept THEN PreflightReplacement(mount[r], prev)
                  ELSE Preflight(mount[r], prev)
    IN  /\ Scanning("check") /\ ScanFrame
        /\ \/ mount[r] \in {"writable", "gone"} /\ GroupFails(Failed(prev, "invalid"))
           \/ /\ mount[r] # "writable" /\ record.state # "available"
              /\ GroupFails(record)
           \/ /\ mount[r] # "writable" /\ record.state = "available"
              /\ job' = [job EXCEPT !.step = "walk", !.prev = prev, !.cand = record]
              /\ Calm /\ UNCHANGED <<row, cat, snapshot, src, shown, observers>>

\* The platforms of the group are walked one after the other.
GroupWalk ==
    LET r == job.root
        p == IF "wii" \in Group(r) \ job.walked THEN "wii" ELSE "gamecube"
    IN  /\ Scanning("walk") /\ ScanFrame
        /\ \/ mount[r] = "gone" /\ GroupFails(Partial(job.prev))
           \/ \E found \in SUBSET Seen(r, p) :
                /\ Walk(r, p, found)
                /\ job' = [job EXCEPT !.found = @ \cup found, !.walked = @ \cup {p},
                             !.step = IF job.walked \cup {p} = Group(r)
                                      THEN "finish" ELSE "walk"]
                /\ UNCHANGED <<row, cat, snapshot, src, shown, observers>>

\* After the walk the mount is checked again, and an empty replacement is refused.
StillThere(r) == /\ mount[r] \notin {"gone", "writable"}
                 /\ Preflight(mount[r], job.cand).state = "available"
EmptyReplacement == job.accept /\ job.found = {} /\ job.prev.some

\* CommitSourceScan: catalogs, snapshot and source row in one transaction, then
\* the memory.  A failing transaction changes nothing.
Committed == IF shared THEN Reconciled(Reconciled(cat, "wii", job.found),
                                       "gamecube", job.found)
             ELSE Reconciled(cat, job.root, job.found)

\* Mutant: the snapshot stays the startup's.
CommitScanOnly(record) ==
    /\ cat' = Committed /\ snapshot' = snapshot
    /\ row' = [row EXCEPT ![job.root] = record]

CommitScan(record) ==
    /\ cat' = Committed
    /\ snapshot' = IF "wii" \in Group(job.root) THEN Listed(cat', "wii") ELSE snapshot
    /\ row' = [row EXCEPT ![job.root] = record]

GroupFinish ==
    LET r == job.root
        record == Successful(job.cand, job.found # {})
    IN  /\ Scanning("finish") /\ ScanFrame
        /\ \/ /\ ~StillThere(r) \/ EmptyReplacement
              /\ GroupFails(Partial(job.prev))
           \/ /\ StillThere(r) /\ ~EmptyReplacement
              /\ CommitScan(record) /\ Calm
              /\ src' = [p \in Platform |-> IF p \in Group(r) THEN record ELSE src[p]]
              /\ shown' = Decoded(cat', Group(r), "available")
              /\ accepted' = (accepted \/ job.accept) /\ job' = AfterGroup
              /\ UNCHANGED lost
           \/ /\ StillThere(r) /\ ~EmptyReplacement
              /\ Disturb /\ job' = [job EXCEPT !.step = "abort"]
              /\ UNCHANGED <<row, cat, snapshot, src, shown, observers>>

GroupAbort ==
    Scanning("abort") /\ ScanFrame /\ GroupFails(Partial(job.prev))

\* The rest of the daemon ----------------------------------------------------

\* A backend's read fails and queueSourceFailure finds room in the channel.  Reports
\* have no effect when it is full, when they come within 10 seconds (the backend)
\* or repeat a code within 30 seconds (shouldRecordSourceFailure).
ReadFails(p, code) ==
    /\ Running /\ \E g \in GamesOf(p) : shown[g] # "unlisted"
    /\ Len(queue) < QueueLimit
    /\ Event /\ reports' = reports + 1
    /\ queue' = Append(queue, [platform |-> p, code |-> code])
    /\ UNCHANGED <<config, envVars, dbVars, src, shown, initPending, observers,
                   disturbances, edits, restarts, job>>

\* runSourceFailureReconciler, for one platform.
ReconcileReport ==
    /\ job = NoJob /\ queue # <<>>
    /\ LET p == Head(queue).platform
           look == Preflight(mount[Root(p)], InMemory(p))
       IN  RecordFailure({p}, Root(p),
                         IF look.state = "available"
                         THEN RuntimeFailure(look, Head(queue).code) ELSE look)
    /\ queue' = Tail(queue)
    /\ UNCHANGED <<config, envVars, schema, backups, initPending, accepted,
                   reports, edits, restarts, job>>

\* acknowledgeSourceRemoval: no lock, and the lists in memory stay as they are.
AcknowledgeMissing(g) ==
    /\ Running /\ cat[g] = Threshold
    /\ cat' = [cat EXCEPT ![g] = -1]
    /\ UNCHANGED <<config, envVars, schema, backups, row, snapshot, memVars,
                   observers, budgets, job>>

Restart ==
    /\ Event /\ restarts' = restarts + 1
    /\ src' = [p \in Platform |-> NoRecord] /\ shown' = [g \in Games |-> "unlisted"]
    /\ queue' = <<>> /\ initPending' = FALSE /\ lost' = FALSE
    /\ job' = Booting(schema)
    /\ UNCHANGED <<config, envVars, dbVars, accepted, disturbances, reports, edits>>

\* The environment: mounts come and go, games are deleted and put back.
Remount(r, p) ==
    /\ r \in Roots /\ p # mount[r]
    /\ IF p = "home" THEN Calm ELSE Disturb
    /\ mount' = [mount EXCEPT ![r] = p]
    /\ UNCHANGED <<config, onHome, removed, dbVars, memVars, observers, reports, edits, restarts, job>>
EditSource(g) ==
    /\ Event /\ edits' = edits + 1
    /\ onHome' = IF g \in onHome THEN onHome \ {g} ELSE onHome \cup {g}
    /\ removed' = removed \cup {g}
    /\ UNCHANGED <<config, mount, dbVars, memVars, observers, disturbances, reports, restarts, job>>

StartStep == BootMounts \/ BackupDatabase \/ Migrate \/ StartCheck \/ StartWalk
             \/ StartReconcile \/ StartRow \/ BootPublish
ScanStep == GroupCheck \/ GroupWalk \/ GroupFinish \/ GroupAbort

Next ==
    \/ StartStep \/ InitBegin \/ ScanStep
    \/ \E choice \in Platform \cup {"all"}, accept \in BOOLEAN :
          RescanBegin(choice, accept)
    \/ \E r \in Platform : Recover(r)
    \/ \E p \in Platform, code \in {"read", "changed"} : ReadFails(p, code)
    \/ ReconcileReport
    \/ \E g \in Games : AcknowledgeMissing(g)
    \/ Restart
    \/ \E r \in Platform, p \in Outages \cup {"home"} : Remount(r, p)
    \/ \E g \in Games : EditSource(g)

Spec == Init /\ [][Next]_vars

\* Threads run on, and the recovery timer keeps finding scanMu free.
FairSpec ==
    /\ Spec
    /\ WF_vars(StartStep) /\ WF_vars(InitBegin) /\ WF_vars(ScanStep)
    /\ \A r \in Platform : SF_vars(Recover(r))

-----------------------------------------------------------------------------
\* The filesystem that a record identifies.
Filesystem(r) == CASE r.dev \in {"d1", "d2"} -> "home" [] r.dev = "d3" -> "other"
                   [] r.dev = "d4" -> "bare" [] OTHER -> "none"
PlatformOf(g) == IF g \in WiiGames THEN "wii" ELSE "gamecube"

\* As long as a root's record identifies the original filesystem, a game that
\* never left it is not counted as lost because of a single outage, unreadable file
\* or failing write, in whatever step it comes (reconcileCatalogTx's second
\* observation, the preflights around a scan, the count that previousSource takes
\* from the snapshot): two are needed.  Nor does an upgrade from schema 1 lose it.
LossNeedsTwoDisturbances ==
    \A g \in Games \ removed :
       ~accepted /\ disturbances < 2 /\ Filesystem(row[Root(PlatformOf(g))]) = "home" =>
         /\ cat[g] # Threshold
         /\ g \in WiiGames /\ upgrade > 0 /\ schema = 3 => cat[g] # -1

\* The filesystem that a root's record identifies is exchanged for another one only
\* by the commit of a scan that an administrator confirmed as a relocation: not by
\* startup, a timer, a rescan or a failure record (Preflight, PreflightReplacement,
\* fail in scanLibraryGroup).  Excepted are a daemon that could not write a record,
\* and a shared root that app.source and app.gcSource identify differently, as they
\* may when the first start ever did not find the source.
TrustNeedsConfirmation ==
    [][\A r \in Platform :
          \/ Filesystem(row[r]) \in {"none", Filesystem(row'[r])}
          \/ job.accept /\ job.step = "finish"
          \/ lost
          \/ shared /\ Filesystem(src["wii"]) # Filesystem(InMemory("gamecube"))]_vars

\* A running daemon serves the active snapshot, and shows an available source
\* exactly as the catalog has it, an acknowledged removal excepted: the startup
\* scans, CommitSourceScan and recordLibraryFailure keep table, snapshot and
\* memory together, unless a startup write failed.
CatalogIsServed ==
    Running /\ ~lost =>
      /\ snapshot = {g \in WiiGames : shown[g] # "unlisted"}
      /\ \A g \in Games :
            src[PlatformOf(g)].state = "available" /\ job.step # "row" =>
              \/ shown[g] = ItemAvailability(cat[g])
              \/ cat[g] = -1 /\ shown[g] = "missing-confirmed"

\* An unavailable source whose trusted filesystem is mounted does not stay so:
\* the recovery timer scans it (recoverSources).
SourceReturns ==
    \A p \in Platform :
       []<>(\/ ~Running \/ ~Retryable(src[p].state)
            \/ Preflight(mount[Root(p)], src[p]).state # "available")

\* docs/source-reconciliation.md of a source that was unavailable: "Once the original
\* source is available, readiness returns".  A daemon that runs on with the
\* original source mounted, and met no other failure, is ready again and again.
ReadinessReturns ==
    <>[](Running /\ ~lost /\ reports = 0 /\ mount["wii"] = "home") => []<>Ready
=============================================================================
