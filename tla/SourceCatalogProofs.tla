------------------------ MODULE SourceCatalogProofs ------------------------
(***************************************************************************)
(* Theorems about SourceCatalog, for every set of games and installations, *)
(* every capacity of the failure queue, and any number of outages, failing *)
(* writes, read failures, edits of the sources and restarts.               *)
(***************************************************************************)
EXTENDS SourceCatalog, SequenceTheorems, TLAPS

\* Which steps a holder of scanMu goes through.  The records in memory are
\* written by the end of a scan, so startup has none before.
JobShape ==
    /\ job.who = "none" => job = NoJob
    /\ job.who = "boot" => job.step \in {"mounts", "schema", "check", "walk",
                                         "reconcile", "row", "publish", "failed"}
    /\ job.who = "init" => job.step \in {"check", "walk", "reconcile", "row"}
    /\ job.who \in {"rescan", "recovery"} =>
          /\ job.step \in {"check", "walk", "finish", "abort"}
          /\ job.root \in Roots /\ job.todo \subseteq {"gamecube"}
          /\ job.todo # {} => ~shared
    /\ job.step = "schema" => schema < 3
    /\ job.step \notin {"mounts", "schema"} => schema = 3
    /\ job.who = "boot" =>
          /\ src["gamecube"] = NoRecord
          /\ job.step \notin {"publish", "failed"} => src["wii"] = NoRecord

TInv == TypeOK /\ JobShape

-----------------------------------------------------------------------------
\* The operators on records.

LEMMA PreflightTypes ==
    ASSUME NEW p \in Place, NEW r \in Record
    PROVE  /\ Preflight(p, r) \in Record
           /\ Preflight(p, r).state \in {"available", "unavailable", "changed"}
           /\ Preflight(p, r).state # "available" =>
                 Preflight(p, r) = Failed(r, Preflight(p, r).state)
<1>1. Dev(p) \in {"d1", "d2", "d3", "d4"} /\ Fs(p) \in {"", "F", "G"}
  BY DEF Dev, Fs
<1>2. QED
  BY <1>1 DEF Preflight, Failed, Record, State

LEMMA FailedTypes ==
    ASSUME NEW r \in Record, NEW s \in State, NEW some \in BOOLEAN
    PROVE  /\ Failed(r, s) \in Record /\ Failed(r, s).state = s
           /\ Successful(r, some) \in Record /\ Successful(r, some).state = "available"
           /\ Partial(r) \in Record /\ Partial(r).state = "unavailable"
           /\ RuntimeFailure(r, s) \in Record
           /\ RuntimeFailure(r, s).state \in {"changed", "unavailable"}
BY DEF Failed, Successful, Partial, RuntimeFailure, Record, State

LEMMA ReplacementTypes ==
    ASSUME NEW p \in Place, NEW r \in Record
    PROVE  /\ PreflightReplacement(p, r) \in Record
           /\ PreflightReplacement(p, r).state \in {"available", "unavailable", "changed"}
           /\ PreflightReplacement(p, r).state # "available" =>
                 PreflightReplacement(p, r) = Failed(r, PreflightReplacement(p, r).state)
<1> DEFINE blank == [r EXCEPT !.fs = "", !.dev = ""]
           look == Preflight(p, blank)
<1>1. blank \in Record
  BY DEF Record
<1>2. look \in Record /\ look.state \in {"available", "unavailable", "changed"}
  BY <1>1, PreflightTypes
<1>3. PreflightReplacement(p, r) = IF look.state = "available" THEN look
                                   ELSE Failed(r, look.state)
  BY DEF PreflightReplacement
<1> HIDE DEF look
<1>4. look.state \in State
  BY <1>2 DEF State
<1>5. QED
  BY <1>2, <1>3, <1>4 DEF Failed, Record

LEMMA ConstantRecords ==
    /\ NoRecord \in Record /\ Unknown \in Record /\ NoRecord.state = "none"
    /\ Unknown.state = "unknown" /\ NoRecord # Unknown
    /\ NoJob \in Job /\ NoJob.who = "none" /\ NoJob.step = "idle"
BY DEF NoRecord, Unknown, Record, State, NoJob, Job, Platform

LEMMA BootingTypes ==
    ASSUME NEW version \in 0 .. 3
    PROVE  Booting(version) \in Job /\ Booting(version).who = "boot"
           /\ Booting(version).step = "mounts"
<1> DEFINE old == version > 0
<1>1. old \in BOOLEAN
  OBVIOUS
<1>2. Booting(version) = [NoJob EXCEPT !.who = "boot", !.step = "mounts", !.existed = old]
  BY DEF Booting
<1> HIDE DEF old
<1>3. QED
  BY <1>1, <1>2, ConstantRecords DEF Job, NoJob

LEMMA RootTypes ==
    ASSUME NEW p \in Platform
    PROVE  Root(p) \in Platform /\ Root(p) \in Roots
BY DEF Root, Roots, Platform

LEMMA SavedTypes ==
    ASSUME TypeOK, NEW p \in Platform
    PROVE  Saved(p) \in Record /\ InMemory(p) \in Record /\ Previous(p) \in Record
<1>1. Root(p) \in Platform /\ mount[Root(p)] \in Place /\ row[Root(p)] \in Record
  BY RootTypes DEF TypeOK
<1>2. Preflight(mount[Root(p)], Unknown) \in Record
  BY <1>1, PreflightTypes, ConstantRecords
<1>3. [Preflight(mount[Root(p)], Unknown) EXCEPT !.some = TRUE] \in Record
  BY <1>2 DEF Record
<1>4. Saved(p) \in Record
  BY <1>1, <1>3, ConstantRecords DEF Saved
<1>5. InMemory(p) \in Record
  BY DEF InMemory, TypeOK, Platform
<1>6. QED
  BY <1>4, <1>5 DEF Previous

-----------------------------------------------------------------------------
\* The operators on catalogs and lists.
Catalogs == [Games -> -1 .. Threshold]
Lists == [Games -> Availability]

LEMMA GamesOfTypes ==
    ASSUME NEW p \in Platform
    PROVE  /\ GamesOf(p) \subseteq Games
           /\ \A r : Seen(r, p) \subseteq Games
           /\ \A c : Listed(c, p) \subseteq Games
BY DEF GamesOf, Games, Seen, Listed, Platform

LEMMA ReconciledTypes ==
    ASSUME NEW c \in Catalogs, NEW p \in Platform, NEW found
    PROVE  Reconciled(c, p, found) \in Catalogs
<1>1. ASSUME NEW x \in Games
      PROVE  (IF x \notin GamesOf(p) THEN c[x] ELSE IF x \in found THEN 0
              ELSE IF c[x] \in {-1, Threshold} THEN c[x] ELSE c[x] + 1) \in -1 .. Threshold
  BY DEF Catalogs, Threshold
<1>2. QED
  BY <1>1 DEF Reconciled, Catalogs

LEMMA DerivedTypes ==
    ASSUME NEW state, NEW item \in Availability
    PROVE  /\ Derived(state, item) \in Availability
           /\ item # "unlisted" => Derived(state, item) # "unlisted"
           /\ Derived("available", item) = item
BY DEF Derived, Availability

LEMMA ItemTypes ==
    ASSUME NEW n \in -1 .. Threshold
    PROVE  /\ ItemAvailability(n) \in Availability
           /\ ItemAvailability(n) = "unlisted" <=> n = -1
           /\ ItemAvailability(Threshold) = "missing-confirmed"
BY DEF ItemAvailability, Availability, Threshold

LEMMA DecodedTypes ==
    ASSUME NEW c \in Catalogs, NEW P \in SUBSET Platform, NEW state, shown \in Lists
    PROVE  Decoded(c, P, state) \in Lists
<1>1. ASSUME NEW x \in Games
      PROVE  (IF \A p \in P : x \notin GamesOf(p) THEN shown[x]
              ELSE IF c[x] = -1 THEN "unlisted"
              ELSE Derived(state, ItemAvailability(c[x]))) \in Availability
  <2>1. c[x] \in -1 .. Threshold /\ shown[x] \in Availability
    BY DEF Catalogs, Lists
  <2>2. Derived(state, ItemAvailability(c[x])) \in Availability
    BY <2>1, ItemTypes, DerivedTypes
  <2>3. "unlisted" \in Availability
    BY DEF Availability
  <2>4. QED
    BY <2>1, <2>2, <2>3
<1>2. QED
  BY <1>1 DEF Decoded, Lists

LEMMA CachedTypes ==
    ASSUME NEW p \in Platform, NEW state, shown \in Lists, cat \in Catalogs
    PROVE  Cached(p, state) \in Lists /\ Emptied(p) \in Lists
<1>1. "playable" \in Availability /\ "unlisted" \in Availability
  BY DEF Availability
<1>2. Derived(state, "playable") \in Availability
  BY <1>1, DerivedTypes
<1>3. \A x \in Games : shown[x] \in Availability
  BY DEF Lists
<1>4. Emptied(p) \in Lists
  BY <1>1, <1>3 DEF Emptied, Lists
<1>5. [x \in Games |-> IF x \in snapshot THEN Derived(state, "playable")
                       ELSE IF x \in WiiGames THEN "unlisted" ELSE shown[x]] \in Lists
  BY <1>1, <1>2, <1>3 DEF Lists
<1>6. Decoded(cat, {p}, state) \in Lists
  BY DecodedTypes
<1>7. QED
  BY <1>4, <1>5, <1>6 DEF Cached

-----------------------------------------------------------------------------
\* TypeOK by part.
EnvTypes == /\ <<shared, kind, upgrade>> \in Installations
            /\ mount \in [Platform -> Place] /\ onHome \in SUBSET Games
DbTypes == /\ schema \in 0 .. 3 /\ backups \in SUBSET {2, 3}
           /\ row \in [Platform -> Record] /\ cat \in Catalogs
           /\ snapshot \in SUBSET WiiGames
MemTypes == /\ src \in [Platform -> Record] /\ shown \in Lists
            /\ queue \in Seq(Failure) /\ Len(queue) <= QueueLimit
            /\ initPending \in BOOLEAN
JobTypes == job \in Job /\ (schema < 3 => job.who = "boot")

LEMMA TypeParts == TypeOK <=> EnvTypes /\ DbTypes /\ MemTypes /\ JobTypes
BY DEF TypeOK, EnvTypes, DbTypes, MemTypes, JobTypes, Catalogs, Lists

\* What the actions leave alone.
LEMMA EnvFrame == ASSUME EnvTypes, UNCHANGED <<config, mount, onHome>> PROVE EnvTypes'
BY DEF EnvTypes, config

\* The steps of startup's migration and of the threads that only take scanMu.
LEMMA BootTypes ==
    ASSUME TInv, BootMounts \/ BackupDatabase \/ Migrate
    PROVE  TInv'
<1> USE DEF config, envVars, dbVars, memVars, observers, budgets
<1>0. EnvTypes /\ DbTypes /\ MemTypes /\ JobTypes /\ JobShape
  BY TypeParts DEF TInv
<1>1. CASE BootMounts
  <2>1. EnvTypes' /\ DbTypes' /\ MemTypes'
    BY <1>0, <1>1 DEF BootMounts, EnvTypes, DbTypes, MemTypes
  <2>2. job.who = "boot" /\ job'.who = "boot" /\ job' \in Job
    BY <1>0, <1>1 DEF BootMounts, JobTypes, Job, JobShape, NoJob
  <2>3. JobTypes' /\ JobShape'
    BY <1>0, <1>1, <2>2 DEF BootMounts, JobTypes, JobShape, DbTypes, Job
  <2>4. QED
    BY <2>1, <2>3, TypeParts DEF TInv, TypeOK, EnvTypes, DbTypes, MemTypes, JobTypes, Catalogs, Lists
<1>2. CASE BackupDatabase
  <2>1. EnvTypes' /\ DbTypes' /\ MemTypes'
    BY <1>0, <1>2 DEF BackupDatabase, EnvTypes, DbTypes, MemTypes
  <2>3. JobTypes' /\ JobShape'
    BY <1>0, <1>2 DEF BackupDatabase, JobTypes, JobShape, Roots, Root
  <2>4. QED
    BY <2>1, <2>3 DEF TInv, TypeOK, EnvTypes, DbTypes, MemTypes, JobTypes, Catalogs, Lists
<1>3. CASE Migrate
  <2>1. EnvTypes' /\ MemTypes'
    BY <1>0, <1>3 DEF Migrate, EnvTypes, MemTypes
  <2>2. job.who = "boot" /\ job'.who = "boot" /\ job' \in Job
    BY <1>0, <1>3 DEF Migrate, JobTypes, Job, JobShape, NoJob
  <2>3. Seeded(cat) \in Catalogs
    BY <1>0 DEF Seeded, DbTypes, Catalogs, Threshold
  <2>4. DbTypes'
    BY <1>0, <1>3, <2>3 DEF Migrate, DbTypes, JobShape
  <2>5. JobTypes' /\ JobShape'
    BY <1>0, <1>3, <2>2 DEF Migrate, JobTypes, JobShape, DbTypes, Job
  <2>6. QED
    BY <2>1, <2>4, <2>5 DEF TInv, TypeOK, EnvTypes, DbTypes, MemTypes, JobTypes, Catalogs, Lists
<1>4. QED
  BY <1>1, <1>2, <1>3

LEMMA TypePartsNext ==
    ASSUME EnvTypes', DbTypes', MemTypes', JobTypes', JobShape'
    PROVE  TInv'
BY DEF TInv, TypeOK, EnvTypes, DbTypes, MemTypes, JobTypes, Catalogs, Lists

\* What a startup scan writes when it ends, well or badly.
LEMMA StartEndTypes ==
    ASSUME TInv, Starting("check") \/ Starting("walk") \/ Starting("reconcile") \/ Starting("row"),
           NEW record \in Record, StartFrame,
           UNCHANGED <<schema, backups, cat, snapshot>>,
           row' \in {row, [row EXCEPT ![Root(Own)] = record]},
           src' = [src EXCEPT ![Own] = record], shown' \in Lists, job' = AfterStart
    PROVE  TInv'
<1> USE DEF config, envVars, dbVars, memVars, observers, budgets
<1>0. EnvTypes /\ DbTypes /\ MemTypes /\ JobTypes /\ JobShape
  BY TypeParts DEF TInv
<1>1. Own \in Platform /\ Root(Own) \in Platform
  BY RootTypes DEF Own, Platform
<1>2. EnvTypes' /\ DbTypes' /\ MemTypes'
  BY <1>0, <1>1 DEF StartFrame, EnvTypes, DbTypes, MemTypes
<1>3. job.step \in {"check", "walk", "reconcile", "row"} /\ schema = 3 /\ schema' = 3
  BY <1>0 DEF Starting, JobShape
<1>4. CASE job.who = "boot"
  <2>1. job' = [job EXCEPT !.step = "publish"] /\ Own = "wii"
    BY <1>4 DEF AfterStart, Own
  <2>2. job' \in Job /\ job'.who = "boot" /\ job'.step = "publish" /\ src'["gamecube"] = NoRecord
    BY <1>0, <1>4, <2>1 DEF JobTypes, Job, JobShape, MemTypes, Platform
  <2>3. JobTypes' /\ JobShape'
    BY <1>3, <2>2 DEF JobTypes, JobShape
  <2>4. QED
    BY <1>2, <2>3, TypePartsNext
<1>5. CASE job.who # "boot"
  <2>1. job' = NoJob
    BY <1>5 DEF AfterStart
  <2>2. JobTypes' /\ JobShape'
    BY <1>3, <2>1, ConstantRecords DEF JobTypes, JobShape
  <2>3. QED
    BY <1>2, <2>2, TypePartsNext
<1>6. QED
  BY <1>4, <1>5

LEMMA StartFailsTypes ==
    ASSUME TInv, Starting("check") \/ Starting("walk"), StartFrame,
           NEW record \in Record, StartFails(record)
    PROVE  TInv'
<1>0. DbTypes /\ MemTypes
  BY TypeParts DEF TInv
<1>1. row' \in {row, [row EXCEPT ![Root(Own)] = record]}
  BY DEF StartFails, Upsert
<1>2. shown' \in Lists
  BY <1>0, CachedTypes DEF StartFails, Own, Platform, MemTypes, DbTypes
<1>3. QED
  BY <1>1, <1>2, StartEndTypes DEF StartFails

LEMMA StartLosesTypes ==
    ASSUME TInv, Starting("reconcile") \/ Starting("row"), StartFrame,
           NEW record \in Record, StartLoses(record)
    PROVE  TInv'
<1>0. DbTypes /\ MemTypes
  BY TypeParts DEF TInv
<1>1. shown' \in Lists
  BY <1>0, CachedTypes DEF StartLoses, Own, Platform, MemTypes, DbTypes
<1>2. QED
  BY <1>1, StartEndTypes DEF StartLoses

\* A startup scan goes on.
LEMMA StartOnTypes ==
    ASSUME TInv, Starting("check") \/ Starting("walk") \/ Starting("reconcile"), StartFrame,
           cat' \in Catalogs, UNCHANGED <<schema, backups, row, snapshot, src, shown>>,
           job' \in Job, job'.who = job.who, job'.step \in {"walk", "reconcile", "row"}
    PROVE  TInv'
<1> USE DEF config, envVars, dbVars, memVars, observers, budgets
<1>0. EnvTypes /\ DbTypes /\ MemTypes /\ JobTypes /\ JobShape
  BY TypeParts DEF TInv
<1>2. EnvTypes' /\ DbTypes' /\ MemTypes'
  BY <1>0 DEF StartFrame, EnvTypes, DbTypes, MemTypes
<1>3. JobTypes' /\ JobShape'
  BY <1>0 DEF Starting, JobTypes, JobShape
<1>4. QED
  BY <1>2, <1>3, TypePartsNext

LEMMA StartTypes ==
    ASSUME TInv, StartCheck \/ StartWalk \/ StartReconcile \/ StartRow
    PROVE  TInv'
<1>0. EnvTypes /\ DbTypes /\ MemTypes /\ JobTypes /\ JobShape /\ TypeOK /\ job \in Job
  BY TypeParts DEF TInv, JobTypes
<1>1. Own \in Platform /\ Root(Own) \in Platform /\ mount[Root(Own)] \in Place
  BY <1>0, RootTypes DEF Own, Platform, EnvTypes
<1>2. job.cand \in Record /\ job.found \subseteq Games
  BY <1>0 DEF Job
<1>3. CASE StartCheck
  <2> DEFINE record == Preflight(mount[Root(Own)], Saved(Own))
  <2>1. record \in Record
    BY <1>0, <1>1, SavedTypes, PreflightTypes
  <2> HIDE DEF record
  <2>2. CASE record.state = "available"
    <3>1. /\ job' = [job EXCEPT !.step = "walk", !.cand = record] /\ StartFrame
          /\ UNCHANGED <<dbVars, src, shown>> /\ Starting("check")
      BY <1>3, <2>2 DEF StartCheck, record
    <3>2. job' \in Job /\ job'.who = job.who /\ job'.step = "walk"
      BY <1>0, <2>1, <3>1 DEF Job
    <3>3. QED
      BY <1>0, <3>1, <3>2, StartOnTypes DEF dbVars, DbTypes
  <2>3. CASE record.state # "available"
    <3>1. StartFails(record) /\ StartFrame /\ Starting("check")
      BY <1>3, <2>3 DEF StartCheck, record
    <3>2. QED
      BY <2>1, <3>1, StartFailsTypes
  <2>4. QED
    BY <2>2, <2>3
<1>4. CASE StartWalk
  <2>1. StartFrame /\ Starting("walk")
    BY <1>4 DEF StartWalk
  <2>2. CASE StartFails(Partial(job.cand))
    <3>1. Partial(job.cand) \in Record
      BY <1>2, FailedTypes DEF State
    <3>2. QED
      BY <2>1, <2>2, <3>1, StartFailsTypes
  <2>3. CASE ~StartFails(Partial(job.cand))
    <3>1. PICK found \in SUBSET Seen(Root(Own), Own) :
             /\ job' = [job EXCEPT !.step = "reconcile", !.found = found]
             /\ UNCHANGED <<dbVars, src, shown>>
      BY <1>4, <2>3 DEF StartWalk
    <3>2. found \subseteq Games
      BY <1>1, GamesOfTypes
    <3>3. job' \in Job /\ job'.who = job.who /\ job'.step = "reconcile"
      BY <1>0, <3>1, <3>2 DEF Job
    <3>4. QED
      BY <1>0, <2>1, <3>1, <3>3, StartOnTypes DEF dbVars, DbTypes
  <2>4. QED
    BY <2>2, <2>3
<1>5. CASE StartReconcile
  <2>1. StartFrame /\ Starting("reconcile")
    BY <1>5 DEF StartReconcile
  <2>2. CASE StartLoses(job.cand)
    BY <1>2, <2>1, <2>2, StartLosesTypes
  <2>3. CASE ~StartLoses(job.cand)
    <3>1. /\ cat' = Reconciled(cat, Own, job.found) /\ job' = [job EXCEPT !.step = "row"]
          /\ UNCHANGED <<schema, backups, row, snapshot, src, shown>>
      BY <1>5, <2>3 DEF StartReconcile
    <3>2. cat' \in Catalogs
      BY <1>0, <1>1, <3>1, ReconciledTypes DEF DbTypes
    <3>3. job' \in Job /\ job'.who = job.who /\ job'.step = "row"
      BY <1>0, <3>1 DEF Job
    <3>4. QED
      BY <2>1, <3>1, <3>2, <3>3, StartOnTypes
  <2>4. QED
    BY <2>2, <2>3
<1>6. CASE StartRow
  <2> DEFINE some == \/ job.found # {}
                     \/ job.who = "init" /\ shared /\ Listed(cat, "wii") # {}
             record == Successful(job.cand, some)
  <2>1. some \in BOOLEAN
    OBVIOUS
  <2> HIDE DEF some
  <2>2. record \in Record
    BY <1>2, <2>1, FailedTypes DEF State
  <2> HIDE DEF record
  <2>3. StartFrame /\ Starting("row")
    BY <1>6 DEF StartRow
  <2>4. CASE StartLoses(record)
    BY <2>2, <2>3, <2>4, StartLosesTypes
  <2>5. CASE ~StartLoses(record)
    <3>1. /\ row' = [row EXCEPT ![Root(Own)] = record] /\ src' = [src EXCEPT ![Own] = record]
          /\ shown' = Decoded(cat, {Own}, "available") /\ job' = AfterStart
          /\ UNCHANGED <<schema, backups, cat, snapshot>>
      BY <1>6, <2>5 DEF StartRow, record, some
    <3>2. shown' \in Lists
      BY <1>0, <1>1, <3>1, DecodedTypes DEF DbTypes, MemTypes
    <3>3. QED
      BY <2>2, <2>3, <3>1, <3>2, StartEndTypes
  <2>6. QED
    BY <2>4, <2>5
<1>7. QED
  BY <1>3, <1>4, <1>5, <1>6

LEMMA RecordFailureTypes ==
    ASSUME TInv, NEW P \in SUBSET Platform, NEW r \in Platform, NEW record \in Record,
           RecordFailure(P, r, record)
    PROVE  /\ row' \in [Platform -> Record] /\ src' \in [Platform -> Record]
           /\ shown' \in Lists /\ UNCHANGED <<cat, snapshot>>
<1>0. DbTypes /\ MemTypes
  BY TypeParts DEF TInv
<1>1. row' \in [Platform -> Record]
  BY <1>0 DEF RecordFailure, Upsert, DbTypes
<1>2. src' \in [Platform -> Record]
  BY <1>0 DEF RecordFailure, MemTypes
<1>3. Derived(record.state, "playable") \in Availability
  BY DerivedTypes DEF Availability
<1>4. shown' \in Lists
  BY <1>0, <1>3 DEF RecordFailure, MemTypes, Lists
<1>5. QED
  BY <1>1, <1>2, <1>4 DEF RecordFailure

LEMMA GroupTypes ==
    ASSUME TInv, job.who \in {"rescan", "recovery"}
    PROVE  /\ job.root \in Platform /\ job.root \in Roots /\ Group(job.root) \in SUBSET Platform
           /\ job.root \in Group(job.root) /\ mount[job.root] \in Place
           /\ job.prev \in Record /\ job.cand \in Record /\ job.found \subseteq Games
           /\ \A p \in Platform : p \in Group(job.root) <=> Root(p) = job.root
<1>0. EnvTypes /\ JobTypes /\ JobShape
  BY TypeParts DEF TInv
<1>1. job.root \in Platform /\ job.root \in Roots /\ job.prev \in Record /\ job.cand \in Record
      /\ job.found \subseteq Games
  BY <1>0 DEF JobTypes, Job, JobShape
<1>2. QED
  BY <1>0, <1>1 DEF EnvTypes, Group, Roots, Root, Platform

LEMMA AfterGroupTypes ==
    ASSUME TInv, job.who \in {"rescan", "recovery"}, UNCHANGED <<schema, shared>>,
           job' = AfterGroup
    PROVE  JobTypes' /\ JobShape'
<1>0. JobTypes /\ JobShape /\ schema = 3
  BY TypeParts DEF TInv, JobTypes, JobShape
<1>1. CASE job.todo = {}
  BY <1>0, <1>1, ConstantRecords DEF AfterGroup, JobTypes, JobShape
<1>2. CASE job.todo # {}
  <2>1. /\ job' \in Job /\ job'.who = job.who /\ job'.step = "check"
        /\ job'.root = "gamecube" /\ job'.todo = {}
    BY <1>0, <1>2 DEF AfterGroup, NoJob, Job, JobTypes, Platform, Record, NoRecord, State
  <2>2. "gamecube" \in Roots'
    BY <1>0, <1>2 DEF JobShape, Roots, Root, Platform
  <2>3. QED
    BY <1>0, <2>1, <2>2 DEF JobTypes, JobShape
<1>3. QED
  BY <1>1, <1>2

LEMMA GroupFailsTypes ==
    ASSUME TInv, job.who \in {"rescan", "recovery"}, ScanFrame, NEW record \in Record,
           GroupFails(record)
    PROVE  TInv'
<1> USE DEF config, envVars, dbVars, memVars, observers, budgets
<1>0. EnvTypes /\ DbTypes /\ MemTypes
  BY TypeParts DEF TInv
<1>1. RecordFailure(Group(job.root), job.root, record) /\ job' = AfterGroup
  BY DEF GroupFails
<1>2. /\ row' \in [Platform -> Record] /\ src' \in [Platform -> Record]
      /\ shown' \in Lists /\ UNCHANGED <<cat, snapshot>>
  BY <1>1, GroupTypes, RecordFailureTypes
<1>3. EnvTypes' /\ DbTypes' /\ MemTypes'
  BY <1>0, <1>2 DEF ScanFrame, EnvTypes, DbTypes, MemTypes
<1>4. JobTypes' /\ JobShape'
  BY <1>1, AfterGroupTypes DEF ScanFrame
<1>5. QED
  BY <1>3, <1>4, TypePartsNext

\* A scan goes on.
LEMMA GroupOnTypes ==
    ASSUME TInv, job.who \in {"rescan", "recovery"}, ScanFrame,
           UNCHANGED <<row, cat, snapshot, src, shown>>,
           job' \in Job, job'.who = job.who, job'.step \in {"walk", "finish", "abort"},
           job'.root = job.root, job'.todo = job.todo
    PROVE  TInv'
<1> USE DEF config, envVars, dbVars, memVars, observers, budgets
<1>0. EnvTypes /\ DbTypes /\ MemTypes /\ JobTypes /\ JobShape /\ schema = 3
  BY TypeParts DEF TInv, JobTypes, JobShape
<1>2. EnvTypes' /\ DbTypes' /\ MemTypes'
  BY <1>0 DEF ScanFrame, EnvTypes, DbTypes, MemTypes
<1>3. Roots' = Roots
  BY DEF ScanFrame, Roots, Root
<1>4. JobTypes' /\ JobShape'
  BY <1>0, <1>3 DEF JobTypes, JobShape, ScanFrame
<1>5. QED
  BY <1>2, <1>4, TypePartsNext

\* The record of a group's preflight, which is the previous one when it fails.
GroupRecord == IF job.accept THEN PreflightReplacement(mount[job.root], Previous(job.root))
               ELSE Preflight(mount[job.root], Previous(job.root))

LEMMA GroupRecordTypes ==
    ASSUME TInv, job.who \in {"rescan", "recovery"}
    PROVE  /\ Previous(job.root) \in Record /\ GroupRecord \in Record
           /\ GroupRecord.state \in {"available", "unavailable", "changed"}
           /\ GroupRecord.state # "available" =>
                 GroupRecord = Failed(Previous(job.root), GroupRecord.state)
<1>1. TypeOK /\ job.root \in Platform /\ mount[job.root] \in Place
  BY GroupTypes DEF TInv
<1>2. Previous(job.root) \in Record
  BY <1>1, SavedTypes
<1>3. QED
  BY <1>1, <1>2, PreflightTypes, ReplacementTypes DEF GroupRecord

LEMMA GroupCheckTypes ==
    ASSUME TInv, GroupCheck
    PROVE  TInv'
<1>0. /\ Scanning("check") /\ ScanFrame
      /\ \/ GroupFails(Failed(Previous(job.root), "invalid"))
         \/ GroupFails(GroupRecord)
         \/ /\ job' = [job EXCEPT !.step = "walk", !.prev = Previous(job.root),
                                  !.cand = GroupRecord]
            /\ UNCHANGED <<row, cat, snapshot, src, shown>>
  BY DEF GroupCheck, GroupRecord
<1>1. job.who \in {"rescan", "recovery"} /\ job \in Job
  BY <1>0, TypeParts DEF Scanning, TInv, JobTypes
<1>2. Previous(job.root) \in Record /\ GroupRecord \in Record
  BY <1>1, GroupRecordTypes
<1>3. Failed(Previous(job.root), "invalid") \in Record
  BY <1>2, FailedTypes DEF State
<1>4. CASE GroupFails(Failed(Previous(job.root), "invalid"))
  BY <1>0, <1>1, <1>3, <1>4, GroupFailsTypes
<1>5. CASE GroupFails(GroupRecord)
  BY <1>0, <1>1, <1>2, <1>5, GroupFailsTypes
<1>6. ASSUME job' = [job EXCEPT !.step = "walk", !.prev = Previous(job.root),
                                !.cand = GroupRecord],
             UNCHANGED <<row, cat, snapshot, src, shown>>
      PROVE  TInv'
  <2>1. /\ job' \in Job /\ job'.who = job.who /\ job'.step = "walk"
        /\ job'.root = job.root /\ job'.todo = job.todo
    BY <1>1, <1>2, <1>6 DEF Job
  <2>2. QED
    BY <1>0, <1>1, <1>6, <2>1, GroupOnTypes
<1>7. QED
  BY <1>0, <1>4, <1>5, <1>6

Walked == IF "wii" \in Group(job.root) \ job.walked THEN "wii" ELSE "gamecube"

LEMMA GroupWalkTypes ==
    ASSUME TInv, GroupWalk
    PROVE  TInv'
<1>0. /\ Scanning("walk") /\ ScanFrame
      /\ \/ GroupFails(Partial(job.prev))
         \/ \E found \in SUBSET Seen(job.root, Walked) :
               /\ job' = [job EXCEPT !.found = @ \cup found, !.walked = @ \cup {Walked},
                             !.step = IF job.walked \cup {Walked} = Group(job.root)
                                      THEN "finish" ELSE "walk"]
               /\ UNCHANGED <<row, cat, snapshot, src, shown>>
  BY DEF GroupWalk, Walked
<1>1. job.who \in {"rescan", "recovery"} /\ job \in Job
  BY <1>0, TypeParts DEF Scanning, TInv, JobTypes
<1>2. CASE GroupFails(Partial(job.prev))
  BY <1>0, <1>1, <1>2, GroupTypes, FailedTypes, GroupFailsTypes DEF State
<1>3. ASSUME NEW found \in SUBSET Seen(job.root, Walked),
             job' = [job EXCEPT !.found = @ \cup found, !.walked = @ \cup {Walked},
                        !.step = IF job.walked \cup {Walked} = Group(job.root)
                                 THEN "finish" ELSE "walk"],
             UNCHANGED <<row, cat, snapshot, src, shown>>
      PROVE  TInv'
  <2>1. found \subseteq Games /\ Walked \in Platform
    BY GamesOfTypes DEF Walked, Platform
  <2>2. /\ job' \in Job /\ job'.who = job.who /\ job'.step \in {"walk", "finish"}
        /\ job'.root = job.root /\ job'.todo = job.todo
    BY <1>1, <1>3, <2>1 DEF Job
  <2>3. QED
    BY <1>0, <1>1, <1>3, <2>2, GroupOnTypes
<1>4. QED
  BY <1>0, <1>2, <1>3

LEMMA GroupFinishTypes ==
    ASSUME TInv, GroupFinish \/ GroupAbort
    PROVE  TInv'
<1> DEFINE some == job.found # {}
           record == Successful(job.cand, some)
<1>0. /\ job.who \in {"rescan", "recovery"} /\ ScanFrame
      /\ \/ GroupFails(Partial(job.prev))
         \/ /\ CommitScan(record)
            /\ src' = [p \in Platform |-> IF p \in Group(job.root) THEN record ELSE src[p]]
            /\ shown' = Decoded(cat', Group(job.root), "available")
            /\ job' = AfterGroup
         \/ /\ job' = [job EXCEPT !.step = "abort"]
            /\ UNCHANGED <<row, cat, snapshot, src, shown>>
  BY DEF GroupFinish, GroupAbort, Scanning
<1>1. EnvTypes /\ DbTypes /\ MemTypes /\ job \in Job
  BY TypeParts DEF TInv, JobTypes
<1>2. /\ job.root \in Platform /\ job.prev \in Record /\ job.cand \in Record
      /\ Group(job.root) \in SUBSET Platform
  BY <1>0, GroupTypes
<1>3. record \in Record
  <2>1. some \in BOOLEAN
    OBVIOUS
  <2> HIDE DEF some
  <2>2. QED
    BY <1>2, <2>1, FailedTypes DEF State
<1> HIDE DEF record
<1>4. CASE GroupFails(Partial(job.prev))
  BY <1>0, <1>2, <1>4, FailedTypes, GroupFailsTypes DEF State
<1>5. ASSUME CommitScan(record), job' = AfterGroup,
             src' = [p \in Platform |-> IF p \in Group(job.root) THEN record ELSE src[p]],
             shown' = Decoded(cat', Group(job.root), "available")
      PROVE  TInv'
  <2>1. Committed \in Catalogs
    <3>1. Reconciled(cat, "wii", job.found) \in Catalogs
      BY <1>1, ReconciledTypes DEF DbTypes, Platform
    <3>2. QED
      BY <1>1, <1>2, <3>1, ReconciledTypes DEF DbTypes, Platform, Committed
  <2>2. cat' \in Catalogs /\ row' = [row EXCEPT ![job.root] = record]
        /\ snapshot' \in {snapshot, Listed(cat', "wii")}
    BY <1>5, <2>1 DEF CommitScan
  <2>3. Listed(cat', "wii") \subseteq WiiGames
    BY DEF Listed, GamesOf
  <2>4. shown' \in Lists
    BY <1>1, <1>2, <1>5, <2>2, DecodedTypes DEF MemTypes
  <2>5. DbTypes'
    BY <1>0, <1>1, <1>2, <1>3, <2>2, <2>3 DEF DbTypes, ScanFrame
  <2>6. EnvTypes' /\ MemTypes'
    BY <1>0, <1>1, <1>3, <1>5, <2>4 DEF EnvTypes, MemTypes, ScanFrame, envVars, config
  <2>7. JobTypes' /\ JobShape'
    BY <1>0, <1>5, AfterGroupTypes DEF ScanFrame, config
  <2>8. QED
    BY <2>5, <2>6, <2>7, TypePartsNext
<1>6. ASSUME job' = [job EXCEPT !.step = "abort"], UNCHANGED <<row, cat, snapshot, src, shown>>
      PROVE  TInv'
  <2>1. /\ job' \in Job /\ job'.who = job.who /\ job'.step = "abort"
        /\ job'.root = job.root /\ job'.todo = job.todo
    BY <1>1, <1>6 DEF Job
  <2>2. QED
    BY <1>0, <1>6, <2>1, GroupOnTypes
<1>7. QED
  BY <1>0, <1>4, <1>5, <1>6

\* The threads that take scanMu, and the end of startup.
LEMMA BeginTypes ==
    ASSUME TInv,
           \/ BootPublish \/ InitBegin \/ \E r \in Platform : Recover(r)
           \/ \E choice \in Platform \cup {"all"}, accept \in BOOLEAN :
                 RescanBegin(choice, accept)
    PROVE  TInv'
<1> USE DEF config, envVars, dbVars, memVars, observers, budgets
<1>0. EnvTypes /\ DbTypes /\ MemTypes /\ JobTypes /\ JobShape
  BY TypeParts DEF TInv
<1>1. job = NoJob => schema = 3
  BY <1>0, ConstantRecords DEF JobShape
<1>2. CASE BootPublish
  <2>1. job.who = "boot" /\ job.step = "publish" /\ schema = 3 /\ schema' = 3
    BY <1>0, <1>2 DEF BootPublish, Starting, JobShape
  <2>2. EnvTypes' /\ DbTypes' /\ MemTypes'
    BY <1>0, <1>2 DEF BootPublish, EnvTypes, DbTypes, MemTypes
  <2>3. CASE job' = NoJob
    <3>1. JobTypes' /\ JobShape'
      BY <2>1, <2>3, ConstantRecords DEF JobTypes, JobShape
    <3>2. QED
      BY <2>2, <3>1, TypePartsNext
  <2>4. CASE job' = [job EXCEPT !.step = "failed"]
    <3>1. job' \in Job /\ job'.who = "boot" /\ job'.step = "failed"
      BY <1>0, <2>1, <2>4 DEF JobTypes, Job
    <3>2. JobTypes' /\ JobShape'
      BY <1>0, <1>2, <2>1, <3>1 DEF JobTypes, JobShape, BootPublish
    <3>3. QED
      BY <2>2, <3>2, TypePartsNext
  <2>5. QED
    BY <1>2, <2>3, <2>4 DEF BootPublish
<1>3. CASE InitBegin
  <2>1. EnvTypes' /\ DbTypes' /\ MemTypes' /\ schema' = 3
    BY <1>0, <1>1, <1>3 DEF InitBegin, EnvTypes, DbTypes, MemTypes
  <2>2. Root("gamecube") \in Platform
    BY RootTypes DEF Platform
  <2>3. job' \in Job /\ job'.who = "init" /\ job'.step = "check"
    BY <1>3, <2>2, ConstantRecords DEF InitBegin, NoJob, Job
  <2>4. JobTypes' /\ JobShape'
    BY <2>1, <2>3 DEF JobTypes, JobShape
  <2>5. QED
    BY <2>1, <2>4, TypePartsNext
<1>4. ASSUME NEW r \in Platform, Recover(r)
      PROVE  TInv'
  <2>1. EnvTypes' /\ DbTypes' /\ MemTypes' /\ schema' = 3
    BY <1>0, <1>1, <1>4 DEF Recover, EnvTypes, DbTypes, MemTypes
  <2>2. r \in Roots'
    BY <1>4 DEF Recover, Roots, Root
  <2>3. /\ job' \in Job /\ job'.who = "recovery" /\ job'.step = "check" /\ job'.root = r
        /\ job'.todo = {}
    BY <1>4, ConstantRecords DEF Recover, NoJob, Job
  <2>4. JobTypes' /\ JobShape'
    BY <2>1, <2>2, <2>3 DEF JobTypes, JobShape
  <2>5. QED
    BY <2>1, <2>4, TypePartsNext
<1>5. ASSUME NEW choice \in Platform \cup {"all"}, NEW accept \in BOOLEAN,
             RescanBegin(choice, accept)
      PROVE  TInv'
  <2> DEFINE todo == {r \in Roots : shared \/ choice \in {"all", r}}
             first == IF "wii" \in todo THEN "wii" ELSE "gamecube"
  <2>1. EnvTypes' /\ DbTypes' /\ MemTypes' /\ schema' = 3 /\ shared' = shared
    BY <1>0, <1>1, <1>5 DEF RescanBegin, EnvTypes, DbTypes, MemTypes
  <2>2. /\ first \in Platform /\ first \in Roots' /\ todo \ {first} \subseteq {"gamecube"}
        /\ todo \ {first} # {} => ~shared
    BY <2>1 DEF Roots, Root, Platform
  <2>3. job' = [NoJob EXCEPT !.who = "rescan", !.step = "check", !.root = first,
                             !.todo = todo \ {first}, !.accept = accept]
    BY <1>5 DEF RescanBegin
  <2> HIDE DEF todo, first
  <2>4. /\ job' \in Job /\ job'.who = "rescan" /\ job'.step = "check" /\ job'.root = first
        /\ job'.todo = todo \ {first}
    BY <2>2, <2>3, ConstantRecords DEF NoJob, Job, Platform
  <2>5. JobTypes' /\ JobShape'
    BY <2>1, <2>2, <2>4 DEF JobTypes, JobShape
  <2>6. QED
    BY <2>1, <2>5, TypePartsNext
<1>6. QED
  BY <1>2, <1>3, <1>4, <1>5

\* A read failure's record: nothing that the reconciler writes says available.
ReportRecord ==
    LET p == Head(queue).platform
        look == Preflight(mount[Root(p)], InMemory(p))
    IN  IF look.state = "available" THEN RuntimeFailure(look, Head(queue).code) ELSE look

LEMMA ReportTypes ==
    ASSUME TInv, queue # <<>>
    PROVE  /\ Head(queue) \in Failure /\ Tail(queue) \in Seq(Failure)
           /\ Len(Tail(queue)) <= QueueLimit
           /\ Head(queue).platform \in Platform /\ Root(Head(queue).platform) \in Platform
           /\ ReportRecord \in Record /\ ReportRecord.state \in {"unavailable", "changed"}
<1>0. TypeOK /\ EnvTypes /\ MemTypes
  BY TypeParts DEF TInv
<1>1. Head(queue) \in Failure /\ Tail(queue) \in Seq(Failure) /\ Len(Tail(queue)) = Len(queue) - 1
  BY <1>0, EmptySeq, HeadTailProperties DEF MemTypes
<1>2. Len(queue) \in Nat /\ QueueLimit \in Nat /\ Len(queue) <= QueueLimit
  BY <1>0, CatalogAssumption DEF MemTypes
<1>3. Head(queue).platform \in Platform /\ Head(queue).code \in {"read", "changed"}
  BY <1>1 DEF Failure
<1>4. PICK p \in Platform : p = Head(queue).platform
  BY <1>3
<1>5. Root(p) \in Platform /\ mount[Root(p)] \in Place /\ InMemory(p) \in Record
  BY <1>0, RootTypes, SavedTypes DEF EnvTypes
<1>6. PICK look : look = Preflight(mount[Root(p)], InMemory(p))
  OBVIOUS
<1>7. look \in Record /\ look.state \in {"available", "unavailable", "changed"}
  BY <1>5, <1>6, PreflightTypes
<1>8. ReportRecord = IF look.state = "available" THEN RuntimeFailure(look, Head(queue).code)
                     ELSE look
  BY <1>4, <1>6 DEF ReportRecord
<1>9. RuntimeFailure(look, Head(queue).code) \in Record
      /\ RuntimeFailure(look, Head(queue).code).state \in {"unavailable", "changed"}
  BY <1>7 DEF RuntimeFailure, Failed, Record, State
<1>10. QED
  BY <1>1, <1>2, <1>3, <1>4, <1>5, <1>7, <1>8, <1>9

\* The rest of the daemon, and the environment.
LEMMA OtherTypes ==
    ASSUME TInv,
           \/ \E p \in Platform, code \in {"read", "changed"} : ReadFails(p, code)
           \/ ReconcileReport \/ \E x \in Games : AcknowledgeMissing(x)
           \/ Restart
           \/ \E r \in Platform, p \in Outages \cup {"home"} : Remount(r, p)
           \/ \E x \in Games : EditSource(x)
    PROVE  TInv'
<1> USE DEF config, envVars, dbVars, memVars, observers, budgets
<1>0. EnvTypes /\ DbTypes /\ MemTypes /\ JobTypes /\ JobShape
  BY TypeParts DEF TInv
<1>1. ASSUME UNCHANGED <<job, schema, src, shared>> PROVE JobTypes' /\ JobShape'
  BY <1>0, <1>1 DEF JobTypes, JobShape, Roots, Root
<1>2. ASSUME NEW p \in Platform, NEW code \in {"read", "changed"}, ReadFails(p, code)
      PROVE  TInv'
  <2>1. [platform |-> p, code |-> code] \in Failure
    BY DEF Failure
  <2>2. /\ queue \in Seq(Failure) /\ Len(queue) < QueueLimit /\ QueueLimit \in Nat
        /\ queue' = Append(queue, [platform |-> p, code |-> code])
    BY <1>0, <1>2, CatalogAssumption DEF ReadFails, MemTypes
  <2>3. queue' \in Seq(Failure) /\ Len(queue') = Len(queue) + 1 /\ Len(queue) \in Nat
    BY <2>1, <2>2, AppendProperties, LenProperties
  <2>4. queue' \in Seq(Failure) /\ Len(queue') <= QueueLimit
    BY <2>2, <2>3
  <2>5. EnvTypes' /\ DbTypes' /\ MemTypes'
    BY <1>0, <1>2, <2>4 DEF ReadFails, EnvTypes, DbTypes, MemTypes
  <2>6. JobTypes' /\ JobShape'
    BY <1>1, <1>2 DEF ReadFails
  <2>7. QED
    BY <2>5, <2>6, TypePartsNext
<1>3. CASE ReconcileReport
  <2>1. queue # <<>> /\ job = NoJob /\ queue' = Tail(queue) /\ job' = job
        /\ UNCHANGED <<config, envVars, schema, backups, initPending>>
    BY <1>3 DEF ReconcileReport
  <2>2. RecordFailure({Head(queue).platform}, Root(Head(queue).platform), ReportRecord)
    BY <1>3 DEF ReconcileReport, ReportRecord
  <2>3. /\ {Head(queue).platform} \in SUBSET Platform /\ Root(Head(queue).platform) \in Platform
        /\ ReportRecord \in Record
    BY <2>1, ReportTypes
  <2>4. /\ row' \in [Platform -> Record] /\ src' \in [Platform -> Record]
        /\ shown' \in Lists /\ UNCHANGED <<cat, snapshot>>
    BY <2>2, <2>3, RecordFailureTypes
  <2>5. queue' \in Seq(Failure) /\ Len(queue') <= QueueLimit
    BY <2>1, ReportTypes
  <2>6. EnvTypes' /\ DbTypes' /\ MemTypes'
    BY <1>0, <2>1, <2>4, <2>5 DEF EnvTypes, DbTypes, MemTypes
  <2>7. JobTypes' /\ JobShape'
    BY <1>0, <2>1, ConstantRecords DEF JobTypes, JobShape
  <2>8. QED
    BY <2>6, <2>7, TypePartsNext
<1>4. ASSUME NEW x \in Games, AcknowledgeMissing(x)
      PROVE  TInv'
  <2>1. cat' \in Catalogs
    BY <1>0, <1>4 DEF AcknowledgeMissing, DbTypes, Catalogs, Threshold
  <2>2. EnvTypes' /\ DbTypes' /\ MemTypes'
    BY <1>0, <1>4, <2>1 DEF AcknowledgeMissing, EnvTypes, DbTypes, MemTypes
  <2>3. JobTypes' /\ JobShape'
    BY <1>1, <1>4 DEF AcknowledgeMissing
  <2>4. QED
    BY <2>2, <2>3, TypePartsNext
<1>5. CASE Restart
  <2>1. src' \in [Platform -> Record] /\ shown' \in Lists
    BY <1>5, ConstantRecords DEF Restart, Lists, Availability
  <2>a. QueueLimit \in Nat /\ 0 <= QueueLimit
    BY CatalogAssumption
  <2>2. queue' \in Seq(Failure) /\ Len(queue') <= QueueLimit
    BY <1>5, <2>a DEF Restart
  <2>3. EnvTypes' /\ DbTypes' /\ MemTypes'
    BY <1>0, <1>5, <2>1, <2>2 DEF Restart, EnvTypes, DbTypes, MemTypes
  <2>4. job' \in Job /\ job'.who = "boot" /\ job'.step = "mounts"
    BY <1>0, <1>5, BootingTypes DEF Restart, DbTypes
  <2>5. src'["wii"] = NoRecord /\ src'["gamecube"] = NoRecord
    BY <1>5 DEF Restart, Platform
  <2>6. JobTypes' /\ JobShape'
    BY <2>4, <2>5 DEF JobTypes, JobShape
  <2>7. QED
    BY <2>3, <2>6, TypePartsNext
<1>6. ASSUME NEW r \in Platform, NEW p \in Outages \cup {"home"}, Remount(r, p)
      PROVE  TInv'
  <2>1. p \in Place
    BY CatalogAssumption DEF Place, Home
  <2>2. EnvTypes' /\ DbTypes' /\ MemTypes'
    BY <1>0, <1>6, <2>1 DEF Remount, EnvTypes, DbTypes, MemTypes
  <2>3. JobTypes' /\ JobShape'
    BY <1>1, <1>6 DEF Remount
  <2>4. QED
    BY <2>2, <2>3, TypePartsNext
<1>7. ASSUME NEW x \in Games, EditSource(x)
      PROVE  TInv'
  <2>1. EnvTypes' /\ DbTypes' /\ MemTypes'
    BY <1>0, <1>7 DEF EditSource, EnvTypes, DbTypes, MemTypes
  <2>2. JobTypes' /\ JobShape'
    BY <1>1, <1>7 DEF EditSource
  <2>3. QED
    BY <2>1, <2>2, TypePartsNext
<1>8. QED
  BY <1>2, <1>3, <1>4, <1>5, <1>6, <1>7

LEMMA InitTypes == Init => TInv
<1> SUFFICES ASSUME Init PROVE TInv
  OBVIOUS
<1>0. PICK i \in Installations : shared = i[1] /\ kind = i[2] /\ upgrade = i[3]
  BY DEF Init
<1>1. i = <<shared, kind, upgrade>> /\ upgrade \in 0 .. 3
  BY <1>0, CatalogAssumption
<1>2. mount \in [Platform -> Place] /\ onHome \in SUBSET Games
  BY DEF Init, Place, Home
<1>3. Fs("home") \in {"", "F", "G"}
  BY DEF Fs
<1>4. row \in [Platform -> Record] /\ src \in [Platform -> Record]
  <2>1. [state |-> "available", dev |-> "d1", some |-> TRUE,
         fs |-> IF upgrade = 3 THEN Fs("home") ELSE ""] \in Record
    BY <1>3 DEF Record, State
  <2>2. QED
    BY <2>1, ConstantRecords DEF Init
<1>5. cat \in Catalogs /\ shown \in Lists
  <2>1. -1 \in -1 .. Threshold /\ 0 \in -1 .. Threshold /\ "unlisted" \in Availability
    BY DEF Threshold, Availability
  <2>2. cat \in Catalogs
    BY <2>1 DEF Init, Catalogs
  <2>3. QED
    BY <2>1, <2>2 DEF Init, Lists
<1>6. job \in Job /\ job.who = "boot" /\ job.step = "mounts"
  BY <1>1, BootingTypes DEF Init
<1>7. src["wii"] = NoRecord /\ src["gamecube"] = NoRecord
  BY DEF Init, Platform
<1>8. queue \in Seq(Failure) /\ Len(queue) <= QueueLimit
  <2>1. QueueLimit \in Nat /\ 0 <= QueueLimit
    BY CatalogAssumption
  <2>2. queue = <<>>
    BY DEF Init
  <2>3. QED
    BY <2>1, <2>2
<1>9. TypeOK
  BY <1>0, <1>1, <1>2, <1>4, <1>5, <1>6, <1>8 DEF TypeOK, Init, Catalogs, Lists
<1>10. QED
  BY <1>6, <1>7, <1>9 DEF TInv, JobShape

LEMMA NextTypes ==
    ASSUME TInv, [Next]_vars
    PROVE  TInv'
<1>1. CASE Next
  BY <1>1, BootTypes, StartTypes, GroupCheckTypes, GroupWalkTypes, GroupFinishTypes,
     BeginTypes, OtherTypes DEF Next, StartStep, ScanStep
<1>2. CASE UNCHANGED vars
  <2>1. TypeOK'
    BY <1>2 DEF TInv, TypeOK, vars
  <2>2. JobShape'
    BY <1>2 DEF TInv, JobShape, vars, Roots, Root
  <2>3. QED
    BY <2>1, <2>2 DEF TInv
<1>3. QED
  BY <1>1, <1>2

-----------------------------------------------------------------------------
\* What a page shows of a game whose source is available.
Shows(x) == \/ shown[x] = ItemAvailability(cat[x])
            \/ cat[x] = -1 /\ shown[x] = "missing-confirmed"

\* CatalogIsServed as induction needs it: only the GameCube games may be ahead in
\* the table, between the two writes of initializeGameCube, and startup shows its
\* games before it publishes them.
ServeInv ==
    ~lost =>
      /\ Running => snapshot = {x \in WiiGames : shown[x] # "unlisted"}
      /\ \A x \in Games :
            src[PlatformOf(x)].state = "available" /\ (x \in CubeGames => job.step # "row") =>
              Shows(x)

LEMMA PlatformOfGames ==
    ASSUME NEW x \in Games
    PROVE  /\ PlatformOf(x) \in Platform /\ x \in GamesOf(PlatformOf(x))
           /\ \A p \in Platform : x \in GamesOf(p) <=> p = PlatformOf(x)
           /\ PlatformOf(x) = "wii" <=> x \in WiiGames
           /\ PlatformOf(x) = "gamecube" <=> x \in CubeGames
BY CatalogAssumption DEF PlatformOf, GamesOf, Games, Platform

\* A step that only moves the holder of scanMu on.
LEMMA QuietServe ==
    ASSUME ServeInv, UNCHANGED <<lost, snapshot, shown, src, cat>>,
           Running' => Running, job.step = "row" => job'.step = "row"
    PROVE  ServeInv'
BY DEF ServeInv, Shows

LEMMA StartEndServe ==
    ASSUME TInv, ServeInv,
           Starting("check") \/ Starting("walk") \/ Starting("reconcile") \/ Starting("row"),
           NEW record \in Record, UNCHANGED <<cat, snapshot>>, ~lost' => ~lost,
           src' = [src EXCEPT ![Own] = record], job' = AfterStart, shown' \in Lists,
           \A x \in Games \ GamesOf(Own) : shown'[x] = shown[x],
           record.state = "available" => \A x \in GamesOf(Own) : Shows(x)'
    PROVE  ServeInv'
<1> SUFFICES ASSUME ~lost' PROVE ServeInv'
  BY DEF ServeInv
<1>0. MemTypes /\ JobShape /\ ~lost
  BY TypeParts DEF TInv
<1>1. CASE job.who = "boot"
  <2>1. Own = "wii" /\ job'.who = "boot" /\ src["gamecube"] = NoRecord
    BY <1>0, <1>1, TypeParts DEF Own, AfterStart, JobShape, TInv, JobTypes, Job
  <2>2. src'["wii"] = record /\ src'["gamecube"].state = "none"
    BY <1>0, <2>1, ConstantRecords DEF MemTypes, Platform
  <2>3. ASSUME NEW x \in Games, src'[PlatformOf(x)].state = "available"
        PROVE  Shows(x)'
    <3>1. PlatformOf(x) = "wii"
      BY <2>2, <2>3, PlatformOfGames DEF Platform
    <3>2. x \in GamesOf(Own) /\ record.state = "available"
      BY <2>1, <2>2, <2>3, <3>1, PlatformOfGames
    <3>3. QED
      BY <3>2
  <2>4. ~Running'
    BY <2>1 DEF Running
  <2>5. QED
    BY <2>3, <2>4 DEF ServeInv
<1>2. CASE job.who # "boot"
  <2>1. Own = "gamecube" /\ job' = NoJob /\ Running
    BY <1>2 DEF Own, AfterStart, Running
  <2>2. src'["gamecube"] = record /\ src'["wii"] = src["wii"]
    BY <1>0, <2>1 DEF MemTypes, Platform
  <2>3. \A x \in WiiGames : x \in Games \ GamesOf(Own)
    BY <2>1, CatalogAssumption DEF GamesOf, Games
  <2>4. snapshot' = {x \in WiiGames : shown'[x] # "unlisted"}
    BY <1>0, <2>1, <2>3 DEF ServeInv
  <2>5. ASSUME NEW x \in Games, src'[PlatformOf(x)].state = "available"
        PROVE  Shows(x)'
    <3>1. CASE x \in WiiGames
      <4>1. PlatformOf(x) = "wii" /\ x \notin CubeGames
        BY <3>1, CatalogAssumption, PlatformOfGames
      <4>2. Shows(x) /\ shown'[x] = shown[x]
        BY <1>0, <2>2, <2>3, <2>5, <3>1, <4>1 DEF ServeInv
      <4>3. QED
        BY <4>2 DEF Shows
    <3>2. CASE x \notin WiiGames
      <4>1. PlatformOf(x) = "gamecube" /\ x \in GamesOf(Own)
        BY <2>1, <3>2, PlatformOfGames DEF PlatformOf
      <4>2. QED
        BY <2>2, <2>5, <4>1
    <3>3. QED
      BY <3>1, <3>2
  <2>6. QED
    BY <2>4, <2>5 DEF ServeInv
<1>3. QED
  BY <1>1, <1>2

LEMMA OthersCached ==
    ASSUME TInv, NEW p \in Platform, NEW state, NEW x \in Games \ GamesOf(p)
    PROVE  Cached(p, state)[x] = shown[x] /\ Emptied(p)[x] = shown[x]
           /\ Decoded(cat, {p}, state)[x] = shown[x]
<1>1. Decoded(cat, {p}, state)[x] = shown[x] /\ Emptied(p)[x] = shown[x]
  BY DEF Decoded, Emptied
<1>2. snapshot \subseteq WiiGames
  BY TypeParts DEF TInv, DbTypes
<1>3. p = "wii" => x \notin WiiGames
  BY DEF GamesOf
<1>4. QED
  BY <1>1, <1>2, <1>3 DEF Cached

LEMMA DecodedShows ==
    ASSUME NEW c \in Catalogs, NEW P \in SUBSET Platform, NEW x \in Games,
           NEW p \in P, x \in GamesOf(p)
    PROVE  Decoded(c, P, "available")[x] = ItemAvailability(c[x])
<1>1. c[x] \in -1 .. Threshold
  BY DEF Catalogs
<1>2. /\ ItemAvailability(c[x]) \in Availability
      /\ c[x] = -1 => ItemAvailability(c[x]) = "unlisted"
  BY <1>1, ItemTypes
<1>3. Derived("available", ItemAvailability(c[x])) = ItemAvailability(c[x])
  BY <1>2, DerivedTypes
<1>4. QED
  BY <1>2, <1>3 DEF Decoded

LEMMA StartFailsServe ==
    ASSUME TInv, ServeInv, Starting("check") \/ Starting("walk"),
           NEW record \in Record, record.state # "available", StartFails(record)
    PROVE  ServeInv'
<1>0. DbTypes /\ MemTypes /\ Own \in Platform
  BY TypeParts DEF TInv, Own, Platform
<1>1. shown' \in Lists
  BY <1>0, CachedTypes DEF StartFails, MemTypes, DbTypes
<1>2. \A x \in Games \ GamesOf(Own) : shown'[x] = shown[x]
  BY <1>0, OthersCached DEF StartFails
<1>3. UNCHANGED <<cat, snapshot>> /\ (~lost' => ~lost)
  BY DEF StartFails, Upsert
<1>4. src' = [src EXCEPT ![Own] = record] /\ job' = AfterStart
  BY DEF StartFails
<1>5. QED
  BY <1>1, <1>2, <1>3, <1>4, StartEndServe

LEMMA StartServe ==
    ASSUME TInv, ServeInv, StartCheck \/ StartWalk \/ StartReconcile \/ StartRow
    PROVE  ServeInv'
<1>0. EnvTypes /\ DbTypes /\ MemTypes /\ JobTypes /\ JobShape /\ TypeOK /\ job \in Job
  BY TypeParts DEF TInv, JobTypes
<1>1. Own \in Platform /\ Root(Own) \in Platform /\ mount[Root(Own)] \in Place
  BY <1>0, RootTypes DEF Own, Platform, EnvTypes
<1>2. job.cand \in Record
  BY <1>0 DEF Job
<1>a. ASSUME NEW record, StartLoses(record) PROVE ServeInv'
  BY <1>a DEF StartLoses, ServeInv
<1>3. CASE StartCheck
  <2> DEFINE record == Preflight(mount[Root(Own)], Saved(Own))
  <2>1. record \in Record
    BY <1>0, <1>1, SavedTypes, PreflightTypes
  <2> HIDE DEF record
  <2>2. CASE record.state = "available"
    <3>1. /\ job' = [job EXCEPT !.step = "walk", !.cand = record]
          /\ UNCHANGED <<dbVars, src, shown, lost>> /\ job.step = "check"
      BY <1>3, <2>2 DEF StartCheck, record, Starting
    <3>2. job'.who = job.who
      BY <1>0, <3>1 DEF Job
    <3>3. QED
      BY <3>1, <3>2, QuietServe DEF dbVars, Running
  <2>3. CASE record.state # "available"
    <3>1. StartFails(record) /\ Starting("check")
      BY <1>3, <2>3 DEF StartCheck, record
    <3>2. QED
      BY <2>1, <2>3, <3>1, StartFailsServe
  <2>4. QED
    BY <2>2, <2>3
<1>4. CASE StartWalk
  <2>1. Starting("walk") /\ job.step = "walk"
    BY <1>4 DEF StartWalk, Starting
  <2>2. CASE StartFails(Partial(job.cand))
    <3>1. Partial(job.cand) \in Record /\ Partial(job.cand).state = "unavailable"
      BY <1>2, FailedTypes DEF State
    <3>2. QED
      BY <2>1, <2>2, <3>1, StartFailsServe
  <2>3. CASE ~StartFails(Partial(job.cand))
    <3>1. PICK found :
             /\ job' = [job EXCEPT !.step = "reconcile", !.found = found]
             /\ UNCHANGED <<dbVars, src, shown, lost>>
      BY <1>4, <2>3 DEF StartWalk
    <3>2. job'.who = job.who
      BY <1>0, <3>1 DEF Job
    <3>3. QED
      BY <2>1, <3>1, <3>2, QuietServe DEF dbVars, Running
  <2>4. QED
    BY <2>2, <2>3
<1>5. CASE StartReconcile
  <2>2. CASE StartLoses(job.cand)
    BY <2>2, <1>a
  <2>3. CASE ~StartLoses(job.cand)
    <3>1. /\ cat' = Reconciled(cat, Own, job.found) /\ job' = [job EXCEPT !.step = "row"]
          /\ UNCHANGED <<snapshot, src, shown, lost>> /\ job.step = "reconcile"
      BY <1>5, <2>3 DEF StartReconcile, Starting
    <3>2. job'.who = job.who /\ job'.step = "row"
      BY <1>0, <3>1 DEF Job
    <3>3. ASSUME ~lost, NEW x \in Games, src[PlatformOf(x)].state = "available", x \notin CubeGames
          PROVE  Shows(x)'
      <4>1. PlatformOf(x) = "wii"
        BY <3>3, PlatformOfGames DEF Platform
      <4>2. job.who # "boot"
        BY <1>0, <3>1, <3>3, <4>1, ConstantRecords DEF JobShape
      <4>3. x \notin GamesOf(Own)
        BY <3>3, <4>2 DEF Own, GamesOf
      <4>4. cat'[x] = cat[x] /\ Shows(x)
        BY <3>1, <3>3, <4>3 DEF Reconciled, ServeInv
      <4>5. QED
        BY <3>1, <4>4 DEF Shows
    <3>4. QED
      BY <3>1, <3>2, <3>3 DEF ServeInv, Running
  <2>4. QED
    BY <2>2, <2>3
<1>6. CASE StartRow
  <2> DEFINE some == \/ job.found # {}
                     \/ job.who = "init" /\ shared /\ Listed(cat, "wii") # {}
             record == Successful(job.cand, some)
  <2>1. some \in BOOLEAN
    OBVIOUS
  <2> HIDE DEF some
  <2>2. record \in Record
    BY <1>2, <2>1, FailedTypes DEF State
  <2> HIDE DEF record
  <2>3. Starting("row")
    BY <1>6 DEF StartRow
  <2>4. CASE StartLoses(record)
    BY <2>4, <1>a
  <2>5. CASE ~StartLoses(record)
    <3>1. /\ src' = [src EXCEPT ![Own] = record]
          /\ shown' = Decoded(cat, {Own}, "available") /\ job' = AfterStart
          /\ UNCHANGED <<cat, snapshot, lost>>
      BY <1>6, <2>5 DEF StartRow, record, some
    <3>2. shown' \in Lists /\ cat \in Catalogs
      BY <1>0, <1>1, <3>1, DecodedTypes DEF DbTypes, MemTypes
    <3>3. \A x \in Games \ GamesOf(Own) : shown'[x] = shown[x]
      BY <1>1, <3>1, OthersCached
    <3>4. ASSUME NEW x \in GamesOf(Own) PROVE Shows(x)'
      <4>1. x \in Games
        BY <1>1, GamesOfTypes
      <4>2. shown'[x] = ItemAvailability(cat[x])
        BY <1>1, <3>1, <3>2, <4>1, DecodedShows
      <4>3. QED
        BY <3>1, <4>2 DEF Shows
    <3>5. QED
      BY <2>2, <2>3, <3>1, <3>2, <3>3, <3>4, StartEndServe
  <2>6. QED
    BY <2>4, <2>5
<1>7. QED
  BY <1>3, <1>4, <1>5, <1>6

\* A failure record keeps the list of games and takes the source out of service.
LEMMA RecordFailureServe ==
    ASSUME TInv, ServeInv, Running, job.step # "row", job'.step # "row",
           NEW P \in SUBSET Platform, NEW r \in Platform, NEW record \in Record,
           record.state # "available", RecordFailure(P, r, record)
    PROVE  ServeInv'
<1> SUFFICES ASSUME ~lost' PROVE ServeInv'
  BY DEF ServeInv
<1>0. MemTypes /\ ~lost /\ UNCHANGED <<cat, snapshot>>
  BY TypeParts DEF TInv, RecordFailure, Upsert
<1>1. "playable" \in Availability /\ "playable" # "unlisted"
  BY DEF Availability
<1>2. Derived(record.state, "playable") # "unlisted"
  BY <1>1, DerivedTypes
<1>3. \A x \in Games : shown'[x] = "unlisted" <=> shown[x] = "unlisted"
  BY <1>2 DEF RecordFailure
<1>4. WiiGames \subseteq Games
  BY DEF Games
<1>5. snapshot' = {x \in WiiGames : shown'[x] # "unlisted"}
  BY <1>0, <1>3, <1>4 DEF ServeInv
<1>6. ASSUME NEW x \in Games, src'[PlatformOf(x)].state = "available"
      PROVE  Shows(x)'
  <2>1. PlatformOf(x) \in Platform
    BY PlatformOfGames
  <2>2. PlatformOf(x) \notin P /\ src'[PlatformOf(x)] = src[PlatformOf(x)]
    BY <1>6, <2>1 DEF RecordFailure
  <2>3. shown'[x] = shown[x]
    BY <2>2, PlatformOfGames DEF RecordFailure
  <2>4. Shows(x)
    BY <1>0, <1>6, <2>2 DEF ServeInv
  <2>5. QED
    BY <1>0, <2>3, <2>4 DEF Shows
<1>7. QED
  BY <1>5, <1>6 DEF ServeInv

LEMMA AfterGroupStep ==
    ASSUME TInv, job.who \in {"rescan", "recovery"}
    PROVE  /\ Running /\ job.step # "row" /\ AfterGroup.step \in {"check", "idle"}
           /\ AfterGroup.who \in {"none", "rescan", "recovery"}
<1>1. JobShape
  BY DEF TInv
<1>2. QED
  BY <1>1, ConstantRecords DEF JobShape, Running, AfterGroup, NoJob

LEMMA GroupFailsServe ==
    ASSUME TInv, ServeInv, job.who \in {"rescan", "recovery"}, NEW record \in Record,
           record.state # "available", GroupFails(record)
    PROVE  ServeInv'
<1>1. RecordFailure(Group(job.root), job.root, record) /\ job' = AfterGroup
  BY DEF GroupFails
<1>2. QED
  BY <1>1, AfterGroupStep, GroupTypes, RecordFailureServe

\* Whatever the platforms of the group, a commit leaves the others' games alone.
LEMMA CommittedOthers ==
    ASSUME TInv, job.who \in {"rescan", "recovery"}, NEW x \in Games,
           PlatformOf(x) \notin Group(job.root)
    PROVE  Committed[x] = cat[x]
<1>1. ~shared /\ job.root \in Platform /\ PlatformOf(x) # job.root
  BY GroupTypes, PlatformOfGames DEF Group
<1>2. x \notin GamesOf(job.root)
  BY <1>1, PlatformOfGames
<1>3. QED
  BY <1>1, <1>2 DEF Committed, Reconciled

LEMMA CommitServe ==
    ASSUME TInv, ServeInv, job.who \in {"rescan", "recovery"}, UNCHANGED lost,
           NEW record \in Record, CommitScan(record), job' = AfterGroup,
           src' = [p \in Platform |-> IF p \in Group(job.root) THEN record ELSE src[p]],
           shown' = Decoded(cat', Group(job.root), "available")
    PROVE  ServeInv'
<1> SUFFICES ASSUME ~lost PROVE ServeInv'
  BY DEF ServeInv
<1>0. DbTypes /\ MemTypes /\ Running /\ job.step # "row"
  BY TypeParts, AfterGroupStep DEF TInv
<1>1. job.root \in Platform /\ Group(job.root) \in SUBSET Platform
  BY GroupTypes
<1>2. cat' = Committed /\ Committed \in Catalogs
  <2>1. Reconciled(cat, "wii", job.found) \in Catalogs
    BY <1>0, ReconciledTypes DEF DbTypes, Platform
  <2>2. QED
    BY <1>0, <1>1, <2>1, ReconciledTypes DEF DbTypes, Platform, Committed, CommitScan
<1>3. ASSUME NEW x \in Games, PlatformOf(x) \in Group(job.root)
      PROVE  /\ shown'[x] = ItemAvailability(cat'[x])
             /\ shown'[x] = "unlisted" <=> cat'[x] = -1
  <2>1. shown'[x] = ItemAvailability(cat'[x])
    BY <1>1, <1>2, <1>3, PlatformOfGames, DecodedShows
  <2>2. cat'[x] \in -1 .. Threshold
    BY <1>2 DEF Catalogs
  <2>3. QED
    BY <2>1, <2>2, ItemTypes
<1>4. ASSUME NEW x \in Games, PlatformOf(x) \notin Group(job.root)
      PROVE  shown'[x] = shown[x] /\ cat'[x] = cat[x]
  <2>1. cat'[x] = cat[x]
    BY <1>2, <1>4, CommittedOthers
  <2>2. \A p \in Group(job.root) : x \notin GamesOf(p)
    BY <1>1, <1>4, PlatformOfGames
  <2>3. shown'[x] = shown[x]
    BY <2>2 DEF Decoded
  <2>4. QED
    BY <2>1, <2>3
<1>5. snapshot' = {x \in WiiGames : shown'[x] # "unlisted"}
  <2>1. \A x \in WiiGames : x \in Games /\ PlatformOf(x) = "wii"
    BY DEF Games, PlatformOf
  <2>2. CASE "wii" \in Group(job.root)
    <3>1. snapshot' = {x \in WiiGames : cat'[x] # -1}
      BY <2>2 DEF CommitScan, Listed, GamesOf
    <3>2. \A x \in WiiGames : shown'[x] = "unlisted" <=> cat'[x] = -1
      BY <1>3, <2>1, <2>2
    <3>3. QED
      BY <3>1, <3>2
  <2>3. CASE "wii" \notin Group(job.root)
    <3>1. snapshot' = snapshot
      BY <2>3 DEF CommitScan
    <3>2. \A x \in WiiGames : shown'[x] = shown[x]
      BY <1>4, <2>1, <2>3
    <3>3. QED
      BY <1>0, <3>1, <3>2 DEF ServeInv
  <2>4. QED
    BY <2>2, <2>3
<1>6. ASSUME NEW x \in Games, src'[PlatformOf(x)].state = "available"
      PROVE  Shows(x)'
  <2>1. CASE PlatformOf(x) \in Group(job.root)
    BY <1>3, <2>1 DEF Shows
  <2>2. CASE PlatformOf(x) \notin Group(job.root)
    <3>1. src'[PlatformOf(x)] = src[PlatformOf(x)]
      BY <2>2, PlatformOfGames
    <3>2. Shows(x)
      BY <1>0, <1>6, <3>1 DEF ServeInv
    <3>3. QED
      BY <1>4, <2>2, <3>2 DEF Shows
  <2>3. QED
    BY <2>1, <2>2
<1>7. QED
  BY <1>5, <1>6 DEF ServeInv

LEMMA ScanServe ==
    ASSUME TInv, ServeInv, ScanStep
    PROVE  ServeInv'
<1>0. /\ job.who \in {"rescan", "recovery"} /\ job \in Job /\ Running /\ job.step # "row"
      /\ job.prev \in Record /\ job.cand \in Record
  BY TypeParts, GroupTypes, AfterGroupStep
     DEF TInv, JobTypes, ScanStep, GroupCheck, GroupWalk, GroupFinish, GroupAbort, Scanning
<1>1. ASSUME GroupFails(Partial(job.prev)) PROVE ServeInv'
  BY <1>0, <1>1, FailedTypes, GroupFailsServe DEF State
<1>2. ASSUME UNCHANGED <<cat, snapshot, src, shown, observers>>, job'.who = job.who
      PROVE  ServeInv'
  BY <1>0, <1>2, QuietServe DEF observers, Running
<1>3. CASE GroupCheck
  <2>1. \/ GroupFails(Failed(Previous(job.root), "invalid"))
        \/ GroupRecord.state # "available" /\ GroupFails(GroupRecord)
        \/ /\ job' = [job EXCEPT !.step = "walk", !.prev = Previous(job.root),
                                 !.cand = GroupRecord]
           /\ UNCHANGED <<cat, snapshot, src, shown, observers>>
    BY <1>3 DEF GroupCheck, GroupRecord
  <2>2. Previous(job.root) \in Record /\ GroupRecord \in Record
    BY <1>0, GroupRecordTypes
  <2>3. /\ Failed(Previous(job.root), "invalid") \in Record
        /\ Failed(Previous(job.root), "invalid").state = "invalid"
    BY <2>2, FailedTypes DEF State
  <2>4. CASE GroupFails(Failed(Previous(job.root), "invalid"))
    BY <1>0, <2>3, <2>4, GroupFailsServe
  <2>5. CASE GroupRecord.state # "available" /\ GroupFails(GroupRecord)
    BY <1>0, <2>2, <2>5, GroupFailsServe
  <2>6. ASSUME job' = [job EXCEPT !.step = "walk", !.prev = Previous(job.root),
                                  !.cand = GroupRecord],
               UNCHANGED <<cat, snapshot, src, shown, observers>>
        PROVE  ServeInv'
    <3>1. job'.who = job.who
      BY <1>0, <2>6 DEF Job
    <3>2. QED
      BY <1>2, <2>6, <3>1
  <2>7. QED
    BY <2>1, <2>4, <2>5, <2>6
<1>4. CASE GroupWalk
  <2>1. CASE GroupFails(Partial(job.prev))
    BY <1>1, <2>1
  <2>2. CASE ~GroupFails(Partial(job.prev))
    <3>1. PICK found :
             /\ job' = [job EXCEPT !.found = @ \cup found, !.walked = @ \cup {Walked},
                           !.step = IF job.walked \cup {Walked} = Group(job.root)
                                    THEN "finish" ELSE "walk"]
             /\ UNCHANGED <<cat, snapshot, src, shown, observers>>
      BY <1>4, <2>2 DEF GroupWalk, Walked
    <3>2. job'.who = job.who
      BY <1>0, <3>1 DEF Job
    <3>3. QED
      BY <1>2, <3>1, <3>2
  <2>3. QED
    BY <2>1, <2>2
<1>5. CASE GroupFinish
  <2> DEFINE some == job.found # {}
             record == Successful(job.cand, some)
  <2>1. \/ GroupFails(Partial(job.prev))
        \/ /\ CommitScan(record) /\ UNCHANGED lost
           /\ src' = [p \in Platform |-> IF p \in Group(job.root) THEN record ELSE src[p]]
           /\ shown' = Decoded(cat', Group(job.root), "available")
           /\ job' = AfterGroup
        \/ /\ job' = [job EXCEPT !.step = "abort"]
           /\ UNCHANGED <<cat, snapshot, src, shown, observers>>
    BY <1>5 DEF GroupFinish
  <2>2. record \in Record
    <3>1. some \in BOOLEAN
      OBVIOUS
    <3> HIDE DEF some
    <3>2. QED
      BY <1>0, <3>1, FailedTypes DEF State
  <2> HIDE DEF record
  <2>3. ASSUME job' = [job EXCEPT !.step = "abort"],
               UNCHANGED <<cat, snapshot, src, shown, observers>>
        PROVE  ServeInv'
    <3>1. job'.who = job.who
      BY <1>0, <2>3 DEF Job
    <3>2. QED
      BY <1>2, <2>3, <3>1
  <2>4. QED
    BY <1>0, <1>1, <2>1, <2>2, <2>3, CommitServe
<1>6. CASE GroupAbort
  BY <1>1, <1>6 DEF GroupAbort
<1>7. QED
  BY <1>3, <1>4, <1>5, <1>6 DEF ScanStep

LEMMA NextServe ==
    ASSUME TInv, ServeInv, [Next]_vars
    PROVE  ServeInv'
<1> USE DEF config, envVars, dbVars, memVars, observers, budgets
<1>0. DbTypes /\ MemTypes /\ JobShape /\ job \in Job
  BY TypeParts DEF TInv, JobTypes
<1>1. CASE BootMounts \/ BackupDatabase
  <2>1. UNCHANGED <<lost, snapshot, shown, src, cat>> /\ job'.who = job.who /\ job.step # "row"
    BY <1>0, <1>1 DEF BootMounts, BackupDatabase, Job
  <2>2. QED
    BY <2>1, QuietServe DEF Running
<1>2. CASE Migrate
  <2>1. job.who = "boot" /\ job'.who = "boot" /\ src["wii"] = NoRecord /\ src["gamecube"] = NoRecord
    BY <1>0, <1>2, ConstantRecords DEF Migrate, JobShape, Job, NoJob
  <2>2. \A x \in Games : src'[PlatformOf(x)].state = "none"
    BY <1>2, <2>1, PlatformOfGames, ConstantRecords DEF Migrate, Platform
  <2>3. QED
    BY <2>1, <2>2 DEF ServeInv, Running
<1>3. CASE StartCheck \/ StartWalk \/ StartReconcile \/ StartRow
  BY <1>3, StartServe
<1>4. CASE BootPublish
  <2>1. job.step = "publish" /\ UNCHANGED <<lost, shown, src, cat>>
    BY <1>4 DEF BootPublish, Starting
  <2>2. CASE job' = NoJob
    <3>1. snapshot' = {x \in WiiGames : shown[x] # "unlisted"}
      BY <1>4, <2>2, <1>0, <2>1 DEF BootPublish, NoJob, Job
    <3>2. QED
      BY <2>1, <3>1 DEF ServeInv, Shows
  <2>3. CASE job' = [job EXCEPT !.step = "failed"]
    <3>1. job.who = "boot" /\ job'.who = "boot"
      BY <1>0, <2>1, <2>3 DEF JobShape, Job, NoJob
    <3>2. QED
      BY <2>1, <3>1 DEF ServeInv, Shows, Running
  <2>4. QED
    BY <1>4, <2>2, <2>3 DEF BootPublish
<1>5. CASE InitBegin \/ (\E r \in Platform : Recover(r))
           \/ \E choice \in Platform \cup {"all"}, accept \in BOOLEAN :
                 RescanBegin(choice, accept)
  <2>1. UNCHANGED <<lost, snapshot, shown, src, cat>> /\ job = NoJob
    BY <1>5 DEF InitBegin, Recover, RescanBegin
  <2>2. QED
    BY <2>1, QuietServe, ConstantRecords DEF Running
<1>6. CASE ScanStep
  BY <1>6, ScanServe
<1>7. CASE \/ \E p \in Platform, code \in {"read", "changed"} : ReadFails(p, code)
           \/ \E r \in Platform, p \in Outages \cup {"home"} : Remount(r, p)
           \/ \E x \in Games : EditSource(x)
           \/ UNCHANGED vars
  <2>1. UNCHANGED <<lost, snapshot, shown, src, cat>> /\ job' = job
    BY <1>7 DEF ReadFails, Remount, EditSource, vars
  <2>2. QED
    BY <2>1, QuietServe DEF Running
<1>8. CASE ReconcileReport
  <2>1. queue # <<>> /\ job = NoJob /\ job' = job
    BY <1>8 DEF ReconcileReport
  <2>2. RecordFailure({Head(queue).platform}, Root(Head(queue).platform), ReportRecord)
    BY <1>8 DEF ReconcileReport, ReportRecord
  <2>3. /\ {Head(queue).platform} \in SUBSET Platform /\ Root(Head(queue).platform) \in Platform
        /\ ReportRecord \in Record /\ ReportRecord.state # "available"
    BY <2>1, ReportTypes
  <2>4. QED
    BY <2>1, <2>2, <2>3, ConstantRecords, RecordFailureServe DEF Running
<1>9. ASSUME NEW y \in Games, AcknowledgeMissing(y) PROVE ServeInv'
  <2>1. /\ cat[y] = Threshold /\ cat' = [cat EXCEPT ![y] = -1] /\ job' = job /\ Running
        /\ UNCHANGED <<lost, snapshot, shown, src>> /\ cat \in [Games -> -1 .. Threshold]
    BY <1>0, <1>9 DEF AcknowledgeMissing, DbTypes, Catalogs
  <2>2. Threshold \in -1 .. Threshold
    BY DEF Threshold
  <2>3. ItemAvailability(Threshold) = "missing-confirmed" /\ Threshold # -1
    BY <2>2, ItemTypes DEF Threshold
  <2>4. ASSUME NEW x \in Games, Shows(x) PROVE Shows(x)'
    BY <2>1, <2>3, <2>4 DEF Shows
  <2>5. QED
    BY <2>1, <2>4 DEF ServeInv, Running
<1>10. CASE Restart
  <2>1. src' = [p \in Platform |-> NoRecord] /\ job' = Booting(schema) /\ schema \in 0 .. 3
    BY <1>0, <1>10 DEF Restart, DbTypes
  <2>2. ~Running'
    BY <2>1, BootingTypes DEF Running
  <2>3. \A x \in Games : src'[PlatformOf(x)].state = "none"
    BY <2>1, PlatformOfGames, ConstantRecords
  <2>4. QED
    BY <2>2, <2>3 DEF ServeInv
<1>11. QED
  BY <1>1, <1>2, <1>3, <1>4, <1>5, <1>6, <1>7, <1>8, <1>9, <1>10 DEF Next, StartStep

LEMMA InitServe == Init => ServeInv
<1> SUFFICES ASSUME Init PROVE ServeInv
  OBVIOUS
<1>1. TInv /\ src = [p \in Platform |-> NoRecord] /\ job = Booting(upgrade) /\ upgrade \in 0 .. 3
  BY InitTypes, TypeParts DEF TInv, EnvTypes, DbTypes, Init
<1>2. ~Running
  BY <1>1, BootingTypes DEF Running
<1>3. \A x \in Games : src[PlatformOf(x)].state = "none"
  BY <1>1, PlatformOfGames, ConstantRecords
<1>4. QED
  BY <1>2, <1>3 DEF ServeInv

-----------------------------------------------------------------------------
\* A record that has a persistent filesystem ID has the device it was seen at.
RecordOK(r) == /\ r.fs = "F" => r.dev \in {"d1", "d2"}
               /\ r.fs = "G" => r.dev = "d3"

\* Going from record a to record b exchanges no filesystem for another.
Keeps(a, b) == Filesystem(a) \in {"none", Filesystem(b)}

\* The two records that memory has of a shared root identify the same filesystem.
Agree == shared => Filesystem(src["wii"]) = Filesystem(InMemory("gamecube"))

Records == /\ \A p \in Platform : RecordOK(row[p]) /\ RecordOK(src[p])
           /\ RecordOK(job.prev) /\ RecordOK(job.cand)

\* Memory trusts what the database trusts.
MemTrust == ~lost /\ Agree =>
              \A p \in Platform : src[p] # NoRecord =>
                 Filesystem(row[Root(p)]) = Filesystem(src[p])

\* A scan under way works with records that keep the root's filesystem.
JobTrust ==
    /\ job.who \in {"boot", "init"} /\ job.step \in {"walk", "reconcile", "row"} =>
          Keeps(row[Root(Own)], job.cand)
    /\ ~lost /\ Agree /\ job.who \in {"rescan", "recovery"} /\ job.step # "check" =>
          /\ Keeps(row[job.root], job.prev)
          /\ ~job.accept => Keeps(row[job.root], job.cand)

TrustInv == Records /\ MemTrust /\ JobTrust

RowKept ==
    \A r \in Platform :
       \/ Keeps(row[r], row'[r])
       \/ job.accept /\ job.step = "finish"
       \/ lost
       \/ ~Agree

LEMMA KeepsTransitive ==
    ASSUME NEW a, NEW b, NEW c, Keeps(a, b), Keeps(b, c)
    PROVE  Keeps(a, c)
BY DEF Keeps

LEMMA SameFilesystem ==
    ASSUME NEW r \in Record, NEW s, NEW some, RecordOK(r)
    PROVE  /\ RecordOK(Failed(r, s)) /\ Filesystem(Failed(r, s)) = Filesystem(r)
           /\ RecordOK(Successful(r, some))
           /\ Filesystem(Successful(r, some)) = Filesystem(r)
           /\ RecordOK(Partial(r)) /\ Filesystem(Partial(r)) = Filesystem(r)
           /\ RecordOK(RuntimeFailure(r, s))
           /\ Filesystem(RuntimeFailure(r, s)) = Filesystem(r)
<1>2. ASSUME NEW t PROVE Failed(r, t).fs = r.fs /\ Failed(r, t).dev = r.dev
  BY DEF Failed, Record
<1>3. ASSUME NEW q, q.fs = r.fs, q.dev = r.dev
      PROVE  RecordOK(q) /\ Filesystem(q) = Filesystem(r)
  BY <1>3 DEF RecordOK, Filesystem
<1>4. Successful(r, some).fs = r.fs /\ Successful(r, some).dev = r.dev
  BY DEF Successful, Record
<1>5. QED
  BY <1>2, <1>3, <1>4 DEF Partial, RuntimeFailure

LEMMA PreflightTrust ==
    ASSUME NEW p \in Place, NEW r \in Record, RecordOK(r)
    PROVE  RecordOK(Preflight(p, r)) /\ Keeps(r, Preflight(p, r))
<1>1. CASE Preflight(p, r).state # "available"
  <2>1. Preflight(p, r) = Failed(r, Preflight(p, r).state)
    BY <1>1, PreflightTypes
  <2>2. QED
    BY <2>1, SameFilesystem DEF Keeps
<1>2. CASE Preflight(p, r).state = "available"
  <2>a. /\ p # "gone" => /\ (Fs(p) = "F" => Dev(p) \in {"d1", "d2"})
                         /\ (Fs(p) = "G" => Dev(p) = "d3")
        /\ Fs(p) \in {"", "F", "G"} /\ Dev(p) \in {"d1", "d2", "d3", "d4"}
    BY DEF Fs, Dev, Place, Home
  <2>1. /\ p # "gone" /\ SameIdentity(p, r)
        /\ Preflight(p, r) = [r EXCEPT !.state = "available", !.dev = Dev(p),
                                       !.fs = IF Fs(p) = "" THEN @ ELSE Fs(p)]
    BY <1>2 DEF Preflight, Failed, Record, State
  <2>2. /\ Preflight(p, r).dev = Dev(p)
        /\ Preflight(p, r).fs = IF Fs(p) = "" THEN r.fs ELSE Fs(p)
    BY <2>1 DEF Record
  <2>3. r.fs \in {"", "F", "G"} /\ r.dev \in {"", "d1", "d2", "d3", "d4"}
    BY DEF Record
  <2>4. RecordOK(Preflight(p, r))
    BY <2>a, <2>1, <2>2, <2>3 DEF RecordOK, SameIdentity
  <2>5. Keeps(r, Preflight(p, r))
    BY <2>a, <2>1, <2>2, <2>3 DEF RecordOK, SameIdentity, Keeps, Filesystem
  <2>6. QED
    BY <2>4, <2>5
<1>3. QED
  BY <1>1, <1>2

LEMMA ReplacementTrust ==
    ASSUME NEW p \in Place, NEW r \in Record, RecordOK(r)
    PROVE  /\ RecordOK(PreflightReplacement(p, r))
           /\ PreflightReplacement(p, r).state # "available" =>
                 Filesystem(PreflightReplacement(p, r)) = Filesystem(r)
<1> DEFINE blank == [r EXCEPT !.fs = "", !.dev = ""]
           look == Preflight(p, blank)
<1>1. blank \in Record /\ RecordOK(blank)
  BY DEF Record, RecordOK
<1>2. RecordOK(look)
  BY <1>1, PreflightTrust
<1>3. PreflightReplacement(p, r) = IF look.state = "available" THEN look
                                   ELSE Failed(r, look.state)
  BY DEF PreflightReplacement
<1> HIDE DEF look
<1>4. RecordOK(PreflightReplacement(p, r))
  BY <1>2, <1>3, SameFilesystem
<1>5. QED
  BY <1>4, ReplacementTypes, SameFilesystem

LEMMA ConstantTrust == RecordOK(NoRecord) /\ RecordOK(Unknown) /\ Filesystem(NoRecord) = "none"
BY DEF RecordOK, NoRecord, Unknown, Filesystem

LEMMA SavedTrust ==
    ASSUME TInv, Records, NEW p \in Platform
    PROVE  RecordOK(Saved(p)) /\ Keeps(row[Root(p)], Saved(p))
<1>1. Root(p) \in Platform /\ mount[Root(p)] \in Place /\ row[Root(p)] \in Record
  BY RootTypes, TypeParts DEF TInv, EnvTypes, DbTypes
<1>2. CASE row[Root(p)] # NoRecord
  BY <1>1, <1>2 DEF Saved, Records, Keeps
<1>3. CASE row[Root(p)] = NoRecord
  <2>1. Keeps(row[Root(p)], Saved(p))
    BY <1>3, ConstantTrust DEF Keeps
  <2>2. PICK look : look = Preflight(mount[Root(p)], Unknown)
    OBVIOUS
  <2>3. look \in Record /\ RecordOK(look)
    BY <1>1, <2>2, PreflightTypes, PreflightTrust, ConstantRecords, ConstantTrust
  <2>4. RecordOK([look EXCEPT !.some = TRUE])
    BY <2>3 DEF RecordOK, Record
  <2>5. QED
    BY <1>3, <2>1, <2>2, <2>4, ConstantTrust DEF Saved
<1>4. QED
  BY <1>2, <1>3

\* The record that a scan of a group starts from.
LEMMA PreviousTrust ==
    ASSUME TInv, TrustInv, job.who \in {"rescan", "recovery"}
    PROVE  /\ RecordOK(Previous(job.root))
           /\ ~lost /\ Agree => Keeps(row[job.root], Previous(job.root))
<1>1. job.root \in Platform /\ Root(job.root) = job.root
  BY GroupTypes
<1>2. InMemory(job.root) = src[job.root]
  BY <1>1 DEF InMemory, Root
<1>3. RecordOK(src[job.root])
  BY <1>1 DEF TrustInv, Records
<1>4. RecordOK(Saved(job.root)) /\ Keeps(row[job.root], Saved(job.root))
  BY <1>1, SavedTrust DEF TrustInv
<1>5. ~lost /\ Agree /\ src[job.root] # NoRecord => Keeps(row[job.root], src[job.root])
  BY <1>1 DEF TrustInv, MemTrust, Keeps
<1>6. QED
  BY <1>2, <1>3, <1>4, <1>5 DEF Previous

\* Record is written to root r and, for platforms P, to memory, or the write to the
\* database is lost.
Writes(P, r, record) ==
    /\ P \in SUBSET Platform /\ P # {} /\ r \in Platform
    /\ \A p \in P : Root(p) = r
    /\ ~shared => P = {r}
    /\ record \in Record /\ RecordOK(record)
    /\ record # NoRecord \/ lost' = TRUE
    /\ \A p \in Platform : src'[p] = IF p \in P THEN record ELSE src[p]
    /\ \/ /\ \A q \in Platform : row'[q] = IF q = r THEN record ELSE row[q]
          /\ lost' = lost
       \/ row' = row /\ lost' = TRUE
    /\ \/ Keeps(row[r], record)
       \/ job.accept /\ job.step = "finish"
       \/ lost \/ ~Agree

\* After it, no scan is past its check.
Settled ==
    /\ job'.step \in {"check", "publish", "idle"} /\ RecordOK(job'.prev) /\ RecordOK(job'.cand)
    /\ job'.who \in {"rescan", "recovery"} => job'.step = "check"

LEMMA WriteTrust ==
    ASSUME TInv, TrustInv, shared' = shared, Settled, NEW P, NEW r, NEW record,
           Writes(P, r, record)
    PROVE  TrustInv' /\ RowKept
<1> USE DEF Writes, Settled
<1>0. DbTypes /\ MemTypes /\ Records /\ MemTrust
  BY TypeParts DEF TInv, TrustInv
<1>1. row \in [Platform -> Record] /\ src \in [Platform -> Record]
  BY <1>0 DEF DbTypes, MemTypes
<1>2. Records'
  BY <1>0, <1>1 DEF Records
<1>3. RowKept
  BY <1>1 DEF RowKept, Keeps
<1>4. ASSUME ~lost', Agree', NEW p \in Platform, src'[p] # NoRecord
      PROVE  Filesystem(row'[Root(p)]) = Filesystem(src'[p])
  <2>1. (\A q \in Platform : row'[q] = IF q = r THEN record ELSE row[q]) /\ ~lost
    BY <1>4
  <2>2. row'[r] = record
    BY <1>1, <2>1
  <2>3. CASE p \in P
    BY <2>2, <2>3
  <2>4. CASE p \notin P /\ shared
    <3>1. r = "wii" /\ Root(p) = "wii" /\ src'[p] = src[p]
      BY <2>4 DEF Root
    <3>2. PICK q \in P : TRUE
      OBVIOUS
    <3>3. q \in Platform /\ q # p /\ src'[q] = record
      BY <2>4, <3>2
    <3>4. Filesystem(src'["wii"]) = Filesystem(src'["gamecube"])
      <4>1. src'["gamecube"] # NoRecord
        BY <1>4, <3>3 DEF Platform
      <4>2. QED
        BY <1>4, <2>4, <4>1 DEF Agree, InMemory
    <3>5. QED
      BY <2>2, <3>1, <3>3, <3>4 DEF Platform
  <2>5. CASE p \notin P /\ ~shared
    <3>1. Root(p) = p /\ p # r /\ src'[p] = src[p]
      BY <2>5 DEF Root
    <3>2. row'[p] = row[p]
      BY <1>1, <2>1, <3>1
    <3>3. Root(p)' = p
      BY <2>5 DEF Root
    <3>4. Filesystem(row[Root(p)]) = Filesystem(src[p])
      BY <1>0, <1>4, <2>1, <2>5, <3>1 DEF MemTrust, Agree
    <3>5. QED
      BY <3>1, <3>2, <3>4
  <2>6. QED
    BY <2>3, <2>4, <2>5
<1>5. \A p \in Platform : Root(p)' = Root(p)
  BY DEF Root
<1>6. MemTrust'
  BY <1>4, <1>5 DEF MemTrust
<1>7. JobTrust'
  <2>1. job'.step \notin {"walk", "reconcile", "row"}
    OBVIOUS
  <2>2. QED
    BY <2>1 DEF JobTrust
<1>8. QED
  BY <1>2, <1>3, <1>6, <1>7 DEF TrustInv

\* A step that writes no record and starts no scan, or moves one on that keeps the
\* filesystem.
LEMMA QuietTrust ==
    ASSUME TInv, TrustInv, UNCHANGED <<shared, row, src, lost>>,
           RecordOK(job'.prev), RecordOK(job'.cand),
           \/ job' = job
           \/ job'.step \in {"check", "schema", "idle", "failed"}
              /\ (job'.who \in {"rescan", "recovery"} => job'.step = "check")
    PROVE  TrustInv' /\ RowKept
<1>1. (\A p : Root(p)' = Root(p)) /\ (\A p : InMemory(p)' = InMemory(p))
  BY DEF Root, InMemory
<1>2. Agree' = Agree
  BY <1>1 DEF Agree
<1>3. Records' /\ MemTrust'
  BY <1>1, <1>2 DEF TrustInv, Records, MemTrust
<1>4. job' = job => Own' = Own
  BY DEF Own
<1>5. JobTrust'
  BY <1>1, <1>2, <1>4 DEF TrustInv, JobTrust
<1>6. QED
  BY <1>3, <1>5 DEF TrustInv, RowKept, Keeps

LEMMA StartWriteTrust ==
    ASSUME TInv, TrustInv, shared' = shared,
           Starting("check") \/ Starting("walk") \/ Starting("reconcile") \/ Starting("row"),
           NEW record \in Record, RecordOK(record), record.state # "none" \/ lost' = TRUE,
           Keeps(row[Root(Own)], record),
           src' = [src EXCEPT ![Own] = record], job' = AfterStart,
           \/ row' = [row EXCEPT ![Root(Own)] = record] /\ lost' = lost
           \/ row' = row /\ lost' = TRUE
    PROVE  TrustInv' /\ RowKept
<1>0. DbTypes /\ MemTypes /\ job \in Job /\ JobShape /\ Records
  BY TypeParts DEF TInv, JobTypes, TrustInv
<1>1. Own \in Platform /\ Root(Own) \in Platform
  BY RootTypes DEF Own, Platform
<1>2. src' = [p \in Platform |-> IF p \in {Own} THEN record ELSE src[p]]
  BY <1>0 DEF MemTypes
<1>3. record # NoRecord \/ lost' = TRUE
  BY ConstantRecords
<1>4. /\ job'.step \in {"publish", "idle"} /\ job'.who \in {"boot", "none"}
      /\ RecordOK(job'.prev) /\ RecordOK(job'.cand)
  BY <1>0, ConstantTrust DEF AfterStart, NoJob, Job, Records
<1>5. Settled
  BY <1>4 DEF Settled
<1>6. \/ /\ \A q \in Platform : row'[q] = IF q = Root(Own) THEN record ELSE row[q]
         /\ lost' = lost
      \/ row' = row /\ lost' = TRUE
  BY <1>0 DEF DbTypes
<1>7. /\ {Own} \in SUBSET Platform /\ {Own} # {} /\ \A p \in {Own} : Root(p) = Root(Own)
      /\ ~shared => {Own} = {Root(Own)}
  BY <1>1 DEF Root
<1>8. Writes({Own}, Root(Own), record)
  BY <1>1, <1>2, <1>3, <1>6, <1>7 DEF Writes
<1>9. QED
  BY <1>5, <1>8, WriteTrust

LEMMA StartTrust ==
    ASSUME TInv, TrustInv, StartCheck \/ StartWalk \/ StartReconcile \/ StartRow
    PROVE  TrustInv' /\ RowKept
<1>0. EnvTypes /\ JobShape /\ TypeOK /\ job \in Job /\ Records /\ JobTrust
  BY TypeParts DEF TInv, JobTypes, TrustInv
<1>1. Own \in Platform /\ Root(Own) \in Platform /\ mount[Root(Own)] \in Place
  BY <1>0, RootTypes DEF Own, Platform, EnvTypes
<1>2. job.cand \in Record /\ RecordOK(job.cand) /\ RecordOK(job.prev)
  BY <1>0 DEF Job, Records
<1>3. shared' = shared
  BY DEF StartCheck, StartWalk, StartReconcile, StartRow, StartFrame, config
<1>4. job.step \in {"walk", "reconcile", "row"} => Keeps(row[Root(Own)], job.cand)
  BY <1>0 DEF JobTrust, StartCheck, StartWalk, StartReconcile, StartRow, Starting
<1>5. ASSUME NEW record \in Record, RecordOK(record), record.state # "none",
             Keeps(row[Root(Own)], record), StartFails(record) \/ StartLoses(record)
      PROVE  TrustInv' /\ RowKept
  <2>1. /\ src' = [src EXCEPT ![Own] = record] /\ job' = AfterStart
        /\ \/ row' = [row EXCEPT ![Root(Own)] = record] /\ lost' = lost
           \/ row' = row /\ lost' = TRUE
    BY <1>5 DEF StartFails, StartLoses, Upsert
  <2>2. QED
    BY <1>3, <1>5, <2>1, StartWriteTrust DEF StartCheck, StartWalk, StartReconcile, StartRow

\* A startup scan that goes on.
<1>6. ASSUME UNCHANGED <<row, src, lost>>, job'.who = job.who, RecordOK(job'.cand),
             job'.prev = job.prev, Keeps(row[Root(Own)], job'.cand),
             job.who \in {"boot", "init"}
      PROVE  TrustInv' /\ RowKept
  <2>1. (\A p : Root(p)' = Root(p)) /\ (\A p : InMemory(p)' = InMemory(p))
    BY <1>3, <1>6 DEF Root, InMemory
  <2>2. Agree' = Agree /\ Own' = Own
    BY <1>3, <1>6, <2>1 DEF Agree, Own
  <2>3. Records' /\ MemTrust'
    BY <1>2, <1>6, <2>1, <2>2 DEF TrustInv, Records, MemTrust
  <2>4. JobTrust'
    BY <1>6, <2>1, <2>2 DEF JobTrust
  <2>5. QED
    BY <1>6, <2>3, <2>4 DEF TrustInv, RowKept, Keeps
<1>7. CASE StartCheck
  <2> DEFINE record == Preflight(mount[Root(Own)], Saved(Own))
  <2>1. record \in Record /\ record.state # "none"
    BY <1>0, <1>1, SavedTypes, PreflightTypes
  <2>2. RecordOK(record) /\ Keeps(row[Root(Own)], record)
    <3>1. Saved(Own) \in Record /\ RecordOK(Saved(Own)) /\ Keeps(row[Root(Own)], Saved(Own))
      BY <1>0, <1>1, SavedTypes, SavedTrust
    <3>2. RecordOK(record) /\ Keeps(Saved(Own), record)
      BY <1>1, <3>1, PreflightTrust
    <3>3. QED
      BY <3>1, <3>2, KeepsTransitive
  <2> HIDE DEF record
  <2>3. CASE record.state = "available"
    <3>1. /\ job' = [job EXCEPT !.step = "walk", !.cand = record]
          /\ UNCHANGED <<dbVars, src, shown, lost>> /\ job.who \in {"boot", "init"}
      BY <1>7, <2>3 DEF StartCheck, record, Starting
    <3>2. job'.who = job.who /\ job'.cand = record /\ job'.prev = job.prev
      BY <1>0, <3>1 DEF Job
    <3>3. QED
      BY <1>6, <2>2, <3>1, <3>2 DEF dbVars
  <2>4. CASE record.state # "available"
    BY <1>5, <1>7, <2>1, <2>2, <2>4 DEF StartCheck, record
  <2>5. QED
    BY <2>3, <2>4
<1>8. CASE StartWalk
  <2>1. job.who \in {"boot", "init"} /\ Keeps(row[Root(Own)], job.cand)
    BY <1>4, <1>8 DEF StartWalk, Starting
  <2>2. CASE StartFails(Partial(job.cand))
    <3>1. Partial(job.cand) \in Record /\ Partial(job.cand).state = "unavailable"
      BY <1>2, FailedTypes DEF State
    <3>2. RecordOK(Partial(job.cand)) /\ Keeps(row[Root(Own)], Partial(job.cand))
      BY <1>2, <2>1, SameFilesystem DEF Keeps
    <3>3. QED
      BY <1>5, <2>2, <3>1, <3>2
  <2>3. CASE ~StartFails(Partial(job.cand))
    <3>1. PICK found :
             /\ job' = [job EXCEPT !.step = "reconcile", !.found = found]
             /\ UNCHANGED <<dbVars, src, shown, lost>>
      BY <1>8, <2>3 DEF StartWalk
    <3>2. job'.who = job.who /\ job'.cand = job.cand /\ job'.prev = job.prev
      BY <1>0, <3>1 DEF Job
    <3>3. QED
      BY <1>2, <1>6, <2>1, <3>1, <3>2 DEF dbVars
  <2>4. QED
    BY <2>2, <2>3
<1>9. CASE StartReconcile
  <2>1. job.who \in {"boot", "init"} /\ Keeps(row[Root(Own)], job.cand)
    BY <1>4, <1>9 DEF StartReconcile, Starting
  <2>2. CASE StartLoses(job.cand)
    <3>1. lost' = TRUE /\ UNCHANGED row /\ src' = [src EXCEPT ![Own] = job.cand]
          /\ job' = AfterStart
      BY <2>2 DEF StartLoses
    <3>2. QED
      BY <1>2, <1>3, <1>9, <2>1, <3>1, StartWriteTrust DEF StartReconcile
  <2>3. CASE ~StartLoses(job.cand)
    <3>1. job' = [job EXCEPT !.step = "row"] /\ UNCHANGED <<row, src, lost>>
      BY <1>9, <2>3 DEF StartReconcile
    <3>2. job'.who = job.who /\ job'.cand = job.cand /\ job'.prev = job.prev
      BY <1>0, <3>1 DEF Job
    <3>3. QED
      BY <1>2, <1>6, <2>1, <3>1, <3>2
  <2>4. QED
    BY <2>2, <2>3
<1>10. CASE StartRow
  <2> DEFINE some == \/ job.found # {}
                     \/ job.who = "init" /\ shared /\ Listed(cat, "wii") # {}
             record == Successful(job.cand, some)
  <2>1. some \in BOOLEAN
    OBVIOUS
  <2> HIDE DEF some
  <2>2. record \in Record /\ record.state = "available"
    BY <1>2, <2>1, FailedTypes DEF State
  <2>3. Keeps(row[Root(Own)], record) /\ RecordOK(record)
    BY <1>2, <1>4, <1>10, SameFilesystem DEF StartRow, Starting, Keeps
  <2> HIDE DEF record
  <2>4. /\ src' = [src EXCEPT ![Own] = record] /\ job' = AfterStart
        /\ \/ row' = [row EXCEPT ![Root(Own)] = record] /\ lost' = lost
           \/ row' = row /\ lost' = TRUE
    BY <1>10 DEF StartRow, StartLoses, record, some
  <2>5. QED
    BY <1>3, <1>10, <2>2, <2>3, <2>4, StartWriteTrust DEF StartRow
<1>11. QED
  BY <1>7, <1>8, <1>9, <1>10

\* The end of a group, well or badly.
LEMMA GroupWriteTrust ==
    ASSUME TInv, TrustInv, shared' = shared, job.who \in {"rescan", "recovery"},
           NEW record \in Record, RecordOK(record), record.state # "none",
           \/ Keeps(row[job.root], record)
           \/ job.accept /\ job.step = "finish"
           \/ lost \/ ~Agree,
           src' = [p \in Platform |-> IF p \in Group(job.root) THEN record ELSE src[p]],
           \/ row' = [row EXCEPT ![job.root] = record] /\ lost' = lost
           \/ row' = row /\ lost' = TRUE,
           job' = AfterGroup
    PROVE  TrustInv' /\ RowKept
<1>0. DbTypes /\ MemTypes
  BY TypeParts DEF TInv
<1>1. Settled
  <2>1. RecordOK(AfterGroup.prev) /\ RecordOK(AfterGroup.cand)
    BY ConstantTrust DEF AfterGroup, NoJob
  <2>2. AfterGroup.who \in {"rescan", "recovery"} => AfterGroup.step = "check"
    BY ConstantRecords DEF AfterGroup, NoJob
  <2>3. QED
    BY <2>1, <2>2, AfterGroupStep DEF Settled
<1>2. /\ Group(job.root) \in SUBSET Platform /\ Group(job.root) # {} /\ job.root \in Platform
      /\ \A p \in Group(job.root) : Root(p) = job.root
      /\ ~shared => Group(job.root) = {job.root}
  BY GroupTypes DEF Group
<1>3. \A p \in Platform : src'[p] = IF p \in Group(job.root) THEN record ELSE src[p]
  OBVIOUS
<1>4. \/ /\ \A q \in Platform : row'[q] = IF q = job.root THEN record ELSE row[q]
         /\ lost' = lost
      \/ row' = row /\ lost' = TRUE
  BY <1>0 DEF DbTypes
<1>5. record # NoRecord
  BY ConstantRecords
<1>6. Writes(Group(job.root), job.root, record)
  BY <1>2, <1>3, <1>4, <1>5 DEF Writes
<1>7. QED
  BY <1>1, <1>6, WriteTrust

LEMMA GroupFailsTrust ==
    ASSUME TInv, TrustInv, shared' = shared, job.who \in {"rescan", "recovery"},
           NEW record \in Record, RecordOK(record), record.state # "none",
           ~lost /\ Agree => Keeps(row[job.root], record),
           GroupFails(record)
    PROVE  TrustInv' /\ RowKept
<1>1. /\ src' = [p \in Platform |-> IF p \in Group(job.root) THEN record ELSE src[p]]
      /\ \/ row' = [row EXCEPT ![job.root] = record] /\ lost' = lost
         \/ row' = row /\ lost' = TRUE
      /\ job' = AfterGroup
  BY DEF GroupFails, RecordFailure, Upsert
<1>2. QED
  BY <1>1, GroupWriteTrust

\* A scan that goes on.
LEMMA GroupOnTrust ==
    ASSUME TInv, TrustInv, job.who \in {"rescan", "recovery"}, UNCHANGED <<shared, row, src, lost>>,
           job'.who = job.who, job'.root = job.root, job'.accept = job.accept,
           RecordOK(job'.prev), RecordOK(job'.cand),
           ~lost /\ Agree => /\ Keeps(row[job.root], job'.prev)
                             /\ ~job.accept => Keeps(row[job.root], job'.cand)
    PROVE  TrustInv' /\ RowKept
<1>1. (\A p : Root(p)' = Root(p)) /\ (\A p : InMemory(p)' = InMemory(p))
  BY DEF Root, InMemory
<1>2. Agree' = Agree
  BY <1>1 DEF Agree
<1>3. Records' /\ MemTrust'
  BY <1>1, <1>2 DEF TrustInv, Records, MemTrust
<1>4. JobTrust'
  BY <1>2 DEF JobTrust
<1>5. QED
  BY <1>3, <1>4 DEF TrustInv, RowKept, Keeps

LEMMA ScanTrust ==
    ASSUME TInv, TrustInv, ScanStep
    PROVE  TrustInv' /\ RowKept
<1>0. /\ job.who \in {"rescan", "recovery"} /\ job \in Job /\ JobTrust
      /\ job.prev \in Record /\ job.cand \in Record /\ RecordOK(job.prev) /\ RecordOK(job.cand)
  BY TypeParts, GroupTypes
     DEF TInv, JobTypes, ScanStep, GroupCheck, GroupWalk, GroupFinish, GroupAbort, Scanning,
         TrustInv, Records
<1>1. shared' = shared
  BY DEF ScanStep, GroupCheck, GroupWalk, GroupFinish, GroupAbort, ScanFrame, config
<1>2. ASSUME GroupFails(Partial(job.prev)), job.step # "check" PROVE TrustInv' /\ RowKept
  <2>1. Partial(job.prev) \in Record /\ Partial(job.prev).state # "none"
    BY <1>0, FailedTypes DEF State
  <2>2. RecordOK(Partial(job.prev)) /\ Filesystem(Partial(job.prev)) = Filesystem(job.prev)
    BY <1>0, SameFilesystem
  <2>3. ~lost /\ Agree => Keeps(row[job.root], Partial(job.prev))
    BY <1>0, <1>2, <2>2 DEF JobTrust, Keeps
  <2>4. QED
    BY <1>0, <1>1, <1>2, <2>1, <2>2, <2>3, GroupFailsTrust
<1>3. ASSUME UNCHANGED <<row, src, observers>>, job.step # "check", job'.who = job.who,
             job'.root = job.root, job'.accept = job.accept, job'.prev = job.prev,
             job'.cand = job.cand
      PROVE  TrustInv' /\ RowKept
  BY <1>0, <1>1, <1>3, GroupOnTrust DEF JobTrust, observers
<1>4. CASE GroupCheck
  <2>1. \/ GroupFails(Failed(Previous(job.root), "invalid"))
        \/ GroupRecord.state # "available" /\ GroupFails(GroupRecord)
        \/ /\ job' = [job EXCEPT !.step = "walk", !.prev = Previous(job.root),
                                 !.cand = GroupRecord]
           /\ UNCHANGED <<row, src, observers>>
    BY <1>4 DEF GroupCheck, GroupRecord
  <2>2. /\ Previous(job.root) \in Record /\ GroupRecord \in Record
        /\ RecordOK(Previous(job.root)) /\ GroupRecord.state # "none"
        /\ ~lost /\ Agree => Keeps(row[job.root], Previous(job.root))
    BY <1>0, GroupRecordTypes, PreviousTrust
  <2>3. RecordOK(GroupRecord)
    <3>1. mount[job.root] \in Place
      BY <1>0, GroupTypes
    <3>2. QED
      BY <2>2, <3>1, PreflightTrust, ReplacementTrust DEF GroupRecord
  <2>4. GroupRecord.state # "available" => Filesystem(GroupRecord) = Filesystem(Previous(job.root))
    BY <1>0, <2>2, GroupRecordTypes, SameFilesystem
  <2>5. ~job.accept => Keeps(Previous(job.root), GroupRecord)
    <3>1. mount[job.root] \in Place
      BY <1>0, GroupTypes
    <3>2. QED
      BY <2>2, <3>1, PreflightTrust DEF GroupRecord
  <2>6. CASE GroupFails(Failed(Previous(job.root), "invalid"))
    <3>1. /\ Failed(Previous(job.root), "invalid") \in Record
          /\ Failed(Previous(job.root), "invalid").state # "none"
          /\ RecordOK(Failed(Previous(job.root), "invalid"))
      BY <2>2, FailedTypes, SameFilesystem DEF State
    <3>2. ~lost /\ Agree => Keeps(row[job.root], Failed(Previous(job.root), "invalid"))
      BY <2>2, SameFilesystem DEF Keeps
    <3>3. QED
      BY <1>0, <1>1, <2>6, <3>1, <3>2, GroupFailsTrust
  <2>7. CASE GroupRecord.state # "available" /\ GroupFails(GroupRecord)
    <3>1. ~lost /\ Agree => Keeps(row[job.root], GroupRecord)
      BY <2>2, <2>4, <2>7 DEF Keeps
    <3>2. QED
      BY <1>0, <1>1, <2>2, <2>3, <2>7, <3>1, GroupFailsTrust
  <2>8. ASSUME job' = [job EXCEPT !.step = "walk", !.prev = Previous(job.root),
                                  !.cand = GroupRecord],
               UNCHANGED <<row, src, observers>>
        PROVE  TrustInv' /\ RowKept
    <3>1. /\ job'.who = job.who /\ job'.root = job.root /\ job'.accept = job.accept
          /\ job'.prev = Previous(job.root) /\ job'.cand = GroupRecord
      BY <1>0, <2>8 DEF Job
    <3>2. ~lost /\ Agree => /\ Keeps(row[job.root], job'.prev)
                            /\ ~job.accept => Keeps(row[job.root], job'.cand)
      BY <2>2, <2>5, <3>1, KeepsTransitive
    <3>3. QED
      BY <1>0, <1>1, <2>2, <2>3, <2>8, <3>1, <3>2, GroupOnTrust DEF observers
  <2>9. QED
    BY <2>1, <2>6, <2>7, <2>8
<1>5. CASE GroupWalk
  <2>0. job.step # "check"
    BY <1>5 DEF GroupWalk, Scanning
  <2>1. CASE GroupFails(Partial(job.prev))
    BY <1>2, <2>0, <2>1
  <2>2. CASE ~GroupFails(Partial(job.prev))
    <3>1. PICK found :
             /\ job' = [job EXCEPT !.found = @ \cup found, !.walked = @ \cup {Walked},
                           !.step = IF job.walked \cup {Walked} = Group(job.root)
                                    THEN "finish" ELSE "walk"]
             /\ UNCHANGED <<row, src, observers>>
      BY <1>5, <2>2 DEF GroupWalk, Walked
    <3>2. /\ job'.who = job.who /\ job'.root = job.root /\ job'.accept = job.accept
          /\ job'.prev = job.prev /\ job'.cand = job.cand
      BY <1>0, <3>1 DEF Job
    <3>3. QED
      BY <1>3, <2>0, <3>1, <3>2
  <2>3. QED
    BY <2>1, <2>2
<1>6. CASE GroupFinish
  <2> DEFINE some == job.found # {}
             record == Successful(job.cand, some)
  <2>0. job.step = "finish"
    BY <1>6 DEF GroupFinish, Scanning
  <2>1. \/ GroupFails(Partial(job.prev))
        \/ /\ CommitScan(record) /\ UNCHANGED lost
           /\ src' = [p \in Platform |-> IF p \in Group(job.root) THEN record ELSE src[p]]
           /\ job' = AfterGroup
        \/ job' = [job EXCEPT !.step = "abort"] /\ UNCHANGED <<row, src, observers>>
    BY <1>6 DEF GroupFinish
  <2>2. /\ record \in Record /\ record.state # "none"
        /\ RecordOK(record) /\ Filesystem(record) = Filesystem(job.cand)
    <3>1. some \in BOOLEAN
      OBVIOUS
    <3> HIDE DEF some
    <3>2. QED
      BY <1>0, <3>1, FailedTypes, SameFilesystem DEF State
  <2> HIDE DEF record
  <2>3. ASSUME CommitScan(record), UNCHANGED lost, job' = AfterGroup,
               src' = [p \in Platform |-> IF p \in Group(job.root) THEN record ELSE src[p]]
        PROVE  TrustInv' /\ RowKept
    <3>1. row' = [row EXCEPT ![job.root] = record]
      BY <2>3 DEF CommitScan
    <3>2. \/ Keeps(row[job.root], record)
          \/ job.accept /\ job.step = "finish"
          \/ lost \/ ~Agree
      BY <1>0, <2>0, <2>2 DEF JobTrust, Keeps
    <3>3. QED
      BY <1>0, <1>1, <2>2, <2>3, <3>1, <3>2, GroupWriteTrust
  <2>4. ASSUME job' = [job EXCEPT !.step = "abort"], UNCHANGED <<row, src, observers>>
        PROVE  TrustInv' /\ RowKept
    <3>1. /\ job'.who = job.who /\ job'.root = job.root /\ job'.accept = job.accept
          /\ job'.prev = job.prev /\ job'.cand = job.cand
      BY <1>0, <2>4 DEF Job
    <3>2. QED
      BY <1>3, <2>0, <2>4, <3>1
  <2>5. QED
    BY <1>2, <2>0, <2>1, <2>3, <2>4
<1>7. CASE GroupAbort
  BY <1>2, <1>7 DEF GroupAbort, Scanning
<1>8. QED
  BY <1>4, <1>5, <1>6, <1>7 DEF ScanStep

-----------------------------------------------------------------------------
\* A daemon that runs has a record of the Wii source, and a report in the queue is
\* about a platform that has one: nothing is shown of a source without a record.
Loaded == job.who # "boot" \/ job.step \in {"publish", "failed"}
LoadedInv ==
    /\ Loaded => src["wii"] # NoRecord
    /\ src["gamecube"] = NoRecord => \A x \in CubeGames : shown[x] = "unlisted"
    /\ job.who = "boot" => queue = <<>>
    /\ \A i \in 1 .. Len(queue) : queue[i].platform = "gamecube" => src["gamecube"] # NoRecord
    /\ job.who \in {"boot", "init"} /\ job.step \in {"walk", "reconcile", "row"} =>
          job.cand.state # "none"

LEMMA QuietLoaded ==
    ASSUME LoadedInv, UNCHANGED <<src, shown, queue>>,
           Loaded' => Loaded, job'.who = "boot" => job.who = "boot",
           job'.who \in {"boot", "init"} /\ job'.step \in {"walk", "reconcile", "row"} =>
              job'.cand.state # "none"
    PROVE  LoadedInv'
BY DEF LoadedInv

WritesMemory(P, record) ==
    /\ record # NoRecord
    /\ \A p \in Platform : src'[p] = IF p \in P THEN record ELSE src[p]
    /\ "gamecube" \notin P =>
          \A x \in CubeGames : shown[x] = "unlisted" => shown'[x] = "unlisted"
    /\ queue' = queue \/ (queue # <<>> /\ queue' = Tail(queue))
    /\ job'.who = "boot" => job.who = "boot"
    /\ "wii" \in P \/ Loaded
    /\ job'.step \notin {"walk", "reconcile", "row"}

LEMMA WriteLoaded ==
    ASSUME TInv, LoadedInv, NEW P, NEW record, WritesMemory(P, record)
    PROVE  LoadedInv'
<1>0. queue \in Seq(Failure)
  BY TypeParts DEF TInv, MemTypes
<1>1. \A i \in 1 .. Len(queue') : queue'[i].platform = "gamecube" => src["gamecube"] # NoRecord
  <2>1. CASE queue' = queue
    BY <2>1 DEF LoadedInv
  <2>2. CASE queue # <<>> /\ queue' = Tail(queue)
    <3>1. /\ Len(queue') = Len(queue) - 1 /\ Len(queue) \in Nat
          /\ \A i \in 1 .. Len(queue') : queue'[i] = queue[i + 1]
      BY <1>0, <2>2, HeadTailProperties, LenProperties
    <3>2. QED
      BY <3>1 DEF LoadedInv
  <2>3. QED
    BY <2>1, <2>2 DEF WritesMemory
<1>2. job'.who = "boot" => queue' = <<>>
  <2>1. ASSUME job'.who = "boot" PROVE queue' = <<>>
    <3>1. queue = <<>>
      BY <2>1 DEF WritesMemory, LoadedInv
    <3>2. QED
      BY <3>1 DEF WritesMemory
  <2>2. QED
    BY <2>1
<1>3. "wii" \in Platform /\ "gamecube" \in Platform
  BY DEF Platform
<1>4. src'["wii"] # NoRecord
  BY <1>3 DEF WritesMemory, LoadedInv
<1>5. src'["gamecube"] = NoRecord => /\ "gamecube" \notin P /\ src["gamecube"] = NoRecord
                                     /\ \A x \in CubeGames : shown'[x] = "unlisted"
  BY <1>3 DEF WritesMemory, LoadedInv
<1>6. QED
  BY <1>1, <1>2, <1>4, <1>5 DEF WritesMemory, LoadedInv

LEMMA CubeNotWii ==
    ASSUME NEW x \in CubeGames
    PROVE  x \in Games /\ x \notin GamesOf("wii") /\ x \in GamesOf("gamecube")
BY CatalogAssumption DEF Games, GamesOf

\* The record that a startup scan writes.
LEMMA StartWriteLoaded ==
    ASSUME TInv, LoadedInv, StartFrame,
           Starting("check") \/ Starting("walk") \/ Starting("reconcile") \/ Starting("row"),
           NEW record \in Record, record.state # "none",
           src' = [src EXCEPT ![Own] = record], job' = AfterStart,
           \A x \in Games \ GamesOf(Own) : shown'[x] = shown[x]
    PROVE  LoadedInv'
<1>0. MemTypes /\ job \in Job /\ JobShape
  BY TypeParts DEF TInv, JobTypes
<1>1. record # NoRecord /\ Own \in Platform
  BY ConstantRecords DEF Own, Platform
<1>2. \A p \in Platform : src'[p] = IF p \in {Own} THEN record ELSE src[p]
  BY <1>0 DEF MemTypes
<1>3. /\ job'.who = "boot" => job.who = "boot"
      /\ job'.step \notin {"walk", "reconcile", "row"}
      /\ "wii" \in {Own} \/ Loaded
  BY <1>0, ConstantRecords DEF AfterStart, NoJob, Job, Own, Loaded
<1>4. "gamecube" \notin {Own} =>
         \A x \in CubeGames : shown[x] = "unlisted" => shown'[x] = "unlisted"
  BY <1>1, CubeNotWii DEF Platform
<1>5. queue' = queue
  BY DEF StartFrame
<1>6. PICK P : P = {Own}
  OBVIOUS
<1>7. /\ \A p \in Platform : src'[p] = IF p \in P THEN record ELSE src[p]
      /\ "wii" \in P \/ Loaded
  BY <1>2, <1>3, <1>6
<1>8. WritesMemory(P, record)
  BY <1>1, <1>3, <1>4, <1>5, <1>6, <1>7 DEF WritesMemory
<1>9. QED
  BY <1>8, WriteLoaded

LEMMA StartLoaded ==
    ASSUME TInv, LoadedInv, StartCheck \/ StartWalk \/ StartReconcile \/ StartRow
    PROVE  LoadedInv'
<1>0. EnvTypes /\ JobShape /\ TypeOK /\ job \in Job
  BY TypeParts DEF TInv, JobTypes
<1>1. Own \in Platform /\ Root(Own) \in Platform /\ mount[Root(Own)] \in Place
  BY <1>0, RootTypes DEF Own, Platform, EnvTypes
<1>2. job.cand \in Record /\ StartFrame
  BY <1>0 DEF Job, StartCheck, StartWalk, StartReconcile, StartRow
<1>3. job.step \in {"walk", "reconcile", "row"} => job.cand.state # "none"
  BY DEF LoadedInv, StartCheck, StartWalk, StartReconcile, StartRow, Starting
<1>4. ASSUME NEW record \in Record, record.state # "none", StartFails(record) \/ StartLoses(record)
      PROVE  LoadedInv'
  <2>1. src' = [src EXCEPT ![Own] = record] /\ job' = AfterStart
    BY <1>4 DEF StartFails, StartLoses
  <2>2. ASSUME NEW x \in Games \ GamesOf(Own) PROVE shown'[x] = shown[x]
    <3>1. CASE StartFails(record)
      BY <1>1, <3>1, OthersCached DEF StartFails
    <3>2. CASE StartLoses(record)
      BY <1>1, <3>2, OthersCached DEF StartLoses
    <3>3. QED
      BY <1>4, <3>1, <3>2
  <2>3. QED
    BY <1>2, <1>4, <2>1, <2>2, StartWriteLoaded DEF StartCheck, StartWalk, StartReconcile, StartRow
<1>5. ASSUME UNCHANGED <<src, shown>>, job'.who = job.who, job'.cand.state # "none",
             job.who = "boot" => job'.step \notin {"publish", "failed"}
      PROVE  LoadedInv'
  BY <1>2, <1>5, QuietLoaded DEF Loaded, StartFrame
<1>6. CASE StartCheck
  <2> DEFINE record == Preflight(mount[Root(Own)], Saved(Own))
  <2>1. record \in Record /\ record.state # "none"
    BY <1>0, <1>1, SavedTypes, PreflightTypes
  <2> HIDE DEF record
  <2>2. CASE record.state = "available"
    <3>1. job' = [job EXCEPT !.step = "walk", !.cand = record] /\ UNCHANGED <<src, shown>>
      BY <1>6, <2>2 DEF StartCheck, record
    <3>2. job'.who = job.who /\ job'.cand = record /\ job'.step = "walk"
      BY <1>0, <3>1 DEF Job
    <3>3. QED
      BY <1>5, <2>1, <3>1, <3>2
  <2>3. CASE record.state # "available"
    BY <1>4, <1>6, <2>1, <2>3 DEF StartCheck, record
  <2>4. QED
    BY <2>2, <2>3
<1>7. CASE StartWalk
  <2>1. CASE StartFails(Partial(job.cand))
    <3>1. Partial(job.cand) \in Record /\ Partial(job.cand).state = "unavailable"
      BY <1>2, FailedTypes DEF State
    <3>2. QED
      BY <1>4, <2>1, <3>1
  <2>2. CASE ~StartFails(Partial(job.cand))
    <3>1. PICK found :
             /\ job' = [job EXCEPT !.step = "reconcile", !.found = found]
             /\ UNCHANGED <<src, shown>>
      BY <1>7, <2>2 DEF StartWalk
    <3>2. job'.who = job.who /\ job'.cand = job.cand /\ job'.step = "reconcile"
      BY <1>0, <3>1 DEF Job
    <3>3. QED
      BY <1>3, <1>5, <1>7, <3>1, <3>2 DEF StartWalk, Starting
  <2>3. QED
    BY <2>1, <2>2
<1>8. CASE StartReconcile
  <2>1. job.cand.state # "none"
    BY <1>3, <1>8 DEF StartReconcile, Starting
  <2>2. CASE StartLoses(job.cand)
    BY <1>2, <1>4, <2>1, <2>2
  <2>3. CASE ~StartLoses(job.cand)
    <3>1. job' = [job EXCEPT !.step = "row"] /\ UNCHANGED <<src, shown>>
      BY <1>8, <2>3 DEF StartReconcile
    <3>2. job'.who = job.who /\ job'.cand = job.cand /\ job'.step = "row"
      BY <1>0, <3>1 DEF Job
    <3>3. QED
      BY <1>5, <2>1, <3>1, <3>2
  <2>4. QED
    BY <2>2, <2>3
<1>9. CASE StartRow
  <2> DEFINE some == \/ job.found # {}
                     \/ job.who = "init" /\ shared /\ Listed(cat, "wii") # {}
             record == Successful(job.cand, some)
  <2>1. some \in BOOLEAN
    OBVIOUS
  <2> HIDE DEF some
  <2>2. record \in Record /\ record.state = "available"
    BY <1>2, <2>1, FailedTypes DEF State
  <2> HIDE DEF record
  <2>3. CASE StartLoses(record)
    BY <1>4, <2>2, <2>3
  <2>4. CASE ~StartLoses(record)
    <3>1. /\ src' = [src EXCEPT ![Own] = record] /\ job' = AfterStart
          /\ shown' = Decoded(cat, {Own}, "available") /\ Starting("row")
      BY <1>9, <2>4 DEF StartRow, record, some
    <3>2. \A x \in Games \ GamesOf(Own) : shown'[x] = shown[x]
      BY <1>1, <3>1, OthersCached
    <3>3. QED
      BY <1>2, <2>2, <3>1, <3>2, StartWriteLoaded
  <2>5. QED
    BY <2>3, <2>4
<1>10. QED
  BY <1>6, <1>7, <1>8, <1>9

\* A failure record, and the lists after it.
LEMMA FailureLoaded ==
    ASSUME TInv, LoadedInv, NEW P \in SUBSET Platform, NEW r, NEW record \in Record,
           record.state # "none", RecordFailure(P, r, record), job.who # "boot", job'.who # "boot",
           job'.step \notin {"walk", "reconcile", "row"},
           queue' = queue \/ (queue # <<>> /\ queue' = Tail(queue))
    PROVE  LoadedInv'
<1>1. record # NoRecord
  BY ConstantRecords
<1>2. \A p \in Platform : src'[p] = IF p \in P THEN record ELSE src[p]
  BY DEF RecordFailure
<1>3. \A x \in CubeGames : shown[x] = "unlisted" => shown'[x] = "unlisted"
  BY CubeNotWii DEF RecordFailure
<1>4. WritesMemory(P, record)
  BY <1>1, <1>2, <1>3 DEF WritesMemory, Loaded
<1>5. QED
  BY <1>4, WriteLoaded

LEMMA ScanLoaded ==
    ASSUME TInv, LoadedInv, ScanStep
    PROVE  LoadedInv'
<1>0. /\ job.who \in {"rescan", "recovery"} /\ job \in Job
      /\ job.prev \in Record /\ job.cand \in Record /\ queue' = queue
      /\ Group(job.root) \in SUBSET Platform
  BY TypeParts, GroupTypes
     DEF TInv, JobTypes, ScanStep, GroupCheck, GroupWalk, GroupFinish, GroupAbort, Scanning,
         ScanFrame
<1>1. /\ AfterGroup.who # "boot" /\ AfterGroup.step \notin {"walk", "reconcile", "row"}
  BY <1>0, AfterGroupStep
<1>2. ASSUME NEW record \in Record, record.state # "none", GroupFails(record)
      PROVE  LoadedInv'
  <2>1. RecordFailure(Group(job.root), job.root, record) /\ job' = AfterGroup
    BY <1>2 DEF GroupFails
  <2>2. QED
    BY <1>0, <1>1, <1>2, <2>1, FailureLoaded
<1>3. ASSUME GroupFails(Partial(job.prev)) PROVE LoadedInv'
  <2>1. Partial(job.prev) \in Record /\ Partial(job.prev).state = "unavailable"
    BY <1>0, FailedTypes DEF State
  <2>2. QED
    BY <1>2, <1>3, <2>1
<1>4. ASSUME UNCHANGED <<src, shown>>, job'.who = job.who PROVE LoadedInv'
  BY <1>0, <1>4, QuietLoaded DEF Loaded
<1>5. CASE GroupCheck
  <2>1. \/ GroupFails(Failed(Previous(job.root), "invalid"))
        \/ GroupFails(GroupRecord)
        \/ /\ job' = [job EXCEPT !.step = "walk", !.prev = Previous(job.root),
                                 !.cand = GroupRecord]
           /\ UNCHANGED <<src, shown>>
    BY <1>5 DEF GroupCheck, GroupRecord
  <2>2. Previous(job.root) \in Record /\ GroupRecord \in Record /\ GroupRecord.state # "none"
    BY <1>0, GroupRecordTypes
  <2>3. /\ Failed(Previous(job.root), "invalid") \in Record
        /\ Failed(Previous(job.root), "invalid").state # "none"
    BY <2>2, FailedTypes DEF State
  <2>4. ASSUME job' = [job EXCEPT !.step = "walk", !.prev = Previous(job.root),
                                  !.cand = GroupRecord],
               UNCHANGED <<src, shown>>
        PROVE  LoadedInv'
    <3>1. job'.who = job.who
      BY <1>0, <2>4 DEF Job
    <3>2. QED
      BY <1>4, <2>4, <3>1
  <2>5. QED
    BY <1>2, <2>1, <2>2, <2>3, <2>4
<1>6. CASE GroupWalk
  <2>1. CASE GroupFails(Partial(job.prev))
    BY <1>3, <2>1
  <2>2. CASE ~GroupFails(Partial(job.prev))
    <3>1. PICK found :
             /\ job' = [job EXCEPT !.found = @ \cup found, !.walked = @ \cup {Walked},
                           !.step = IF job.walked \cup {Walked} = Group(job.root)
                                    THEN "finish" ELSE "walk"]
             /\ UNCHANGED <<src, shown>>
      BY <1>6, <2>2 DEF GroupWalk, Walked
    <3>2. job'.who = job.who
      BY <1>0, <3>1 DEF Job
    <3>3. QED
      BY <1>4, <3>1, <3>2
  <2>3. QED
    BY <2>1, <2>2
<1>7. CASE GroupFinish
  <2> DEFINE some == job.found # {}
             record == Successful(job.cand, some)
  <2>1. \/ GroupFails(Partial(job.prev))
        \/ /\ src' = [p \in Platform |-> IF p \in Group(job.root) THEN record ELSE src[p]]
           /\ shown' = Decoded(cat', Group(job.root), "available")
           /\ job' = AfterGroup
        \/ job' = [job EXCEPT !.step = "abort"] /\ UNCHANGED <<src, shown>>
    BY <1>7 DEF GroupFinish
  <2>2. record \in Record /\ record.state = "available"
    <3>1. some \in BOOLEAN
      OBVIOUS
    <3> HIDE DEF some
    <3>2. QED
      BY <1>0, <3>1, FailedTypes DEF State
  <2> HIDE DEF record
  <2>3. ASSUME src' = [p \in Platform |-> IF p \in Group(job.root) THEN record ELSE src[p]],
               shown' = Decoded(cat', Group(job.root), "available"), job' = AfterGroup
        PROVE  LoadedInv'
    <3>1. record # NoRecord
      BY <2>2, ConstantRecords
    <3>2. ASSUME "gamecube" \notin Group(job.root), NEW x \in CubeGames
          PROVE  shown'[x] = shown[x]
      <4>1. x \in Games /\ \A p \in Group(job.root) : x \notin GamesOf(p)
        BY <1>0, <3>2, CubeNotWii DEF Platform
      <4>2. QED
        BY <2>3, <4>1 DEF Decoded
    <3>3. WritesMemory(Group(job.root), record)
      BY <1>0, <1>1, <2>3, <3>1, <3>2 DEF WritesMemory, Loaded
    <3>4. QED
      BY <3>3, WriteLoaded
  <2>4. ASSUME job' = [job EXCEPT !.step = "abort"], UNCHANGED <<src, shown>>
        PROVE  LoadedInv'
    <3>1. job'.who = job.who
      BY <1>0, <2>4 DEF Job
    <3>2. QED
      BY <1>4, <2>4, <3>1
  <2>5. QED
    BY <1>3, <2>1, <2>3, <2>4
<1>8. CASE GroupAbort
  BY <1>3, <1>8 DEF GroupAbort
<1>9. QED
  BY <1>5, <1>6, <1>7, <1>8 DEF ScanStep

LEMMA NextLoaded ==
    ASSUME TInv, LoadedInv, [Next]_vars
    PROVE  LoadedInv'
<1> USE DEF config, envVars, dbVars, memVars, observers, budgets
<1>0. DbTypes /\ MemTypes /\ JobShape /\ job \in Job
  BY TypeParts DEF TInv, JobTypes
<1>1. CASE BootMounts \/ BackupDatabase \/ Migrate
  <2>1. /\ UNCHANGED <<src, shown, queue>> /\ job'.who = job.who
        /\ \/ job' = job
           \/ job'.step \in {"check", "schema"}
    BY <1>0, <1>1 DEF BootMounts, BackupDatabase, Migrate, Job
  <2>2. job.who = "boot" /\ job.step \in {"mounts", "schema"}
    BY <1>0, <1>1 DEF BootMounts, BackupDatabase, Migrate, JobShape, NoJob, Job
  <2>3. QED
    BY <2>1, <2>2, QuietLoaded DEF Loaded
<1>2. CASE StartCheck \/ StartWalk \/ StartReconcile \/ StartRow
  BY <1>2, StartLoaded
<1>3. CASE BootPublish
  <2>1. job.step = "publish" /\ UNCHANGED <<src, shown, queue>> /\ job.who = "boot"
    BY <1>0, <1>3 DEF BootPublish, Starting, JobShape
  <2>2. job'.who \in {"boot", "none"} /\ job'.step \in {"idle", "failed"}
    BY <1>0, <1>3, <2>1, ConstantRecords DEF BootPublish, Job
  <2>3. QED
    BY <2>1, <2>2, QuietLoaded DEF Loaded
<1>4. CASE InitBegin \/ (\E r \in Platform : Recover(r))
           \/ \E choice \in Platform \cup {"all"}, accept \in BOOLEAN :
                 RescanBegin(choice, accept)
  <2>1. /\ UNCHANGED <<shown, src, queue>> /\ job = NoJob /\ job'.step = "check"
        /\ job'.who # "boot"
    BY <1>4 DEF InitBegin, Recover, RescanBegin, NoJob
  <2>2. QED
    BY <2>1, QuietLoaded, ConstantRecords DEF Loaded
<1>5. CASE ScanStep
  BY <1>5, ScanLoaded
<1>6. CASE \/ \E r \in Platform, p \in Outages \cup {"home"} : Remount(r, p)
           \/ \E x \in Games : EditSource(x) \/ AcknowledgeMissing(x)
           \/ UNCHANGED vars
  <2>1. UNCHANGED <<shown, src, queue>> /\ job' = job
    BY <1>6 DEF Remount, EditSource, AcknowledgeMissing, vars
  <2>2. QED
    BY <2>1 DEF LoadedInv, Loaded
<1>7. ASSUME NEW p \in Platform, NEW code, ReadFails(p, code) PROVE LoadedInv'
  <2>1. /\ UNCHANGED <<src, shown, job>> /\ Running /\ queue \in Seq(Failure)
        /\ queue' = Append(queue, [platform |-> p, code |-> code])
        /\ \E x \in GamesOf(p) : shown[x] # "unlisted"
    BY <1>0, <1>7 DEF ReadFails, MemTypes
  <2>2. p = "gamecube" => src["gamecube"] # NoRecord
    BY <2>1 DEF LoadedInv, GamesOf
  <2>3. /\ Len(queue') = Len(queue) + 1 /\ Len(queue) \in Nat
        /\ \A i \in 1 .. Len(queue) : queue'[i] = queue[i]
        /\ queue'[Len(queue) + 1] = [platform |-> p, code |-> code]
    BY <2>1, AppendProperties, LenProperties
  <2>4. ASSUME NEW i \in 1 .. Len(queue'), queue'[i].platform = "gamecube"
        PROVE  src["gamecube"] # NoRecord
    <3>1. CASE i \in 1 .. Len(queue)
      BY <2>3, <2>4, <3>1 DEF LoadedInv
    <3>2. CASE i = Len(queue) + 1
      BY <2>2, <2>3, <2>4, <3>2
    <3>3. QED
      BY <2>3, <3>1, <3>2
  <2>5. QED
    BY <2>1, <2>4 DEF LoadedInv, Loaded, Running
<1>8. CASE ReconcileReport
  <2>1. queue # <<>> /\ job = NoJob /\ job' = job /\ queue' = Tail(queue)
    BY <1>8 DEF ReconcileReport
  <2>2. RecordFailure({Head(queue).platform}, Root(Head(queue).platform), ReportRecord)
    BY <1>8 DEF ReconcileReport, ReportRecord
  <2>3. /\ {Head(queue).platform} \in SUBSET Platform
        /\ ReportRecord \in Record /\ ReportRecord.state # "none"
    BY <2>1, ReportTypes
  <2>4. QED
    BY <2>1, <2>2, <2>3, ConstantRecords, FailureLoaded
<1>9. CASE Restart
  <2>1. /\ src' = [p \in Platform |-> NoRecord] /\ job' = Booting(schema) /\ schema \in 0 .. 3
        /\ queue' = <<>> /\ shown' = [x \in Games |-> "unlisted"]
    BY <1>0, <1>9 DEF Restart, DbTypes
  <2>2. job'.who = "boot" /\ job'.step = "mounts"
    BY <2>1, BootingTypes
  <2>3. \A x \in CubeGames : shown'[x] = "unlisted"
    BY <2>1, CubeNotWii
  <2>4. Len(queue') = 0
    BY <2>1
  <2>5. QED
    BY <2>1, <2>2, <2>3, <2>4 DEF LoadedInv, Loaded
<1>10. QED
  BY <1>1, <1>2, <1>3, <1>4, <1>5, <1>6, <1>7, <1>8, <1>9 DEF Next, StartStep

\* The reconciler of read failures writes the record that memory has, or that of
\* the place where it finds the same filesystem.
LEMMA ReportWrites ==
    ASSUME TInv, TrustInv, LoadedInv, ReconcileReport,
           NEW p \in Platform, p = Head(queue).platform
    PROVE  /\ Writes({p}, Root(p), ReportRecord) /\ Settled /\ ReportRecord # NoRecord
           /\ InMemory(p) # NoRecord /\ Keeps(InMemory(p), ReportRecord)
           /\ ~lost /\ Agree => /\ Filesystem(row[Root(p)]) = Filesystem(InMemory(p))
                               /\ Keeps(row[Root(p)], ReportRecord)
<1>0. DbTypes /\ MemTypes /\ EnvTypes /\ TypeOK /\ Records /\ MemTrust
  BY TypeParts DEF TInv, TrustInv
<1>1. queue # <<>> /\ job = NoJob /\ job' = job
  BY DEF ReconcileReport
<1>2. RecordFailure({p}, Root(p), ReportRecord)
  BY DEF ReconcileReport, ReportRecord
<1>3. /\ Root(p) \in Platform /\ ReportRecord \in Record /\ ReportRecord # NoRecord
      /\ mount[Root(p)] \in Place /\ InMemory(p) \in Record
  BY <1>0, <1>1, ReportTypes, RootTypes, SavedTypes, ConstantRecords DEF EnvTypes
<1>4. RecordOK(InMemory(p))
  BY <1>0 DEF Records, InMemory, Platform
<1>5. PICK look : look = Preflight(mount[Root(p)], InMemory(p))
  OBVIOUS
<1>6. look \in Record /\ RecordOK(look) /\ Keeps(InMemory(p), look)
  BY <1>3, <1>4, <1>5, PreflightTypes, PreflightTrust
<1>7. ReportRecord = IF look.state = "available" THEN RuntimeFailure(look, Head(queue).code)
                     ELSE look
  BY <1>5 DEF ReportRecord
<1>8. RecordOK(ReportRecord) /\ Filesystem(ReportRecord) = Filesystem(look)
  BY <1>6, <1>7, SameFilesystem
<1>9. InMemory(p) # NoRecord
  <2>1. Len(queue) \in Nat \ {0} /\ Head(queue) = queue[1]
    BY <1>0, <1>1, EmptySeq DEF MemTypes
  <2>2. src["wii"] # NoRecord /\ (p = "gamecube" => src["gamecube"] # NoRecord)
    BY <1>1, <2>1, ConstantRecords DEF LoadedInv, Loaded
  <2>3. QED
    BY <2>2 DEF InMemory, Platform
<1>10. ~lost /\ Agree => /\ Filesystem(row[Root(p)]) = Filesystem(InMemory(p))
                         /\ Keeps(row[Root(p)], ReportRecord)
  <2>1. PICK q \in Platform : InMemory(p) = src[q] /\ Root(q) = Root(p)
    BY DEF InMemory, Root, Platform
  <2>2. QED
    BY <1>0, <1>6, <1>8, <1>9, <2>1 DEF MemTrust, Keeps
<1>11. Settled
  BY <1>1, ConstantTrust, ConstantRecords DEF Settled, NoJob
<1>12. /\ \A q \in Platform : src'[q] = IF q \in {p} THEN ReportRecord ELSE src[q]
       /\ \/ /\ \A q \in Platform : row'[q] = IF q = Root(p) THEN ReportRecord ELSE row[q]
             /\ lost' = lost
          \/ row' = row /\ lost' = TRUE
  BY <1>0, <1>2 DEF RecordFailure, Upsert, DbTypes
<1>13. /\ {p} \in SUBSET Platform /\ {p} # {} /\ \A q \in {p} : Root(q) = Root(p)
       /\ ~shared => {p} = {Root(p)}
  BY DEF Root
<1>14. Writes({p}, Root(p), ReportRecord)
  BY <1>3, <1>8, <1>10, <1>12, <1>13 DEF Writes
<1>15. QED
  BY <1>3, <1>6, <1>8, <1>9, <1>10, <1>11, <1>14 DEF Keeps

LEMMA ReportTrust ==
    ASSUME TInv, TrustInv, LoadedInv, ReconcileReport
    PROVE  TrustInv' /\ RowKept
<1>1. queue # <<>> /\ shared' = shared
  BY DEF ReconcileReport, config
<1>2. PICK p \in Platform : p = Head(queue).platform
  BY <1>1, ReportTypes
<1>3. QED
  BY <1>1, <1>2, ReportWrites, WriteTrust

LEMMA NextTrust ==
    ASSUME TInv, TrustInv, LoadedInv, [Next]_vars
    PROVE  TrustInv' /\ RowKept
<1> USE DEF config, envVars, dbVars, memVars, observers, budgets
<1>0. DbTypes /\ MemTypes /\ JobShape /\ job \in Job /\ RecordOK(job.prev) /\ RecordOK(job.cand)
  BY TypeParts DEF TInv, JobTypes, TrustInv, Records
<1>a. RecordOK(NoJob.prev) /\ RecordOK(NoJob.cand)
  BY ConstantTrust DEF NoJob
<1>1. CASE BootMounts \/ BackupDatabase \/ Migrate \/ BootPublish
  <2>1. UNCHANGED <<shared, row, src, lost>>
    BY <1>1 DEF BootMounts, BackupDatabase, Migrate, BootPublish
  <2>2. RecordOK(job'.prev) /\ RecordOK(job'.cand)
    BY <1>0, <1>a, <1>1 DEF BootMounts, BackupDatabase, Migrate, BootPublish, Job
  <2>3. \/ job' = job
        \/ /\ job'.step \in {"check", "schema", "idle", "failed"}
           /\ job'.who \in {"rescan", "recovery"} => job'.step = "check"
    BY <1>0, <1>1, ConstantRecords
       DEF BootMounts, BackupDatabase, Migrate, BootPublish, Job, JobShape, Starting
  <2>4. QED
    BY <2>1, <2>2, <2>3, QuietTrust
<1>2. CASE StartCheck \/ StartWalk \/ StartReconcile \/ StartRow
  BY <1>2, StartTrust
<1>3. CASE InitBegin \/ (\E r \in Platform : Recover(r))
           \/ \E choice \in Platform \cup {"all"}, accept \in BOOLEAN :
                 RescanBegin(choice, accept)
  <2>1. /\ UNCHANGED <<shared, row, src, lost>> /\ job'.step = "check"
        /\ job'.prev = NoJob.prev /\ job'.cand = NoJob.cand
    BY <1>3 DEF InitBegin, Recover, RescanBegin, NoJob
  <2>2. QED
    BY <1>a, <2>1, QuietTrust
<1>4. CASE ScanStep
  BY <1>4, ScanTrust
<1>5. CASE \/ \E r \in Platform, p \in Outages \cup {"home"} : Remount(r, p)
           \/ \E x \in Games : EditSource(x) \/ AcknowledgeMissing(x)
           \/ \E p \in Platform, code \in {"read", "changed"} : ReadFails(p, code)
           \/ UNCHANGED vars
  <2>1. UNCHANGED <<shared, row, src, lost>> /\ job' = job
    BY <1>5 DEF Remount, EditSource, AcknowledgeMissing, ReadFails, vars
  <2>2. QED
    BY <1>0, <2>1, QuietTrust
<1>6. CASE ReconcileReport
  BY <1>6, ReportTrust
<1>7. CASE Restart
  <2>1. /\ src' = [p \in Platform |-> NoRecord] /\ job' = Booting(schema) /\ schema \in 0 .. 3
        /\ UNCHANGED <<row, shared>>
    BY <1>0, <1>7 DEF Restart, DbTypes
  <2>2. job'.who = "boot" /\ job'.step = "mounts"
    BY <2>1, BootingTypes
  <2>3. job'.prev = NoRecord /\ job'.cand = NoRecord
    BY <2>1 DEF Booting, NoJob
  <2>4. Records' /\ MemTrust'
    BY <2>1, <2>3, ConstantTrust DEF TrustInv, Records, MemTrust
  <2>5. JobTrust' /\ RowKept
    BY <2>1, <2>2 DEF JobTrust, RowKept, Keeps
  <2>6. QED
    BY <2>4, <2>5 DEF TrustInv
<1>8. QED
  BY <1>1, <1>2, <1>3, <1>4, <1>5, <1>6, <1>7 DEF Next, StartStep

LEMMA InitTrust == Init => TrustInv /\ LoadedInv
<1> SUFFICES ASSUME Init PROVE TrustInv /\ LoadedInv
  OBVIOUS
<1>1. /\ src = [p \in Platform |-> NoRecord] /\ job = Booting(upgrade) /\ upgrade \in 0 .. 3
      /\ queue = <<>> /\ shown = [x \in Games |-> "unlisted"]
  BY InitTypes, TypeParts DEF TInv, EnvTypes, DbTypes, Init
<1>2. job.who = "boot" /\ job.step = "mounts"
  BY <1>1, BootingTypes
<1>3. job.prev = NoRecord /\ job.cand = NoRecord
  BY <1>1 DEF Booting, NoJob
<1>4. Fs("home") \in {"", "F"}
  BY DEF Fs, Home
<1>5. ASSUME NEW p \in Platform PROVE RecordOK(row[p])
  BY <1>4, ConstantTrust DEF Init, RecordOK
<1>6. Records /\ MemTrust
  BY <1>1, <1>3, <1>5, ConstantTrust DEF Records, MemTrust
<1>7. JobTrust
  BY <1>2 DEF JobTrust
<1>8. \A x \in CubeGames : shown[x] = "unlisted"
  BY <1>1, CubeNotWii
<1>9. Len(queue) = 0
  BY <1>1
<1>10. LoadedInv
  BY <1>1, <1>2, <1>8, <1>9 DEF LoadedInv, Loaded
<1>11. QED
  BY <1>6, <1>7, <1>10 DEF TrustInv

-----------------------------------------------------------------------------
\* The inductive invariant: the shape of a scan, what is served, and what is trusted.
CatalogInv == TInv /\ ServeInv /\ TrustInv /\ LoadedInv

\* Every state of the daemon, whatever happens to the mounts, the writes and the
\* process, satisfies the inductive invariant.
THEOREM CatalogInvariant == Spec => []CatalogInv
<1>1. Init => CatalogInv
  BY InitTypes, InitServe, InitTrust DEF CatalogInv
<1>2. CatalogInv /\ [Next]_vars => CatalogInv'
  BY NextTypes, NextServe, NextTrust, NextLoaded DEF CatalogInv
<1>3. QED
  BY <1>1, <1>2, PTL DEF Spec

\* The variables keep their types, and only startup works on a database that is
\* still being migrated.
THEOREM SourceTypes == Spec => []TypeOK
<1>1. CatalogInv => TypeOK
  BY DEF CatalogInv, TInv
<1>2. QED
  BY <1>1, CatalogInvariant, PTL

\* A running daemon serves the active snapshot and shows an available source as
\* the catalog has it: startup's scans, CommitSourceScan, recordLibraryFailure and
\* acknowledgements keep the table, the snapshot and memory together.
THEOREM ServedCatalogIsStored == Spec => []CatalogIsServed
<1>1. CatalogInv => CatalogIsServed
  BY DEF CatalogInv, ServeInv, Shows, CatalogIsServed
<1>2. QED
  BY <1>1, CatalogInvariant, PTL

\* A root's filesystem is exchanged for another only by the commit of a confirmed
\* relocation: not by startup, the recovery timer, a rescan or a failure record.
THEOREM TrustIsNotExchanged == Spec => TrustNeedsConfirmation
<1>1. CatalogInv /\ [Next]_vars => RowKept
  BY NextTrust DEF CatalogInv
<1>2. RowKept => [\A r \in Platform :
          \/ Filesystem(row[r]) \in {"none", Filesystem(row'[r])}
          \/ job.accept /\ job.step = "finish"
          \/ lost
          \/ shared /\ Filesystem(src["wii"]) # Filesystem(InMemory("gamecube"))]_vars
  BY DEF RowKept, Keeps, Agree
<1>3. QED
  BY <1>1, <1>2, CatalogInvariant, PTL DEF Spec, TrustNeedsConfirmation

-----------------------------------------------------------------------------
\* When a game counts as lost.  What follows is about one game x at a time that was
\* never deleted, as long as no relocation was accepted and at most one disturbance
\* has happened.
RootOf(x) == Root(PlatformOf(x))
Grouped(x) == job.who \in {"rescan", "recovery"} /\ job.root = RootOf(x)
Startup == job.who \in {"boot", "init"}

\* A scan under way has yet to look for the game, has looked, has missed it.
ToWalk(x) ==
    /\ job.step = "walk"
    /\ \/ Startup /\ Own = PlatformOf(x)
       \/ Grouped(x) /\ PlatformOf(x) \notin job.walked
HasWalked(x) ==
    \/ Startup /\ Own = PlatformOf(x) /\ job.step = "reconcile"
    \/ Grouped(x) /\ PlatformOf(x) \in job.walked /\ job.step \in {"walk", "finish"}
Missed(x) == HasWalked(x) /\ x \notin job.found

\* At most n scans in a row have missed the game, and the upgrade has not lost it.
Upgraded(x) == x \in WiiGames /\ upgrade > 0 /\ schema >= 2
Fine(x, n) == cat[x] <= n /\ (Upgraded(x) => cat[x] # -1)
Hit(x) == ~Fine(x, 0) \/ Missed(x)
Away(x) == mount[RootOf(x)] \in {"bare", "other"}
HomeCand == Filesystem(job.cand) = "home" /\ ~job.accept

\* The disturbance that makes a game missed has left nothing else behind: records
\* name their filesystem, apart from one of a GameCube source that was never read.
Named(rec) == rec = NoRecord \/ Filesystem(rec) # "none"
Plain(rec) == Filesystem(rec) = "none" => rec.some = FALSE
Silent == /\ \A y \in CubeGames : shown[y] = "unlisted"
          /\ \A i \in 1 .. Len(queue) : queue[i].platform # "gamecube"
InScan == job.who \in {"rescan", "recovery"} /\ job.step \in {"walk", "finish", "abort"}
Quiet(r) ==
    /\ mount[r] \in {"home", "bare", "other"} /\ ~lost /\ Agree
    /\ r = "wii" => Named(row[r]) /\ \A p \in Platform : Root(p) = r => Named(src[p])
    /\ r = "gamecube" => /\ Plain(row[r]) /\ Plain(src[r])
                         /\ Filesystem(src[r]) = "none" => Silent
    /\ InScan /\ job.root = r => Plain(job.prev)

Untouched(x) == disturbances = 0 => ~Hit(x) /\ mount[RootOf(x)] = "home"
Guarded(x) == disturbances = 0 \/ Away(x) \/ Hit(x) => Quiet(RootOf(x))
Counted(x) == Filesystem(row[RootOf(x)]) = "home" => Fine(x, 1)
MissSound(x) == Missed(x) /\ HomeCand => Fine(x, 0)
WalkSound(x) == ToWalk(x) /\ Away(x) /\ HomeCand => Fine(x, 0)
StartSound(x) ==
    /\ Startup /\ job.step \in {"walk", "reconcile", "row"} /\ Root(Own) = RootOf(x)
    /\ HomeCand /\ (job.step = "row" \/ Own # PlatformOf(x))
    => Fine(x, 1)

\* A scan that fails writes the record it began with.  One that was derived from the
\* mount, for want of a row, belongs to a scan that finds the game.
Finds(x) ==
    /\ mount[RootOf(x)] = "home" /\ disturbances = 1 /\ job.step # "abort"
    /\ Preflight("home", job.cand).state = "available"
    /\ HasWalked(x) => x \in job.found
PrevSound(x) ==
    InScan /\ Grouped(x) /\ Filesystem(job.prev) = "home" => Fine(x, 1) \/ Finds(x)
CubeSound(x) == shared /\ row["wii"] = NoRecord /\ x \in CubeGames => ~Hit(x)

Sound(x) ==
    /\ Untouched(x) /\ Guarded(x) /\ Counted(x) /\ MissSound(x) /\ WalkSound(x)
    /\ StartSound(x) /\ PrevSound(x) /\ CubeSound(x)

Prepared ==
    /\ upgrade > 0 /\ schema < 2 => schema = 1 /\ snapshot = WiiGames
    /\ Games \ removed \subseteq onHome
    /\ disturbances \in Nat
    /\ job.accept => job.who = "rescan"
    /\ job.step = "check" /\ job.who # "boot" => job.walked = {}
    /\ job.step \in {"finish", "abort"} => job.walked = Group(job.root)
    /\ job.step \in {"walk", "reconcile", "row", "finish", "abort"} =>
          Filesystem(job.cand) # "none"

LossInv ==
    /\ Prepared
    /\ \A x \in Games \ removed : ~accepted /\ disturbances < 2 => Sound(x)

-----------------------------------------------------------------------------
\* What preflights say of records without a filesystem, and of the original place.
LEMMA BlankPasses ==
    ASSUME NEW p \in Place, p # "gone", NEW rec \in Record, RecordOK(rec),
           Filesystem(rec) = "none", rec.some = FALSE
    PROVE  Preflight(p, rec).state = "available"
<1>1. rec.fs \in {"", "F", "G"} /\ rec.dev \in {"", "d1", "d2", "d3", "d4"}
  BY DEF Record
<1>2. rec.dev = "" /\ rec.fs = ""
  BY <1>1 DEF RecordOK, Filesystem
<1>3. SameIdentity(p, rec)
  BY <1>2 DEF SameIdentity
<1>4. QED
  BY <1>3 DEF Preflight, Record

LEMMA HomePasses ==
    ASSUME NEW rec \in Record, SameIdentity("home", rec)
    PROVE  Preflight("home", rec).state = "available"
BY DEF Preflight, Record

LEMMA PassedRecord ==
    ASSUME NEW p \in Place, NEW rec \in Record, Preflight(p, rec).state = "available"
    PROVE  /\ p # "gone"
           /\ Filesystem(Preflight(p, rec)) = IF p \in Home THEN "home" ELSE p
           /\ p = "home" => SameIdentity("home", Preflight(p, rec))
<1>1. /\ p # "gone" /\ SameIdentity(p, rec)
      /\ Preflight(p, rec) = [rec EXCEPT !.state = "available", !.dev = Dev(p),
                                         !.fs = IF Fs(p) = "" THEN @ ELSE Fs(p)]
  BY DEF Preflight, Failed, Record, State
<1>2. /\ Preflight(p, rec).dev = Dev(p)
      /\ Preflight(p, rec).fs = IF Fs(p) = "" THEN rec.fs ELSE Fs(p)
  BY <1>1 DEF Record
<1>3. Filesystem(Preflight(p, rec)) = IF p \in Home THEN "home" ELSE p
  BY <1>1, <1>2 DEF Filesystem, Dev, Place, Home
<1>4. p = "home" => SameIdentity("home", Preflight(p, rec))
  BY <1>1, <1>2 DEF SameIdentity
<1>5. QED
  BY <1>1, <1>3, <1>4

LEMMA PassedReplacement ==
    ASSUME NEW p \in Place, NEW rec \in Record, PreflightReplacement(p, rec).state = "available"
    PROVE  /\ p # "gone"
           /\ Filesystem(PreflightReplacement(p, rec)) = IF p \in Home THEN "home" ELSE p
           /\ p = "home" => SameIdentity("home", PreflightReplacement(p, rec))
<1> DEFINE blank == [rec EXCEPT !.fs = "", !.dev = ""]
           look == Preflight(p, blank)
<1>1. blank \in Record
  BY DEF Record
<1>2. look \in Record /\ PreflightReplacement(p, rec) = IF look.state = "available" THEN look
                                                        ELSE Failed(rec, look.state)
  BY <1>1, PreflightTypes DEF PreflightReplacement
<1>3. look.state \in State
  BY <1>2 DEF Record
<1>4. Failed(rec, look.state).state = look.state
  BY <1>3, FailedTypes
<1>5. look.state = "available" /\ PreflightReplacement(p, rec) = look
  <2> HIDE DEF look
  <2>1. QED
    BY <1>2, <1>4
<1>6. QED
  BY <1>1, <1>5, PassedRecord

\* A relocation to the original place always passes.
LEMMA HomeReplacementPasses ==
    ASSUME NEW rec \in Record
    PROVE  PreflightReplacement("home", rec).state = "available"
<1> DEFINE blank == [rec EXCEPT !.fs = "", !.dev = ""]
<1>1. blank \in Record /\ SameIdentity("home", blank)
  BY DEF Record, SameIdentity
<1>2. QED
  BY <1>1, HomePasses DEF PreflightReplacement

\* The record of a database without one for the root.
LEMMA SavedWithoutRow ==
    ASSUME TInv, NEW p \in Platform, row[Root(p)] = NoRecord,
           mount[Root(p)] \in {"home", "bare", "other"}
    PROVE  \/ Saved(p) = Unknown
           \/ /\ Saved(p) \in Record /\ Filesystem(Saved(p)) = mount[Root(p)]
              /\ mount[Root(p)] = "home" => SameIdentity("home", Saved(p))
<1>1. PICK m : m = mount[Root(p)]
  OBVIOUS
<1>2. m \in Place /\ m # "gone" /\ (m \in Home <=> m = "home")
  BY <1>1 DEF Place, Home
<1>3. PICK look : look = Preflight(m, Unknown)
  OBVIOUS
<1>4. look.state = "available"
  <2>1. Filesystem(Unknown) = "none" /\ Unknown.some = FALSE /\ Unknown \in Record /\ RecordOK(Unknown)
    BY ConstantRecords, ConstantTrust DEF Unknown, NoRecord, Filesystem
  <2>2. QED
    BY <1>2, <1>3, <2>1, BlankPasses
<1>5. look \in Record /\ Filesystem(look) = m /\ (m = "home" => SameIdentity("home", look))
  BY <1>2, <1>3, <1>4, PassedRecord, PreflightTypes, ConstantRecords
<1>6. PICK rec : rec = [look EXCEPT !.some = TRUE]
  OBVIOUS
<1>7. rec \in Record /\ rec.fs = look.fs /\ rec.dev = look.dev
  BY <1>5, <1>6 DEF Record
<1>8. Filesystem(rec) = m /\ (m = "home" => SameIdentity("home", rec))
  BY <1>5, <1>7 DEF Filesystem, SameIdentity
<1>9. Saved(p) = Unknown \/ Saved(p) = rec
  BY <1>1, <1>3, <1>6 DEF Saved
<1>10. QED
  BY <1>1, <1>7, <1>8, <1>9

-----------------------------------------------------------------------------
\* Prepared is inductive.
LEMMA QuietPrepared ==
    ASSUME Prepared, UNCHANGED <<shared, upgrade, mount, onHome, removed>>,
           disturbances' \in {disturbances, disturbances + 1},
           UNCHANGED <<schema, snapshot>> \/ schema' >= 2 \/ upgrade = 0,
           schema' \in Nat,
           job'.accept => job'.who = "rescan",
           job'.step = "check" /\ job'.who # "boot" => job'.walked = {},
           job'.step \in {"finish", "abort"} => job'.walked = Group(job'.root),
           job'.step \in {"walk", "reconcile", "row", "finish", "abort"} =>
              Filesystem(job'.cand) # "none"
    PROVE  Prepared'
<1>1. Group(job.root)' = Group(job'.root)
  BY DEF Group
<1>2. QED
  BY <1>1 DEF Prepared

LEMMA NoJobPrepared ==
    /\ NoJob.accept = FALSE /\ NoJob.walked = {} /\ NoJob.step = "idle" /\ NoJob.who = "none"
    /\ NoJob.todo = {}
BY DEF NoJob

\* A scan's candidate names the filesystem it looked at.
LEMMA CandidateNamed ==
    ASSUME TInv
    PROVE  /\ \A p \in Platform : LET record == Preflight(mount[Root(p)], Saved(p)) IN
                 record.state = "available" => Filesystem(record) # "none"
           /\ job.who \in {"rescan", "recovery"} /\ GroupRecord.state = "available" =>
                 Filesystem(GroupRecord) # "none"
<1>0. TypeOK /\ EnvTypes
  BY TypeParts DEF TInv
<1>1. ASSUME NEW p \in Platform, Preflight(mount[Root(p)], Saved(p)).state = "available"
      PROVE  Filesystem(Preflight(mount[Root(p)], Saved(p))) # "none"
  <2>1. mount[Root(p)] \in Place /\ Saved(p) \in Record
    BY <1>0, RootTypes, SavedTypes DEF EnvTypes
  <2>2. QED
    BY <1>1, <2>1, PassedRecord DEF Place
<1>2. ASSUME job.who \in {"rescan", "recovery"}, GroupRecord.state = "available"
      PROVE  Filesystem(GroupRecord) # "none"
  <2>1. mount[job.root] \in Place /\ Previous(job.root) \in Record
    BY <1>2, GroupTypes, GroupRecordTypes
  <2>2. QED
    BY <1>2, <2>1, PassedRecord, PassedReplacement DEF GroupRecord, Place
<1>3. QED
  BY <1>1, <1>2

LEMMA StartPrepared ==
    ASSUME TInv, Prepared, StartCheck \/ StartWalk \/ StartReconcile \/ StartRow
    PROVE  Prepared'
<1> USE DEF config, envVars, dbVars
<1>0. JobShape /\ job \in Job /\ DbTypes /\ Own \in Platform
  BY TypeParts DEF TInv, JobTypes, Own, Platform
<1>1. /\ UNCHANGED <<shared, upgrade, mount, onHome, removed>>
      /\ job.who \in {"boot", "init"} /\ ~job.accept /\ schema = 3
      /\ job.step \in {"check", "walk", "reconcile", "row"}
  BY <1>0 DEF StartCheck, StartWalk, StartReconcile, StartRow, StartFrame, Starting, Prepared,
              JobShape
<1>2. schema' = 3 /\ disturbances' \in {disturbances, disturbances + 1}
  BY <1>1 DEF StartCheck, StartWalk, StartReconcile, StartRow, StartFails, StartLoses, Upsert,
              Walk, Calm, Disturb
<1>3. ASSUME job' = AfterStart PROVE Prepared'
  <2>1. /\ job'.accept => job'.who = "rescan"
        /\ job'.step \in {"publish", "idle"}
    BY <1>0, <1>1, <1>3, NoJobPrepared DEF AfterStart, Job
  <2>2. QED
    BY <1>1, <1>2, <2>1, QuietPrepared
<1>4. ASSUME job'.accept = job.accept, job'.step \in {"walk", "reconcile", "row"},
             Filesystem(job'.cand) # "none"
      PROVE  Prepared'
  BY <1>1, <1>2, <1>4, QuietPrepared
<1>5. CASE StartCheck
  <2>1. PICK record : record = Preflight(mount[Root(Own)], Saved(Own))
    OBVIOUS
  <2>2. CASE record.state = "available"
    <3>1. job' = [job EXCEPT !.step = "walk", !.cand = record]
      BY <1>5, <2>1, <2>2 DEF StartCheck
    <3>2. job'.accept = job.accept /\ job'.step = "walk" /\ job'.cand = record
      BY <1>0, <3>1 DEF Job
    <3>3. Filesystem(record) # "none"
      BY <1>0, <2>1, <2>2, CandidateNamed
    <3>4. QED
      BY <1>4, <3>2, <3>3
  <2>3. CASE record.state # "available"
    BY <1>3, <1>5, <2>1, <2>3 DEF StartCheck, StartFails
  <2>4. QED
    BY <2>2, <2>3
<1>6. CASE StartWalk \/ StartReconcile \/ StartRow
  <2>1. Filesystem(job.cand) # "none"
    BY <1>6 DEF Prepared, StartWalk, StartReconcile, StartRow, Starting
  <2>2. CASE job' = AfterStart
    BY <1>3, <2>2
  <2>3. CASE job' # AfterStart
    <3>1. \/ \E found : job' = [job EXCEPT !.step = "reconcile", !.found = found]
          \/ job' = [job EXCEPT !.step = "row"]
      BY <1>6, <2>3 DEF StartWalk, StartReconcile, StartRow, StartFails, StartLoses
    <3>2. job'.accept = job.accept /\ job'.step \in {"reconcile", "row"} /\ job'.cand = job.cand
      BY <1>0, <3>1 DEF Job
    <3>3. QED
      BY <1>4, <2>1, <3>2
  <2>4. QED
    BY <2>2, <2>3
<1>7. QED
  BY <1>5, <1>6

LEMMA ScanPrepared ==
    ASSUME TInv, Prepared, ScanStep
    PROVE  Prepared'
<1> USE DEF config, envVars
<1>0. JobShape /\ job \in Job /\ DbTypes
  BY TypeParts DEF TInv, JobTypes
<1>1. /\ UNCHANGED <<shared, upgrade, mount, onHome, removed>>
      /\ job.who \in {"rescan", "recovery"} /\ schema = 3
  BY <1>0 DEF ScanStep, GroupCheck, GroupWalk, GroupFinish, GroupAbort, ScanFrame, Scanning,
              JobShape
<1>2. schema' = 3 /\ disturbances' \in {disturbances, disturbances + 1}
  BY <1>1 DEF ScanStep, GroupCheck, GroupWalk, GroupFinish, GroupAbort, ScanFrame, GroupFails,
              RecordFailure, Upsert, Walk, Calm, Disturb
<1>3. ASSUME job' = AfterGroup PROVE Prepared'
  <2>1. /\ job'.accept => job'.who = "rescan"
        /\ job'.step \in {"check", "idle"} /\ job'.walked = {}
    BY <1>0, <1>3 DEF AfterGroup, NoJob, Prepared, Job
  <2>2. QED
    BY <1>1, <1>2, <2>1, QuietPrepared
<1>4. ASSUME job'.accept = job.accept, job'.who = job.who, job'.step \in {"walk", "finish", "abort"},
             job'.step \in {"finish", "abort"} => job'.walked = Group(job.root),
             Filesystem(job'.cand) # "none", job'.root = job.root
      PROVE  Prepared'
  <2>1. job'.accept => job'.who = "rescan"
    BY <1>4 DEF Prepared
  <2>2. QED
    BY <1>1, <1>2, <1>4, <2>1, QuietPrepared
<1>5. CASE job' = AfterGroup
  BY <1>3, <1>5
<1>6. CASE job' # AfterGroup
  <2>1. CASE GroupCheck
    <3>1. /\ job' = [job EXCEPT !.step = "walk", !.prev = Previous(job.root), !.cand = GroupRecord]
          /\ GroupRecord.state = "available"
      BY <1>6, <2>1 DEF GroupCheck, GroupFails, GroupRecord
    <3>2. /\ job'.accept = job.accept /\ job'.who = job.who /\ job'.step = "walk"
          /\ job'.root = job.root /\ job'.cand = GroupRecord
      BY <1>0, <3>1 DEF Job
    <3>3. QED
      BY <1>1, <1>4, <3>1, <3>2, CandidateNamed
  <2>2. CASE GroupWalk
    <3>0. Filesystem(job.cand) # "none"
      BY <2>2 DEF GroupWalk, Scanning, Prepared
    <3>a. PICK s : s = IF job.walked \cup {Walked} = Group(job.root) THEN "finish" ELSE "walk"
      OBVIOUS
    <3>1. PICK found :
             job' = [job EXCEPT !.found = @ \cup found, !.walked = @ \cup {Walked}, !.step = s]
      BY <1>6, <2>2, <3>a DEF GroupWalk, GroupFails, Walked
    <3>2. /\ job'.accept = job.accept /\ job'.who = job.who /\ job'.step = s
          /\ job'.root = job.root /\ job'.cand = job.cand /\ job'.walked = job.walked \cup {Walked}
      BY <1>0, <3>1 DEF Job
    <3>3. QED
      BY <1>4, <3>0, <3>a, <3>2
  <2>3. CASE GroupFinish
    <3>0. Filesystem(job.cand) # "none" /\ job.walked = Group(job.root)
      BY <2>3 DEF GroupFinish, Scanning, Prepared
    <3>1. job' = [job EXCEPT !.step = "abort"]
      BY <1>6, <2>3 DEF GroupFinish, GroupFails
    <3>2. /\ job'.accept = job.accept /\ job'.who = job.who /\ job'.step = "abort"
          /\ job'.root = job.root /\ job'.cand = job.cand /\ job'.walked = job.walked
      BY <1>0, <3>1 DEF Job
    <3>3. QED
      BY <1>4, <3>0, <3>2
  <2>4. CASE GroupAbort
    BY <1>6, <2>4 DEF GroupAbort, GroupFails
  <2>5. QED
    BY <2>1, <2>2, <2>3, <2>4 DEF ScanStep
<1>7. QED
  BY <1>5, <1>6

LEMMA NextPrepared ==
    ASSUME TInv, Prepared, [Next]_vars
    PROVE  Prepared'
<1> USE DEF config, envVars, dbVars, memVars, observers, budgets
<1>0. JobShape /\ job \in Job /\ DbTypes /\ upgrade \in 0 .. 3
  BY TypeParts, CatalogAssumption DEF TInv, JobTypes, EnvTypes
<1>1. CASE BootMounts \/ BackupDatabase \/ Migrate
  <2>1. /\ UNCHANGED <<shared, upgrade, mount, onHome, removed, disturbances, snapshot>>
        /\ job'.accept = job.accept /\ job'.walked = job.walked /\ job'.who = job.who
        /\ job'.step \in {"schema", "check"}
    BY <1>0, <1>1 DEF BootMounts, BackupDatabase, Migrate, Job
  <2>a. job.step \in {"mounts", "schema"}
    BY <1>1 DEF BootMounts, BackupDatabase, Migrate
  <2>2. job.who = "boot"
    BY <1>0, <2>a DEF JobShape, NoJob, Job
  <2>3. schema' \in Nat /\ (schema' = schema \/ (schema' = schema + 1 /\ schema < 3))
    BY <1>0, <1>1 DEF BootMounts, BackupDatabase, Migrate, DbTypes, JobShape
  <2>4. UNCHANGED <<schema, snapshot>> \/ schema' >= 2 \/ upgrade = 0
    BY <1>0, <2>1, <2>3 DEF Prepared, DbTypes
  <2>5. QED
    BY <2>1, <2>2, <2>3, <2>4, QuietPrepared DEF Prepared
<1>2. CASE StartCheck \/ StartWalk \/ StartReconcile \/ StartRow
  BY <1>2, StartPrepared
<1>3. CASE BootPublish
  <2>1. /\ UNCHANGED <<shared, upgrade, mount, onHome, removed, schema>>
        /\ disturbances' \in {disturbances, disturbances + 1} /\ schema = 3 /\ ~job.accept
    BY <1>0, <1>3 DEF BootPublish, Calm, Disturb, Starting, JobShape, Prepared
  <2>2. job' = NoJob \/ job' = [job EXCEPT !.step = "failed"]
    BY <1>3 DEF BootPublish
  <2>3. job'.step \in {"idle", "failed"} /\ job'.accept = FALSE
    BY <1>0, <2>1, <2>2 DEF NoJob, Job
  <2>4. QED
    BY <2>1, <2>3, QuietPrepared
<1>4. CASE InitBegin \/ (\E r \in Platform : Recover(r))
           \/ \E choice \in Platform \cup {"all"}, accept \in BOOLEAN :
                 RescanBegin(choice, accept)
  <2>1. UNCHANGED <<shared, upgrade, mount, onHome, removed, disturbances, schema, snapshot>>
    BY <1>4 DEF InitBegin, Recover, RescanBegin
  <2>2. /\ job'.step = "check" /\ job'.walked = {} /\ (job'.accept => job'.who = "rescan")
    BY <1>4 DEF InitBegin, Recover, RescanBegin, NoJob
  <2>3. schema' \in Nat
    BY <1>0, <2>1 DEF DbTypes
  <2>4. QED
    BY <2>1, <2>2, <2>3, QuietPrepared
<1>5. CASE ScanStep
  BY <1>5, ScanPrepared
<1>6. CASE \/ \E x \in Games : AcknowledgeMissing(x)
           \/ \E p \in Platform, code \in {"read", "changed"} : ReadFails(p, code)
           \/ ReconcileReport \/ UNCHANGED vars
  <2>1. /\ UNCHANGED <<shared, upgrade, mount, onHome, removed, schema, snapshot, job>>
        /\ disturbances' \in {disturbances, disturbances + 1}
    BY <1>6 DEF AcknowledgeMissing, ReadFails, ReconcileReport, RecordFailure, Upsert, Calm,
                Disturb, vars
  <2>2. Group(job.root)' = Group(job.root)
    BY <2>1 DEF Group
  <2>3. QED
    BY <2>1, <2>2 DEF Prepared
<1>7. CASE Restart
  <2>1. /\ UNCHANGED <<shared, upgrade, mount, onHome, removed, disturbances, schema, snapshot>>
        /\ job' = Booting(schema) /\ schema \in 0 .. 3
    BY <1>0, <1>7 DEF Restart, DbTypes
  <2>2. job'.who = "boot" /\ job'.step = "mounts" /\ job'.accept = FALSE
    BY <2>1 DEF Booting, NoJob
  <2>3. QED
    BY <2>1, <2>2, QuietPrepared
<1>8. CASE \/ \E r \in Platform, p \in Outages \cup {"home"} : Remount(r, p)
           \/ \E x \in Games : EditSource(x)
  <2>1. /\ UNCHANGED <<shared, upgrade, schema, snapshot, job>>
        /\ disturbances' \in {disturbances, disturbances + 1}
        /\ (Games \ removed \subseteq onHome) => (Games \ removed' \subseteq onHome')
    BY <1>8 DEF Remount, EditSource, Calm, Disturb
  <2>2. Group(job.root)' = Group(job.root)
    BY <2>1 DEF Group
  <2>3. QED
    BY <2>1, <2>2 DEF Prepared
<1>9. QED
  BY <1>1, <1>2, <1>3, <1>4, <1>5, <1>6, <1>7, <1>8 DEF Next, StartStep

LEMMA InitPrepared == Init => Prepared
<1> SUFFICES ASSUME Init PROVE Prepared
  OBVIOUS
<1>1. upgrade \in 0 .. 3 /\ job = Booting(upgrade) /\ schema = upgrade
  BY InitTypes, TypeParts DEF TInv, EnvTypes, DbTypes, Init
<1>2. job.who = "boot" /\ job.step = "mounts" /\ job.accept = FALSE
  BY <1>1 DEF Booting, NoJob
<1>3. /\ removed = {} /\ onHome = Games /\ disturbances = 0
      /\ snapshot = IF upgrade = 0 THEN {} ELSE WiiGames
  BY DEF Init
<1>4. upgrade > 0 /\ schema < 2 => schema = 1 /\ snapshot = WiiGames
  BY <1>1, <1>3
<1>5. Games \ removed \subseteq onHome /\ disturbances \in Nat
  BY <1>3
<1>6. QED
  BY <1>2, <1>4, <1>5 DEF Prepared

-----------------------------------------------------------------------------
\* One game.
LEMMA FineTypes ==
    ASSUME TInv, NEW x \in Games
    PROVE  /\ cat[x] \in -1 .. 2 /\ (Fine(x, 0) => Fine(x, 1))
           /\ RootOf(x) \in Platform /\ mount[RootOf(x)] \in Place
           /\ RootOf(x) = "gamecube" => ~shared
           /\ shared => RootOf(x) = "wii"
<1>0. DbTypes /\ EnvTypes
  BY TypeParts DEF TInv
<1>1. cat[x] \in -1 .. 2
  BY <1>0 DEF DbTypes, Catalogs, Threshold
<1>2. RootOf(x) \in Platform /\ mount[RootOf(x)] \in Place
  BY <1>0, RootTypes, PlatformOfGames DEF RootOf, EnvTypes
<1>3. QED
  BY <1>1, <1>2 DEF Fine, RootOf, Root

LEMMA RootFrame ==
    ASSUME shared' = shared
    PROVE  /\ \A p : Root(p)' = Root(p)
           /\ \A x : RootOf(x)' = RootOf(x) /\ PlatformOf(x)' = PlatformOf(x)
BY DEF Root, RootOf, PlatformOf

\* What Fine depends on.
LEMMA FineFrame ==
    ASSUME UNCHANGED <<upgrade, schema>>, NEW x, cat'[x] = cat[x]
    PROVE  \A n : Fine(x, n)' = Fine(x, n)
BY DEF Fine, Upgraded

\* No scan is under way after the step.
LEMMA AtRest ==
    ASSUME NEW x \in Games, Sound(x), Prepared, shared' = shared, mount' = mount,
           disturbances' \in {disturbances, disturbances + 1},
           job'.step \notin {"walk", "reconcile", "row", "finish", "abort"},
           Hit(x)' => Hit(x), Guarded(x)', Counted(x)'
    PROVE  Untouched(x)' /\ MissSound(x)' /\ WalkSound(x)' /\ StartSound(x)' /\ PrevSound(x)'
<1>1. RootOf(x)' = RootOf(x)
  BY RootFrame
<1>2. disturbances \in Nat
  BY DEF Prepared
<1>3. Untouched(x)'
  BY <1>1, <1>2 DEF Sound, Untouched
<1>4. ~HasWalked(x)' /\ ~ToWalk(x)' /\ ~InScan'
  BY DEF HasWalked, ToWalk, InScan
<1>5. QED
  BY <1>3, <1>4 DEF MissSound, Missed, WalkSound, StartSound, PrevSound

\* The end of a scan, or of a report: record is written for platforms P of root r.
Stored(r, record) == row'[r] = record /\ lost' = lost
Lands(x, P, r, record) ==
    /\ Writes(P, r, record) /\ record # NoRecord /\ Settled /\ shared' = shared /\ mount' = mount
    /\ disturbances' \in {disturbances, disturbances + 1} /\ disturbances' < 2
    /\ Stored(r, record) \/ disturbances' = disturbances + 1
    /\ Hit(x)' => Hit(x)
    /\ "wii" \in P \/ src["wii"] # NoRecord \/ ~shared
    /\ RootOf(x) = "gamecube" /\ Quiet("gamecube") /\ Silent
       /\ (r = "wii" \/ Filesystem(record) = "none") => Silent'
    /\ r = RootOf(x) /\ Quiet(r) =>
          /\ Keeps(row[r], record)
          /\ r = "wii" => Filesystem(record) # "none"
          /\ r = "gamecube" => Plain(record) /\ (Filesystem(record) = "none" => Silent)
    /\ r = RootOf(x) /\ Filesystem(record) = "home" /\ Stored(r, record) => Fine(x, 1)'
    /\ Fine(x, 1) /\ ~(r = RootOf(x) /\ Stored(r, record)) => Fine(x, 1)'

LEMMA LandsAgree ==
    ASSUME TInv, TrustInv, NEW P, NEW r, NEW record, Writes(P, r, record), shared, Quiet("wii"),
           shared' = shared, r = "wii", Keeps(row[r], record), Filesystem(record) # "none",
           "wii" \in P \/ src["wii"] # NoRecord
    PROVE  Agree'
<1>1. MemTrust /\ ~lost /\ Agree /\ \A p \in Platform : Named(src[p])
  BY DEF TrustInv, Quiet, Root
<1>2. \A p \in Platform : src[p] # NoRecord => Filesystem(src[p]) = Filesystem(row["wii"])
  BY <1>1 DEF MemTrust, Root
<1>3. \A p \in Platform : src[p] # NoRecord => Filesystem(src[p]) # "none"
  BY <1>1 DEF Named
<1>4. \A p \in Platform : src[p] # NoRecord => Filesystem(src[p]) = Filesystem(record)
  BY <1>2, <1>3 DEF Keeps
<1>5. \A p \in Platform : src'[p] = IF p \in P THEN record ELSE src[p]
  BY DEF Writes
<1>6. \A p \in Platform : src'[p] = NoRecord \/ Filesystem(src'[p]) = Filesystem(record)
  BY <1>4, <1>5
<1>7. src'["wii"] = NoRecord => Filesystem(record) = "none"
  BY <1>5, ConstantTrust DEF Platform
<1>8. QED
  BY <1>6, <1>7 DEF Agree, InMemory, Platform

LEMMA LandsSound ==
    ASSUME TInv, TrustInv, Prepared, NEW x \in Games, Sound(x), NEW P, NEW r, NEW record,
           Lands(x, P, r, record)
    PROVE  Sound(x)'
<1>a. PICK R \in Platform : R = RootOf(x)
  BY FineTypes
<1>b. RootOf(x)' = R /\ \A p : Root(p)' = Root(p)
  BY <1>a, RootFrame DEF Lands
<1>0. /\ row \in [Platform -> Record] /\ src \in [Platform -> Record] /\ disturbances \in Nat
      /\ Writes(P, r, record) /\ r \in Platform
  BY TypeParts DEF TInv, DbTypes, MemTypes, Prepared, Lands, Writes
<1>1. /\ job'.step \notin {"walk", "reconcile", "row", "finish", "abort"}
      /\ ~HasWalked(x)' /\ ~InScan'
  BY DEF Lands, Settled, HasWalked, InScan
<1>2. ASSUME disturbances' = 0 \/ Away(x)' \/ Hit(x)' PROVE Quiet(R)'
  <2>1. disturbances = 0 \/ Away(x) \/ Hit(x)
    BY <1>a, <1>b, <1>0, <1>2 DEF Lands, Away
  <2>2. Quiet(R)
    BY <1>a, <2>1 DEF Sound, Guarded
  <2>3. ~lost' /\ lost' = lost
    <3>1. CASE Stored(r, record)
      BY <2>2, <3>1 DEF Quiet, Stored
    <3>2. CASE disturbances' = disturbances + 1
      <4>1. disturbances = 0 /\ disturbances' = 1
        BY <1>0, <3>2 DEF Lands
      <4>2. ~Hit(x) /\ ~Away(x)
        BY <4>1 DEF Sound, Untouched, Away
      <4>3. QED
        BY <1>a, <1>b, <1>2, <4>1, <4>2 DEF Lands, Away
    <3>3. QED
      BY <3>1, <3>2 DEF Lands
  <2>4. /\ \A q \in Platform : row'[q] = IF q = r THEN record ELSE row[q]
        /\ \A p \in Platform : src'[p] = IF p \in P THEN record ELSE src[p]
        /\ \A p \in P : Root(p) = r
    BY <1>0, <2>3 DEF Writes
  <2>5. mount'[R] \in {"home", "bare", "other"}
    BY <2>2 DEF Quiet, Lands
  <2>6. CASE r = R
    <3>1. /\ Keeps(row[r], record)
          /\ r = "wii" => Filesystem(record) # "none"
          /\ r = "gamecube" => Plain(record) /\ (Filesystem(record) = "none" => Silent)
      BY <1>a, <2>2, <2>6 DEF Lands
    <3>2. Agree'
      <4>1. CASE ~shared
        BY <4>1 DEF Agree, Lands
      <4>2. CASE shared
        <5>1. r = "wii" /\ ("wii" \in P \/ src["wii"] # NoRecord) /\ shared' = shared
          BY <1>a, <2>6, <4>2, FineTypes DEF Lands
        <5>2. Filesystem(record) # "none" /\ Quiet("wii")
          BY <2>2, <2>6, <3>1, <5>1
        <5>3. QED
          BY <1>0, <3>1, <4>2, <5>1, <5>2, LandsAgree
      <4>3. QED
        BY <4>1, <4>2
    <3>3. row'[R] = record
      BY <2>4, <2>6
    <3>4. R = "wii" => /\ Named(row'[R])
                       /\ \A p \in Platform : Root(p)' = R => Named(src'[p])
      BY <1>b, <2>2, <2>4, <2>6, <3>1, <3>3 DEF Quiet, Named
    <3>5. ASSUME R = "gamecube"
          PROVE  Plain(row'[R]) /\ Plain(src'[R]) /\ (Filesystem(src'[R]) = "none" => Silent')
      <4>1. ~shared
        BY <1>a, <3>5, FineTypes
      <4>2. P = {r}
        BY <1>0, <4>1 DEF Writes
      <4>3. src'[R] = record
        BY <2>4, <2>6, <4>2
      <4>4. Filesystem(record) = "none" => Silent'
        BY <1>a, <2>2, <2>6, <3>1, <3>5 DEF Lands
      <4>5. QED
        BY <2>6, <3>1, <3>3, <3>5, <4>3, <4>4
    <3>6. QED
      BY <1>1, <2>3, <2>5, <3>2, <3>4, <3>5 DEF Quiet, Plain, Named
  <2>7. CASE r # R
    <3>1. ~shared
      <4>1. SUFFICES ASSUME shared PROVE FALSE
        OBVIOUS
      <4>2. R = "wii" /\ P # {} /\ P \in SUBSET Platform
        BY <1>a, <1>0, <4>1, FineTypes DEF Writes
      <4>3. PICK p \in P : TRUE
        BY <4>2
      <4>4. Root(p) = "wii"
        BY <4>1 DEF Root
      <4>5. QED
        BY <2>4, <2>7, <4>2, <4>3, <4>4
    <3>2. P = {r} /\ Agree'
      BY <1>0, <3>1 DEF Writes, Lands, Agree
    <3>3. row'[R] = row[R] /\ src'[R] = src[R]
      BY <2>4, <2>7, <3>2
    <3>4. \A p \in Platform : Root(p)' = R => p = R
      BY <1>b, <3>1 DEF Root
    <3>5. R = "gamecube" /\ Silent => Silent'
      BY <1>a, <1>0, <2>2, <2>7 DEF Lands, Platform
    <3>6. Root(R) = R
      BY <3>1 DEF Root
    <3>7. QED
      BY <1>1, <2>2, <2>3, <2>5, <3>2, <3>3, <3>4, <3>5, <3>6 DEF Quiet
  <2>8. QED
    BY <2>6, <2>7
<1>3. Guarded(x)'
  BY <1>b, <1>2 DEF Guarded
<1>4. Counted(x)'
  <2>1. CASE r = R /\ Stored(r, record)
    BY <1>a, <1>b, <2>1 DEF Counted, Lands, Stored
  <2>2. CASE ~(r = R /\ Stored(r, record))
    <3>1. row'[R] = row[R]
      BY <1>0, <2>2 DEF Writes, Stored
    <3>2. Fine(x, 1) => Fine(x, 1)'
      BY <1>a, <2>2 DEF Lands
    <3>3. QED
      BY <1>a, <1>b, <3>1, <3>2 DEF Counted, Sound
  <2>3. QED
    BY <2>1, <2>2
<1>5. CubeSound(x)'
  <2>1. row'["wii"] = NoRecord => row["wii"] = NoRecord
    BY <1>0 DEF Writes, Lands, Platform
  <2>2. QED
    BY <2>1 DEF CubeSound, Sound, Lands
<1>6. QED
  BY <1>1, <1>3, <1>4, <1>5, AtRest DEF Sound, Lands

\* What a startup scan leaves when it ends.
LEMMA StartLands ==
    ASSUME TInv, TrustInv, LoadedInv, Prepared, NEW x \in Games, Sound(x), disturbances' < 2,
           Starting("check") \/ Starting("walk") \/ Starting("reconcile") \/ Starting("row"),
           StartFrame, UNCHANGED <<cat, schema>>,
           NEW record \in Record, RecordOK(record), record.state # "none",
           Keeps(row[Root(Own)], record),
           src' = [src EXCEPT ![Own] = record], job' = AfterStart,
           \A y \in Games \ GamesOf(Own) : shown'[y] = shown[y],
           \/ /\ row' = [row EXCEPT ![Root(Own)] = record] /\ lost' = lost
              /\ disturbances' = disturbances
           \/ row' = row /\ lost' = TRUE /\ disturbances' = disturbances + 1,
           Root(Own) = RootOf(x) =>
              /\ Quiet(RootOf(x)) => Filesystem(record) # "none"
              /\ disturbances' = disturbances /\ Filesystem(record) = "home" => Fine(x, 1)
    PROVE  Sound(x)'
<1>0. DbTypes /\ MemTypes /\ job \in Job /\ JobShape /\ Records /\ disturbances \in Nat
  BY TypeParts DEF TInv, JobTypes, TrustInv, Prepared
<1>1. Own \in Platform /\ Root(Own) \in Platform
  BY RootTypes DEF Own, Platform
<1>2. \A p \in Platform : src'[p] = IF p \in {Own} THEN record ELSE src[p]
  BY <1>0 DEF MemTypes
<1>3. record # NoRecord
  BY ConstantRecords
<1>4. /\ job'.step \in {"publish", "idle"} /\ job'.who \in {"boot", "none"}
      /\ RecordOK(job'.prev) /\ RecordOK(job'.cand)
  BY <1>0, ConstantTrust DEF AfterStart, NoJob, Job, Records
<1>5. Settled
  BY <1>4 DEF Settled
<1>6. \/ /\ \A q \in Platform : row'[q] = IF q = Root(Own) THEN record ELSE row[q]
         /\ lost' = lost
      \/ row' = row /\ lost' = TRUE
  BY <1>0 DEF DbTypes
<1>7. /\ {Own} \in SUBSET Platform /\ {Own} # {} /\ \A p \in {Own} : Root(p) = Root(Own)
      /\ ~shared => {Own} = {Root(Own)}
  BY <1>1 DEF Root
<1>8. Writes({Own}, Root(Own), record)
  BY <1>1, <1>2, <1>3, <1>6, <1>7 DEF Writes
<1>9. UNCHANGED <<shared, mount, upgrade, queue>>
  BY DEF StartFrame, config, envVars
<1>10. (\A n : Fine(x, n)' = Fine(x, n)) /\ (Hit(x)' => Hit(x))
  <2>1. \A n : Fine(x, n)' = Fine(x, n)
    BY <1>9, FineFrame
  <2>2. ~HasWalked(x)'
    BY <1>4 DEF HasWalked
  <2>3. QED
    BY <2>1, <2>2 DEF Hit, Missed
<1>11. "wii" \in {Own} \/ src["wii"] # NoRecord
  <2>1. job.who = "boot" \/ Loaded
    BY DEF Loaded
  <2>2. QED
    BY <2>1 DEF LoadedInv, Own
<1>12. Stored(Root(Own), record) \/ disturbances' = disturbances + 1
  BY <1>0, <1>1 DEF Stored, DbTypes
<1>13. Root(Own) = "wii" /\ Silent => Silent' \/ shared
  <2>1. ASSUME Root(Own) = "wii", ~shared, Silent PROVE Silent'
    <3>1. Own = "wii"
      BY <2>1 DEF Root
    <3>2. \A y \in CubeGames : shown'[y] = shown[y]
      BY <3>1, CubeNotWii
    <3>3. QED
      BY <1>9, <2>1, <3>2 DEF Silent
  <2>2. QED
    BY <2>1
<1>14. PICK r : r = Root(Own)
  OBVIOUS
<1>15. RootOf(x) = "gamecube" /\ Quiet("gamecube") /\ Silent
         /\ (r = "wii" \/ Filesystem(record) = "none") => Silent'
  BY <1>1, <1>13, <1>14, FineTypes DEF Platform
<1>16. /\ r = RootOf(x) /\ Quiet(r) =>
            /\ Keeps(row[r], record)
            /\ r = "wii" => Filesystem(record) # "none"
            /\ r = "gamecube" => Plain(record) /\ (Filesystem(record) = "none" => Silent)
       /\ r = RootOf(x) /\ Filesystem(record) = "home" /\ Stored(r, record) => Fine(x, 1)'
       /\ Fine(x, 1) => Fine(x, 1)'
  <2>1. r = RootOf(x) /\ Quiet(r) => Filesystem(record) # "none"
    BY <1>14
  <2>2. r = RootOf(x) /\ Filesystem(record) = "home" /\ Stored(r, record) => Fine(x, 1)
    <3>1. CASE disturbances' = disturbances
      BY <1>14, <3>1
    <3>2. CASE disturbances' = disturbances + 1
      <4>1. disturbances = 0
        BY <1>0, <3>2
      <4>2. Fine(x, 0)
        BY <4>1 DEF Sound, Untouched, Hit
      <4>3. QED
        BY <4>2, FineTypes
    <3>3. QED
      BY <3>1, <3>2
  <2>3. QED
    BY <1>10, <1>14, <2>1, <2>2 DEF Plain
<1>17. Lands(x, {Own}, r, record)
  BY <1>3, <1>5, <1>8, <1>9, <1>10, <1>11, <1>12, <1>14, <1>15, <1>16 DEF Lands
<1>18. QED
  BY <1>17, LandsSound

\* A startup scan that goes on has written nothing but, perhaps, the catalog.
LEMMA StartOn ==
    ASSUME TInv, Prepared, NEW x \in Games, Sound(x), StartFrame, disturbances' < 2,
           disturbances' \in {disturbances, disturbances + 1},
           UNCHANGED <<row, src, shown, lost>>, job'.who = job.who, job.who \in {"boot", "init"},
           Hit(x)' => Hit(x) \/ Away(x) \/ disturbances = 0,
           disturbances' = 0 => ~Hit(x)', shared /\ x \in CubeGames /\ Hit(x)' => row["wii"] # NoRecord,
           Counted(x)', MissSound(x)', WalkSound(x)', StartSound(x)'
    PROVE  Sound(x)'
<1>1. UNCHANGED <<shared, mount, queue>> /\ disturbances \in Nat
  BY DEF StartFrame, config, envVars, Prepared
<1>2. (\A p : Root(p)' = Root(p)) /\ RootOf(x)' = RootOf(x) /\ PlatformOf(x)' = PlatformOf(x)
  BY <1>1, RootFrame
<1>3. Agree' = Agree /\ Silent' = Silent
  BY <1>1 DEF Agree, InMemory, Silent
<1>4. ~InScan'
  BY DEF InScan
<1>5. Quiet(RootOf(x)) => Quiet(RootOf(x))'
  BY <1>1, <1>2, <1>3, <1>4 DEF Quiet
<1>6. Guarded(x)'
  BY <1>1, <1>2, <1>5 DEF Sound, Guarded, Away
<1>7. Untouched(x)'
  BY <1>1, <1>2 DEF Sound, Untouched
<1>8. PrevSound(x)' /\ CubeSound(x)'
  BY <1>1, <1>4 DEF PrevSound, CubeSound
<1>9. QED
  BY <1>6, <1>7, <1>8 DEF Sound

\* The saved record of a root that nothing else has disturbed.
LEMMA SavedQuiet ==
    ASSUME TInv, NEW p \in Platform, Quiet(Root(p))
    PROVE  /\ Plain(Saved(p))
           /\ Filesystem(Saved(p)) = "home" =>
                 \/ Filesystem(row[Root(p)]) = "home"
                 \/ /\ mount[Root(p)] = "home" /\ row[Root(p)] = NoRecord
                    /\ SameIdentity("home", Saved(p))
<1>1. mount[Root(p)] \in {"home", "bare", "other"} /\ Root(p) \in Platform
  BY RootTypes DEF Quiet
<1>2. CASE row[Root(p)] = NoRecord
  <2>1. Unknown.some = FALSE /\ Filesystem(Unknown) = "none"
    BY DEF Unknown, NoRecord, Filesystem
  <2>2. QED
    BY <1>1, <1>2, <2>1, SavedWithoutRow DEF Plain
<1>3. CASE row[Root(p)] # NoRecord
  <2>1. Saved(p) = row[Root(p)]
    BY <1>3 DEF Saved
  <2>2. QED
    BY <1>1, <1>3, <2>1 DEF Quiet, Named, Plain, Platform
<1>4. QED
  BY <1>2, <1>3

\* A daemon that runs has written the row of the Wii root.
LEMMA RowOfRunning ==
    ASSUME TrustInv, LoadedInv, Quiet("wii"), job.who # "boot"
    PROVE  Filesystem(row["wii"]) # "none" /\ row["wii"] # NoRecord
<1>1. src["wii"] # NoRecord /\ Named(src["wii"])
  BY DEF LoadedInv, Loaded, Quiet, Root, Platform
<1>2. Filesystem(row["wii"]) = Filesystem(src["wii"])
  BY <1>1 DEF TrustInv, MemTrust, Quiet, Root, Platform
<1>3. QED
  BY <1>1, <1>2, ConstantTrust DEF Named

LEMMA StartCheckSound ==
    ASSUME TInv, TrustInv, LoadedInv, Prepared, NEW x \in Games, Sound(x), disturbances' < 2,
           StartCheck
    PROVE  Sound(x)'
<1>0. EnvTypes /\ DbTypes /\ JobShape /\ TypeOK /\ job \in Job /\ Records /\ StartFrame
      /\ disturbances \in Nat /\ job.who \in {"boot", "init"} /\ job.step = "check"
  BY TypeParts DEF TInv, JobTypes, TrustInv, StartCheck, Starting, Prepared
<1>1. Own \in Platform /\ Root(Own) \in Platform /\ mount[Root(Own)] \in Place
  BY <1>0, RootTypes DEF Own, Platform, EnvTypes
<1>a. UNCHANGED <<shared, mount, upgrade>>
  BY <1>0 DEF StartFrame, config, envVars
<1>2. PICK saved : saved = Saved(Own)
  OBVIOUS
<1>3. PICK record : record = Preflight(mount[Root(Own)], saved)
  OBVIOUS
<1>4. /\ saved \in Record /\ RecordOK(saved) /\ Keeps(row[Root(Own)], saved)
      /\ record \in Record /\ RecordOK(record) /\ Keeps(saved, record) /\ record.state # "none"
      /\ record.state # "available" => record = Failed(saved, record.state)
  BY <1>0, <1>1, <1>2, <1>3, SavedTypes, SavedTrust, PreflightTypes, PreflightTrust
<1>5. Keeps(row[Root(Own)], record)
  BY <1>4, KeepsTransitive
<1>6. ~Quiet(RootOf(x)) => Fine(x, 1)
  BY FineTypes DEF Sound, Guarded, Hit
<1>7. CASE record.state # "available"
  <2>1. StartFails(record)
    BY <1>0, <1>2, <1>3, <1>7 DEF StartCheck
  <2>2. Filesystem(record) = Filesystem(saved)
    BY <1>4, <1>7, SameFilesystem
  <2>3. ASSUME Root(Own) = RootOf(x), Quiet(RootOf(x)) PROVE Filesystem(record) # "none"
    <3>1. SUFFICES ASSUME Filesystem(saved) = "none" PROVE FALSE
      BY <2>2
    <3>2. saved.some = FALSE
      BY <1>1, <1>2, <2>3, <3>1, SavedQuiet DEF Plain
    <3>3. mount[Root(Own)] # "gone"
      BY <2>3 DEF Quiet
    <3>4. QED
      BY <1>1, <1>3, <1>4, <1>7, <3>1, <3>2, <3>3, BlankPasses
  <2>4. ASSUME Root(Own) = RootOf(x), Filesystem(record) = "home" PROVE Fine(x, 1)
    <3>1. CASE ~Quiet(RootOf(x))
      BY <1>6, <3>1
    <3>2. CASE Quiet(RootOf(x))
      <4>1. \/ Filesystem(row[Root(Own)]) = "home"
            \/ mount[Root(Own)] = "home" /\ SameIdentity("home", saved)
        BY <1>1, <1>2, <2>2, <2>4, <3>2, SavedQuiet
      <4>2. CASE Filesystem(row[Root(Own)]) = "home"
        BY <2>4, <4>2 DEF Sound, Counted
      <4>3. CASE mount[Root(Own)] = "home" /\ SameIdentity("home", saved)
        BY <1>3, <1>4, <1>7, <4>3, HomePasses
      <4>4. QED
        BY <4>1, <4>2, <4>3
    <3>3. QED
      BY <3>1, <3>2
  <2>5. \A y \in Games \ GamesOf(Own) : shown'[y] = shown[y]
    BY <1>1, <2>1, OthersCached DEF StartFails
  <2>6. /\ src' = [src EXCEPT ![Own] = record] /\ job' = AfterStart /\ UNCHANGED <<cat, schema>>
        /\ \/ /\ row' = [row EXCEPT ![Root(Own)] = record] /\ lost' = lost
              /\ disturbances' = disturbances
           \/ row' = row /\ lost' = TRUE /\ disturbances' = disturbances + 1
    BY <2>1 DEF StartFails, Upsert, Calm, Disturb
  <2>7. Starting("check")
    BY <1>0 DEF Starting
  <2>8. QED
    BY <1>0, <1>4, <1>5, <2>3, <2>4, <2>5, <2>6, <2>7, StartLands
<1>8. CASE record.state = "available"
  <2>1. /\ job' = [job EXCEPT !.step = "walk", !.cand = record]
        /\ UNCHANGED <<row, src, shown, lost, cat, schema, disturbances>>
    BY <1>0, <1>2, <1>3, <1>8 DEF StartCheck, Calm, dbVars
  <2>2. /\ job'.who = job.who /\ job'.step = "walk" /\ job'.cand = record
        /\ job'.accept = job.accept
    BY <1>0, <2>1 DEF Job
  <2>3. (\A n : Fine(x, n)' = Fine(x, n)) /\ ~HasWalked(x)' /\ ~HasWalked(x)
    BY <1>0, <1>a, <2>1, <2>2, FineFrame DEF HasWalked, Startup, Grouped
  <2>4. Hit(x)' = Hit(x) /\ ~Missed(x)'
    BY <2>3 DEF Hit, Missed
  <2>5. Own' = Own /\ (\A p : Root(p)' = Root(p)) /\ RootOf(x)' = RootOf(x)
        /\ PlatformOf(x)' = PlatformOf(x)
    BY <1>a, <2>2, RootFrame DEF Own
  <2>6. WalkSound(x)'
    <3>1. ASSUME ToWalk(x)', Away(x)', HomeCand' PROVE FALSE
      <4>1. Own = PlatformOf(x)
        BY <1>0, <2>2, <2>5, <3>1 DEF ToWalk, Grouped
      <4>2. mount[Root(Own)] \in {"bare", "other"}
        BY <1>a, <2>5, <3>1, <4>1 DEF Away, RootOf
      <4>3. Filesystem(record) = mount[Root(Own)]
        BY <1>1, <1>3, <1>4, <1>8, <4>2, PassedRecord DEF Home
      <4>4. QED
        BY <2>2, <3>1, <4>2, <4>3 DEF HomeCand
    <3>2. QED
      BY <3>1 DEF WalkSound
  <2>7. StartSound(x)'
    <3>1. ASSUME Root(Own) = RootOf(x), Filesystem(record) = "home", Own # PlatformOf(x)
          PROVE  Fine(x, 1)
      <4>1. CASE ~Quiet(RootOf(x))
        BY <1>6, <4>1
      <4>2. CASE Quiet(RootOf(x))
        <5>1. shared /\ RootOf(x) = "wii"
          BY <1>1, <3>1, PlatformOfGames DEF RootOf, Root
        <5>2. CASE Filesystem(row["wii"]) = "none"
          <6>1. row["wii"] = NoRecord
            BY <4>2, <5>1, <5>2 DEF Quiet, Named
          <6>2. job.who = "boot"
            BY <4>2, <5>1, <6>1, RowOfRunning
          <6>3. x \in CubeGames
            BY <3>1, <6>2, PlatformOfGames DEF Own, Platform
          <6>4. Fine(x, 0)
            BY <5>1, <6>1, <6>3 DEF Sound, CubeSound, Hit
          <6>5. QED
            BY <6>4, FineTypes
        <5>3. CASE Filesystem(row["wii"]) # "none"
          BY <1>5, <3>1, <5>1, <5>3 DEF Keeps, Sound, Counted
        <5>4. QED
          BY <5>2, <5>3
      <4>3. QED
        BY <4>1, <4>2
    <3>2. QED
      BY <2>2, <2>3, <2>5, <3>1 DEF StartSound, HomeCand
  <2>8. Counted(x)' /\ MissSound(x)'
    BY <2>1, <2>3, <2>4, <2>5 DEF Sound, Counted, MissSound
  <2>9. (disturbances' = 0 => ~Hit(x)') /\ (shared /\ x \in CubeGames /\ Hit(x)' => row["wii"] # NoRecord)
    BY <2>1, <2>4 DEF Sound, Untouched, CubeSound
  <2>10. QED
    BY <1>0, <2>1, <2>2, <2>4, <2>6, <2>7, <2>8, <2>9, StartOn
<1>9. QED
  BY <1>7, <1>8

\* A walk misses a game that is there because its source is away, or because this
\* very walk is disturbed.
LEMMA WalkMiss ==
    ASSUME TInv, Prepared, NEW x \in Games \ removed, NEW found,
           Walk(RootOf(x), PlatformOf(x), found), x \notin found
    PROVE  Away(x) \/ disturbances' = disturbances + 1
<1>1. x \in onHome /\ mount[RootOf(x)] \in Place /\ x \in GamesOf(PlatformOf(x))
  BY FineTypes, PlatformOfGames DEF Prepared
<1>2. CASE found = Seen(RootOf(x), PlatformOf(x))
  <2>1. ASSUME mount[RootOf(x)] \in Home PROVE FALSE
    <3>1. Seen(RootOf(x), PlatformOf(x)) = GamesOf(PlatformOf(x)) \cap onHome
      <4>1. PICK m : m = mount[RootOf(x)]
        OBVIOUS
      <4>2. (CASE m \in Home -> onHome [] m = "other" -> Elsewhere [] OTHER -> {}) = onHome
        BY <2>1, <4>1 DEF Home
      <4>3. QED
        BY <4>1, <4>2 DEF Seen
    <3>2. QED
      BY <1>1, <1>2, <3>1
  <2>2. mount[RootOf(x)] # "gone"
    BY DEF Walk
  <2>3. QED
    BY <1>1, <2>1, <2>2 DEF Place, Home, Away
<1>3. QED
  BY <1>2 DEF Walk, Disturb

LEMMA StartWalkSound ==
    ASSUME TInv, TrustInv, LoadedInv, Prepared, NEW x \in Games \ removed, Sound(x),
           disturbances' < 2, StartWalk
    PROVE  Sound(x)'
<1>0. EnvTypes /\ JobShape /\ TypeOK /\ job \in Job /\ Records /\ StartFrame /\ JobTrust
      /\ disturbances \in Nat /\ job.who \in {"boot", "init"} /\ job.step = "walk"
  BY TypeParts DEF TInv, JobTypes, TrustInv, StartWalk, Starting, Prepared
<1>1. Own \in Platform /\ Root(Own) \in Platform /\ x \in Games
  BY RootTypes DEF Own, Platform
<1>a. UNCHANGED <<shared, mount, upgrade>>
  BY <1>0 DEF StartFrame, config, envVars
<1>2. /\ job.cand \in Record /\ RecordOK(job.cand) /\ Keeps(row[Root(Own)], job.cand)
  BY <1>0 DEF Job, Records, JobTrust
<1>3. CASE mount[Root(Own)] = "gone" /\ StartFails(Partial(job.cand))
  <2>1. PICK record : record = Partial(job.cand)
    OBVIOUS
  <2>2. /\ record \in Record /\ record.state # "none" /\ RecordOK(record)
        /\ Keeps(row[Root(Own)], record)
    BY <1>2, <2>1, FailedTypes, SameFilesystem DEF State, Keeps
  <2>3. Root(Own) = RootOf(x) => ~Quiet(RootOf(x)) /\ Fine(x, 1)
    BY <1>1, <1>3, FineTypes DEF Quiet, Sound, Guarded, Hit
  <2>4. \A y \in Games \ GamesOf(Own) : shown'[y] = shown[y]
    BY <1>1, <1>3, OthersCached DEF StartFails
  <2>5. /\ src' = [src EXCEPT ![Own] = record] /\ job' = AfterStart /\ UNCHANGED <<cat, schema>>
        /\ \/ /\ row' = [row EXCEPT ![Root(Own)] = record] /\ lost' = lost
              /\ disturbances' = disturbances
           \/ row' = row /\ lost' = TRUE /\ disturbances' = disturbances + 1
    BY <1>3, <2>1 DEF StartFails, Upsert, Calm, Disturb
  <2>6. Starting("walk")
    BY <1>0 DEF Starting
  <2>7. QED
    BY <1>0, <1>1, <2>2, <2>3, <2>4, <2>5, <2>6, StartLands
<1>4. CASE ~(mount[Root(Own)] = "gone" /\ StartFails(Partial(job.cand)))
  <2>1. PICK found :
           /\ Walk(Root(Own), Own, found)
           /\ job' = [job EXCEPT !.step = "reconcile", !.found = found]
           /\ UNCHANGED <<row, src, shown, lost, cat, schema>>
    BY <1>4 DEF StartWalk, dbVars
  <2>2. /\ job'.who = job.who /\ job'.step = "reconcile" /\ job'.cand = job.cand
        /\ job'.accept = job.accept /\ job'.found = found
    BY <1>0, <2>1 DEF Job
  <2>3. (\A n : Fine(x, n)' = Fine(x, n)) /\ ~HasWalked(x)
    BY <1>0, <1>a, <2>1, FineFrame DEF HasWalked, Startup, Grouped
  <2>4. Own' = Own /\ (\A p : Root(p)' = Root(p)) /\ RootOf(x)' = RootOf(x)
        /\ PlatformOf(x)' = PlatformOf(x)
    BY <1>a, <2>2, RootFrame DEF Own
  <2>5. disturbances' \in {disturbances, disturbances + 1}
    BY <2>1 DEF Walk, Calm, Disturb
  <2>6. ASSUME Missed(x)'
        PROVE  /\ Own = PlatformOf(x) /\ Root(Own) = RootOf(x)
               /\ Away(x) \/ (disturbances = 0 /\ disturbances' = 1)
    <3>1. Own = PlatformOf(x) /\ x \notin found
      BY <1>0, <2>2, <2>4, <2>6 DEF Missed, HasWalked, Grouped
    <3>2. Root(Own) = RootOf(x)
      BY <3>1 DEF RootOf
    <3>3. Away(x) \/ disturbances' = disturbances + 1
      BY <2>1, <3>1, <3>2, WalkMiss
    <3>4. QED
      BY <1>0, <3>1, <3>2, <3>3
  <2>7. Hit(x)' => Hit(x) \/ Away(x) \/ (disturbances = 0 /\ disturbances' = 1)
    BY <2>3, <2>6 DEF Hit
  <2>8. disturbances' = 0 => ~Hit(x)'
    <3>1. SUFFICES ASSUME disturbances' = 0, Hit(x)' PROVE FALSE
      OBVIOUS
    <3>2. disturbances = 0
      BY <1>0, <2>5, <3>1
    <3>3. QED
      BY <2>7, <3>1, <3>2 DEF Sound, Untouched, Away
  <2>9. ASSUME shared, x \in CubeGames, Hit(x)' PROVE row["wii"] # NoRecord
    <3>1. CASE Hit(x)
      BY <2>9, <3>1 DEF Sound, CubeSound
    <3>2. CASE ~Hit(x)
      <4>1. Missed(x)'
        BY <2>3, <2>9, <3>2 DEF Hit
      <4>2. Quiet(RootOf(x)) /\ Own = PlatformOf(x)
        BY <2>6, <4>1 DEF Sound, Guarded
      <4>3. job.who # "boot" /\ RootOf(x) = "wii"
        BY <1>1, <2>9, <4>2, FineTypes, PlatformOfGames DEF Own, Platform
      <4>4. QED
        BY <2>9, <4>2, <4>3, RowOfRunning
    <3>3. QED
      BY <3>1, <3>2
  <2>10. MissSound(x)'
    <3>1. SUFFICES ASSUME Missed(x)', HomeCand' PROVE Fine(x, 0)
      BY <2>3 DEF MissSound
    <3>2. HomeCand /\ ToWalk(x)
      BY <1>0, <2>2, <2>6, <3>1 DEF HomeCand, ToWalk, Startup
    <3>3. QED
      BY <2>6, <3>1, <3>2 DEF Sound, WalkSound, Untouched, Hit
  <2>11. WalkSound(x)' /\ Counted(x)'
    BY <2>1, <2>2, <2>3, <2>4 DEF WalkSound, ToWalk, Sound, Counted
  <2>12. StartSound(x)'
    <3>1. HomeCand' = HomeCand /\ Startup' = Startup
      BY <2>2 DEF HomeCand, Startup
    <3>2. QED
      BY <1>0, <2>2, <2>3, <2>4, <3>1 DEF StartSound, Sound
  <2>13. QED
    BY <1>0, <1>1, <2>1, <2>2, <2>5, <2>7, <2>8, <2>9, <2>10, <2>11, <2>12, StartOn
<1>5. QED
  BY <1>3, <1>4

\* What a complete scan makes of the counter of a game it looked for.
LEMMA ReconciledOne ==
    ASSUME NEW c \in Catalogs, NEW x \in Games, NEW p \in Platform, NEW found
    PROVE  LET n == Reconciled(c, p, found)[x] IN
           /\ PlatformOf(x) # p => n = c[x]
           /\ PlatformOf(x) = p /\ x \in found => n = 0
           /\ PlatformOf(x) = p /\ x \notin found /\ c[x] \in {-1, 2} => n = c[x]
           /\ PlatformOf(x) = p /\ x \notin found /\ c[x] \notin {-1, 2} => n = c[x] + 1
BY PlatformOfGames DEF Reconciled, Threshold

LEMMA StartReconcileSound ==
    ASSUME TInv, TrustInv, LoadedInv, Prepared, NEW x \in Games, Sound(x),
           disturbances' < 2, StartReconcile
    PROVE  Sound(x)'
<1>0. DbTypes /\ JobShape /\ TypeOK /\ job \in Job /\ Records /\ StartFrame /\ JobTrust
      /\ disturbances \in Nat /\ job.who \in {"boot", "init"} /\ job.step = "reconcile"
  BY TypeParts DEF TInv, JobTypes, TrustInv, StartReconcile, Starting, Prepared
<1>1. Own \in Platform /\ Root(Own) \in Platform
  BY RootTypes DEF Own, Platform
<1>a. UNCHANGED <<shared, mount, upgrade>>
  BY <1>0 DEF StartFrame, config, envVars
<1>2. /\ job.cand \in Record /\ RecordOK(job.cand) /\ Keeps(row[Root(Own)], job.cand)
      /\ job.cand.state # "none" /\ Filesystem(job.cand) # "none"
  BY <1>0 DEF Job, Records, JobTrust, LoadedInv, Prepared
<1>3. CASE StartLoses(job.cand)
  <2>1. \A y \in Games \ GamesOf(Own) : shown'[y] = shown[y]
    BY <1>1, <1>3, OthersCached DEF StartLoses
  <2>2. /\ src' = [src EXCEPT ![Own] = job.cand] /\ job' = AfterStart /\ UNCHANGED <<cat, schema>>
        /\ row' = row /\ lost' = TRUE /\ disturbances' = disturbances + 1
    BY <1>3 DEF StartLoses, Disturb
  <2>3. Starting("reconcile") /\ disturbances' # disturbances
    BY <1>0, <2>2 DEF Starting
  <2>4. QED
    BY <1>0, <1>2, <2>1, <2>2, <2>3, StartLands
<1>4. CASE ~StartLoses(job.cand)
  <2>1. /\ cat' = Reconciled(cat, Own, job.found) /\ job' = [job EXCEPT !.step = "row"]
        /\ UNCHANGED <<row, src, shown, lost, schema, disturbances>>
    BY <1>4 DEF StartReconcile, Calm
  <2>2. /\ job'.who = job.who /\ job'.step = "row" /\ job'.cand = job.cand
        /\ job'.accept = job.accept
    BY <1>0, <2>1 DEF Job
  <2>3. ~HasWalked(x)' /\ ~ToWalk(x)' /\ (HasWalked(x) <=> Own = PlatformOf(x))
    BY <1>0, <2>2 DEF HasWalked, ToWalk, Startup, Grouped
  <2>4. Own' = Own /\ (\A p : Root(p)' = Root(p)) /\ RootOf(x)' = RootOf(x)
        /\ PlatformOf(x)' = PlatformOf(x) /\ HomeCand' = HomeCand
    BY <1>a, <2>2, RootFrame DEF Own, HomeCand
  <2>5. ASSUME Own # PlatformOf(x) PROVE \A n : Fine(x, n)' = Fine(x, n)
    <3>1. cat'[x] = cat[x]
      BY <1>0, <1>1, <2>1, <2>5, ReconciledOne DEF DbTypes
    <3>2. QED
      BY <1>a, <2>1, <3>1, FineFrame
  <2>6. Own = PlatformOf(x) /\ x \in job.found => Fine(x, 0)' /\ Fine(x, 1)'
    BY <1>0, <1>1, <2>1, ReconciledOne DEF DbTypes, Fine
  <2>7. Own = PlatformOf(x) /\ x \notin job.found => Missed(x) /\ (Fine(x, 0) => Fine(x, 1)')
    <3>1. ASSUME Own = PlatformOf(x), x \notin job.found, Fine(x, 0) PROVE Fine(x, 1)'
      <4>1. cat[x] \in -1 .. 0 /\ (Upgraded(x) => cat[x] # -1)
        BY <3>1, FineTypes DEF Fine
      <4>2. cat'[x] \in {cat[x], cat[x] + 1} /\ (cat[x] # -1 => cat'[x] = cat[x] + 1)
        BY <1>0, <1>1, <2>1, <3>1, <4>1, ReconciledOne DEF DbTypes
      <4>3. Upgraded(x)' = Upgraded(x)
        BY <1>a, <2>1 DEF Upgraded
      <4>4. QED
        BY <4>1, <4>2, <4>3 DEF Fine
    <3>2. QED
      BY <2>3, <3>1 DEF Missed
  <2>8. Hit(x)' => Hit(x)
    BY <2>3, <2>5, <2>6, <2>7 DEF Hit, Missed
  <2>9. Root(Own) = RootOf(x) /\ HomeCand => Fine(x, 1)'
    <3>1. SUFFICES ASSUME Root(Own) = RootOf(x), HomeCand PROVE Fine(x, 1)'
      OBVIOUS
    <3>2. CASE Own # PlatformOf(x)
      BY <1>0, <2>5, <3>1, <3>2 DEF Sound, StartSound, Startup
    <3>3. CASE Own = PlatformOf(x)
      BY <2>6, <2>7, <3>1, <3>3 DEF Sound, MissSound
    <3>4. QED
      BY <3>2, <3>3
  <2>10. Counted(x)'
    <3>1. SUFFICES ASSUME Filesystem(row[RootOf(x)]) = "home" PROVE Fine(x, 1)'
      BY <2>1, <2>4 DEF Counted
    <3>2. CASE Own # PlatformOf(x)
      BY <2>5, <3>1, <3>2 DEF Sound, Counted
    <3>3. CASE Own = PlatformOf(x)
      <4>1. Root(Own) = RootOf(x)
        BY <3>3 DEF RootOf
      <4>2. HomeCand
        BY <1>0, <1>2, <3>1, <4>1 DEF Keeps, HomeCand, Prepared
      <4>3. QED
        BY <2>9, <4>1, <4>2
    <3>4. QED
      BY <3>2, <3>3
  <2>11. StartSound(x)' /\ MissSound(x)' /\ WalkSound(x)'
    BY <2>3, <2>4, <2>9 DEF StartSound, MissSound, Missed, WalkSound
  <2>12. (disturbances' = 0 => ~Hit(x)') /\ (shared /\ x \in CubeGames /\ Hit(x)' => row["wii"] # NoRecord)
    BY <2>1, <2>8 DEF Sound, Untouched, CubeSound
  <2>13. QED
    BY <1>0, <2>1, <2>2, <2>8, <2>10, <2>11, <2>12, StartOn
<1>5. QED
  BY <1>3, <1>4

LEMMA StartRowSound ==
    ASSUME TInv, TrustInv, LoadedInv, Prepared, NEW x \in Games, Sound(x),
           disturbances' < 2, StartRow
    PROVE  Sound(x)'
<1> DEFINE some == \/ job.found # {}
                   \/ job.who = "init" /\ shared /\ Listed(cat, "wii") # {}
<1>0. JobShape /\ job \in Job /\ Records /\ StartFrame /\ JobTrust /\ Starting("row")
      /\ disturbances \in Nat /\ job.who \in {"boot", "init"} /\ job.step = "row"
  BY TypeParts DEF TInv, JobTypes, TrustInv, StartRow, Starting, Prepared
<1>1. Own \in Platform /\ Root(Own) \in Platform /\ some \in BOOLEAN
  BY RootTypes DEF Own, Platform
<1>2. /\ job.cand \in Record /\ RecordOK(job.cand) /\ Keeps(row[Root(Own)], job.cand)
      /\ Filesystem(job.cand) # "none" /\ ~job.accept
  BY <1>0 DEF Job, Records, JobTrust, Prepared
<1>3. PICK record : record = Successful(job.cand, some)
  OBVIOUS
<1>4. \/ StartLoses(record)
      \/ /\ row' = [row EXCEPT ![Root(Own)] = record] /\ Calm
         /\ src' = [src EXCEPT ![Own] = record] /\ shown' = Decoded(cat, {Own}, "available")
         /\ job' = AfterStart /\ UNCHANGED <<cat, schema, lost>>
  BY <1>3 DEF StartRow
<1> HIDE DEF some
<1>5. /\ record \in Record /\ record.state = "available" /\ RecordOK(record)
      /\ Filesystem(record) = Filesystem(job.cand)
  BY <1>1, <1>2, <1>3, FailedTypes, SameFilesystem DEF State
<1>6. ASSUME NEW y \in Games \ GamesOf(Own) PROVE shown'[y] = shown[y]
  <2>1. Emptied(Own)[y] = shown[y] /\ Decoded(cat, {Own}, "available")[y] = shown[y]
    BY <1>1, OthersCached
  <2>2. CASE StartLoses(record)
    BY <2>1, <2>2 DEF StartLoses
  <2>3. CASE ~StartLoses(record)
    <3>1. shown' = Decoded(cat, {Own}, "available")
      BY <1>4, <2>3
    <3>2. QED
      BY <2>1, <3>1
  <2>4. QED
    BY <2>2, <2>3
<1>7. /\ src' = [src EXCEPT ![Own] = record] /\ job' = AfterStart /\ UNCHANGED <<cat, schema>>
      /\ \/ /\ row' = [row EXCEPT ![Root(Own)] = record] /\ lost' = lost
            /\ disturbances' = disturbances
         \/ row' = row /\ lost' = TRUE /\ disturbances' = disturbances + 1
  BY <1>4 DEF StartLoses, Calm, Disturb
<1>8. Root(Own) = RootOf(x) /\ Filesystem(record) = "home" => Fine(x, 1)
  BY <1>0, <1>2, <1>5 DEF Sound, StartSound, Startup, HomeCand
<1>9. Keeps(row[Root(Own)], record)
  BY <1>2, <1>5 DEF Keeps
<1>10. QED
  BY <1>0, <1>2, <1>5, <1>6, <1>7, <1>8, <1>9, StartLands

\* What a scan of a group leaves when it ends.
LEMMA GroupLands ==
    ASSUME TInv, TrustInv, LoadedInv, Prepared, NEW x \in Games, Sound(x), disturbances' < 2,
           job.who \in {"rescan", "recovery"}, ScanFrame,
           NEW record \in Record, RecordOK(record), record.state # "none",
           ~lost /\ Agree => Keeps(row[job.root], record),
           src' = [p \in Platform |-> IF p \in Group(job.root) THEN record ELSE src[p]],
           job' = AfterGroup,
           \/ /\ row' = [row EXCEPT ![job.root] = record] /\ lost' = lost
              /\ disturbances' = disturbances
           \/ row' = row /\ lost' = TRUE /\ disturbances' = disturbances + 1,
           Hit(x)' => Hit(x),
           RootOf(x) = "gamecube" /\ Silent /\ (job.root = "wii" \/ Filesystem(record) = "none")
              => Silent',
           job.root = RootOf(x) /\ Quiet(job.root) =>
              /\ job.root = "wii" => Filesystem(record) # "none"
              /\ job.root = "gamecube" => Plain(record) /\ (Filesystem(record) = "none" => Silent),
           job.root = RootOf(x) /\ Filesystem(record) = "home" /\ Stored(job.root, record) =>
              Fine(x, 1)',
           Fine(x, 1) /\ ~(job.root = RootOf(x) /\ Stored(job.root, record)) => Fine(x, 1)'
    PROVE  Sound(x)'
<1>0. DbTypes /\ MemTypes /\ disturbances \in Nat
  BY TypeParts DEF TInv, Prepared
<1>1. Settled
  <2>1. RecordOK(AfterGroup.prev) /\ RecordOK(AfterGroup.cand)
    BY ConstantTrust DEF AfterGroup, NoJob
  <2>2. AfterGroup.who \in {"rescan", "recovery"} => AfterGroup.step = "check"
    BY ConstantRecords DEF AfterGroup, NoJob
  <2>3. QED
    BY <2>1, <2>2, AfterGroupStep DEF Settled
<1>2. PICK r : r = job.root
  OBVIOUS
<1>3. PICK P : P = Group(r)
  OBVIOUS
<1>4. /\ P \in SUBSET Platform /\ P # {} /\ r \in Platform /\ \A p \in P : Root(p) = r
      /\ ~shared => P = {r}
  BY <1>2, <1>3, GroupTypes DEF Group
<1>5. /\ \A p \in Platform : src'[p] = IF p \in P THEN record ELSE src[p]
      /\ \/ /\ \A q \in Platform : row'[q] = IF q = r THEN record ELSE row[q]
            /\ lost' = lost
         \/ row' = row /\ lost' = TRUE
      /\ record # NoRecord
  BY <1>0, <1>2, <1>3, ConstantRecords DEF DbTypes
<1>6. Writes(P, r, record)
  BY <1>2, <1>4, <1>5 DEF Writes
<1>7. UNCHANGED <<shared, mount>>
  BY DEF ScanFrame, config, envVars
<1>8. src["wii"] # NoRecord
  BY DEF LoadedInv, Loaded
<1>9. Stored(r, record) \/ disturbances' = disturbances + 1
  BY <1>0, <1>2, <1>4 DEF Stored, DbTypes
<1>10. disturbances' \in {disturbances, disturbances + 1}
  OBVIOUS
<1>11. r = RootOf(x) /\ Quiet(r) => Keeps(row[r], record)
  BY <1>2 DEF Quiet
<1>12. Lands(x, P, r, record)
  BY <1>1, <1>2, <1>5, <1>6, <1>7, <1>8, <1>9, <1>10, <1>11 DEF Lands
<1>13. QED
  BY <1>12, LandsSound

LEMMA GroupFailsLands ==
    ASSUME TInv, TrustInv, LoadedInv, Prepared, NEW x \in Games, Sound(x), disturbances' < 2,
           job.who \in {"rescan", "recovery"}, ScanFrame,
           NEW record \in Record, RecordOK(record), record.state # "none", GroupFails(record),
           ~lost /\ Agree => Keeps(row[job.root], record),
           job.root = RootOf(x) /\ Quiet(job.root) =>
              /\ job.root = "wii" => Filesystem(record) # "none"
              /\ job.root = "gamecube" => Plain(record) /\ (Filesystem(record) = "none" => Silent),
           job.root = RootOf(x) /\ Filesystem(record) = "home" /\ disturbances' = disturbances =>
              Fine(x, 1)
    PROVE  Sound(x)'
<1>0. disturbances \in Nat /\ UNCHANGED <<upgrade, schema, queue>>
  BY DEF Prepared, ScanFrame, config
<1>1. /\ src' = [p \in Platform |-> IF p \in Group(job.root) THEN record ELSE src[p]]
      /\ job' = AfterGroup /\ cat' = cat
      /\ \/ /\ row' = [row EXCEPT ![job.root] = record] /\ lost' = lost
            /\ disturbances' = disturbances
         \/ row' = row /\ lost' = TRUE /\ disturbances' = disturbances + 1
  BY DEF GroupFails, RecordFailure, Upsert, Calm, Disturb
<1>2. \A n : Fine(x, n)' = Fine(x, n)
  BY <1>0, <1>1, FineFrame
<1>3. ~HasWalked(x)'
  BY <1>1, AfterGroupStep DEF HasWalked
<1>4. Hit(x)' => Hit(x)
  BY <1>2, <1>3 DEF Hit, Missed
<1>5. \A y \in CubeGames : shown[y] = "unlisted" => shown'[y] = "unlisted"
  BY CubeNotWii DEF GroupFails, RecordFailure
<1>6. Silent => Silent'
  BY <1>0, <1>5 DEF Silent
<1>7. disturbances' = disturbances + 1 => Fine(x, 1)
  BY <1>0, FineTypes DEF Sound, Untouched, Hit
<1>8. job.root = RootOf(x) /\ Filesystem(record) = "home" => Fine(x, 1)'
  BY <1>1, <1>2, <1>7
<1>9. QED
  BY <1>0, <1>1, <1>2, <1>4, <1>6, <1>8, GroupLands

\* A scan of a group that goes on has written nothing.
LEMMA GroupOn ==
    ASSUME TInv, Prepared, NEW x \in Games, Sound(x), ScanFrame, disturbances' < 2,
           disturbances' \in {disturbances, disturbances + 1},
           UNCHANGED <<row, src, shown, lost, cat>>, job'.who = job.who, job'.root = job.root,
           job.who \in {"rescan", "recovery"},
           Hit(x)' => Hit(x) \/ Away(x) \/ disturbances = 0,
           disturbances' = 0 => ~Hit(x)',
           shared /\ x \in CubeGames /\ Hit(x)' => row["wii"] # NoRecord,
           job.root = RootOf(x) /\ Quiet(job.root) => Plain(job'.prev),
           MissSound(x)', WalkSound(x)', PrevSound(x)'
    PROVE  Sound(x)'
<1>1. UNCHANGED <<shared, mount, queue, upgrade, schema>> /\ disturbances \in Nat
  BY DEF ScanFrame, config, envVars, Prepared
<1>2. (\A p : Root(p)' = Root(p)) /\ RootOf(x)' = RootOf(x) /\ PlatformOf(x)' = PlatformOf(x)
  BY <1>1, RootFrame
<1>3. Agree' = Agree /\ Silent' = Silent
  BY <1>1 DEF Agree, InMemory, Silent
<1>4. ~Startup'
  BY DEF Startup
<1>5. Quiet(RootOf(x)) => Quiet(RootOf(x))'
  BY <1>1, <1>2, <1>3 DEF Quiet
<1>6. Guarded(x)'
  BY <1>1, <1>2, <1>5 DEF Sound, Guarded, Away
<1>7. Untouched(x)'
  BY <1>1, <1>2 DEF Sound, Untouched
<1>8. \A n : Fine(x, n)' = Fine(x, n)
  BY <1>1, FineFrame
<1>9. Counted(x)' /\ StartSound(x)' /\ CubeSound(x)'
  BY <1>1, <1>2, <1>4, <1>8 DEF Sound, Counted, StartSound, CubeSound
<1>10. QED
  BY <1>6, <1>7, <1>9 DEF Sound

\* The record that a scan of the game's group starts from.
LEMMA PreviousQuiet ==
    ASSUME TInv, TrustInv, LoadedInv, NEW x \in Games, Sound(x),
           job.who \in {"rescan", "recovery"}, job.root = RootOf(x),
           NEW prev, prev = Previous(job.root)
    PROVE  /\ Quiet(job.root) => /\ Plain(prev)
                                 /\ job.root = "wii" => Filesystem(prev) # "none"
                                 /\ job.root = "gamecube" /\ Filesystem(prev) = "none" => Silent
           /\ Filesystem(prev) = "home" =>
                 \/ Fine(x, 1)
                 \/ Quiet(job.root) /\ mount[job.root] = "home" /\ SameIdentity("home", prev)
<1>1. PICK r \in Platform : r = job.root
  BY GroupTypes
<1>2. Root(r) = r /\ InMemory(r) = src[r]
  BY <1>1, GroupTypes DEF InMemory, Root
<1>3. src["wii"] # NoRecord
  BY DEF LoadedInv, Loaded
<1>4. CASE ~Quiet(r)
  BY <1>1, <1>4, FineTypes DEF Sound, Guarded, Hit
<1>5. CASE Quiet(r) /\ src[r] # NoRecord
  <2>1. prev = src[r]
    BY <1>1, <1>2, <1>5 DEF Previous
  <2>2. Filesystem(row[r]) = Filesystem(prev)
    BY <1>2, <1>5, <2>1 DEF TrustInv, MemTrust, Quiet
  <2>3. Filesystem(prev) = "home" => Fine(x, 1)
    BY <1>1, <2>2 DEF Sound, Counted
  <2>4. r = "wii" => Filesystem(prev) # "none"
    BY <1>2, <1>5, <2>1 DEF Quiet, Named
  <2>5. r = "gamecube" => Plain(prev) /\ (Filesystem(prev) = "none" => Silent)
    BY <1>5, <2>1 DEF Quiet
  <2>6. QED
    BY <1>1, <2>3, <2>4, <2>5 DEF Plain, Platform
<1>6. CASE Quiet(r) /\ src[r] = NoRecord
  <2>1. prev = Saved(r) /\ r = "gamecube"
    BY <1>1, <1>2, <1>3, <1>6 DEF Previous, Platform
  <2>2. Silent
    BY <1>6, <2>1, ConstantTrust DEF Quiet
  <2>3. /\ Plain(prev)
        /\ Filesystem(prev) = "home" =>
              \/ Filesystem(row[r]) = "home"
              \/ mount[r] = "home" /\ SameIdentity("home", prev)
    BY <1>2, <1>6, <2>1, SavedQuiet
  <2>4. Filesystem(row[r]) = "home" => Fine(x, 1)
    BY <1>1 DEF Sound, Counted
  <2>5. QED
    BY <1>1, <1>6, <2>1, <2>2, <2>3, <2>4
<1>7. QED
  BY <1>4, <1>5, <1>6

LEMMA GroupCheckSound ==
    ASSUME TInv, TrustInv, LoadedInv, Prepared, NEW x \in Games, Sound(x), disturbances' < 2,
           GroupCheck
    PROVE  Sound(x)'
<1>0. /\ job.who \in {"rescan", "recovery"} /\ job.step = "check" /\ ScanFrame /\ job \in Job
      /\ disturbances \in Nat /\ Prepared
  BY TypeParts DEF TInv, JobTypes, GroupCheck, Scanning, Prepared
<1>1. PICK r \in Platform : r = job.root
  BY <1>0, GroupTypes
<1>2. PICK prev : prev = Previous(r)
  OBVIOUS
<1>3. /\ prev \in Record /\ RecordOK(prev) /\ (~lost /\ Agree => Keeps(row[r], prev))
      /\ GroupRecord \in Record /\ GroupRecord.state # "none" /\ mount[r] \in Place
      /\ GroupRecord.state # "available" =>
            GroupRecord.some = prev.some /\ Filesystem(GroupRecord) = Filesystem(prev)
            /\ RecordOK(GroupRecord)
  <2>1. /\ prev \in Record /\ RecordOK(prev) /\ (~lost /\ Agree => Keeps(row[r], prev))
        /\ GroupRecord \in Record /\ mount[r] \in Place
        /\ GroupRecord.state \in {"available", "unavailable", "changed"}
        /\ GroupRecord.state # "available" => GroupRecord = Failed(prev, GroupRecord.state)
    BY <1>0, <1>1, <1>2, GroupRecordTypes, GroupTypes, PreviousTrust
  <2>2. PICK s : s = GroupRecord.state
    OBVIOUS
  <2>3. Failed(prev, s).some = prev.some
    BY <2>1 DEF Failed, Record
  <2>4. QED
    BY <2>1, <2>2, <2>3, SameFilesystem
<1>4. r = RootOf(x) =>
        /\ Quiet(r) => /\ Plain(prev) /\ (r = "wii" => Filesystem(prev) # "none")
                       /\ r = "gamecube" /\ Filesystem(prev) = "none" => Silent
        /\ Filesystem(prev) = "home" => Fine(x, 1) \/ (Quiet(r) /\ mount[r] = "home")
  BY <1>0, <1>1, <1>2, PreviousQuiet
<1>5. r = RootOf(x) /\ Filesystem(prev) = "home" /\ GroupRecord.state # "available" => Fine(x, 1)
  <2>1. SUFFICES ASSUME r = RootOf(x), Filesystem(prev) = "home", GroupRecord.state # "available",
                        ~Fine(x, 1)
                 PROVE  FALSE
    OBVIOUS
  <2>2. Quiet(r) /\ mount[r] = "home" /\ SameIdentity("home", prev)
    BY <1>0, <1>1, <1>2, <2>1, PreviousQuiet
  <2>3. GroupRecord = IF job.accept THEN PreflightReplacement("home", prev)
                      ELSE Preflight("home", prev)
    BY <1>1, <1>2, <2>2 DEF GroupRecord
  <2>4. QED
    BY <1>3, <2>1, <2>2, <2>3, HomePasses, HomeReplacementPasses
<1>6. ASSUME NEW record \in Record, record.state # "none", RecordOK(record), GroupFails(record),
             Filesystem(record) = Filesystem(prev), record.some = prev.some,
             \/ mount[r] \in {"writable", "gone"}
             \/ GroupRecord.state # "available"
      PROVE  Sound(x)'
  <2>1. ~lost /\ Agree => Keeps(row[r], record)
    BY <1>3, <1>6 DEF Keeps
  <2>2. r = RootOf(x) /\ Quiet(r) =>
           /\ r = "wii" => Filesystem(record) # "none"
           /\ r = "gamecube" => Plain(record) /\ (Filesystem(record) = "none" => Silent)
    BY <1>4, <1>6 DEF Plain
  <2>3. r = RootOf(x) /\ Filesystem(record) = "home" => Fine(x, 1)
    <3>1. CASE GroupRecord.state # "available"
      BY <1>5, <1>6, <3>1
    <3>2. CASE mount[r] \in {"writable", "gone"}
      BY <1>4, <1>6, <3>2
    <3>3. QED
      BY <1>6, <3>1, <3>2
  <2>4. QED
    BY <1>0, <1>1, <1>6, <2>1, <2>2, <2>3, GroupFailsLands
<1>7. CASE mount[r] \in {"writable", "gone"} /\ GroupFails(Failed(prev, "invalid"))
  <2>1. PICK record : record = Failed(prev, "invalid")
    OBVIOUS
  <2>2. /\ record \in Record /\ record.state # "none" /\ RecordOK(record)
        /\ Filesystem(record) = Filesystem(prev)
    <3>1. "invalid" \in State
      BY DEF State
    <3>2. record \in Record /\ record.state = "invalid"
      BY <1>3, <2>1, <3>1, FailedTypes
    <3>3. QED
      BY <1>3, <2>1, <3>2, SameFilesystem
  <2>3. record.some = prev.some
    BY <1>3, <2>1 DEF Failed, Record
  <2>4. QED
    BY <1>6, <1>7, <2>1, <2>2, <2>3
<1>8. CASE GroupRecord.state # "available" /\ GroupFails(GroupRecord)
  BY <1>3, <1>6, <1>8
<1>9. ASSUME mount[r] # "writable", GroupRecord.state = "available",
             job' = [job EXCEPT !.step = "walk", !.prev = prev, !.cand = GroupRecord],
             UNCHANGED <<row, cat, src, shown, lost, disturbances>>
      PROVE  Sound(x)'
  <2>1. /\ job'.who = job.who /\ job'.root = r /\ job'.step = "walk" /\ job'.prev = prev
        /\ job'.cand = GroupRecord /\ job'.accept = job.accept /\ job'.walked = {}
    BY <1>0, <1>1, <1>9 DEF Job, Prepared
  <2>2. UNCHANGED <<shared, mount, upgrade, schema>>
    BY <1>0 DEF ScanFrame, config, envVars
  <2>3. (\A n : Fine(x, n)' = Fine(x, n)) /\ RootOf(x)' = RootOf(x) /\ PlatformOf(x)' = PlatformOf(x)
    BY <1>9, <2>2, FineFrame, RootFrame
  <2>4. ~HasWalked(x)'
    BY <1>0, <2>1 DEF HasWalked, Startup, Grouped
  <2>5. (Hit(x)' => Hit(x)) /\ MissSound(x)'
    BY <2>3, <2>4 DEF Hit, Missed, MissSound
  <2>6. /\ ~job.accept /\ mount[r] \notin Home => Filesystem(GroupRecord) # "home"
        /\ mount[r] = "home" => Preflight("home", GroupRecord).state = "available"
    <3>1. GroupRecord = IF job.accept THEN PreflightReplacement(mount[r], prev)
                        ELSE Preflight(mount[r], prev)
      BY <1>1, <1>2 DEF GroupRecord
    <3>2. /\ Filesystem(GroupRecord) = IF mount[r] \in Home THEN "home" ELSE mount[r]
          /\ mount[r] = "home" => SameIdentity("home", GroupRecord)
      BY <1>3, <1>9, <3>1, PassedRecord, PassedReplacement
    <3>3. QED
      BY <1>3, <3>2, HomePasses DEF Home
  <2>7. WalkSound(x)'
    <3>1. ASSUME ToWalk(x)', Away(x)', HomeCand' PROVE FALSE
      <4>1. r = RootOf(x)
        BY <1>0, <2>1, <2>3, <3>1 DEF ToWalk, Grouped, Startup
      <4>2. mount[r] \in {"bare", "other"}
        BY <2>2, <2>3, <3>1, <4>1 DEF Away
      <4>3. QED
        BY <2>1, <2>6, <3>1, <4>2 DEF HomeCand, Home
    <3>2. QED
      BY <3>1 DEF WalkSound
  <2>8. PrevSound(x)'
    <3>1. SUFFICES ASSUME Grouped(x)', Filesystem(prev) = "home", ~Fine(x, 1) PROVE Finds(x)'
      BY <2>1, <2>3 DEF PrevSound
    <3>2. r = RootOf(x)
      BY <2>1, <2>3, <3>1 DEF Grouped
    <3>3. mount[r] = "home"
      BY <1>4, <3>1, <3>2
    <3>4. disturbances = 1
      <4>1. ~Fine(x, 0)
        BY <3>1, FineTypes
      <4>2. disturbances # 0
        BY <4>1 DEF Sound, Untouched, Hit
      <4>3. QED
        BY <1>0, <1>9, <4>2
    <3>5. Preflight("home", job.cand)' = Preflight("home", job'.cand)
      BY <1>0 DEF Preflight, SameIdentity, Fs, ScanFrame, config
    <3>6. QED
      BY <1>9, <2>1, <2>2, <2>3, <2>4, <2>6, <3>2, <3>3, <3>4, <3>5 DEF Finds
  <2>9. job.root = RootOf(x) /\ Quiet(job.root) => Plain(job'.prev)
    BY <1>1, <1>4, <2>1
  <2>10. /\ disturbances' = 0 => ~Hit(x)'
         /\ shared /\ x \in CubeGames /\ Hit(x)' => row["wii"] # NoRecord
    BY <1>9, <2>5 DEF Sound, Untouched, CubeSound
  <2>11. QED
    BY <1>0, <1>1, <1>9, <2>1, <2>5, <2>7, <2>8, <2>9, <2>10, GroupOn
<1>10. QED
  <2>1. \/ mount[r] \in {"writable", "gone"} /\ GroupFails(Failed(prev, "invalid"))
        \/ GroupRecord.state # "available" /\ GroupFails(GroupRecord)
        \/ /\ mount[r] # "writable" /\ GroupRecord.state = "available"
           /\ job' = [job EXCEPT !.step = "walk", !.prev = prev, !.cand = GroupRecord]
           /\ UNCHANGED <<row, cat, src, shown, lost, disturbances>>
    BY <1>1, <1>2 DEF GroupCheck, GroupRecord, Calm, observers
  <2>2. QED
    BY <1>7, <1>8, <1>9, <2>1

\* A scan that fails past its check writes the record that it began with.
LEMMA PrevFails ==
    ASSUME TInv, TrustInv, LoadedInv, Prepared, NEW x \in Games, Sound(x), disturbances' < 2,
           job.who \in {"rescan", "recovery"}, job.step \in {"walk", "finish", "abort"}, ScanFrame,
           GroupFails(Partial(job.prev)),
           Grouped(x) => ~Finds(x)
    PROVE  Sound(x)'
<1>0. /\ job.prev \in Record /\ RecordOK(job.prev) /\ InScan
      /\ ~lost /\ Agree => Keeps(row[job.root], job.prev)
  BY GroupTypes DEF TrustInv, Records, JobTrust, InScan
<1>1. PICK r \in Platform : r = job.root
  BY GroupTypes
<1>2. PICK record : record = Partial(job.prev)
  OBVIOUS
<1>3. /\ record \in Record /\ record.state # "none" /\ RecordOK(record)
      /\ Filesystem(record) = Filesystem(job.prev)
  <2>1. record \in Record /\ record.state = "unavailable"
    BY <1>0, <1>2, FailedTypes DEF State
  <2>2. QED
    BY <1>0, <1>2, <2>1, SameFilesystem
<1>4. record.some = job.prev.some
  BY <1>0, <1>2 DEF Partial, Failed, Record
<1>5. ASSUME r = RootOf(x), Quiet(r)
      PROVE  /\ r = "wii" => Filesystem(record) # "none"
             /\ r = "gamecube" => Plain(record) /\ (Filesystem(record) = "none" => Silent)
  <2>1. Keeps(row[r], record)
    BY <1>0, <1>1, <1>3, <1>5 DEF Quiet, Keeps
  <2>2. r = "wii" => Filesystem(record) # "none"
    BY <1>5, <2>1, RowOfRunning DEF Keeps
  <2>3. ASSUME r = "gamecube" PROVE Plain(record) /\ (Filesystem(record) = "none" => Silent)
    <3>1. Plain(record)
      BY <1>0, <1>1, <1>3, <1>4, <1>5 DEF Quiet, Plain
    <3>2. Root(r) = r
      BY <1>1, GroupTypes
    <3>3. Filesystem(src[r]) # "none" => Filesystem(row[r]) = Filesystem(src[r])
      BY <1>1, <1>5, <3>2, ConstantTrust DEF TrustInv, MemTrust, Quiet
    <3>4. QED
      BY <1>5, <2>1, <2>3, <3>1, <3>3 DEF Quiet, Keeps
  <2>4. QED
    BY <2>2, <2>3
<1>6. r = RootOf(x) /\ Filesystem(record) = "home" => Fine(x, 1)
  BY <1>0, <1>1, <1>3 DEF Sound, PrevSound, Grouped
<1>7. ~lost /\ Agree => Keeps(row[r], record)
  BY <1>0, <1>1, <1>3 DEF Keeps
<1>8. QED
  BY <1>1, <1>2, <1>3, <1>5, <1>6, <1>7, GroupFailsLands

LEMMA GroupWalkSound ==
    ASSUME TInv, TrustInv, LoadedInv, Prepared, NEW x \in Games \ removed, Sound(x),
           disturbances' < 2, GroupWalk
    PROVE  Sound(x)'
<1>0. /\ job.who \in {"rescan", "recovery"} /\ job.step = "walk" /\ ScanFrame /\ job \in Job
      /\ disturbances \in Nat /\ Prepared
  BY TypeParts DEF TInv, JobTypes, GroupWalk, Scanning, Prepared
<1>1. PICK r \in Platform : r = job.root
  BY <1>0, GroupTypes
<1>2. CASE mount[r] = "gone" /\ GroupFails(Partial(job.prev))
  <2>1. Grouped(x) => ~Finds(x)
    BY <1>1, <1>2 DEF Grouped, Finds
  <2>2. QED
    BY <1>0, <2>1, <1>2, PrevFails
<1>3. CASE ~(mount[r] = "gone" /\ GroupFails(Partial(job.prev)))
  <2>a. PICK s \in {"finish", "walk"} :
           s = IF job.walked \cup {Walked} = Group(job.root) THEN "finish" ELSE "walk"
    OBVIOUS
  <2>1. PICK found :
           /\ Walk(r, Walked, found)
           /\ job' = [job EXCEPT !.found = @ \cup found, !.walked = @ \cup {Walked}, !.step = s]
           /\ UNCHANGED <<row, cat, src, shown, lost>>
    BY <1>1, <1>3, <2>a DEF GroupWalk, Walked, observers
  <2>2. /\ job'.who = job.who /\ job'.root = r /\ job'.step = s /\ job'.prev = job.prev
        /\ job'.cand = job.cand /\ job'.accept = job.accept
        /\ job'.found = job.found \cup found /\ job'.walked = job.walked \cup {Walked}
    BY <1>0, <1>1, <2>1 DEF Job
  <2>3. UNCHANGED <<shared, mount, upgrade, schema, kind>>
    BY <1>0 DEF ScanFrame, config, envVars
  <2>4. (\A n : Fine(x, n)' = Fine(x, n)) /\ RootOf(x)' = RootOf(x) /\ PlatformOf(x)' = PlatformOf(x)
    BY <2>1, <2>3, FineFrame, RootFrame
  <2>5. Grouped(x)' = Grouped(x) /\ ~Startup' /\ ~Startup
    BY <1>0, <1>1, <2>2, <2>4 DEF Grouped, Startup
  <2>6. /\ HasWalked(x) <=> Grouped(x) /\ PlatformOf(x) \in job.walked
        /\ HasWalked(x)' <=> Grouped(x) /\ (PlatformOf(x) \in job.walked \/ PlatformOf(x) = Walked)
        /\ ToWalk(x) <=> Grouped(x) /\ PlatformOf(x) \notin job.walked
        /\ ToWalk(x)' => ToWalk(x)
    BY <1>0, <2>2, <2>4, <2>5 DEF HasWalked, ToWalk
  <2>7. disturbances' \in {disturbances, disturbances + 1}
    BY <2>1 DEF Walk, Calm, Disturb
  <2>8. ASSUME Missed(x)', ~Missed(x)
        PROVE  /\ ToWalk(x) /\ r = RootOf(x) /\ x \notin found
               /\ Away(x) \/ (disturbances = 0 /\ disturbances' = 1)
    <3>1. x \notin found /\ x \notin job.found
      BY <2>2, <2>8 DEF Missed
    <3>2. Grouped(x) /\ PlatformOf(x) \notin job.walked /\ PlatformOf(x) = Walked
      BY <2>6, <2>8, <3>1 DEF Missed
    <3>3. r = RootOf(x)
      BY <1>1, <3>2 DEF Grouped
    <3>4. Away(x) \/ disturbances' = disturbances + 1
      BY <2>1, <3>1, <3>2, <3>3, WalkMiss
    <3>5. QED
      BY <1>0, <2>6, <3>1, <3>2, <3>3, <3>4
  <2>9. Hit(x)' => Hit(x) \/ Away(x) \/ (disturbances = 0 /\ disturbances' = 1)
    BY <2>4, <2>8 DEF Hit
  <2>10. disturbances' = 0 => ~Hit(x)'
    <3>1. SUFFICES ASSUME disturbances' = 0, Hit(x)' PROVE FALSE
      OBVIOUS
    <3>2. disturbances = 0
      BY <1>0, <2>7, <3>1
    <3>3. QED
      BY <2>9, <3>1, <3>2 DEF Sound, Untouched, Away
  <2>11. ASSUME shared, x \in CubeGames, Hit(x)' PROVE row["wii"] # NoRecord
    <3>1. CASE Hit(x)
      BY <2>11, <3>1 DEF Sound, CubeSound
    <3>2. CASE ~Hit(x)
      <4>1. Missed(x)' /\ ~Missed(x)
        BY <2>4, <2>11, <3>2 DEF Hit
      <4>2. Quiet(RootOf(x))
        BY <2>8, <4>1 DEF Sound, Guarded
      <4>3. RootOf(x) = "wii"
        BY <2>11, FineTypes
      <4>4. QED
        BY <1>0, <4>2, <4>3, RowOfRunning
    <3>3. QED
      BY <3>1, <3>2
  <2>12. MissSound(x)'
    <3>1. SUFFICES ASSUME Missed(x)', HomeCand' PROVE Fine(x, 0)
      BY <2>4 DEF MissSound
    <3>2. HomeCand
      BY <2>2, <3>1 DEF HomeCand
    <3>3. CASE Missed(x)
      BY <3>2, <3>3 DEF Sound, MissSound
    <3>4. CASE ~Missed(x)
      BY <2>8, <3>1, <3>2, <3>4 DEF Sound, WalkSound, Untouched, Hit
    <3>5. QED
      BY <3>3, <3>4
  <2>13. WalkSound(x)'
    <3>1. Away(x)' = Away(x) /\ HomeCand' = HomeCand
      BY <2>2, <2>3, <2>4 DEF Away, HomeCand
    <3>2. QED
      BY <2>4, <2>6, <3>1 DEF Sound, WalkSound
  <2>14. PrevSound(x)'
    <3>1. SUFFICES ASSUME Grouped(x), Filesystem(job.prev) = "home", ~Fine(x, 1) PROVE Finds(x)'
      BY <2>2, <2>4, <2>5 DEF PrevSound
    <3>2. Finds(x)
      BY <1>0, <3>1 DEF Sound, PrevSound, InScan
    <3>3. disturbances' = 1
      BY <2>7, <3>2 DEF Finds
    <3>4. HasWalked(x)' => x \in job'.found
      <4>1. ASSUME Missed(x)' PROVE FALSE
        <5>1. Missed(x) \/ Away(x) \/ disturbances = 0
          BY <2>8, <4>1
        <5>2. QED
          BY <3>2, <5>1 DEF Finds, Missed, Away
      <4>2. QED
        BY <4>1 DEF Missed
    <3>5. Preflight("home", job.cand)' = Preflight("home", job.cand)
      BY <2>2, <2>3 DEF Preflight, SameIdentity, Fs
    <3>6. QED
      BY <2>2, <2>3, <2>4, <3>2, <3>3, <3>4, <3>5 DEF Finds
  <2>15. job.root = RootOf(x) /\ Quiet(job.root) => Plain(job'.prev)
    BY <1>0, <2>2 DEF Quiet, InScan
  <2>16. Hit(x)' => Hit(x) \/ Away(x) \/ disturbances = 0
    BY <2>9
  <2>17. QED
    BY <1>0, <1>1, <2>1, <2>2, <2>7, <2>10, <2>11, <2>12, <2>13, <2>14, <2>15, <2>16, GroupOn
<1>4. QED
  BY <1>2, <1>3

\* What the commit of a scan makes of the counter of a game of its group.
LEMMA CommittedOne ==
    ASSUME TInv, job.who \in {"rescan", "recovery"}, NEW x \in Games, job.root = RootOf(x)
    PROVE  /\ PlatformOf(x) \in Group(job.root)
           /\ x \in job.found => Committed[x] = 0
           /\ x \notin job.found /\ cat[x] \in {-1, 2} => Committed[x] = cat[x]
           /\ x \notin job.found /\ cat[x] \notin {-1, 2} => Committed[x] = cat[x] + 1
<1>0. cat \in Catalogs /\ "wii" \in Platform /\ "gamecube" \in Platform
  BY TypeParts DEF TInv, DbTypes, Platform
<1>1. PlatformOf(x) \in Platform /\ PlatformOf(x) \in Group(job.root)
  BY GroupTypes, PlatformOfGames DEF RootOf
<1>2. CASE shared
  <2>1. PICK c : c = Reconciled(cat, "wii", job.found)
    OBVIOUS
  <2>2. c \in Catalogs
    BY <1>0, <2>1, ReconciledTypes
  <2>3. Committed = Reconciled(c, "gamecube", job.found)
    BY <1>2, <2>1 DEF Committed
  <2>4. CASE PlatformOf(x) = "wii"
    <3>1. Committed[x] = c[x]
      BY <1>0, <2>2, <2>3, <2>4, ReconciledOne
    <3>2. QED
      BY <1>0, <1>1, <2>1, <2>4, <3>1, ReconciledOne
  <2>5. CASE PlatformOf(x) = "gamecube"
    <3>1. c[x] = cat[x]
      BY <1>0, <2>1, <2>5, ReconciledOne
    <3>2. QED
      BY <1>0, <1>1, <2>2, <2>3, <2>5, <3>1, ReconciledOne
  <2>6. QED
    BY <1>1, <2>4, <2>5 DEF Platform
<1>3. CASE ~shared
  <2>1. job.root = PlatformOf(x)
    BY <1>3 DEF RootOf, Root
  <2>2. Committed = Reconciled(cat, PlatformOf(x), job.found)
    BY <1>3, <2>1 DEF Committed
  <2>3. QED
    BY <1>0, <1>1, <2>2, ReconciledOne
<1>4. QED
  BY <1>2, <1>3

LEMMA GroupCommitSound ==
    ASSUME TInv, TrustInv, LoadedInv, Prepared, NEW x \in Games, Sound(x), disturbances' < 2,
           Scanning("finish"), ScanFrame, ~job.accept,
           NEW some \in BOOLEAN, NEW record, record = Successful(job.cand, some),
           CommitScan(record), UNCHANGED <<lost, disturbances>>, job' = AfterGroup,
           src' = [p \in Platform |-> IF p \in Group(job.root) THEN record ELSE src[p]],
           shown' = Decoded(cat', Group(job.root), "available")
    PROVE  Sound(x)'
<1>0. /\ job.who \in {"rescan", "recovery"} /\ job.step = "finish" /\ job.walked = Group(job.root)
      /\ row \in [Platform -> Record] /\ UNCHANGED <<upgrade, schema, queue, shared>>
  BY TypeParts DEF TInv, DbTypes, Scanning, Prepared, ScanFrame, config
<1>1. PICK r \in Platform : r = job.root /\ r \in Group(r)
  BY <1>0, GroupTypes
<1>2. /\ job.cand \in Record /\ RecordOK(job.cand) /\ Filesystem(job.cand) # "none"
      /\ ~lost /\ Agree => Keeps(row[r], job.cand)
  BY <1>0, <1>1, GroupTypes DEF TrustInv, Records, JobTrust, Prepared
<1>3. /\ record \in Record /\ record.state # "none" /\ RecordOK(record)
      /\ Filesystem(record) = Filesystem(job.cand)
  BY <1>2, FailedTypes, SameFilesystem DEF State
<1>4. cat' = Committed /\ row' = [row EXCEPT ![r] = record]
  BY <1>1 DEF CommitScan
<1>5. Stored(r, record)
  BY <1>0, <1>4 DEF Stored
<1>6. r # RootOf(x) => \A n : Fine(x, n)' = Fine(x, n)
  <2>1. r # RootOf(x) => PlatformOf(x) \notin Group(r)
    BY <1>0, <1>1, GroupTypes, PlatformOfGames DEF RootOf
  <2>2. r # RootOf(x) => cat'[x] = cat[x]
    BY <1>0, <1>1, <1>4, <2>1, CommittedOthers
  <2>3. QED
    BY <1>0, <2>2, FineFrame
<1>7. ASSUME r = RootOf(x)
      PROVE  /\ HasWalked(x)
             /\ x \in job.found => Fine(x, 0)' /\ Fine(x, 1)'
             /\ x \notin job.found => Missed(x) /\ (Fine(x, 0) => Fine(x, 1)')
  <2>1. /\ PlatformOf(x) \in Group(r)
        /\ x \in job.found => cat'[x] = 0
        /\ x \notin job.found /\ cat[x] \in {-1, 2} => cat'[x] = cat[x]
        /\ x \notin job.found /\ cat[x] \notin {-1, 2} => cat'[x] = cat[x] + 1
    BY <1>0, <1>1, <1>4, <1>7, CommittedOne
  <2>2. HasWalked(x)
    BY <1>0, <1>1, <1>7, <2>1 DEF HasWalked, Grouped
  <2>3. Upgraded(x)' = Upgraded(x) /\ cat[x] \in -1 .. 2
    BY <1>0, FineTypes DEF Upgraded
  <2>4. x \in job.found => Fine(x, 0)' /\ Fine(x, 1)'
    BY <2>1 DEF Fine
  <2>5. x \notin job.found /\ Fine(x, 0) => Fine(x, 1)'
    BY <2>1, <2>3 DEF Fine
  <2>6. QED
    BY <2>2, <2>4, <2>5 DEF Missed
<1>8. Hit(x)' => Hit(x)
  <2>1. ~HasWalked(x)'
    BY <1>0, AfterGroupStep DEF HasWalked
  <2>2. QED
    BY <1>6, <1>7, <2>1 DEF Hit, Missed
<1>9. r = RootOf(x) /\ Filesystem(record) = "home" => Fine(x, 1)'
  BY <1>3, <1>7 DEF Sound, MissSound, HomeCand
<1>10. RootOf(x) = "gamecube" /\ Silent /\ r = "wii" => Silent'
  <2>1. SUFFICES ASSUME RootOf(x) = "gamecube", Silent, r = "wii" PROVE Silent'
    OBVIOUS
  <2>2. Group(r) = {"wii"}
    BY <2>1, FineTypes DEF Group
  <2>3. ASSUME NEW y \in CubeGames PROVE shown'[y] = shown[y]
    <3>1. y \in Games /\ \A p \in Group(r) : y \notin GamesOf(p)
      BY <2>2, CubeNotWii
    <3>2. QED
      BY <1>1, <3>1 DEF Decoded
  <2>4. QED
    BY <1>0, <2>1, <2>3 DEF Silent
<1>11. Plain(record) /\ Filesystem(record) # "none" /\ (~lost /\ Agree => Keeps(row[r], record))
  BY <1>2, <1>3 DEF Plain, Keeps
<1>12. Fine(x, 1) /\ ~(r = RootOf(x) /\ Stored(r, record)) => Fine(x, 1)'
  BY <1>5, <1>6
<1>13. QED
  BY <1>0, <1>1, <1>3, <1>4, <1>8, <1>9, <1>10, <1>11, <1>12, GroupLands

LEMMA GroupFinishSound ==
    ASSUME TInv, TrustInv, LoadedInv, Prepared, NEW x \in Games, Sound(x), disturbances' < 2,
           ~accepted', GroupFinish
    PROVE  Sound(x)'
<1> DEFINE some == job.found # {}
<1>0. /\ Scanning("finish") /\ job.who \in {"rescan", "recovery"} /\ job.step = "finish"
      /\ ScanFrame /\ job \in Job /\ job.walked = Group(job.root) /\ disturbances \in Nat
  BY TypeParts DEF TInv, JobTypes, GroupFinish, Scanning, Prepared
<1>1. PICK r \in Platform : r = job.root
  BY <1>0, GroupTypes
<1>2. CASE (~StillThere(r) \/ EmptyReplacement) /\ GroupFails(Partial(job.prev))
  <2>1. ASSUME Grouped(x), Finds(x) PROVE FALSE
    <3>1. r = RootOf(x)
      BY <1>1, <2>1 DEF Grouped
    <3>2. StillThere(r)
      BY <2>1, <3>1 DEF Finds, StillThere
    <3>3. PlatformOf(x) \in Group(r)
      BY <1>0, <1>1, <3>1, CommittedOne
    <3>4. x \in job.found
      BY <1>0, <1>1, <2>1, <3>3 DEF Finds, HasWalked
    <3>5. QED
      BY <1>2, <3>2, <3>4 DEF EmptyReplacement
  <2>2. QED
    BY <1>0, <1>2, <2>1, PrevFails
<1>3. CASE /\ CommitScan(Successful(job.cand, some)) /\ Calm /\ UNCHANGED lost
           /\ src' = [p \in Platform |-> IF p \in Group(r) THEN Successful(job.cand, some)
                                          ELSE src[p]]
           /\ shown' = Decoded(cat', Group(r), "available")
           /\ accepted' = (accepted \/ job.accept) /\ job' = AfterGroup
  <2>1. ~job.accept
    BY <1>3
  <2>2. some \in BOOLEAN
    OBVIOUS
  <2> HIDE DEF some
  <2>3. QED
    BY <1>0, <1>1, <1>3, <2>1, <2>2, GroupCommitSound DEF Calm
<1>4. CASE /\ Disturb /\ job' = [job EXCEPT !.step = "abort"]
           /\ UNCHANGED <<row, cat, src, shown, lost>>
  <2>1. disturbances = 0 /\ disturbances' = 1
    BY <1>0, <1>4 DEF Disturb
  <2>2. /\ job'.who = job.who /\ job'.root = r /\ job'.step = "abort" /\ job'.prev = job.prev
    BY <1>0, <1>1, <1>4 DEF Job
  <2>3. UNCHANGED <<shared, mount, upgrade, schema>>
    BY <1>0 DEF ScanFrame, config, envVars
  <2>4. \A n : Fine(x, n)' = Fine(x, n)
    BY <1>4, <2>3, FineFrame
  <2>5. Fine(x, 0) /\ Fine(x, 1)
    BY <2>1, FineTypes DEF Sound, Untouched, Hit
  <2>6. ~HasWalked(x)' /\ ~ToWalk(x)'
    BY <2>2 DEF HasWalked, ToWalk
  <2>7. ~Hit(x)' /\ MissSound(x)' /\ WalkSound(x)' /\ PrevSound(x)'
    BY <2>4, <2>5, <2>6 DEF Hit, Missed, MissSound, WalkSound, PrevSound
  <2>8. job.root = RootOf(x) /\ Quiet(job.root) => Plain(job'.prev)
    BY <1>0, <2>2 DEF Quiet, InScan
  <2>9. QED
    BY <1>0, <1>1, <1>4, <2>1, <2>2, <2>7, <2>8, GroupOn
<1>5. QED
  BY <1>1, <1>2, <1>3, <1>4 DEF GroupFinish, observers

LEMMA ScanSound ==
    ASSUME TInv, TrustInv, LoadedInv, Prepared, NEW x \in Games \ removed, Sound(x),
           disturbances' < 2, ~accepted', ScanStep
    PROVE  Sound(x)'
<1>1. CASE GroupAbort
  <2>1. /\ job.who \in {"rescan", "recovery"} /\ job.step = "abort" /\ ScanFrame
        /\ GroupFails(Partial(job.prev))
    BY <1>1 DEF GroupAbort, Scanning
  <2>2. ~Finds(x)
    BY <2>1 DEF Finds
  <2>3. QED
    BY <2>1, <2>2, PrevFails
<1>2. QED
  BY <1>1, GroupCheckSound, GroupWalkSound, GroupFinishSound DEF ScanStep

\* The reconciler of read failures.
LEMMA ReportSound ==
    ASSUME TInv, TrustInv, LoadedInv, Prepared, NEW x \in Games, Sound(x), disturbances' < 2,
           ReconcileReport
    PROVE  Sound(x)'
<1>0. /\ DbTypes /\ MemTypes /\ queue # <<>> /\ job = NoJob /\ job' = job /\ queue' = Tail(queue)
      /\ UNCHANGED <<shared, mount, upgrade, schema>> /\ disturbances \in Nat
  BY TypeParts DEF TInv, ReconcileReport, config, envVars, Prepared
<1>1. PICK p \in Platform : p = Head(queue).platform
  BY <1>0, ReportTypes
<1>2. PICK r \in Platform : r = Root(p)
  BY RootTypes
<1>3. PICK record : record = ReportRecord
  OBVIOUS
<1>4. /\ Writes({p}, r, record) /\ Settled /\ record # NoRecord
      /\ InMemory(p) # NoRecord /\ Keeps(InMemory(p), record)
      /\ ~lost /\ Agree => /\ Filesystem(row[r]) = Filesystem(InMemory(p))
                           /\ Keeps(row[r], record)
  BY <1>1, <1>2, <1>3, ReportWrites
<1>5. RecordFailure({p}, r, record)
  BY <1>1, <1>2, <1>3 DEF ReconcileReport, ReportRecord
<1>6. /\ cat' = cat
      /\ \/ row' = [row EXCEPT ![r] = record] /\ lost' = lost /\ disturbances' = disturbances
         \/ row' = row /\ lost' = TRUE /\ disturbances' = disturbances + 1
  BY <1>5 DEF RecordFailure, Upsert, Calm, Disturb
<1>7. Stored(r, record) \/ disturbances' = disturbances + 1
  BY <1>0, <1>6 DEF Stored, DbTypes
<1>8. \A n : Fine(x, n)' = Fine(x, n)
  BY <1>0, <1>6, FineFrame
<1>9. Hit(x)' => Hit(x)
  <2>1. ~HasWalked(x)'
    BY <1>0, ConstantRecords DEF HasWalked
  <2>2. QED
    BY <1>8, <2>1 DEF Hit, Missed
<1>10. src["wii"] # NoRecord
  BY <1>0, ConstantRecords DEF LoadedInv, Loaded
<1>11. Len(queue) \in Nat \ {0} /\ Head(queue) = queue[1] /\ Len(Tail(queue)) = Len(queue) - 1
       /\ \A i \in 1 .. Len(Tail(queue)) : Tail(queue)[i] = queue[i + 1]
  BY <1>0, EmptySeq, HeadTailProperties DEF MemTypes
<1>12. Silent => Silent'
  <2>1. \A y \in CubeGames : shown[y] = "unlisted" => shown'[y] = "unlisted"
    BY <1>5, CubeNotWii DEF RecordFailure
  <2>2. QED
    BY <1>0, <1>11, <2>1 DEF Silent
<1>13. ASSUME r = RootOf(x), Quiet(r)
       PROVE  Filesystem(row[r]) # "none"
  <2>1. CASE r = "wii"
    BY <1>0, <1>13, <2>1, RowOfRunning, ConstantRecords
  <2>2. CASE r = "gamecube"
    <3>1. p = "gamecube" /\ InMemory(p) = src["gamecube"]
      BY <1>2, <1>4, <1>13, <2>2, FineTypes DEF Root, InMemory
    <3>2. ~Silent
      BY <1>1, <1>11, <3>1 DEF Silent
    <3>3. QED
      BY <1>4, <1>13, <2>2, <3>1, <3>2 DEF Quiet
  <2>3. QED
    BY <2>1, <2>2 DEF Platform
<1>14. r = RootOf(x) /\ Quiet(r) =>
          /\ Keeps(row[r], record)
          /\ Filesystem(record) # "none" /\ Plain(record)
  BY <1>4, <1>13 DEF Quiet, Keeps, Plain
<1>15. r = RootOf(x) /\ Filesystem(record) = "home" => Fine(x, 1)'
  <2>1. SUFFICES ASSUME r = RootOf(x), Filesystem(record) = "home" PROVE Fine(x, 1)
    BY <1>8
  <2>2. CASE ~Quiet(r)
    BY <2>1, <2>2, FineTypes DEF Sound, Guarded, Hit
  <2>3. CASE Quiet(r)
    BY <1>13, <1>14, <2>1, <2>3 DEF Keeps, Sound, Counted
  <2>4. QED
    BY <2>2, <2>3
<1>16. disturbances' \in {disturbances, disturbances + 1}
  BY <1>6
<1>17. Lands(x, {p}, r, record)
  BY <1>0, <1>4, <1>7, <1>8, <1>9, <1>10, <1>12, <1>14, <1>15, <1>16 DEF Lands
<1>18. QED
  BY <1>17, LandsSound

\* Steps of startup and of the threads that write neither row nor memory.
LEMMA QuietSound ==
    ASSUME Prepared, NEW x \in Games, Sound(x), UNCHANGED <<shared, mount, row, src, shown, queue, lost>>,
           disturbances' \in {disturbances, disturbances + 1},
           job'.step \notin {"walk", "reconcile", "row", "finish", "abort"},
           Fine(x, 0) => Fine(x, 0)', Fine(x, 1) => Fine(x, 1)'
    PROVE  Sound(x)'
<1>1. (\A p : Root(p)' = Root(p)) /\ RootOf(x)' = RootOf(x) /\ disturbances \in Nat
  BY RootFrame DEF Prepared
<1>2. ~HasWalked(x)' /\ ~InScan'
  BY DEF HasWalked, InScan
<1>3. Hit(x)' => Hit(x)
  BY <1>2 DEF Hit, Missed
<1>4. Agree' = Agree /\ Silent' = Silent
  BY DEF Agree, InMemory, Silent
<1>5. Quiet(RootOf(x)) => Quiet(RootOf(x))'
  BY <1>1, <1>2, <1>4 DEF Quiet
<1>6. Guarded(x)'
  BY <1>1, <1>3, <1>5 DEF Sound, Guarded, Away
<1>7. Counted(x)' /\ CubeSound(x)'
  BY <1>1, <1>3 DEF Sound, Counted, CubeSound
<1>8. QED
  BY <1>3, <1>6, <1>7, AtRest DEF Sound

LEMMA MigrateSound ==
    ASSUME TInv, Prepared, NEW x \in Games, Sound(x), Migrate
    PROVE  Sound(x)'
<1> USE DEF config, envVars, dbVars, memVars, observers, budgets
<1>0. /\ DbTypes /\ job \in Job /\ job.step = "schema" /\ schema < 3 /\ upgrade \in 0 .. 3
      /\ UNCHANGED <<shared, mount, row, src, shown, queue, lost, disturbances, upgrade>>
  BY TypeParts, CatalogAssumption DEF TInv, JobTypes, JobShape, Migrate, EnvTypes
<1>1. /\ job'.step \in {"check", "schema"} /\ schema' = schema + 1 /\ schema \in Nat
      /\ cat' = IF schema' = 2 THEN Seeded(cat) ELSE cat
  BY <1>0 DEF Migrate, Job, DbTypes
<1>2. CASE schema' = 2
  <2>1. cat'[x] = IF x \in snapshot /\ cat[x] = -1 THEN 0 ELSE cat[x]
    BY <1>1, <1>2 DEF Seeded
  <2>2. Upgraded(x)' => cat'[x] # -1
    BY <1>0, <1>1, <1>2, <2>1 DEF Upgraded, Prepared
  <2>3. (Fine(x, 0) => Fine(x, 0)') /\ (Fine(x, 1) => Fine(x, 1)')
    BY <2>1, <2>2 DEF Fine
  <2>4. QED
    BY <1>0, <1>1, <2>3, QuietSound
<1>3. CASE schema' # 2
  <2>1. cat' = cat /\ (Upgraded(x)' => Upgraded(x))
    BY <1>0, <1>1, <1>3 DEF Upgraded
  <2>2. (Fine(x, 0) => Fine(x, 0)') /\ (Fine(x, 1) => Fine(x, 1)')
    BY <2>1 DEF Fine
  <2>3. QED
    BY <1>0, <1>1, <2>2, QuietSound
<1>4. QED
  BY <1>2, <1>3

LEMMA BeginSound ==
    ASSUME TInv, Prepared, NEW x \in Games, Sound(x),
           \/ BootMounts \/ BackupDatabase \/ BootPublish \/ InitBegin
           \/ \E r \in Platform : Recover(r)
           \/ \E choice \in Platform \cup {"all"}, accept \in BOOLEAN : RescanBegin(choice, accept)
    PROVE  Sound(x)'
<1> USE DEF config, envVars, dbVars, memVars, observers, budgets
<1>0. job \in Job
  BY TypeParts DEF TInv, JobTypes
<1>1. /\ UNCHANGED <<shared, mount, row, src, shown, queue, lost, upgrade, schema, cat>>
      /\ disturbances' \in {disturbances, disturbances + 1}
  BY DEF BootMounts, BackupDatabase, BootPublish, InitBegin, Recover, RescanBegin, Calm, Disturb
<1>2. job'.step \in {"check", "schema", "idle", "failed"}
  <2>1. CASE BootMounts \/ BackupDatabase
    BY <1>0, <2>1 DEF BootMounts, BackupDatabase, Job
  <2>2. CASE BootPublish
    BY <1>0, <2>2 DEF BootPublish, NoJob, Job
  <2>3. CASE ~(BootMounts \/ BackupDatabase \/ BootPublish)
    BY <2>3 DEF InitBegin, Recover, RescanBegin, NoJob
  <2>4. QED
    BY <2>1, <2>2, <2>3
<1>3. Fine(x, 0)' = Fine(x, 0) /\ Fine(x, 1)' = Fine(x, 1)
  BY <1>1, FineFrame
<1>4. QED
  BY <1>1, <1>2, <1>3, QuietSound

LEMMA RestartSound ==
    ASSUME TInv, Prepared, NEW x \in Games, Sound(x), Restart
    PROVE  Sound(x)'
<1> USE DEF config, envVars, dbVars, memVars, observers, budgets
<1>0. /\ UNCHANGED <<shared, mount, row, cat, schema, upgrade, disturbances>> /\ lost' = FALSE
      /\ src' = [p \in Platform |-> NoRecord] /\ shown' = [y \in Games |-> "unlisted"]
      /\ queue' = <<>> /\ job' = Booting(schema) /\ schema \in 0 .. 3 /\ disturbances \in Nat
  BY TypeParts DEF TInv, DbTypes, Restart, Prepared
<1>1. (\A p : Root(p)' = Root(p)) /\ RootOf(x)' = RootOf(x) /\ RootOf(x) \in Platform
  BY <1>0, RootFrame, FineTypes
<1>2. job'.who = "boot" /\ job'.step = "mounts"
  BY <1>0, BootingTypes
<1>3. ~HasWalked(x)' /\ ~InScan'
  BY <1>2 DEF HasWalked, InScan
<1>4. \A n : Fine(x, n)' = Fine(x, n)
  BY <1>0, FineFrame
<1>5. Hit(x)' => Hit(x)
  BY <1>3, <1>4 DEF Hit, Missed
<1>6. \A p \in Platform : src'[p] = NoRecord
  BY <1>0
<1>7. Agree'
  BY <1>6 DEF Agree, InMemory, Platform
<1>8. Silent'
  BY <1>0, CubeNotWii DEF Silent
<1>9. Named(NoRecord) /\ Plain(NoRecord)
  BY DEF Named, Plain, NoRecord
<1>10. Quiet(RootOf(x)) => Quiet(RootOf(x))'
  BY <1>0, <1>1, <1>3, <1>6, <1>7, <1>8, <1>9 DEF Quiet
<1>11. Guarded(x)'
  BY <1>0, <1>1, <1>5, <1>10 DEF Sound, Guarded, Away
<1>12. Counted(x)' /\ CubeSound(x)'
  BY <1>0, <1>1, <1>4, <1>5 DEF Sound, Counted, CubeSound
<1>13. QED
  BY <1>0, <1>2, <1>5, <1>11, <1>12, AtRest DEF Sound

\* Steps next to a scan.
LEMMA StaySound ==
    ASSUME NEW x \in Games, Sound(x),
           UNCHANGED <<shared, kind, mount, row, src, lost, disturbances, job>>,
           Silent => Silent',
           Fine(x, 0) => Fine(x, 0)', Fine(x, 1) => Fine(x, 1)'
    PROVE  Sound(x)'
<1>1. (\A p : Root(p)' = Root(p)) /\ RootOf(x)' = RootOf(x) /\ PlatformOf(x)' = PlatformOf(x)
  BY RootFrame
<1>2. /\ Grouped(x)' = Grouped(x) /\ Startup' = Startup /\ Own' = Own /\ InScan' = InScan
      /\ Away(x)' = Away(x) /\ HomeCand' = HomeCand /\ Agree' = Agree
  BY <1>1 DEF Grouped, Startup, Own, InScan, Away, HomeCand, Agree, InMemory
<1>3. HasWalked(x)' = HasWalked(x) /\ ToWalk(x)' = ToWalk(x) /\ Missed(x)' = Missed(x)
  BY <1>1, <1>2 DEF HasWalked, ToWalk, Missed
<1>4. Hit(x)' => Hit(x)
  BY <1>3 DEF Hit
<1>5. Preflight("home", job.cand)' = Preflight("home", job.cand)
  BY DEF Preflight, SameIdentity, Fs
<1>6. Finds(x)' = Finds(x)
  BY <1>1, <1>3, <1>5 DEF Finds
<1>7. Quiet(RootOf(x)) => Quiet(RootOf(x))'
  BY <1>1, <1>2 DEF Quiet
<1>8. Untouched(x)' /\ Guarded(x)'
  BY <1>1, <1>2, <1>4, <1>7 DEF Sound, Untouched, Guarded
<1>9. Counted(x)' /\ MissSound(x)' /\ WalkSound(x)'
  BY <1>1, <1>2, <1>3 DEF Sound, Counted, MissSound, WalkSound
<1>10. StartSound(x)' /\ PrevSound(x)' /\ CubeSound(x)'
  BY <1>1, <1>2, <1>4, <1>6 DEF Sound, StartSound, PrevSound, CubeSound
<1>11. QED
  BY <1>8, <1>9, <1>10 DEF Sound

LEMMA OtherSound ==
    ASSUME TInv, Prepared, NEW x \in Games \ removed',
           Sound(x),
           \/ \E y \in Games : AcknowledgeMissing(y) \/ EditSource(y)
           \/ \E p \in Platform, code \in {"read", "changed"} : ReadFails(p, code)
           \/ UNCHANGED vars
    PROVE  Sound(x)'
<1> USE DEF config, envVars, dbVars, memVars, observers, budgets
<1>1. UNCHANGED <<shared, kind, mount, row, src, lost, disturbances, job, upgrade, schema, shown>>
  BY DEF AcknowledgeMissing, EditSource, ReadFails, vars
<1>2. CASE \/ \E y \in Games : EditSource(y)
           \/ \E p \in Platform, code \in {"read", "changed"} : ReadFails(p, code)
           \/ UNCHANGED vars
  <2>1. cat' = cat
    BY <1>2 DEF EditSource, ReadFails, vars
  <2>2. Fine(x, 0)' = Fine(x, 0) /\ Fine(x, 1)' = Fine(x, 1)
    BY <1>1, <2>1, FineFrame
  <2>3. Silent => Silent'
    <3>1. CASE queue' = queue
      BY <1>1, <3>1 DEF Silent
    <3>2. CASE \E p \in Platform, code \in {"read", "changed"} : ReadFails(p, code)
      <4>1. PICK p \in Platform, code \in {"read", "changed"} : ReadFails(p, code)
        BY <3>2
      <4>2. queue' = Append(queue, [platform |-> p, code |-> code]) /\ queue \in Seq(Failure)
            /\ [platform |-> p, code |-> code] \in Failure
        BY <4>1, TypeParts DEF ReadFails, TInv, MemTypes, Failure
      <4>3. /\ Len(queue') = Len(queue) + 1 /\ Len(queue) \in Nat
            /\ \A i \in 1 .. Len(queue) : queue'[i] = queue[i]
            /\ queue'[Len(queue) + 1].platform = p
        BY <4>2, AppendProperties, LenProperties
      <4>4. Silent => p # "gamecube"
        BY <4>1 DEF Silent, ReadFails, GamesOf
      <4>5. QED
        BY <1>1, <4>3, <4>4 DEF Silent
    <3>3. QED
      BY <1>2, <3>1, <3>2 DEF EditSource, vars
  <2>4. QED
    BY <1>1, <2>2, <2>3, StaySound
<1>3. CASE \E y \in Games : AcknowledgeMissing(y)
  <2>1. PICK y \in Games : AcknowledgeMissing(y)
    BY <1>3
  <2>2. Silent' = Silent
    BY <1>1, <2>1 DEF AcknowledgeMissing, Silent
  <2>3. CASE y # x
    <3>1. cat'[x] = cat[x]
      BY <2>1, <2>3, TypeParts DEF AcknowledgeMissing, TInv, DbTypes, Catalogs
    <3>2. Fine(x, 0)' = Fine(x, 0) /\ Fine(x, 1)' = Fine(x, 1)
      BY <1>1, <3>1, FineFrame
    <3>3. QED
      BY <1>1, <2>2, <3>2, StaySound
  <2>4. CASE y = x
    <3>1. ~Fine(x, 0) /\ ~Fine(x, 1)
      BY <2>1, <2>4 DEF AcknowledgeMissing, Fine, Threshold
    <3>2. QED
      BY <1>1, <2>2, <3>1, StaySound
  <2>5. QED
    BY <2>3, <2>4
<1>4. QED
  BY <1>2, <1>3

LEMMA RemountSound ==
    ASSUME TInv, Prepared, NEW x \in Games, Sound(x), disturbances' < 2,
           NEW q \in Platform, NEW p \in Outages \cup {"home"}, Remount(q, p)
    PROVE  Sound(x)'
<1>0. /\ UNCHANGED <<shared, kind, upgrade, schema, row, cat, src, shown, queue, lost, job>>
      /\ mount' = [mount EXCEPT ![q] = p] /\ p # mount[q] /\ mount \in [Platform -> Place]
      /\ IF p = "home" THEN disturbances' = disturbances ELSE disturbances' = disturbances + 1
      /\ disturbances \in Nat
  BY TypeParts DEF Remount, config, dbVars, memVars, observers, Calm, Disturb, Prepared, TInv, EnvTypes
<1>1. (\A r : Root(r)' = Root(r)) /\ RootOf(x)' = RootOf(x) /\ PlatformOf(x)' = PlatformOf(x)
  BY <1>0, RootFrame
<1>2. /\ Grouped(x)' = Grouped(x) /\ Startup' = Startup /\ Own' = Own /\ InScan' = InScan
      /\ HomeCand' = HomeCand /\ Agree' = Agree /\ Silent' = Silent
  BY <1>0, <1>1 DEF Grouped, Startup, Own, InScan, HomeCand, Agree, InMemory, Silent
<1>3. HasWalked(x)' = HasWalked(x) /\ ToWalk(x)' = ToWalk(x) /\ Missed(x)' = Missed(x)
  BY <1>0, <1>1, <1>2 DEF HasWalked, ToWalk, Missed
<1>4. \A n : Fine(x, n)' = Fine(x, n)
  BY <1>0, FineFrame
<1>5. Hit(x)' = Hit(x)
  BY <1>3, <1>4 DEF Hit
<1>6. Preflight("home", job.cand)' = Preflight("home", job.cand)
  BY <1>0 DEF Preflight, SameIdentity, Fs
<1>7. PICK R \in Platform : R = RootOf(x)
  BY FineTypes
<1>8. Quiet(R) /\ mount'[R] \in {"home", "bare", "other"} => Quiet(R)'
  BY <1>0, <1>1, <1>2 DEF Quiet
<1>9. Counted(x)' /\ MissSound(x)' /\ StartSound(x)' /\ CubeSound(x)'
  BY <1>0, <1>1, <1>2, <1>3, <1>4, <1>5 DEF Sound, Counted, MissSound, StartSound, CubeSound
<1>10. disturbances = 0 => Fine(x, 0) /\ Fine(x, 1)
  BY FineTypes DEF Sound, Untouched, Hit
<1>11. CASE q # R
  <2>1. mount'[R] = mount[R]
    BY <1>0, <1>11
  <2>2. Untouched(x)'
    BY <1>0, <1>1, <1>5, <1>7, <2>1 DEF Sound, Untouched
  <2>3. Guarded(x)'
    BY <1>0, <1>1, <1>5, <1>7, <1>8, <2>1 DEF Sound, Guarded, Away, Quiet
  <2>4. WalkSound(x)'
    BY <1>1, <1>2, <1>3, <1>4, <1>7, <2>1 DEF Sound, WalkSound, Away
  <2>5. PrevSound(x)'
    <3>1. disturbances # 0 => disturbances' = disturbances
      BY <1>0
    <3>2. disturbances # 0 /\ Finds(x) => Finds(x)'
      BY <1>0, <1>1, <1>3, <1>6, <1>7, <2>1, <3>1 DEF Finds
    <3>3. QED
      BY <1>0, <1>2, <1>4, <1>10, <3>2 DEF Sound, PrevSound
  <2>6. QED
    BY <1>9, <2>2, <2>3, <2>4, <2>5 DEF Sound
<1>12. CASE q = R /\ p = "home"
  <2>1. mount'[R] = "home" /\ mount[R] # "home" /\ disturbances' = disturbances
    BY <1>0, <1>12
  <2>2. disturbances # 0 /\ Untouched(x)'
    BY <1>7, <2>1 DEF Sound, Untouched
  <2>3. ~Away(x)' /\ WalkSound(x)'
    BY <1>1, <1>7, <2>1 DEF Away, WalkSound
  <2>4. Guarded(x)'
    BY <1>1, <1>5, <1>7, <1>8, <2>1, <2>2, <2>3 DEF Sound, Guarded
  <2>5. ~Finds(x)
    BY <1>7, <2>1 DEF Finds
  <2>6. PrevSound(x)'
    BY <1>0, <1>2, <1>4, <2>5 DEF Sound, PrevSound
  <2>7. QED
    BY <1>9, <2>2, <2>3, <2>4, <2>6 DEF Sound
<1>13. CASE q = R /\ p # "home"
  <2>1. disturbances = 0 /\ disturbances' = 1
    BY <1>0, <1>13
  <2>2. Quiet(R) /\ ~Hit(x)'
    BY <1>5, <1>7, <2>1 DEF Sound, Untouched, Guarded
  <2>3. Guarded(x)'
    BY <1>1, <1>7, <1>8, <2>1, <2>2 DEF Guarded, Away
  <2>4. Untouched(x)' /\ WalkSound(x)' /\ PrevSound(x)'
    BY <1>4, <1>10, <2>1 DEF Untouched, WalkSound, PrevSound
  <2>5. QED
    BY <1>9, <2>3, <2>4 DEF Sound
<1>14. QED
  BY <1>11, <1>12, <1>13

-----------------------------------------------------------------------------
LEMMA NextSound ==
    ASSUME TInv, TrustInv, LoadedInv, Prepared, NEW x \in Games \ removed', Sound(x),
           x \notin removed, disturbances' < 2, ~accepted', [Next]_vars
    PROVE  Sound(x)'
<1>1. CASE StartStep
  BY <1>1, BeginSound, MigrateSound, StartCheckSound, StartWalkSound, StartReconcileSound,
     StartRowSound DEF StartStep
<1>2. CASE ScanStep
  BY <1>2, ScanSound
<1>3. CASE \/ InitBegin
           \/ \E choice \in Platform \cup {"all"}, accept \in BOOLEAN : RescanBegin(choice, accept)
           \/ \E r \in Platform : Recover(r)
  BY <1>3, BeginSound
<1>4. CASE \/ \E p \in Platform, code \in {"read", "changed"} : ReadFails(p, code)
           \/ \E y \in Games : AcknowledgeMissing(y)
           \/ \E y \in Games : EditSource(y)
           \/ UNCHANGED vars
  BY <1>4, OtherSound
<1>5. CASE ReconcileReport
  BY <1>5, ReportSound
<1>6. CASE Restart
  BY <1>6, RestartSound
<1>7. CASE \E r \in Platform, p \in Outages \cup {"home"} : Remount(r, p)
  BY <1>7, RemountSound
<1>8. QED
  BY <1>1, <1>2, <1>3, <1>4, <1>5, <1>6, <1>7 DEF Next

\* What is counted once stays counted: removed games, a relocation, disturbances.
LEMMA Monotone ==
    ASSUME TInv, Prepared, [Next]_vars
    PROVE  /\ removed \subseteq removed' /\ (accepted => accepted')
           /\ disturbances' < 2 => disturbances < 2
<1> USE DEF config, envVars, dbVars, memVars, observers, budgets
<1>0. disturbances \in Nat
  BY DEF Prepared
<1>1. CASE BootMounts \/ BackupDatabase \/ Migrate \/ BootPublish \/ InitBegin
  BY <1>0, <1>1 DEF BootMounts, BackupDatabase, Migrate, BootPublish, InitBegin, Calm, Disturb
<1>2. CASE StartCheck \/ StartWalk \/ StartReconcile \/ StartRow
  <2>1. UNCHANGED <<removed, accepted>>
    BY <1>2 DEF StartCheck, StartWalk, StartReconcile, StartRow, StartFrame
  <2>2. disturbances' \in {disturbances, disturbances + 1}
    BY <1>2 DEF StartCheck, StartWalk, StartReconcile, StartRow, StartFails, StartLoses, Upsert,
                Walk, Calm, Disturb
  <2>3. QED
    BY <1>0, <2>1, <2>2
<1>3. CASE ScanStep
  <2>1. removed' = removed
    BY <1>3 DEF ScanStep, GroupCheck, GroupWalk, GroupFinish, GroupAbort, ScanFrame
  <2>2. accepted => accepted'
    BY <1>3 DEF ScanStep, GroupCheck, GroupWalk, GroupFinish, GroupAbort, GroupFails
  <2>3. disturbances' \in {disturbances, disturbances + 1}
    BY <1>3 DEF ScanStep, GroupCheck, GroupWalk, GroupFinish, GroupAbort, GroupFails,
                RecordFailure, Upsert, Walk, Calm, Disturb
  <2>4. QED
    BY <1>0, <2>1, <2>2, <2>3
<1>4. CASE \/ \E choice \in Platform \cup {"all"}, accept \in BOOLEAN : RescanBegin(choice, accept)
           \/ \E r \in Platform : Recover(r)
           \/ \E p \in Platform, code \in {"read", "changed"} : ReadFails(p, code)
           \/ \E y \in Games : AcknowledgeMissing(y) \/ EditSource(y)
           \/ Restart \/ UNCHANGED vars
  <2>1. removed \subseteq removed'
    BY <1>4 DEF RescanBegin, Recover, ReadFails, AcknowledgeMissing, EditSource, Restart, vars
  <2>2. UNCHANGED <<accepted, disturbances>>
    BY <1>4 DEF RescanBegin, Recover, ReadFails, AcknowledgeMissing, EditSource, Restart, vars
  <2>3. QED
    BY <2>1, <2>2
<1>5. CASE ReconcileReport
  BY <1>0, <1>5 DEF ReconcileReport, RecordFailure, Upsert, Calm, Disturb
<1>6. CASE \E r \in Platform, p \in Outages \cup {"home"} : Remount(r, p)
  BY <1>0, <1>6 DEF Remount, Calm, Disturb
<1>7. QED
  BY <1>1, <1>2, <1>3, <1>4, <1>5, <1>6 DEF Next, StartStep

LEMMA NextLoss ==
    ASSUME TInv, TrustInv, LoadedInv, LossInv, [Next]_vars
    PROVE  LossInv'
<1>1. Prepared /\ Prepared'
  BY NextPrepared DEF LossInv
<1>2. ASSUME NEW x \in Games \ removed', ~accepted', disturbances' < 2
      PROVE  Sound(x)'
  <2>1. x \in Games \ removed /\ ~accepted /\ disturbances < 2
    BY <1>1, <1>2, Monotone
  <2>2. Sound(x)
    BY <2>1 DEF LossInv
  <2>3. QED
    BY <1>1, <1>2, <2>1, <2>2, NextSound
<1>3. QED
  BY <1>1, <1>2 DEF LossInv

LEMMA InitLoss == Init => LossInv
<1> SUFFICES ASSUME Init PROVE LossInv
  OBVIOUS
<1>0. TInv /\ Prepared /\ DbTypes /\ upgrade \in 0 .. 3
  BY InitTypes, InitPrepared, TypeParts, CatalogAssumption DEF TInv, EnvTypes
<1>1. /\ job = Booting(upgrade) /\ src = [p \in Platform |-> NoRecord] /\ ~lost
      /\ mount = [p \in Platform |-> "home"] /\ schema = upgrade /\ queue = <<>>
      /\ cat = [x \in Games |-> IF upgrade < 2 THEN -1 ELSE 0]
      /\ shown = [x \in Games |-> "unlisted"]
  BY DEF Init
<1>2. job.who = "boot" /\ job.step = "mounts"
  BY <1>0, <1>1, BootingTypes
<1>3. \A p \in Platform : src[p] = NoRecord /\ mount[p] = "home"
  BY <1>1
<1>4. Agree
  BY <1>3 DEF Agree, InMemory, Platform
<1>5. Silent
  BY <1>1, CubeNotWii DEF Silent
<1>6. Named(NoRecord) /\ Plain(NoRecord)
  BY DEF Named, Plain, NoRecord
<1>7. ASSUME NEW p \in Platform PROVE Named(row[p]) /\ Plain(row[p])
  <2>1. row[p] = NoRecord \/ row[p].dev = "d1"
    BY DEF Init
  <2>2. CASE row[p] = NoRecord
    BY <1>6, <2>2
  <2>3. CASE row[p].dev = "d1"
    <3>1. Filesystem(row[p]) = "home"
      BY <2>3 DEF Filesystem
    <3>2. QED
      BY <3>1 DEF Named, Plain
  <2>4. QED
    BY <2>1, <2>2, <2>3
<1>8. ~InScan /\ "wii" \in Platform /\ "gamecube" \in Platform
  BY <1>2 DEF InScan, Platform
<1>9. ASSUME NEW r \in Platform PROVE Quiet(r)
  BY <1>1, <1>3, <1>4, <1>5, <1>6, <1>7, <1>8 DEF Quiet
<1>10. ASSUME NEW x \in Games PROVE Sound(x)
  <2>1. Fine(x, 0) /\ Fine(x, 1)
    BY <1>0, <1>1 DEF Fine, Upgraded
  <2>2. ~HasWalked(x) /\ ~ToWalk(x)
    BY <1>2 DEF HasWalked, ToWalk
  <2>3. ~Hit(x) /\ RootOf(x) \in Platform
    BY <1>0, <2>1, <2>2, FineTypes DEF Hit, Missed
  <2>4. Untouched(x) /\ Guarded(x)
    BY <1>3, <1>9, <2>3 DEF Untouched, Guarded
  <2>5. QED
    BY <2>1, <2>2, <2>3, <2>4
       DEF Sound, Counted, MissSound, WalkSound, StartSound, PrevSound, CubeSound
<1>11. QED
  BY <1>0, <1>10 DEF LossInv

\* A game that never left the original source is not counted as lost because of one
\* outage, one unreadable file or one failing write, in whatever step of startup, a
\* rescan, a recovery or a report it comes, as long as the root's record identifies
\* the original filesystem; and the upgrade from schema 1 keeps every Wii game.
THEOREM LossTakesTwo == Spec => []LossNeedsTwoDisturbances
<1>1. Init => LossInv
  BY InitLoss
<1>2. CatalogInv /\ LossInv /\ [Next]_vars => LossInv'
  BY NextLoss DEF CatalogInv
<1>3. LossInv => LossNeedsTwoDisturbances
  <2>1. SUFFICES ASSUME LossInv, NEW x \in Games \ removed, ~accepted, disturbances < 2,
                        Filesystem(row[Root(PlatformOf(x))]) = "home"
                 PROVE  /\ cat[x] # Threshold
                        /\ x \in WiiGames /\ upgrade > 0 /\ schema = 3 => cat[x] # -1
    BY DEF LossNeedsTwoDisturbances
  <2>2. Fine(x, 1)
    BY <2>1 DEF LossInv, Sound, Counted, RootOf
  <2>3. QED
    BY <2>2 DEF Fine, Upgraded, Threshold
<1>4. QED
  BY <1>1, <1>2, <1>3, CatalogInvariant, PTL DEF Spec
=============================================================================
