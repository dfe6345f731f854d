# WiiBridge in TLA+

WiiBridge lets a Wii read its games over the network. A host daemon
(`src/server/host-daemon`) presents a library as a virtual FAT32 disk over NBD;
a Raspberry Pi (`src/pi`) connects to it and shows the block device to the
console as a USB stick. There are two platforms, Wii (read-only) and GameCube
(read-only, or with writable memory cards: "emulated" mode), and the dashboard
switches between them while the system runs.

These modules model the parts of that program that keep state other people
depend on: the memory cards, the library's generations, the game sources and
their catalog, the virtual disks and the server that serves them, the switch, and
the link to the Pi.

## 1. Inventory

| Component | State | Operations | Hard behaviour | What makes it correct |
|---|---|---|---|---|
| Managed memory card (`gamecube/saveoverlay.go`) | `active.raw`, `metadata.json`, `.previous-confirmed.*`, staged cards, journal; in memory dirty blocks, counters, metadata | create, open with recovery, read, write, sync, verify, backup, restore, upload, close | crash or I/O error between two file operations; rollback of a failed step; recovery that is itself interrupted | acknowledged writes survive; reads are current; the card can be opened again |
| Backups (same file) | pairs of `.raw` and `.json` | backup, prune, restore, upload | half pairs after a crash, pruning at the limit | the newest good backup survives; nothing is replaced that is not backed up; retention |
| Export manager (`exportprofile/manager.go`) | state, current profile, session count | BeginSession, release, Disconnect, Select, MarkConnected, Recover | connections beginning and ending during a selection, failed validation or clean-up | no backend is closed in use; the counter is exact |
| Platform switch (`main.go`: `selectExport`, `piStorageAction`) | `switchMu`, the running request, `gcSaves` | select wii / gamecube; detach, disconnect, connect, attach, reconcile | each step may fail, time out, or land late; restarts of either end | the console is attached only to what the host exports; writes are read back; requests end |
| Pi helper and gadget (`pi/packaging/pi-gen/common/files`) | the gadget, nbd0, flag files in `/run/wiibridge` | detach, disconnect, connect, attach, auto-attach | shell scripts without a lock, started by three parties | write mode matches the export |
| Pi controller (`pi/controller`) | authentication limiter, metrics, block cache index | actions, setup, status | helper time limit | bounds |
| Bridge control (`bridgecontrol`, `shared/compat`, `freshCompatibility`) | client, cached status and metrics, wake token, address file, last compatibility result | Probe, Action, SetAddress, poll; the check before each operation | a poll answered after the address changed, a wake during a poll, a Pi exchanged between check and action | status belongs to the current address; a live Pi authorises each operation; a new address is polled |
| NBD server (`nbd-plugin/nbd.go`) | connections, per-connection backend, buffer pool | accept, negotiate, read, write, flush, disconnect, shutdown | refused and malformed requests, pipelining, early disconnect, connections that say nothing | framing; replies carry the request's data; only cards change; every backend is given back |
| GameCube library (`gamecube/library.go`) | generations, receipts, the build job | build, cancel, validate, activate | files change or vanish during builds, validations and rechecks; crash or fault between rename, promotion and pruning | the active generation is complete; a receipt vouches for the bytes; an outage costs nothing |
| Source health, catalog (`sourcehealth`, `store`, `libraries.go`, `source_recovery.go`, `features.go`) | a record and rows for each root, missing counts, the snapshot, pending failures | start, migrate, scan, relocate, recover, report, acknowledge | mounts change between any two steps; startup writes in several transactions; a bounded queue | an offline source loses nothing; only an administrator changes which filesystem is trusted; memory, table and snapshot agree; a source comes back |
| Virtual disks (`fat32virtual`, `vdisk`) | layout, handle cache | Build, ReadAt, WriteAt, Close | geometry edges, extent boundaries, cache limit, source files that change under the disk | a FAT driver finds every file; reads are of the recorded files; handles are bounded |
| Authentication, counters, save settings | sessions, counters, small files | login, observe, configure | - | - |

How they interact: the dashboard's handlers hold `app.switchMu` and drive the
export manager by method calls and the Pi by HTTPS requests; the NBD server
takes a backend from the export manager for each connection; a GameCube backend
owns a SaveStore, which the save administration and the automatic backup also
use through `app.gcSaves`. A failed read of a source file is put into the queue
`app.sourceFailures`, from which a reconciler marks the source; scans, startup,
recovery and the reconciler exclude each other with `scanMu`. Before a handler
acts on the Pi it asks the Pi for its descriptor through the same manager whose
poller fills the dashboard.

The hazards behind the properties are listed with their source lines in
`PROJECT.json`.

## 2. Modules

| Module | Models |
|---|---|
| `SaveCard` | one managed card, file operation by file operation |
| `DurableCard` | abstract: an atomic durable card; `SaveCard` implements it |
| `SaveBackups` | backup pairs, pruning, and the safety backup of restore and upload |
| `ExportManager` | the export manager |
| `PlatformSwitch` | the handlers, the helper processes and the save stores, composed with `ExportManager` |
| `LibraryGenerations` | builds, validations, receipts, rechecks, promotion and pruning of GameCube libraries |
| `SourceCatalog` | sources, catalog and snapshot: startup, scans, relocation, recovery, failure reports |
| `NbdSession` | the NBD server's connections, composed with `ExportManager` |
| `FatVolume` | the two `Build` functions as operators, and a FAT driver as their reference |
| `VirtualDisk` | reads and writes of the disks that `FatVolume` builds, and the handle cache |
| `BridgeControl` | poller, address changes, compatibility check and action |
| `SaveCardProofs`, `SaveBackupsProofs`, `NbdSessionProofs`, `PlatformSwitchProofs`, `LibraryGenerationsProofs`, `SourceCatalogProofs`, `BridgeControlProofs`, `VirtualDiskProofs` | theorems, for every value of the constants |
| `MCSaveCard`, `MCSaveBackups`, `MCPlatformSwitch`, `MCLibrary`, `MCSource`, `MCNbd`, `MCDisk`, `MCControl` | instances for TLC |

### SaveCard

A SaveStore method runs under `store.mu`, so `pc` names the file operation that
the one running call does next: creation (`create.*`), opening (`ensure`,
`recover.*`, `load`), writing (`append`, `buffer`), the checkpoint transaction
that `flushCard` and `activateCandidate` share (`stage`, `prep.*`, `rename`,
`meta`, `commit.*`, `truncate`) and `restorePrevious` (`undo.*`). A `Crash`
takes the memory and leaves the directory; a `...Fault` action is a failing
system call with everything the code does about it. Data is reduced to what the
properties tell apart: a card is a function from cells to values, a checksum is
the card it was computed from, a file identity is a number, and the journal is
the image that replaying it gives together with its two sizes and whether its
tail is incomplete. `allowed` is an observer: the values each cell may hold,
given which writes were acknowledged and which only attempted.

Both ways of opening a store run `EnsureSaveObjects` before `OpenSaveStore`, as
`library.go` does, which is what finding 1 is about. A hard link that
`preparePrevious` makes gives both names one inode, and renaming one over the
other is a no-op (`RenamePrevious`).

`DurableCard` promises atomicity and durability as long as the disk has not
failed; its variable `failed`, which `SaveCard` maps to "a system call has
failed", ends the promise. What is left of it then is for the invariants to say.

### SaveBackups

A base name is a stamp; the pair's files are written and removed one by one.
The card is one value, replaced atomically, as `SaveCard` justifies. The clock
is assumed not to step backwards.

### ExportManager, PlatformSwitch

Each manager method is one step, since it runs under one mutex. A handler's
remaining steps are the sequence `todo`; a Pi action starts a helper process whose
script runs command by command, and the handler waits for its answer or times out
(the helper then goes on). A command that fails ends its script, except in
`disconnect`, which ignores the failure of its detach and of `nbd-client -d` and
removes the flag all the same (`Ignored`); the two actions of `safePiDisconnect`
share ten seconds, so a detach that times out leaves no time for the disconnect.
The automatic mode of `selectExport` is modelled; without a configured Pi the
handler is the same without its Pi steps. The memory card is one cell here: on
disk, in the journal, and in the memory of each opened store.

### LibraryGenerations

The one running job (`manager.cancel`) is a sequence of steps: hash every file,
stage, record every identity, check identity and content of every file, check
all identities again, write the receipt, rename, promote, prune. The startup
thread and one scan at a time run `RecheckActive` beside it: it reads
`active.json` and the files without the lock (`RecheckPointer`, `RecheckFiles`)
and applies what it saw under it (`RecheckApply`). A file's content and identity
are one version number, so a file that changes never gets an old identity back;
a manifest is, per file, the version hashed and the version whose identity was
recorded. A file is read at one instant: a hash over two versions equals
neither, and the later check refuses it like any other mismatch. Crashes are
crashes of the process: what was renamed stays renamed. `manager.active` and
`manager.validated` are left out, since activation reads the disk.

`rooted` says whether `config.SourceRoot` is the source's path. It is decided at each
start: where the path does not exist it becomes the working directory
(`library.go:206-216`), and for the whole run every recheck answers "changed"
(`FastResult`, with `FilesResult` for the files) and every build is refused at its
first file. A mount point that is still there resolves, so a start during an
outage may go either way.

### SourceCatalog

`job` is the holder of `scanMu`: startup (`BootMounts` to `BootPublish`, with
`BackupDatabase` and `Migrate` for an older schema), `initializeGameCube`
(`InitBegin`), a rescan with or without a confirmed relocation (`RescanBegin`) or
the recovery timer (`Recover`). A group scan is preflight, walk, second preflight
with the commit, or abort (`GroupCheck`, `GroupWalk`, `GroupFinish`,
`GroupAbort`); each sees the mounts of its own moment. `ReadFails` is a backend's
report, `ReconcileReport` the goroutine that drains the queue,
`AcknowledgeMissing` the handler without a lock. The mounts are the environment:
at the original path, moved to another directory, writable, replaced by another
filesystem, a bare mountpoint, gone. How much of that the program can see depends
on `kind`: a filesystem with a persistent ID, with an identity in the mount table
only, or with a device number only. A transaction is one step; each startup write
may fail. The daemon with `lost` set is one whose startup write failed: it serves
an empty catalog until the next scan, and the properties except it.

### NbdSession

A connection's `phase` follows `handle`: registration, acquiring the backend,
flags, options, TLS, transmission. The client's stream is a sequence of frames in
which a payload is a frame of its own, so that reading one as the other is a
state the model can be in. A buffer from the pool holds what earlier requests
left in it. The switch acts on `ExportManager` between any two steps. Metrics are
left out.

### FatVolume, VirtualDisk

`GameCubeDisk` and `WiiDisk` translate the two `Build` functions: planning,
cluster assignment, directories, both FATs, the free count, the extents with their
gaps, and every refusal. A unit is one FAT entry or directory entry, so a sector
of two units already has edges. The reference is a driver that starts from the
boot sector and follows directories and chains (`DriverReads`, `DriverAccounts`);
it does not use the builder's plan. `VirtualDisk` reads such a disk with the
code's lookups: `Begin` takes the lock, `ServeStored`, `VerifySource`,
`OpenSource`, `ReadSource` and `Return` are the steps between which a source file
may change. Version 0 of a file is the one whose identity the layout recorded. The
driver reads the disk in every state at rest in which the source files are in
place, so also after writes to the cards. A read of the save store, the opening of
a file that is there and the closing of an evicted handle can fail as well. A
`WriteAt` here is one that the save store accepts; refused and failing writes are
`SaveCard`'s. A round serves its units from what was found at its first one
(`ValueAt`), while `Expected` looks each unit up by itself; that the two agree is
what `ReadsAreTrue` is about. `LaidOut` is what `ReadAt` relies on: an assumption
on the constants, evaluated on every run, and so is `PathAssumption`: `makeTree`
would give a path that is both a file and a directory two entries, and `mapFiles`
makes no such paths.

### BridgeControl

`call` is the local state of the poller and of the handlers, `setter` of the
`SetAddress` calls. A client carries the call that made it, because `Probe` and
`poll` compare pointers: setting the same address again makes a new client.
`Evaluate` translates `compat.Evaluate` over descriptors; `Act` is the operation
on the Pi, of which `PlatformSwitch` has the details. The host's descriptor is a
constant of the build and valid, so its refusal by `Evaluate` is left out. `live`
is an observer: the Pis that the configured address led to since the request
began.

## 3. Runs

| Run | Bounds | Shows |
|---|---|---|
| `save_card` | 2 cells in one block, 2 mishaps (crashes and I/O errors, in any order) | acknowledged writes survive, reads are current, the identity shortcut is sound, one I/O error leaves a confirmed card, the journal can be replayed and is truncated only when the card is confirmed; until the first I/O error the protocol refines `DurableCard` |
| `save_card_interrupted` | 1 crash | finding 1 |
| `save_backups` | 6 backups, retention 2, 2 crashes, 1 I/O error | newest backup, safety backup, retention |
| `platform_switch` | 3 requests, 2 GameCube profiles, 2 connections, one helper at a time, 1 failing step, 1 restart | the console reads what is exported and what it wrote; requests end |
| `platform_races` | 2 requests, a time-out and a helper started on the Pi | what holds with overlapping helpers |
| `repeated_activation` | 2 requests, the second for the exported platform | finding 2 |
| `library_generations` | 2 files, 2 generations, retention 1, 1 change, 1 scan beside startup, 2 disturbances (outage, cancellation, crash, fault) | the pointer, the receipts, retention, outages while the daemon runs; jobs end |
| `library_started_offline` | 1 file, 1 generation, an outage and a restart | finding 3 |
| `source_catalog` | 1 game of each platform, the Wii game also on a second filesystem; 3 installations (one root or two, three kinds of identity, new or upgraded from schema 1 or 2); 2 events | no loss from one disturbance, trust, agreement of table, snapshot and memory, recovery |
| `nbd_sessions` | 2 connections, 3 blocks of which 2 are a card, 2 requests of 8 kinds, 2 options | framing, truth of replies, what writes change, sessions end |
| `virtual_disk` | 11 libraries, sectors of 2 units, 1 cached handle, 2 changes of source files, reads at every offset | both volumes read back; reads and handles |
| `control_plane` | 2 addresses, 2 Pis, 1 switch, 2 address changes, 1 exchange or restart | cached status, authority, polling of a new address |

Why the bounds suffice. A card needs a written and an unwritten cell in one block
(partial block writes); the limit on the journal is reached by the second record.
Two mishaps, in any combination (the constraint `TwoMishaps`), reach a crash
inside recovery, a crash around a failing call, and a failing rollback with what
the next call makes of it. Writes over a block boundary, a shorter last block, the
other two limits and longer histories are left to the theorems, which hold for
every card, block size and limit. Six backups at retention two prune several times
over a half pair. Three requests reach a switch, a control in the middle and a
switch back. Two generations are an old one and the one that replaces it, or an
orphan and its successor; two disturbances put an outage and a restart, or a fault
and a cancellation, into one build; a scan and the startup thread make two
rechecks that overlap a job. Repeated activations are excluded from the passing
switch runs by `MaxRepeats = 0`, because of finding 2.

Catalog rows are counted one by one, so a game of each platform is enough; the
three installations have between them each schema, each kind of identity and both
arrangements of roots. Two events are an outage and what comes after it (a second
outage, a restart, a deletion, a failing write, a report); the return of a mount
is free. A queue of one is full after the first report. Of the NBD requests two
are pipelined on one connection, or one on each of two over the same pool; they
have a read, writes inside the card, over its end, outside it and above the
limit, a flush, a refused command and a disconnect. The libraries of the disk run
are an exact fit and one unit less, a directory of more than one cluster, an
empty file, nested directories, a card, a game over two parts, a game that is
split, a game with a missing part, and none; sizes on both sides of the change
of the Wii cluster size. With one cached handle every second file evicts. Two
address changes beside one poll and one switch reach a wake that is sent while a
token is there, and one exchanged Pi makes an old answer wrong. The run
asks for one operation, the switch to GameCube with emulated saves, which one of
the two Pis can do and the other cannot; the other operations go through the same
check with other requirements, and `Kinds` adds them.

Fairness. `RequestsEnd` assumes that the handler, the helpers and the end of a
closed connection take their steps: a goroutine that can run does; scripts
consist of terminating commands; the NBD handler of a connection that is gone
sees its read fail or time out. Nothing is assumed of the console, of requests,
of time-outs or of faults. `JobsEnd` assumes that the job's goroutine and the
threads run; reads of a lost mount are assumed to fail, not to hang.
`SourceReturns` assumes the same of startup and scans, and strong fairness of
`Recover`: the timer fires again and again and tries a lock that scans hold only
for a while. `SessionsEnd` assumes the server's goroutines and the deadline that
`handle` sets before negotiation; a client need not send anything and a handshake
need not finish. `NewAddressIsPolled` assumes that the poller and `SetAddress`
run and that requests to the Pi end by their time limit; the ticker gets no
fairness, so the wake has to be enough. The runs with budgets end when these are
spent, so they do not check for deadlock; `SaveCard` and `SaveBackups` runs do.

## 4. Findings

Three runs end in a violation:

1. `save_card_interrupted`: a crash between the rename of a checkpoint and its
   metadata leaves a card that `EnsureSaveObjects` refuses, although
   `docs/gamecube-save-overlay.md` says that startup rolls it back.
2. `repeated_activation`: activating GameCube while it is exported opens the new
   store before the console is detached; the last writes are missing from it.
3. `library_started_offline`: a daemon that is started while the source's path does
   not exist takes its working directory for the library path
   (`library.go:206-216`: `trustedRoot` returns "" with its error). When the same
   source is back, the first recheck answers "configured library path changed" and
   removes the receipt, although no file has changed
   (`docs/source-reconciliation.md:41` and `:70`, and the comment at
   `library.go:209`, say that it stays). `OfflineKeepsReceipt` states what the
   document says; `RunningKeepsReceipt` is what holds, and is proved: outages that
   a running daemon sees cost no receipt.

Five more disagreements with the documents are stated as properties that no run
checks. A cfg with the constants named here shows each of them.

- `RetentionIsHardLimit` of `SaveBackups` (retention 1, 6 stamps, 1 crash, no
  fault): half a backup pair, left by a crash, stops all later pruning
  (`saveoverlay.go:1725`; `docs/gamecube-save-overlay.md:67` lists the retention
  under "Defaults and hard limits").
- `ReconcileReattaches` of `PlatformSwitch` (constants of `MCPlatformRepeat.cfg`
  with `MaxRepeats = 0`): Reconcile Connection leaves the manager DISCONNECTED,
  never selects, and its own connect is refused (`main.go:1892`;
  `docs/automatic-platform-switching.md:94`).
- `NeverSwitchedWhileAttached` of `PlatformSwitch` (the same with `MaxLate = 1`):
  a helper that outlives the client's 15 s attaches the console during the next
  switch (`bridgecontrol/client.go:118`; `docs/automatic-platform-switching.md:30`:
  "It never switches the backing store while the Wii is connected.").
- `MissingReceiptIsRestored` of `LibraryGenerations` (`FairSpec`, 2 files,
  retention 1, 2 generations, no scans, changes or disturbances): on a start with
  a generation without receipt the recheck's error ends the initialization, and
  the background validation that `docs/gamecube-support.md:56` promises is not
  started (`main.go:1208`).
- `ReadinessReturns` of `SourceCatalog` (`FairSpec`, one game of each platform,
  the Wii game in `Elsewhere`, `Installations <- UpgradedInstallation`,
  `Outages = {"bare"}`, `QueueLimit = 1`, `MaxEvents = 1`): on the first start
  after an upgrade from schema 1 `previousSource` takes its baseline from
  whatever is mounted (`features.go:42`). With a bare mountpoint there, the
  original source is refused as changed once it is back, which the timer does not
  retry; `docs/source-reconciliation.md:125` says "Once the original source is
  available, readiness returns".

`AttachedMatchesExport` is about what a connected console reads. It permits a gadget
that is bound to a device whose NBD connection has died: `attach` asks for the flag
file only, the model has that too, and no document promises more.

Reading the code for the models turned up more that the models reproduce, or
except by name, without a document that says otherwise:

- With a shared root, `app.source` and `app.gcSource` may identify different
  filesystems after a first start without the source, and overwrite each other's
  row.
- A failing write in the startup scan (`features.go:76-83`) leaves an empty result
  under an available record: served empty, ready, and published as a snapshot.
- The read-only check takes a permission error for an invalid source, which is not
  retried; the preflight takes it for one that is.
- Acknowledged games reappear from the snapshot when the catalog is empty and the
  source offline at a start.
- A connection accepted just before shutdown is not registered when the others
  are closed; a connection takes its backend before it negotiates and so blocks a
  switch until its 30 s deadline.
- A source file replaced between the check of its identity and its opening is read
  and its handle stays cached (`raced`).
- `Manager.Action` reads the client again after the check, so an address set in
  between redirects the operation. A result overwrites the remembered device even
  when it says mismatch or unreachable, so the pin is gone after one refused
  attempt. Of two concurrent `SetAddress` calls one may win the file and the other
  the memory.
- A crash inside `Upload`, `Restore` or `createCard` can leave staged files that
  the next start refuses until they are cleaned up by hand; backups are pruned in
  the order of the wall clock.

## 5. Proofs

A component's theorems are in `<Module>Proofs`; they hold for every value of the
constants that the named assumptions allow, so for any number of files,
connections, helpers, crashes, faults and restarts. Most of the properties are not
inductive as they stand; `OnlyCardChanges` and `CacheIsOfCurrentClient` are,
beside the types. Each proof has an inductive invariant, which TLC has checked on
the instances of the runs too, a lemma for each action or group of actions, and a
step lemma that joins them.

| Module | Proved | Assumes |
|---|---|---|
| `SaveCardProofs` | `TypeOK`, `AckedWritesSurvive`, `ReadsSeeAckedWrites`, `TruncatedOnlyWhenConfirmed`, `IdentityImpliesChecksum`, `OneFaultLeavesCardConfirmed`, `JournalReplayable`, and the refinement `AtomicDurableCard` | `CardAssumption`, `LimitAssumption` |
| `SaveBackupsProofs` | `NewestBackupSurvives`, `RetentionWithoutCrash`, `ReplacedCardIsBackedUp` | `BackupAssumption` |
| `PlatformSwitchProofs` | `TypeOK`, the manager's two, `AdministeredStoreIsExported`, `AckedWriteIsRead`, `AttachedMatchesExport`, `NeverSwitchedWhileAttached` | `SwitchAssumption`; for `AckedWriteIsRead`, `MaxRepeats = 0`; for the last two, `OneHelper`, `MaxLocal = 0`, and for `AttachedMatchesExport` at most two failed commands |
| `NbdSessionProofs` | of `ExportManager`: `PinnedBackendOpen`, `ActiveWhileSessionsOpen` | `ManagerAssumption` |
| | of `NbdSession`: `FramesStayAligned`, `AnswersAreTrue`, `OnlyCardChanges`, `PinnedBackendOpen`, and `NbdSpec => ManagerSpec` | `ServerAssumption`, `RequestAssumption` |
| `LibraryGenerationsProofs` | `TypeOK`, `PointerNamesGeneration`, `ReceiptVouches`, `RetentionAfterBuild`, `RunningKeepsReceipt` | `LibraryAssumption` |
| `SourceCatalogProofs` | `TypeOK`, `CatalogIsServed`, `TrustNeedsConfirmation`, `LossNeedsTwoDisturbances` | `CatalogAssumption` |
| `BridgeControlProofs` | `CacheIsOfCurrentClient`, `LivePiAuthorises` | `ControlAssumption` |
| `VirtualDiskProofs` | `ReadsAreTrue`, `HandlesBounded` | `VolumeAssumption`, `DiskAssumption`, `LayoutAssumption` |

**SaveCard.** That the journal over either card file has the acknowledged writes
depends on what the running call has done so far. `IInv` adds `DiskInv` (either
file, the rollback target included, under the journal is permitted), `StartInv`
and `RoleInv` (what is absent before opening), `LiveInv` (the open file under the
dirty cells is permitted, and the dirty cells agree with the journal), `WriteInv`
(what the pending record may add) and `TransactionInv` (from `rename` on, the new
card is permitted by itself, so that the journal may go). Frame lemmas dispose of
the actions that leave the card alone.

`CInv` goes on from there. `SumsInv` is `IdentityImpliesChecksum` with the metadata
that a rollback puts back. `ConfirmInv` says, for at most one I/O error, that
outside the rename of a candidate the metadata is the card's, and that until the
transaction ends the marker and the saved metadata are the way back; a failing
rollback is the second error. `CountInv` and `AgreeInv` are about behaviours
without I/O errors: the counters are the journal's sizes, the dirty blocks are what
replaying the journal gives, and a call that returns has its effect on disk. From
these follows, step by step, the refinement of `DurableCard`: a write takes effect
with its record, a restore or upload when the rollback marker goes, and everything
else, recovery included, is invisible. The first call that fails sets
`failed`, after which `DurableCard` allows everything; the first group of theorems
says what is left of the promise.

**SaveBackups.** `BInv` says that a stamp not given out names no file (`Fresh`)
and what the call has established at each step (`Course`): from `confirm` on, the
pair it made is complete and holds the card as it is (`Safe`), and during the
pruning it is the confirmed one. It is then also the newest, so the oldest of more
than `MaxBackups >= 1` cards is another one; that a set of numbers has a smallest
element is `MinOfNaturals`, from the well-foundedness of `<`. The retention needs
`Retained`: without a crash only the pair being written is a half, so pruning is
not stopped by one, and what it leaves behind is one card per I/O error.

**ExportManager, PlatformSwitch, NbdSession.** `MInv`: the counter is the
cardinality of the open sessions, ACTIVE exactly when there is one, open sessions
use the current backend, and a serving manager's backend is open. The manager's
theorems are about any client that hands it open profiles. The two real clients
are covered by theorems of their own. `NbdSession` implies the manager's
specification (`NbdUsesManager`). For `PlatformSwitch`, whose restarts are no step
of the manager (so `PlatformSwitchProofs` has the manager's lemmas once more, over
its own variables), `SInv` has `MInv` with the order of a request's steps (`Course`),
the fact that the profile a switch has opened is not exported before `Select`
(`NextIsFresh`), and where `app.gcSaves` may point after a failed selection
(`StoreInv`). `AckedWriteIsRead` adds `SaveInv`: what replaying the journal over
the card gives is the last acknowledged write, and the exported store, and the one
that a switch opened, agree with it. It is false when the exported platform is
activated again (finding 2), hence its hypothesis; helpers may overlap, answer
late or be started on the Pi, and every step may fail.

The attached console is another matter: with a second helper process, one that
outlives the client's limit or one started on the Pi, both statements about it are
false, as section 4 shows for `NeverSwitchedWhileAttached`. They are proved for
one process at a time (`OneHelper`, `MaxLocal = 0`), with any number of time-outs,
restarts and requests. `AInv` says what flag files, gadget and export have to do
with each other between the commands (`GadgetFits`), what a script may rely on at
each of its commands, since a request that gave up may have left it behind
(`HelperFits`), and what each step of a request finds on the Pi (`RequestFits`);
`Sequel` is the order of the steps. The flag files stand for the truth, and a
failing command makes them lie: an ignored failure of `nbd-client -d` leaves nbd0
to the connection's own end, which the host waits for before it selects; and a
gadget that is bound without its flag (`Unmarked`) needs one failure, of
`touch.usb`. The detach that follows needs another one to leave it so, and the
disconnect a third. Then the NBD client is gone and nothing on the Pi says that
the gadget is bound, so the next connect serves the new library to an attached
console before its mode is recorded. TLC finds this with three faults. Hence "at
most two failed commands"; `NeverSwitchedWhileAttached` needs no such limit.

In `NbdInvariant`, `Fits` says how the unread stream continues what a connection
has read: a WRITE's payload follows its header, and headers carry consecutive
handles. `Owns` says that the buffer of the request being served is in no other
connection's hands and holds the data it should. Frames are sequences of any
length here, and handles are natural numbers.

**LibraryGenerations.** The invariant relates the job's step to its generation
(what is hashed is not newer than what is mapped, and equal as far as the job has
summed), each recheck's observations to the generation it looked at, which may
meanwhile have been replaced or pruned, and the retention to the generations with
a final name. Versions only grow, so two observations that agree had no change
between them.

**SourceCatalog.** `CatalogInv` has four parts. `JobShape`: which steps each holder
of `scanMu` goes through, and that startup has no record in memory before its scan
has ended. `ServeInv` is `CatalogIsServed` for the platforms whose record is
available, at every step of startup and of `initializeGameCube` too, between whose
two writes the table is ahead of the memory. `TrustInv`: a record's filesystem ID
and device are of one filesystem, the records in memory identify the same
filesystem as the rows, and so do the records that a running scan took at its start
and will write at its end, unless the scan is a confirmed relocation. `LoadedInv`:
a running daemon has a Wii record, so that a failure report never writes an empty
one. The mounts are arbitrary at each step, so nothing in these proofs depends on what
is mounted when.

`LossNeedsTwoDisturbances` does. `LossInv` speaks of one game that was never deleted,
while at most one disturbance has happened. Before the first one nothing has missed
the game and its source is mounted (`Untouched`). The core is `Guarded`: a game that
was missed, or whose place is away, has used up the disturbance, so everything else
is as it should be (`Quiet`): no write was lost, memory's records agree and name a
filesystem, and nothing is reported of a GameCube source that was never read. On that
rest the three ways to a second observation. A scan whose candidate is the original
filesystem and that misses the game finds its counter at 0 (`WalkSound`,
`MissSound`, `StartSound`). A scan that fails writes the record that it began with;
one derived from the mount, because the database has none, belongs to a scan that
cannot fail any more (`PrevSound`, `Finds`). And a row that
identifies the original filesystem is only written when the counter is at most 1
(`Counted`). `Prepared` has the facts about
the migration: the schema-1 snapshot lists every Wii game until it is seeded.

**BridgeControl.** A client that a `SetAddress` call has made and not installed is
unknown to everybody else (`FreshClients`), so equality of clients is equality of
installation; and an answer that may still count came from a Pi that the
configured address led to during the request (`AnswerIsLive`). The assumption on
`Descriptor` is that descriptors have the fields of the Go struct.

**VirtualDisk.** The proof has two halves. The first is about the lookups and
rounds of `ReadAt`, as operators: the binary search finds the extent that holds a
position and no other (`Lookup`), and every unit that a round serves lies in the
same extent, gap, FAT or metadata as the round's first one (`SameExtent`,
`RoundIsTrue`). On the Wii disk that is delicate: a gap is served to the end of its
sector without a look at what else the sector holds, so an extent that begins in the
middle of a sector must follow another one directly (`GapFillsSector`), as the
padding behind a file does. The second half is `DInv`: what has been established
about the source at each step of a read (`Course`); the handles, each opened on the
recorded file unless that one was replaced in the moment that the property excepts
(`CacheInv`); and the cards, which hold exactly what was written through the disk
(`CardInv`, which needs that a card has one extent). `LayoutAssumption` says what
the proof needs of a disk that `Build` has made: types, extents in order, and on the
Wii disk what the comments in `vdisk.go:544-555` say. TLC evaluates it for the
libraries of the run. That `Build` ensures it for every library is induction over
data; that the extents of the GameCube disk do not overlap is not assumed, since
`validateRanges` checks it.

Only model-checked: liveness (`RequestsEnd`, `JobsEnd`, `SourceReturns`,
`SessionsEnd`, `NewAddressIsPolled`), which is out of the prover's reach; and
`VolumeReadsBack`. What the two `Build` functions compute for every library would
need induction over data, which the prover does not do.

## 6. Not modelled

- File formats, pages, templates, packaging: disc headers, WBFS, the checks on a
  card's bytes, short names, labels and volume identities of the virtual disks.
- The legacy single-game GameCube volume (`volume.go`, `restoreGameCubeSave`) and
  the save settings: configuration files replaced atomically, with no protocol
  beyond that.
- The opening of a library generation's backend and the migration of old ones.
- Authentication, the counters of `shared/perf`, the age shown for a cached
  compatibility result, the logs of events and performance sessions.
- The Pi's setup forms, metrics and block cache index; what reboot and poweroff do.
- Edits of a source file in place, which change neither its size nor its time;
  disks that reorder or lose synced operations (the document excludes them too);
  a clock that steps backwards.

## 7. Plan

1. The session table and attempt limiter of `auth/manager.go`, and the block cache
   index of the Pi controller.
2. A clock that steps backwards in `SaveBackups`.
