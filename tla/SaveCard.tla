------------------------------ MODULE SaveCard ------------------------------
(***************************************************************************)
(* One managed GameCube memory card of the host daemon: its directory on   *)
(* disk, the SaveStore that serves it, and every file operation between    *)
(* them, with process crashes and I/O errors at each step                  *)
(* (server/host-daemon/gamecube/saveoverlay.go).                           *)
(*                                                                         *)
(* A SaveStore method runs under store.mu, so the calls on a card never    *)
(* overlap; what interleaves with a call is a crash, or a failing system   *)
(* call followed by the method's own clean-up.  pc is the file operation   *)
(* that the running call performs next.                                    *)
(*                                                                         *)
(* Data.  A card is a function from cells to values; a cell stands for a   *)
(* byte and BlockCells cells make one SaveBlockSize block.  A SHA-256 sum  *)
(* is the card it was computed from (no collisions).  The identity of a    *)
(* file (device, inode, mtime in ns) is one number, never reused while     *)
(* some metadata names it.  The journal is kept as the image that          *)
(* loadJournal rebuilds (per cell, the value of the last record that       *)
(* covers it) with its two sizes and whether its tail is incomplete.       *)
(*                                                                         *)
(* Renames, removals and truncations reach the disk in program order; the  *)
(* document's own assumption is that rename, file sync and directory sync  *)
(* behave as specified (docs/gamecube-save-overlay.md:92).                 *)
(***************************************************************************)
EXTENDS Integers, FiniteSets

CONSTANTS
    CardCells,      \* cells of the card (SaveObject.CardSize)
    BlockCells,     \* cells per dirty block (SaveBlockSize)
    Val, Zero,      \* values of a cell, the value of a blank card's cells
    None,           \* no value: a cell that no record or dirty block covers
    MaxPending,     \* SaveStoreConfig.MaxPendingBytes
    MaxJournal,     \* SaveStoreConfig.MaxJournalBytes
    MaxDirty,       \* SaveStoreConfig.MaxDirtyBlocks
    Overhead,       \* bytes of a journal record's header (52)
    MaxCrashes,     \* bound: crashes in a behaviour
    MaxFaults       \* bound: failing system calls in a behaviour

ASSUME CardAssumption ==
    /\ CardCells \in Nat \ {0}
    /\ BlockCells \in Nat \ {0}
    /\ Zero \in Val
    /\ None \notin Val

ASSUME LimitAssumption ==
    /\ MaxPending \in Nat /\ MaxJournal \in Nat /\ MaxDirty \in Nat
    /\ Overhead \in Nat /\ MaxCrashes \in Nat /\ MaxFaults \in Nat

Cells == 0 .. CardCells - 1
Card == [Cells -> Val]
Image == [Cells -> Val \cup {None}]     \* a partial card
BlockOf(c) == c \div BlockCells

Blank == [c \in Cells |-> Zero]
Clean == [c \in Cells |-> None]

\* The card base with the cells that image covers replaced.
Overlay(base, image) ==
    [c \in Cells |-> IF image[c] # None THEN image[c] ELSE base[c]]

(***************************************************************************)
(* A write request that passed the extent checks: the cells lo .. hi, all  *)
(* set to val.                                                             *)
(***************************************************************************)
WriteRequest == {w \in [lo : Cells, hi : Cells, val : Val] : w.lo <= w.hi}
NoRequest == [lo |-> 0, hi |-> 0, val |-> Zero]
Span(w) == w.lo .. w.hi
Size(w) == w.hi - w.lo + 1
BlocksOf(w) == {BlockOf(c) : c \in Span(w)}

Ino == 0 .. 8                           \* 0: there is no such file
File == [ino : Ino, data : Card]
Metadata == [sha : Card, ino : Ino]
NoFile == [ino |-> 0, data |-> Blank]
NoMeta == [sha |-> Blank, ino |-> 0]
JournalFile == [image : Image, bytes : Nat, total : Nat, torn : BOOLEAN]
NoJournal == [image |-> Clean, bytes |-> 0, total |-> 0, torn |-> FALSE]

Candidates == {"checkpoint", "restore", "selected", "upload"}
Staged == Candidates \cup {"create"}

VARIABLES
    \* the card's directory
    active,         \* active.raw
    meta,           \* metadata.json
    prev,           \* .previous-confirmed.raw
    prevMeta,       \* .previous-confirmed.json
    staged,         \* the temporary cards present, by name
    journal,        \* journal/pending.log
    \* the cardObject in memory and the call that holds store.mu
    pc, role, call, txn, req, cand,
    handle,         \* cardObject.file; NoFile when closed or nil
    cmeta,          \* cardObject.metadata
    saved,          \* previousMetadata of flushCard and activateCandidate
    dirty,          \* cardObject.dirty, cell by cell
    pending, jbytes, blocked,
    \* observer: the values each cell may legitimately hold
    allowed,
    \* budgets
    crashes, faults

disk == <<active, meta, prev, prevMeta, staged, journal>>
buffers == <<dirty, pending, jbytes, blocked>>
request == <<role, call, req, cand>>
budgets == <<crashes, faults>>
vars == <<active, meta, prev, prevMeta, staged, journal, pc, role, call, txn,
          req, cand, handle, cmeta, saved, dirty, pending, jbytes, blocked,
          allowed, crashes, faults>>

Roles == {"none", "export", "admin"}
Calls == {"none", "open", "write", "sync", "backup", "close", "restore", "upload"}
Transactions == {"none", "flush", "activate"}
Steps == {"down", "create.rename", "create.meta", "ensure", "recover",
          "recover.meta", "recover.json", "recover.sweep", "load", "open",
          "append", "buffer", "stage", "prep.raw", "prep.json", "prep.write",
          "prep.link", "rename", "meta", "commit.json", "commit.raw",
          "truncate", "undo", "undo.meta", "undo.json", "backup", "unstage",
          "return", "shut"}

TypeOK ==
    /\ active \in File /\ prev \in File /\ handle \in File
    /\ meta \in Metadata /\ prevMeta \in Metadata
    /\ cmeta \in Metadata /\ saved \in Metadata
    /\ staged \subseteq Staged
    /\ journal \in JournalFile
    /\ pc \in Steps /\ role \in Roles /\ call \in Calls /\ txn \in Transactions
    /\ req \in WriteRequest
    /\ cand \in Card
    /\ dirty \in Image
    /\ pending \in Nat /\ jbytes \in Nat /\ blocked \in BOOLEAN
    /\ allowed \in [Cells -> SUBSET Val]
    /\ crashes \in Nat /\ faults \in Nat

Init ==
    /\ active = NoFile /\ meta = NoMeta /\ prev = NoFile /\ prevMeta = NoMeta
    /\ staged = {} /\ journal = NoJournal
    /\ pc = "down" /\ role = "none" /\ call = "none" /\ txn = "none"
    /\ req = NoRequest /\ cand = Blank
    /\ handle = NoFile /\ cmeta = NoMeta /\ saved = NoMeta
    /\ dirty = Clean /\ pending = 0 /\ jbytes = 0 /\ blocked = FALSE
    /\ allowed = [c \in Cells |-> {Zero}]
    /\ crashes = 0 /\ faults = 0

-----------------------------------------------------------------------------
\* The identity of a file created now.
FreshIno ==
    CHOOSE i \in Ino \ {0} :
        i \notin {active.ino, prev.ino, handle.ino, meta.ino, prevMeta.ino,
                  cmeta.ino, saved.ino}

\* validateCardFiles: a file whose identity the metadata records is not hashed
\* again; any other must have the recorded checksum, and its identity is then
\* recorded.
CardFilesValid ==
    /\ active # NoFile /\ meta # NoMeta
    /\ active.ino = meta.ino \/ active.data = meta.sha
Validated == [meta EXCEPT !.ino = active.ino]

\* os.Rename of .previous-confirmed.raw over active.raw.  rename(2) of two
\* links to one inode does nothing and leaves both names.
RenamePrevious ==
    IF prev.ino = active.ino
    THEN UNCHANGED <<active, prev>>
    ELSE active' = prev /\ prev' = NoFile

\* The transaction's temporary card and what it holds.
StageName == IF txn = "flush" THEN "checkpoint" ELSE "restore"
Candidate == IF txn = "flush" THEN Overlay(active.data, dirty) ELSE cand

\* Where a call goes after its flushCard (or with nothing to flush), and where
\* it goes when a step fails: back to the caller, which for openObject gives
\* the card up and for Restore and Upload first removes the staged input.
AfterFlush(c) ==
    CASE c = "write" -> "append"
      [] c \in {"backup", "restore", "upload"} -> "backup"
      [] c = "close" -> "shut"
      [] OTHER -> "return"
AfterFailure(c) ==
    CASE c \in {"open", "close"} -> "shut"
      [] c \in {"restore", "upload"} -> "unstage"
      [] OTHER -> "return"

Fault == faults < MaxFaults /\ faults' = faults + 1 /\ UNCHANGED crashes

-----------------------------------------------------------------------------
(***************************************************************************)
(* createCard, from a library build with automatic creation.               *)
(***************************************************************************)
CreateStage ==
    /\ pc = "down" /\ active = NoFile /\ "create" \notin staged     \* O_EXCL
    /\ staged' = staged \cup {"create"}
    /\ pc' = "create.rename"
    /\ UNCHANGED <<active, meta, prev, prevMeta, journal, role, call, txn, req,
                   cand, handle, cmeta, saved, buffers, allowed, budgets>>

CreateRename ==
    /\ pc = "create.rename"
    /\ active' = [ino |-> FreshIno, data |-> Blank]
    /\ staged' = staged \ {"create"}
    /\ pc' = "create.meta"
    /\ UNCHANGED <<meta, prev, prevMeta, journal, role, call, txn, req, cand,
                   handle, cmeta, saved, buffers, allowed, budgets>>

CreateMeta ==
    /\ pc = "create.meta"
    /\ meta' = [sha |-> Blank, ino |-> active.ino]
    /\ pc' = "down"
    /\ UNCHANGED <<active, prev, prevMeta, staged, journal, role, call, txn,
                   req, cand, handle, cmeta, saved, buffers, allowed, budgets>>

CreateFault ==
    /\ pc \in {"create.rename", "create.meta"} /\ Fault
    /\ staged' = staged \ {"create"}
    /\ pc' = "down"
    /\ UNCHANGED <<active, meta, prev, prevMeta, journal, role, call, txn, req,
                   cand, handle, cmeta, saved, buffers, allowed>>

-----------------------------------------------------------------------------
(***************************************************************************)
(* Opening a card.  The daemon opens a store to export it, or to administer *)
(* a card that is not exported; both run EnsureSaveObjects first and       *)
(* OpenSaveStore second.                                                   *)
(***************************************************************************)
OpenStore(r) ==
    /\ pc = "down"
    /\ pc' = "ensure" /\ role' = r /\ call' = "open"
    /\ UNCHANGED <<disk, txn, req, cand, handle, cmeta, saved, buffers, allowed,
                   budgets>>

EnsureSaveObjects ==
    /\ pc = "ensure"
    /\ IF CardFilesValid
       THEN meta' = Validated /\ pc' = "recover"
       ELSE pc' = "shut" /\ UNCHANGED meta
    /\ UNCHANGED <<active, prev, prevMeta, staged, journal, request, txn,
                   handle, cmeta, saved, buffers, allowed, budgets>>

RecoverInterruptedActivation ==
    /\ pc = "recover"
    /\ \/ /\ prev = NoFile
          /\ prevMeta' = NoMeta
          /\ pc' = "load"
          /\ UNCHANGED <<active, prev>>
       \/ /\ prev # NoFile
          /\ prevMeta # NoMeta /\ prev.data # prevMeta.sha
          /\ pc' = "shut"
          /\ UNCHANGED <<active, prev, prevMeta>>
       \/ /\ prev # NoFile
          /\ prevMeta = NoMeta \/ prev.data = prevMeta.sha
          /\ RenamePrevious
          /\ pc' = "recover.meta"
          /\ UNCHANGED prevMeta
    /\ UNCHANGED <<meta, staged, journal, request, txn, handle, cmeta, saved,
                   buffers, allowed, budgets>>

\* The sum written is the one of the previous card, which is active.raw now.
RecoverMeta ==
    /\ pc = "recover.meta"
    /\ meta' = [sha |-> active.data, ino |-> active.ino]
    /\ pc' = "recover.json"
    /\ UNCHANGED <<active, prev, prevMeta, staged, journal, request, txn,
                   handle, cmeta, saved, buffers, allowed, budgets>>

RecoverJson ==
    /\ pc = "recover.json"
    /\ prevMeta' = NoMeta
    /\ pc' = "recover.sweep"
    /\ UNCHANGED <<active, meta, prev, staged, journal, request, txn, handle,
                   cmeta, saved, buffers, allowed, budgets>>

\* The loop over the four staged names, one removal at a time.
RecoverSweep ==
    /\ pc = "recover.sweep"
    /\ \/ /\ \E name \in staged \cap Candidates : staged' = staged \ {name}
          /\ UNCHANGED pc
       \/ /\ staged \cap Candidates = {}
          /\ pc' = "load"
          /\ UNCHANGED staged
    /\ UNCHANGED <<active, meta, prev, prevMeta, journal, request, txn, handle,
                   cmeta, saved, buffers, allowed, budgets>>

\* loadJournal: the bounds it enforces, and the dirty blocks it rebuilds.
JournalLoadable ==
    ~journal.torn /\ journal.bytes <= MaxJournal /\ journal.total <= MaxPending
\* Mutant: a block that a record covers in part is not read from the card.
LoadedUnread ==
    [c \in Cells |->
        IF journal.image[c] # None THEN journal.image[c]
        ELSE IF \E d \in Cells : BlockOf(d) = BlockOf(c) /\ journal.image[d] # None
             THEN Zero ELSE None]
Loaded ==
    [c \in Cells |->
        IF journal.image[c] # None THEN journal.image[c]
        ELSE IF \E d \in Cells : BlockOf(d) = BlockOf(c) /\ journal.image[d] # None
             THEN active.data[c] ELSE None]

\* The rest of openObject: validateCardFiles, rejectCheckpointConflicts,
\* openJournal, loadJournal.  From here on readers see the replayed card, so
\* it is the only content that later steps may preserve.
OpenObject ==
    /\ pc = "load"
    /\ meta' = IF CardFilesValid THEN Validated ELSE meta
    /\ LET alone == Cardinality(staged \cap Candidates) <= 1
       IN  /\ staged' = IF CardFilesValid /\ alone THEN staged \ Candidates
                        ELSE staged
           /\ IF CardFilesValid /\ alone /\ JournalLoadable
              THEN /\ handle' = active /\ cmeta' = Validated
                   /\ dirty' = Loaded
                   /\ pending' = journal.total /\ jbytes' = journal.bytes
                   /\ allowed' = [c \in Cells |->
                                    {Overlay(active.data, journal.image)[c]}]
                   /\ txn' = "flush"
                   /\ pc' = IF Loaded = Clean THEN "return" ELSE "stage"
              ELSE /\ pc' = "shut"
                   /\ UNCHANGED <<handle, cmeta, dirty, pending, jbytes, allowed,
                                  txn>>
    /\ UNCHANGED <<active, prev, prevMeta, journal, request, saved, blocked,
                   budgets>>

\* An I/O error while opening gives the card up and leaves the disk as it is.
OpenFault ==
    /\ pc \in {"ensure", "recover", "recover.meta", "recover.json",
               "recover.sweep", "load"}
    /\ Fault
    /\ pc' = "shut"
    /\ UNCHANGED <<disk, request, txn, handle, cmeta, saved, buffers, allowed>>

-----------------------------------------------------------------------------
(***************************************************************************)
(* The calls on an open card.  NBD writes reach an exported card only;     *)
(* Restore and Upload are refused while GameCube is exported and so run on *)
(* a store of their own.                                                   *)
(***************************************************************************)
DirtyBlocks == {BlockOf(c) : c \in {d \in Cells : dirty[d] # None}}

\* The request fits an empty journal (otherwise SAVE-JOURNAL-LIMIT at once).
RequestFits(w) ==
    /\ Size(w) <= MaxPending /\ Size(w) + Overhead <= MaxJournal
    /\ Cardinality(BlocksOf(w)) <= MaxDirty
\* Mutant: the journal's size limit is not looked at.
MustFlushUnlimited(w) ==
    \/ pending + Size(w) > MaxPending
    \/ Cardinality(DirtyBlocks \cup BlocksOf(w)) > MaxDirty
MustFlush(w) ==
    \/ pending + Size(w) > MaxPending
    \/ jbytes + Size(w) + Overhead > MaxJournal
    \/ Cardinality(DirtyBlocks \cup BlocksOf(w)) > MaxDirty

WriteSaveAt(w) ==
    /\ pc = "open" /\ role = "export" /\ ~blocked
    /\ RequestFits(w)
    /\ call' = "write" /\ req' = w /\ txn' = "flush"
    /\ pc' = IF MustFlush(w) /\ dirty # Clean THEN "stage" ELSE "append"
    /\ UNCHANGED <<disk, role, cand, handle, cmeta, saved, buffers, allowed,
                   budgets>>

\* Sync, Verify, Backup and Close: flush what is dirty, then the rest.
\* (Verify changes nothing else and is the same call as Sync here.)
Flushing(c) ==
    /\ pc = "open" /\ role # "none"
    /\ call' = c /\ txn' = "flush"
    /\ pc' = IF dirty # Clean THEN "stage" ELSE AfterFlush(c)
    /\ UNCHANGED <<disk, role, req, cand, handle, cmeta, saved, buffers, allowed,
                   budgets>>
Sync == Flushing("sync")
Backup == Flushing("backup")
Close == Flushing("close")

\* Restore and Upload stage their input first, then flush, back up, activate.
Replacing(c, card, name) ==
    /\ pc = "open" /\ role = "admin"
    /\ call' = c /\ cand' = card /\ txn' = "flush"
    /\ staged' = staged \cup {name}
    /\ pc' = IF dirty # Clean THEN "stage" ELSE AfterFlush(c)
    /\ UNCHANGED <<active, meta, prev, prevMeta, journal, role, req, handle,
                   cmeta, saved, buffers, allowed, budgets>>
Restore(card) == Replacing("restore", card, "selected")
Upload(card) == "upload" \notin staged /\ Replacing("upload", card, "upload")

-----------------------------------------------------------------------------
(***************************************************************************)
(* WriteSaveAt after its flushes: append and sync the record, then copy it  *)
(* into the dirty blocks and acknowledge.                                  *)
(***************************************************************************)
Recorded ==
    [image |-> [c \in Cells |-> IF c \in Span(req) THEN req.val
                                ELSE journal.image[c]],
     bytes |-> journal.bytes + Size(req) + Overhead,
     total |-> journal.total + Size(req),
     torn |-> journal.torn]
Torn == [journal EXCEPT !.torn = TRUE]
Attempted ==
    [c \in Cells |-> IF c \in Span(req) THEN allowed[c] \cup {req.val}
                     ELSE allowed[c]]
Acknowledged ==
    [c \in Cells |-> IF c \in Span(req) THEN {req.val} ELSE allowed[c]]

\* Mutant: the write is acknowledged from memory alone.
AppendNothing ==
    /\ pc = "append"
    /\ allowed' = Attempted
    /\ pc' = "buffer"
    /\ UNCHANGED <<disk, request, txn, handle, cmeta, saved, buffers, budgets>>

AppendJournal ==
    /\ pc = "append"
    /\ journal' = Recorded /\ allowed' = Attempted
    /\ pc' = "buffer"
    /\ UNCHANGED <<active, meta, prev, prevMeta, staged, request, txn, handle,
                   cmeta, saved, buffers, budgets>>

\* A failed header write, data write or sync leaves no record, an incomplete
\* one, or a whole one, and blocks the card until it is opened again.
AppendFault ==
    /\ pc = "append" /\ Fault
    /\ \/ journal' \in {journal, Torn} /\ UNCHANGED allowed
       \/ journal' = Recorded /\ allowed' = Attempted
    /\ blocked' = TRUE
    /\ pc' = "return"
    /\ UNCHANGED <<active, meta, prev, prevMeta, staged, request, txn, handle,
                   cmeta, saved, dirty, pending, jbytes>>

\* Mutant: a clean block is taken as zeros instead of being read.
BufferedUnread(bs) ==
    [c \in Cells |->
        IF BlockOf(c) \notin bs THEN dirty[c]
        ELSE IF c \in Span(req) THEN req.val
        ELSE IF dirty[c] = None THEN Zero
        ELSE dirty[c]]

\* The dirty cells once the request's blocks in bs are copied: a block that was
\* clean is first read whole from the open card file.
Buffered(bs) ==
    [c \in Cells |->
        IF BlockOf(c) \notin bs THEN dirty[c]
        ELSE IF c \in Span(req) THEN req.val
        ELSE IF dirty[c] = None THEN handle.data[c]
        ELSE dirty[c]]
CleanBlocks == BlocksOf(req) \ DirtyBlocks

BufferWrite ==
    /\ pc = "buffer"
    /\ CleanBlocks = {} \/ handle # NoFile
    /\ dirty' = Buffered(BlocksOf(req))
    /\ pending' = pending + Size(req)
    /\ jbytes' = jbytes + Size(req) + Overhead
    /\ allowed' = Acknowledged
    /\ pc' = "return"
    /\ UNCHANGED <<disk, request, txn, handle, cmeta, saved, blocked, budgets>>

\* The read of a clean block fails: the earlier blocks are copied, the record
\* stays in the journal, the counters are not advanced.  With no open file the
\* first clean block fails.
BufferFault ==
    /\ pc = "buffer"
    /\ \E b \in CleanBlocks :
          /\ dirty' = Buffered({d \in BlocksOf(req) : d < b})
          /\ handle = NoFile => \A d \in CleanBlocks : b <= d
    /\ \/ Fault
       \/ handle = NoFile /\ UNCHANGED budgets
    /\ pc' = "return"
    /\ UNCHANGED <<disk, request, txn, handle, cmeta, saved, pending, jbytes,
                   blocked, allowed>>

-----------------------------------------------------------------------------
(***************************************************************************)
(* The transaction flushCard and activateCandidate share: stage the new    *)
(* card, keep the previous one (preparePrevious), rename, write the        *)
(* metadata, drop the previous one (commitPrevious).  flushCard then       *)
(* truncates the journal.                                                  *)
(***************************************************************************)
Stage ==
    /\ pc = "stage"
    /\ staged' = staged \cup {StageName}
    /\ saved' = cmeta
    /\ pc' = "prep.raw"
    /\ UNCHANGED <<active, meta, prev, prevMeta, journal, request, txn, handle,
                   cmeta, buffers, allowed, budgets>>

PrepareRaw ==
    /\ pc = "prep.raw"
    /\ prev' = NoFile
    /\ pc' = "prep.json"
    /\ UNCHANGED <<active, meta, prevMeta, staged, journal, request, txn, handle,
                   cmeta, saved, buffers, allowed, budgets>>

PrepareJson ==
    /\ pc = "prep.json"
    /\ prevMeta' = NoMeta
    /\ pc' = "prep.write"
    /\ UNCHANGED <<active, meta, prev, staged, journal, request, txn, handle,
                   cmeta, saved, buffers, allowed, budgets>>

PrepareWrite ==
    /\ pc = "prep.write"
    /\ prevMeta' = cmeta
    /\ pc' = "prep.link"
    /\ UNCHANGED <<active, meta, prev, staged, journal, request, txn, handle,
                   cmeta, saved, buffers, allowed, budgets>>

\* A hard link to active.raw or, where links fail, a validated copy of it.
PreviousCopies ==
    {active} \cup {f \in {[ino |-> FreshIno, data |-> active.data]} :
                      active.data = cmeta.sha}

PrepareLink ==
    /\ pc = "prep.link"
    /\ prev' \in PreviousCopies
    /\ pc' = "rename"
    /\ UNCHANGED <<active, meta, prevMeta, staged, journal, request, txn, handle,
                   cmeta, saved, buffers, allowed, budgets>>

\* A step of staging or of preparePrevious fails, before or after its effect
\* on the directory; the temporary card is removed and nothing is undone.
PrepareFault ==
    /\ pc \in {"stage", "prep.raw", "prep.json", "prep.write", "prep.link"}
    /\ Fault
    /\ prev' \in {prev} \cup (IF pc = "prep.link" THEN PreviousCopies ELSE {})
    /\ prevMeta' \in {prevMeta} \cup (IF pc = "prep.write" THEN {cmeta} ELSE {})
    /\ staged' = staged \ {StageName}
    /\ pc' = AfterFailure(call)
    /\ UNCHANGED <<active, meta, journal, request, txn, handle, cmeta, saved,
                   buffers, allowed>>

\* card.file is closed, the temporary card becomes active.raw.  From here a
\* restore or upload may take effect although it was not confirmed.
RenameCandidate ==
    /\ pc = "rename" /\ handle # NoFile
    /\ active' = [ino |-> FreshIno, data |-> Candidate]
    /\ staged' = staged \ {StageName}
    /\ handle' = NoFile
    /\ allowed' = IF txn = "flush" THEN allowed
                  ELSE [c \in Cells |-> allowed[c] \cup {cand[c]}]
    /\ pc' = "meta"
    /\ UNCHANGED <<meta, prev, prevMeta, journal, request, txn, cmeta, saved,
                   buffers, budgets>>

\* Closing a file that an earlier rollback failed to reopen is an error.
CloseRefused ==
    /\ pc = "rename" /\ handle = NoFile
    /\ pc' = "undo"
    /\ UNCHANGED <<disk, request, txn, handle, cmeta, saved, buffers, allowed,
                   budgets>>

\* Mutant: the checksum of the card from before is kept.
DescribedStale == [sha |-> cmeta.sha, ino |-> active.ino]

\* The reopened card's checksum and identity, in memory and in metadata.json.
\* (activateCandidate also hashes the reopened card, which is what it wrote.)
Described == [sha |-> active.data, ino |-> active.ino]

WriteMeta ==
    /\ pc = "meta"
    /\ handle' = active /\ cmeta' = Described /\ meta' = Described
    /\ pc' = "commit.json"
    /\ UNCHANGED <<active, prev, prevMeta, staged, journal, request, txn, saved,
                   buffers, allowed, budgets>>

CommitJson ==
    /\ pc = "commit.json"
    /\ prevMeta' = NoMeta
    /\ pc' = "commit.raw"
    /\ UNCHANGED <<active, meta, prev, staged, journal, request, txn, handle,
                   cmeta, saved, buffers, allowed, budgets>>

\* Mutant: the rollback marker stays.
CommitNothing ==
    /\ pc = "commit.raw"
    /\ IF txn = "flush"
       THEN pc' = "truncate" /\ UNCHANGED allowed
       ELSE pc' = "unstage" /\ allowed' = [c \in Cells |-> {cand[c]}]
    /\ UNCHANGED <<disk, request, txn, handle, cmeta, saved, buffers, budgets>>

CommitRaw ==
    /\ pc = "commit.raw"
    /\ prev' = NoFile
    /\ IF txn = "flush"
       THEN pc' = "truncate" /\ UNCHANGED allowed
       ELSE pc' = "unstage" /\ allowed' = [c \in Cells |-> {cand[c]}]
    /\ UNCHANGED <<active, meta, prevMeta, staged, journal, request, txn, handle,
                   cmeta, saved, buffers, budgets>>

\* A failing step after preparePrevious runs the deferred restorePrevious; the
\* failure may come before or after the step's own effect.
TransactionFault ==
    /\ pc \in {"rename", "meta", "commit.json", "commit.raw"}
    /\ Fault
    /\ IF pc = "meta"
       THEN \/ handle' \in {NoFile, active} /\ UNCHANGED <<cmeta, meta>>
            \/ handle' = active /\ cmeta' = Described
               /\ meta' \in {meta, Described}
       ELSE UNCHANGED <<handle, cmeta, meta>>
    /\ prev' \in {prev} \cup (IF pc = "commit.raw" THEN {NoFile} ELSE {})
    /\ pc' = "undo"
    /\ UNCHANGED <<active, prevMeta, staged, journal, request, txn, saved,
                   buffers, allowed>>

\* Mutant: the pending counter is reduced by what was written, not reset.
TruncateByDirty ==
    /\ pc = "truncate"
    /\ journal' = NoJournal
    /\ pending' = pending - Cardinality({c \in Cells : dirty[c] # None})
    /\ dirty' = Clean /\ jbytes' = 0
    /\ pc' = AfterFlush(call)
    /\ UNCHANGED <<active, meta, prev, prevMeta, staged, request, txn, handle,
                   cmeta, saved, blocked, allowed, budgets>>

\* flushCard's last step.  The dirty blocks are dropped with the journal.
Truncate ==
    /\ pc = "truncate"
    /\ journal' = NoJournal
    /\ dirty' = Clean /\ pending' = 0 /\ jbytes' = 0
    /\ pc' = AfterFlush(call)
    /\ UNCHANGED <<active, meta, prev, prevMeta, staged, request, txn, handle,
                   cmeta, saved, blocked, allowed, budgets>>

\* The truncation or its sync fails: the card is confirmed already, the dirty
\* blocks and the counters stay.
TruncateFault ==
    /\ pc = "truncate" /\ Fault
    /\ journal' \in {journal, NoJournal}
    /\ pc' = AfterFailure(call)
    /\ UNCHANGED <<active, meta, prev, prevMeta, staged, request, txn, handle,
                   cmeta, saved, buffers, allowed>>

-----------------------------------------------------------------------------
(***************************************************************************)
(* restorePrevious.                                                        *)
(***************************************************************************)
UndoRename ==
    /\ pc = "undo"
    /\ IF prev = NoFile
       THEN pc' = AfterFailure(call) /\ UNCHANGED <<active, prev, handle>>
       ELSE /\ RenamePrevious
            /\ handle' = active'
            /\ pc' = "undo.meta"
    /\ UNCHANGED <<meta, prevMeta, staged, journal, request, txn, cmeta, saved,
                   buffers, allowed, budgets>>

\* Mutant: metadata.json is put back, the metadata in memory is not.
UndoMetaOnDisk ==
    /\ pc = "undo.meta"
    /\ meta' = saved
    /\ pc' = "undo.json"
    /\ UNCHANGED <<active, prev, prevMeta, staged, journal, request, txn, handle,
                   cmeta, saved, buffers, allowed, budgets>>

UndoMeta ==
    /\ pc = "undo.meta"
    /\ cmeta' = saved /\ meta' = saved
    /\ pc' = "undo.json"
    /\ UNCHANGED <<active, prev, prevMeta, staged, journal, request, txn, handle,
                   saved, buffers, allowed, budgets>>

UndoJson ==
    /\ pc = "undo.json"
    /\ prevMeta' = NoMeta
    /\ pc' = AfterFailure(call)
    /\ UNCHANGED <<active, meta, prev, staged, journal, request, txn, handle,
                   cmeta, saved, buffers, allowed, budgets>>

\* A second failure, inside restorePrevious: its error is discarded.
UndoFault ==
    /\ pc \in {"undo", "undo.meta", "undo.json"}
    /\ Fault
    /\ \/ /\ pc = "undo" /\ prev # NoFile
          /\ RenamePrevious \/ UNCHANGED <<active, prev>>
          /\ handle' = NoFile
          /\ UNCHANGED <<cmeta, meta>>
       \/ /\ pc = "undo.meta"
          /\ cmeta' = saved /\ meta' \in {meta, saved}
          /\ UNCHANGED <<active, prev, handle>>
       \/ /\ pc = "undo.json"
          /\ UNCHANGED <<active, prev, handle, cmeta, meta>>
    /\ pc' = AfterFailure(call)
    /\ UNCHANGED <<prevMeta, staged, journal, request, txn, saved, buffers,
                   allowed>>

-----------------------------------------------------------------------------
(***************************************************************************)
(* backupCard, as far as the card's own files are concerned: the copy must *)
(* have the recorded checksum, and LastBackup rewrites metadata.json.  The *)
(* backup files themselves are the subject of SaveBackups.                 *)
(***************************************************************************)
BackupCard ==
    /\ pc = "backup"
    /\ IF active.data = cmeta.sha
       THEN /\ meta' = cmeta
            /\ IF call = "backup"
               THEN pc' = "return" /\ UNCHANGED txn
               ELSE pc' = "stage" /\ txn' = "activate"
       ELSE pc' = AfterFailure(call) /\ UNCHANGED <<meta, txn>>
    /\ UNCHANGED <<active, prev, prevMeta, staged, journal, request, handle,
                   cmeta, saved, buffers, allowed, budgets>>

BackupFault ==
    /\ pc = "backup" /\ Fault
    /\ meta' \in {meta, cmeta}
    /\ pc' = AfterFailure(call)
    /\ UNCHANGED <<active, prev, prevMeta, staged, journal, request, txn, handle,
                   cmeta, saved, buffers, allowed>>

\* The deferred os.Remove of Restore's and Upload's staged input.
Unstage ==
    /\ pc = "unstage"
    /\ staged' = staged \ {IF call = "restore" THEN "selected" ELSE "upload"}
    /\ pc' = "return"
    /\ UNCHANGED <<active, meta, prev, prevMeta, journal, request, txn, handle,
                   cmeta, saved, buffers, allowed, budgets>>

-----------------------------------------------------------------------------
\* A call returns, its local variables are gone, and store.mu is free.
Return ==
    /\ pc = "return"
    /\ pc' = "open" /\ call' = "none" /\ txn' = "none"
    /\ req' = NoRequest /\ cand' = Blank /\ saved' = NoMeta
    /\ UNCHANGED <<disk, role, handle, cmeta, buffers, allowed, budgets>>

\* What a closed store and a dead process have in common.
MemoryLost ==
    /\ pc' = "down" /\ role' = "none" /\ call' = "none" /\ txn' = "none"
    /\ req' = NoRequest /\ cand' = Blank
    /\ handle' = NoFile /\ cmeta' = NoMeta /\ saved' = NoMeta
    /\ dirty' = Clean /\ pending' = 0 /\ jbytes' = 0 /\ blocked' = FALSE

\* The end of Close, and of a failed OpenSaveStore.
Shut ==
    /\ pc = "shut"
    /\ MemoryLost
    /\ UNCHANGED <<disk, allowed, budgets>>

\* The process dies.  A record being appended may be left incomplete.
Crash ==
    /\ pc # "down" /\ crashes < MaxCrashes
    /\ crashes' = crashes + 1
    /\ journal' \in {journal} \cup (IF pc = "append" THEN {Torn} ELSE {})
    /\ MemoryLost
    /\ UNCHANGED <<active, meta, prev, prevMeta, staged, allowed, faults>>

Next ==
    \/ CreateStage \/ CreateRename \/ CreateMeta \/ CreateFault
    \/ \E r \in {"export", "admin"} : OpenStore(r)
    \/ EnsureSaveObjects \/ RecoverInterruptedActivation \/ RecoverMeta
    \/ RecoverJson \/ RecoverSweep \/ OpenObject \/ OpenFault
    \/ \E w \in WriteRequest : WriteSaveAt(w)
    \/ Sync \/ Backup \/ Close
    \/ \E card \in Card : Restore(card) \/ Upload(card)
    \/ AppendJournal \/ AppendFault \/ BufferWrite \/ BufferFault
    \/ Stage \/ PrepareRaw \/ PrepareJson \/ PrepareWrite \/ PrepareLink
    \/ PrepareFault \/ RenameCandidate \/ CloseRefused \/ WriteMeta
    \/ CommitJson \/ CommitRaw \/ TransactionFault \/ Truncate
    \/ TruncateFault
    \/ UndoRename \/ UndoMeta \/ UndoJson \/ UndoFault
    \/ BackupCard \/ BackupFault \/ Unstage \/ Return \/ Shut \/ Crash

Spec == Init /\ [][Next]_vars

-----------------------------------------------------------------------------
(***************************************************************************)
(* Properties.                                                             *)
(***************************************************************************)
\* Every cell holds the value of its last acknowledged write, or of a write,
\* restore or upload attempted later and never confirmed.
Permits(card) == \A c \in Cells : card[c] \in allowed[c]

\* Whatever card file startup recovery picks, the journal replayed over it has
\* every acknowledged write: no step of flushCard, restorePrevious,
\* activateCandidate or recoverInterruptedActivation, and no crash or I/O error
\* between two of them, drops one.
AckedWritesSurvive ==
    active # NoFile =>
        \A f \in {active, prev} :
            f # NoFile => Permits(Overlay(f.data, journal.image))

\* ReadSaveAt between two calls returns acknowledged data, also after failed
\* flushes and failed rollbacks that replaced or lost the open file.
ReadsSeeAckedWrites ==
    pc = "open" /\ handle # NoFile => Permits(Overlay(handle.data, dirty))

\* The identity shortcut of validateCardFiles never accepts a card without its
\* checksum: metadata that names a card file's identity has that file's sum.
IdentityImpliesChecksum ==
    \A m \in {meta, prevMeta, cmeta}, f \in {active, prev} :
        m # NoMeta /\ f # NoFile /\ m.ino = f.ino => m.sha = f.data

\* One I/O error in any step of flushCard, activateCandidate or backupCard
\* leaves, when the call has returned, a card that its metadata describes in
\* memory and on disk, so that the next backup and the next start accept it.
OneFaultLeavesCardConfirmed ==
    pc = "open" /\ faults <= 1 =>
        cmeta.sha = active.data /\ meta.sha = active.data

\* With no I/O error the journal a crash leaves behind is within the bounds
\* that loadJournal enforces: the writer's counters are never behind the file.
JournalReplayable ==
    faults = 0 => journal.total <= MaxPending /\ journal.bytes <= MaxJournal

\* The journal is truncated only once the card with its writes is active.raw,
\* metadata.json describes it, and no rollback marker can bring back the card
\* from before.
TruncatedOnlyWhenConfirmed ==
    [][journal # NoJournal /\ journal' = NoJournal =>
        /\ Permits(active.data)
        /\ meta = Described
        /\ prev = NoFile]_vars

\* A card with a rollback marker on disk, as a crash inside a checkpoint or an
\* activation leaves it, passes the checks that startup makes before it looks
\* at the marker.
InterruptedActivationAccepted ==
    pc = "down" /\ prev # NoFile => CardFilesValid

-----------------------------------------------------------------------------
(***************************************************************************)
(* Until the first I/O error the card is the durable card of DurableCard.  *)
(* Its content is what startup would rebuild from the directory.           *)
(***************************************************************************)
RecoveredCard ==
    Overlay(IF prev # NoFile THEN prev.data ELSE active.data, journal.image)

CallInProgress ==
    CASE call = "write" -> [kind |-> "write", lo |-> req.lo, hi |-> req.hi,
                            val |-> req.val]
      [] call \in {"restore", "upload"} -> [kind |-> "replace", card |-> cand]
      [] OTHER -> [kind |-> "none"]

ReaderView ==
    IF pc = "open" THEN [kind |-> "shown", card |-> Overlay(handle.data, dirty)]
    ELSE [kind |-> "hidden"]

Durable == INSTANCE DurableCard
    WITH content <- RecoveredCard, op <- CallInProgress, view <- ReaderView,
         failed <- faults # 0

\* Until a system call fails, every step of the file-level protocol is a step of
\* the atomic card or leaves it alone: checkpoints, recovery and interrupted
\* recovery are invisible, and no call returns before its effect would survive a
\* crash.
AtomicDurableCard == Durable!Spec

=============================================================================
