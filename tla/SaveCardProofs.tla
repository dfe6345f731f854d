--------------------------- MODULE SaveCardProofs ---------------------------
(***************************************************************************)
(* Proofs about a managed memory card, for every card size, block size,    *)
(* value set, limit, and every number of crashes and I/O errors.           *)
(*                                                                         *)
(* AckedWritesSurvive speaks of what a crash would leave on disk, but a    *)
(* step that rewrites the disk takes its data from memory (the dirty       *)
(* blocks, the open file) or from the rollback marker.  The inductive      *)
(* invariant IInv therefore also says what those hold: over each of the    *)
(* three card files the dirty blocks give acknowledged data, as long as a  *)
(* store is alive.                                                         *)
(***************************************************************************)
EXTENDS SaveCard, TLAPS

\* Steps of a store that is open: its memory counts.
Idle == {"down", "create.rename", "create.meta", "ensure", "recover",
         "recover.meta", "recover.json", "recover.sweep", "load", "shut"}
Alive == pc \notin Idle

\* The disk, at any time.
DiskInv ==
    /\ active # NoFile => Permits(Overlay(active.data, journal.image))
    /\ prev # NoFile => /\ active # NoFile
                        /\ Permits(Overlay(prev.data, journal.image))
                        /\ prev.ino = active.ino => prev.data = active.data
    /\ active = NoFile => /\ journal.image = Clean
                          /\ allowed = [c \in Cells |-> {Zero}]

\* Startup: a card is created where there is none, and once the marker has been
\* renamed what is left of it is a second link to the card.
StartInv ==
    /\ pc = "create.rename" => active = NoFile
    /\ pc \in {"ensure", "recover", "recover.meta", "recover.json",
               "recover.sweep", "load"} => call = "open"
    /\ pc \in {"recover.meta", "recover.json", "recover.sweep", "load"}
          /\ prev # NoFile => prev.data = active.data

\* Dirty blocks are dirty as a whole.
WholeBlocks ==
    \A c, d \in Cells :
        BlockOf(c) = BlockOf(d) /\ dirty[c] # None => dirty[d] # None

\* The memory of a live store.
LiveInv ==
    Alive =>
        /\ active # NoFile
        /\ Permits(Overlay(active.data, dirty))
        /\ handle # NoFile => Permits(Overlay(handle.data, dirty))
        /\ prev # NoFile => Permits(Overlay(prev.data, dirty))
        /\ WholeBlocks

\* Who runs what: the console writes an exported card, and only a store opened
\* for administration, which has no journal left behind, replaces a card.
RoleInv ==
    Alive =>
        /\ call = "write" => role = "export"
        /\ pc \in {"append", "buffer"} => call = "write"
        /\ role = "admin" /\ dirty = Clean => journal.image = Clean
        /\ pc = "backup" => /\ dirty = Clean
                            /\ call \in {"backup", "restore", "upload"}
        /\ call \in {"restore", "upload"} => role = "admin"
        /\ txn = "activate" => role = "admin" /\ dirty = Clean
        /\ txn = "none" => pc = "open"

\* The record of the running write.
WriteInv ==
    pc = "buffer" =>
        \A c \in Span(req) : journal.image[c] = req.val /\ req.val \in allowed[c]

\* The running transaction, from its rename on.
TransactionInv ==
    /\ pc \in {"meta", "commit.json", "commit.raw", "truncate"} =>
          /\ Permits(active.data)
          /\ txn = "activate" => active.data = cand
    /\ pc \in {"commit.json", "commit.raw", "truncate"} =>
          handle = active /\ meta = Described
    /\ pc = "truncate" => prev = NoFile

IInv ==
    /\ TypeOK
    /\ DiskInv
    /\ StartInv
    /\ LiveInv
    /\ RoleInv
    /\ WriteInv
    /\ TransactionInv

-----------------------------------------------------------------------------
(***************************************************************************)
(* The constants and the helpers.                                          *)
(***************************************************************************)
\* Cell 0 exists, and the empty values are values.
LEMMA Constants ==
    /\ 0 \in Cells
    /\ Blank \in Card /\ Clean \in Image
    /\ NoFile \in File /\ NoMeta \in Metadata
    /\ NoJournal \in JournalFile
    /\ NoRequest \in WriteRequest
<1>1. 0 \in Cells
  BY CardAssumption DEF Cells
<1>2. Blank \in Card /\ Clean \in Image
  BY CardAssumption DEF Blank, Clean, Card, Image
<1> QED
  BY <1>1, <1>2, CardAssumption
  DEF NoFile, File, NoMeta, Metadata, NoJournal, JournalFile, NoRequest,
      WriteRequest, Ino

\* Overlaying a card gives a card.
LEMMA OverlayType ==
    ASSUME NEW base \in Card, NEW image \in Image
    PROVE  Overlay(base, image) \in Card
BY DEF Overlay, Card, Image

\* Seven identities are in use at most, so a new file always gets its own.
LEMMA FreshInoIsNew ==
    ASSUME TypeOK
    PROVE  /\ FreshIno \in Ino /\ FreshIno # 0
           /\ FreshIno # active.ino /\ FreshIno # prev.ino
           /\ FreshIno # meta.ino /\ FreshIno # prevMeta.ino
           /\ FreshIno # cmeta.ino /\ FreshIno # saved.ino
<1> DEFINE used == {active.ino, prev.ino, handle.ino, meta.ino, prevMeta.ino,
                    cmeta.ino, saved.ino}
<1>1. \E i \in Ino \ {0} : i \notin used
  <2> SUFFICES ASSUME \A i \in Ino \ {0} : i \in used PROVE FALSE
    OBVIOUS
  <2>1. /\ 1 \in used /\ 2 \in used /\ 3 \in used /\ 4 \in used
        /\ 5 \in used /\ 6 \in used /\ 7 \in used /\ 8 \in used
    BY DEF Ino
  <2> QED
    BY <2>1
<1> QED
  BY <1>1 DEF FreshIno

\* Where a call goes after a flush or a failure.
LEMMA Continuations ==
    ASSUME NEW c
    PROVE  /\ AfterFlush(c) \in {"append", "backup", "shut", "return"}
           /\ AfterFailure(c) \in {"shut", "unstage", "return"}
BY DEF AfterFlush, AfterFailure

-----------------------------------------------------------------------------
(***************************************************************************)
(* Type correctness.                                                       *)
(***************************************************************************)
LEMMA TypeOKInit == Init => TypeOK
<1> SUFFICES ASSUME Init PROVE TypeOK
  OBVIOUS
<1>1. allowed \in [Cells -> SUBSET Val]
  BY CardAssumption DEF Init
<1>2. /\ pc \in Steps /\ role \in Roles /\ call \in Calls /\ txn \in Transactions
      /\ staged \subseteq Staged
  BY DEF Init, Steps, Roles, Calls, Transactions
<1> QED
  BY <1>1, <1>2, Constants DEF Init, TypeOK

\* Creating and opening a card.
LEMMA TypeOKOpening ==
    ASSUME TypeOK,
           \/ CreateStage \/ CreateRename \/ CreateMeta \/ CreateFault
           \/ \E r \in {"export", "admin"} : OpenStore(r)
           \/ EnsureSaveObjects \/ RecoverInterruptedActivation \/ RecoverMeta
           \/ RecoverJson \/ RecoverSweep \/ OpenObject \/ OpenFault
    PROVE  TypeOK'
<1> USE Constants DEF TypeOK, Steps
<1>1. CASE CreateStage
  BY <1>1 DEF CreateStage, buffers, budgets, Staged
<1>2. CASE CreateRename
  BY <1>2, FreshInoIsNew DEF CreateRename, buffers, budgets, File
<1>3. CASE CreateMeta
  BY <1>3 DEF CreateMeta, buffers, budgets, File, Metadata
<1>4. CASE CreateFault
  BY <1>4 DEF CreateFault, Fault, buffers
<1>5. CASE \E r \in {"export", "admin"} : OpenStore(r)
  BY <1>5 DEF OpenStore, disk, buffers, budgets, Roles, Calls
<1>6. Validated \in Metadata
  BY DEF Validated, Metadata, File
<1>7. CASE EnsureSaveObjects
  BY <1>6, <1>7 DEF EnsureSaveObjects, request, buffers, budgets
<1>8. CASE RecoverInterruptedActivation
  BY <1>8 DEF RecoverInterruptedActivation, RenamePrevious, request, buffers, budgets
<1>9. CASE RecoverMeta
  BY <1>9 DEF RecoverMeta, request, buffers, budgets, File, Metadata
<1>10. CASE RecoverJson
  BY <1>10 DEF RecoverJson, request, buffers, budgets
<1>11. CASE RecoverSweep
  BY <1>11 DEF RecoverSweep, request, buffers, budgets
<1>12. CASE OpenObject
  <2>1. Loaded \in Image
    BY DEF Loaded, JournalFile, File, Card, Image
  <2>2. [c \in Cells |-> {Overlay(active.data, journal.image)[c]}]
           \in [Cells -> SUBSET Val]
    <3>1. Overlay(active.data, journal.image) \in Card
      BY OverlayType DEF File, JournalFile
    <3> QED
      BY <3>1 DEF Card
  <2>3. journal.total \in Nat /\ journal.bytes \in Nat
    BY DEF JournalFile
  <2> QED
    BY <1>6, <1>12, <2>1, <2>2, <2>3
    DEF OpenObject, request, budgets, Transactions
<1>13. CASE OpenFault
  BY <1>13 DEF OpenFault, Fault, disk, request, buffers
<1> QED
  BY <1>1, <1>2, <1>3, <1>4, <1>5, <1>7, <1>8, <1>9, <1>10, <1>11, <1>12, <1>13

\* What the calls compute for a write.
LEMMA WriteTypes ==
    ASSUME TypeOK
    PROVE  /\ Size(req) \in Nat \ {0}
           /\ Recorded \in JournalFile /\ Torn \in JournalFile
           /\ Attempted \in [Cells -> SUBSET Val]
           /\ Acknowledged \in [Cells -> SUBSET Val]
           /\ \A bs : Buffered(bs) \in Image
<1>1. req.lo \in Cells /\ req.hi \in Cells /\ req.val \in Val /\ req.lo <= req.hi
  BY DEF TypeOK, WriteRequest
<1>2. Size(req) \in Nat \ {0}
  BY <1>1 DEF Size, Cells
<1>3. \A image \in Image :
         [c \in Cells |-> IF c \in Span(req) THEN req.val ELSE image[c]] \in Image
  BY <1>1 DEF Image
<1>4. Recorded \in JournalFile /\ Torn \in JournalFile
  <2>1. /\ journal.image \in Image /\ journal.bytes \in Nat
        /\ journal.total \in Nat /\ journal.torn \in BOOLEAN
    BY DEF TypeOK, JournalFile
  <2>2. /\ journal.bytes + Size(req) + Overhead \in Nat
        /\ journal.total + Size(req) \in Nat
    BY <1>2, <2>1, LimitAssumption
  <2>3. Recorded \in JournalFile
    BY <1>3, <2>1, <2>2 DEF JournalFile, Recorded
  <2>4. Torn \in JournalFile
    BY DEF TypeOK, JournalFile, Torn
  <2> QED
    BY <2>3, <2>4
<1>5. /\ Attempted \in [Cells -> SUBSET Val]
      /\ Acknowledged \in [Cells -> SUBSET Val]
  BY <1>1 DEF TypeOK, Attempted, Acknowledged
<1>6. ASSUME NEW bs PROVE Buffered(bs) \in Image
  BY <1>1 DEF TypeOK, Buffered, Image, File, Card
<1> QED
  BY <1>2, <1>4, <1>5, <1>6

\* The calls, and the steps of a write.
LEMMA TypeOKCalls ==
    ASSUME TypeOK,
           \/ \E w \in WriteRequest : WriteSaveAt(w)
           \/ Sync \/ Backup \/ Close
           \/ \E card \in Card : Restore(card) \/ Upload(card)
           \/ AppendJournal \/ AppendFault \/ BufferWrite \/ BufferFault
    PROVE  TypeOK'
<1> USE DEF TypeOK, Steps
<1>1. CASE \E w \in WriteRequest : WriteSaveAt(w)
  BY <1>1 DEF WriteSaveAt, disk, buffers, budgets, Calls, Transactions
<1>2. ASSUME NEW c \in {"sync", "backup", "close"}, Flushing(c) PROVE TypeOK'
  BY <1>2, Continuations DEF Flushing, disk, buffers, budgets, Calls, Transactions
<1>3. ASSUME NEW c \in {"restore", "upload"}, NEW card \in Card,
             NEW name \in Staged, Replacing(c, card, name)
      PROVE  TypeOK'
  BY <1>3, Continuations DEF Replacing, buffers, budgets, Calls, Transactions
<1>4. CASE \E card \in Card : Restore(card) \/ Upload(card)
  BY <1>3, <1>4 DEF Restore, Upload, Staged, Candidates
<1>5. CASE AppendJournal
  BY <1>5, WriteTypes DEF AppendJournal, request, buffers, budgets
<1>6. CASE AppendFault
  BY <1>6, WriteTypes DEF AppendFault, Fault, request
<1>7. CASE BufferWrite
  BY <1>7, WriteTypes, LimitAssumption
  DEF BufferWrite, disk, request, budgets
<1>8. CASE BufferFault
  BY <1>8, WriteTypes DEF BufferFault, Fault, disk, request, budgets
<1> QED
  BY <1>1, <1>2, <1>4, <1>5, <1>6, <1>7, <1>8 DEF Sync, Backup, Close

\* The card that a transaction activates, and the copies preparePrevious makes.
LEMMA CandidateTypes ==
    ASSUME TypeOK
    PROVE  /\ Candidate \in Card
           /\ PreviousCopies \subseteq File
           /\ Described \in Metadata
<1>1. Candidate \in Card
  BY OverlayType DEF TypeOK, Candidate, File
<1> QED
  BY <1>1, FreshInoIsNew DEF TypeOK, PreviousCopies, Described, File, Metadata

\* The steps of a transaction.
LEMMA TypeOKTransaction ==
    ASSUME TypeOK,
           \/ Stage \/ PrepareRaw \/ PrepareJson \/ PrepareWrite \/ PrepareLink
           \/ PrepareFault \/ RenameCandidate \/ CloseRefused \/ WriteMeta
           \/ CommitJson \/ CommitRaw \/ TransactionFault \/ Truncate
           \/ TruncateFault
    PROVE  TypeOK'
<1> USE Constants DEF TypeOK, Steps
<1>1. CASE Stage
  BY <1>1 DEF Stage, StageName, Staged, Candidates, request, buffers, budgets
<1>2. CASE PrepareRaw
  BY <1>2 DEF PrepareRaw, request, buffers, budgets
<1>3. CASE PrepareJson
  BY <1>3 DEF PrepareJson, request, buffers, budgets
<1>4. CASE PrepareWrite
  BY <1>4 DEF PrepareWrite, request, buffers, budgets
<1>5. CASE PrepareLink
  BY <1>5, CandidateTypes DEF PrepareLink, request, buffers, budgets
<1>6. CASE PrepareFault
  BY <1>6, CandidateTypes, Continuations DEF PrepareFault, Fault, request, buffers
<1>7. CASE RenameCandidate
  <2>1. active' \in File
    BY <1>7, CandidateTypes, FreshInoIsNew DEF RenameCandidate, File
  <2>2. allowed' \in [Cells -> SUBSET Val]
    BY <1>7 DEF RenameCandidate, Card
  <2> QED
    BY <1>7, <2>1, <2>2 DEF RenameCandidate, request, buffers, budgets
<1>8. CASE WriteMeta
  BY <1>8, CandidateTypes DEF WriteMeta, request, buffers, budgets
<1>9. CASE CommitJson
  BY <1>9 DEF CommitJson, request, buffers, budgets
<1>10. CASE CommitRaw
  BY <1>10 DEF CommitRaw, Card, request, buffers, budgets
<1>11. CASE TransactionFault
  <2>1. handle' \in File /\ cmeta' \in Metadata /\ meta' \in Metadata
    BY <1>11, CandidateTypes DEF TransactionFault
  <2> QED
    BY <1>11, <2>1 DEF TransactionFault, Fault, request, buffers
<1>12. CASE Truncate
  BY <1>12, Continuations DEF Truncate, request, budgets
<1>13. CASE TruncateFault
  BY <1>13, Continuations DEF TruncateFault, Fault, request, buffers
<1>14. CASE CloseRefused
  BY <1>14 DEF CloseRefused, disk, request, buffers, budgets
<1> QED
  BY <1>1, <1>2, <1>3, <1>4, <1>5, <1>6, <1>7, <1>8, <1>9, <1>10, <1>11, <1>12,
     <1>13, <1>14

\* Rollback, backup, and the ends of a call, a store and the process.
LEMMA TypeOKEnding ==
    ASSUME TypeOK,
           \/ UndoRename \/ UndoMeta \/ UndoJson \/ UndoFault
           \/ BackupCard \/ BackupFault \/ Unstage \/ Return \/ Shut \/ Crash
    PROVE  TypeOK'
<1> USE Constants DEF TypeOK, Steps
<1>1. CASE UndoRename
  BY <1>1, Continuations DEF UndoRename, RenamePrevious, request, buffers, budgets
<1>2. CASE UndoMeta
  BY <1>2 DEF UndoMeta, request, buffers, budgets
<1>3. CASE UndoJson
  BY <1>3, Continuations DEF UndoJson, request, buffers, budgets
<1>4. CASE UndoFault
  BY <1>4, Continuations DEF UndoFault, RenamePrevious, Fault, request, buffers
<1>5. CASE BackupCard
  BY <1>5, Continuations DEF BackupCard, Transactions, request, buffers, budgets
<1>6. CASE BackupFault
  BY <1>6, Continuations DEF BackupFault, Fault, request, buffers
<1>7. CASE Unstage
  BY <1>7 DEF Unstage, request, buffers, budgets
<1>8. CASE Return
  BY <1>8 DEF Return, disk, buffers, budgets, Calls, Transactions
<1>9. CASE Shut
  BY <1>9 DEF Shut, MemoryLost, disk, budgets, Roles, Calls, Transactions
<1>10. CASE Crash
  <2>1. journal' \in JournalFile
    BY <1>10, WriteTypes DEF Crash
  <2>2. /\ MemoryLost /\ crashes' \in Nat
        /\ UNCHANGED <<active, meta, prev, prevMeta, staged, allowed, faults>>
    BY <1>10 DEF Crash
  <2> QED
    BY <2>1, <2>2 DEF MemoryLost, Roles, Calls, Transactions
<1> QED
  BY <1>1, <1>2, <1>3, <1>4, <1>5, <1>6, <1>7, <1>8, <1>9, <1>10

LEMMA TypeOKStep == TypeOK /\ [Next]_vars => TypeOK'
<1> SUFFICES ASSUME TypeOK, [Next]_vars PROVE TypeOK'
  OBVIOUS
<1>1. CASE Next
  BY <1>1, TypeOKOpening, TypeOKCalls, TypeOKTransaction, TypeOKEnding DEF Next
<1>2. CASE UNCHANGED vars
  BY <1>2 DEF TypeOK, vars
<1> QED
  BY <1>1, <1>2

\* The card's files, the store's memory and its counters are well formed in
\* every reachable state of every operation of saveoverlay.go.
THEOREM TypeCorrect == Spec => []TypeOK
<1> QED
  BY TypeOKInit, TypeOKStep, PTL DEF Spec

-----------------------------------------------------------------------------
(***************************************************************************)
(* The invariant.                                                          *)
(***************************************************************************)
\* The parts of IInv after TypeOK.
Rest == DiskInv /\ StartInv /\ LiveInv /\ RoleInv /\ WriteInv /\ TransactionInv

LEMMA RestInit == Init => Rest
<1> SUFFICES ASSUME Init PROVE Rest
  OBVIOUS
<1>1. DiskInv
  BY DEF Init, DiskInv, NoJournal
<1> QED
  BY <1>1 DEF Init, Rest, StartInv, LiveInv, RoleInv, WriteInv, TransactionInv,
              Alive, Idle

\* Steps that leave the cards and the journal alone keep DiskInv, and with the
\* buffers and the open file too they keep LiveInv.
LEMMA DiskFrame ==
    ASSUME DiskInv, UNCHANGED <<active, prev, journal, allowed>>
    PROVE  DiskInv'
BY DEF DiskInv, Permits, Overlay

LEMMA LiveFrame ==
    ASSUME LiveInv, Alive, UNCHANGED <<active, prev, handle, dirty, allowed>>
    PROVE  LiveInv'
BY DEF LiveInv, Permits, Overlay, WholeBlocks

\* Creating and opening a card.
LEMMA RestOpening ==
    ASSUME TypeOK, Rest,
           \/ CreateStage \/ CreateRename \/ CreateMeta \/ CreateFault
           \/ \E r \in {"export", "admin"} : OpenStore(r)
           \/ EnsureSaveObjects \/ RecoverInterruptedActivation \/ RecoverMeta
           \/ RecoverJson \/ RecoverSweep \/ OpenObject \/ OpenFault
    PROVE  Rest'
<1> USE DEF Rest, StartInv, RoleInv, WriteInv, TransactionInv, Alive, Idle
<1>1. CASE CreateStage
  BY <1>1, DiskFrame DEF CreateStage, LiveInv
<1>2. CASE CreateRename
  <2>1. DiskInv'
    BY <1>2, CardAssumption, FreshInoIsNew
    DEF CreateRename, DiskInv, Permits, Overlay, NoFile, Blank, Clean
  <2> QED
    BY <1>2, <2>1 DEF CreateRename, LiveInv
<1>3. CASE CreateMeta
  BY <1>3, DiskFrame DEF CreateMeta, LiveInv
<1>4. CASE CreateFault
  BY <1>4, DiskFrame DEF CreateFault, LiveInv
<1>5. CASE \E r \in {"export", "admin"} : OpenStore(r)
  BY <1>5, DiskFrame DEF OpenStore, disk, LiveInv
<1>6. CASE EnsureSaveObjects
  BY <1>6, DiskFrame DEF EnsureSaveObjects, request, LiveInv
<1>7. CASE RecoverInterruptedActivation
  <2>1. CASE UNCHANGED <<active, prev>> /\ pc' = "recover.meta"
    BY <1>7, <2>1, DiskFrame 
    DEF RecoverInterruptedActivation, RenamePrevious, request, LiveInv, DiskInv
  <2>2. CASE UNCHANGED <<active, prev>> /\ pc' # "recover.meta"
    BY <1>7, <2>2, DiskFrame DEF RecoverInterruptedActivation, request, LiveInv
  <2>3. CASE active' = prev /\ prev' = NoFile /\ prev # NoFile
    <3>1. DiskInv'
      BY <1>7, <2>3 DEF RecoverInterruptedActivation, DiskInv, Permits, Overlay
    <3> QED
      BY <1>7, <2>3, <3>1 DEF RecoverInterruptedActivation, request, LiveInv
  <2> QED
    BY <1>7, <2>1, <2>2, <2>3 DEF RecoverInterruptedActivation, RenamePrevious
<1>8. CASE RecoverMeta
  BY <1>8, DiskFrame DEF RecoverMeta, request, LiveInv
<1>9. CASE RecoverJson
  BY <1>9, DiskFrame DEF RecoverJson, request, LiveInv
<1>10. CASE RecoverSweep
  BY <1>10, DiskFrame DEF RecoverSweep, request, LiveInv
<1>11. CASE OpenObject
  <2>1. CASE pc' = "shut"
    BY <1>11, <2>1, DiskFrame DEF OpenObject, request, LiveInv
  <2>2. CASE pc' # "shut"
    <3>1. /\ active # NoFile /\ handle' = active /\ dirty' = Loaded
          /\ allowed' = [c \in Cells |-> {Overlay(active.data, journal.image)[c]}]
          /\ UNCHANGED <<active, prev, journal>>
          /\ prev # NoFile => prev.data = active.data
          /\ pc' \in {"return", "stage"} /\ txn' = "flush" /\ call' = call
      BY <1>11, <2>2 DEF OpenObject, CardFilesValid, request
    <3>2. DiskInv'
      BY <3>1 DEF DiskInv, Permits, Overlay
    <3>3. \A c \in Cells : active.data[c] # None
      BY CardAssumption DEF TypeOK, File, Card
    <3>4. LiveInv'
      <4>1. \A c \in Cells : Overlay(active.data, Loaded)[c]
                             = Overlay(active.data, journal.image)[c]
        BY DEF Overlay, Loaded
      <4>2. WholeBlocks'
        BY <3>1, <3>3 DEF WholeBlocks, Loaded
      <4> QED
        BY <3>1, <4>1, <4>2 DEF LiveInv, Permits, Overlay
    <3>5. Loaded = Clean => journal.image = Clean
      <4>1. SUFFICES ASSUME Loaded = Clean PROVE \A c \in Cells : journal.image[c] = None
        BY DEF TypeOK, JournalFile, Image, Clean
      <4> QED
        BY <4>1 DEF Loaded, Clean
    <3> QED
      BY <1>11, <3>1, <3>2, <3>4, <3>5 DEF OpenObject
  <2> QED
    BY <2>1, <2>2
<1>12. CASE OpenFault
  BY <1>12, DiskFrame DEF OpenFault, disk, LiveInv
<1> QED
  BY <1>1, <1>2, <1>3, <1>4, <1>5, <1>6, <1>7, <1>8, <1>9, <1>10, <1>11, <1>12

\* The calls on an open card change no card, journal or buffer.
LEMMA RestCalls ==
    ASSUME TypeOK, Rest,
           \/ \E w \in WriteRequest : WriteSaveAt(w)
           \/ Sync \/ Backup \/ Close
           \/ \E card \in Card : Restore(card) \/ Upload(card)
    PROVE  Rest'
<1> USE DEF Rest, StartInv, RoleInv, WriteInv, TransactionInv, Alive, Idle
<1>1. CASE \E w \in WriteRequest : WriteSaveAt(w)
  BY <1>1, DiskFrame, LiveFrame DEF WriteSaveAt, disk, buffers
<1>2. ASSUME NEW c \in {"sync", "backup", "close"}, Flushing(c) PROVE Rest'
  BY <1>2, DiskFrame, LiveFrame DEF Flushing, AfterFlush, disk, buffers, LiveInv
<1>3. ASSUME NEW c \in {"restore", "upload"}, NEW card, NEW name,
             Replacing(c, card, name)
      PROVE  Rest'
  BY <1>3, DiskFrame, LiveFrame DEF Replacing, AfterFlush, buffers
<1> QED
  BY <1>1, <1>2, <1>3 DEF Sync, Backup, Close, Restore, Upload

\* The blocks of the running request hold its cells.
LEMMA SpanInBlocks ==
    ASSUME TypeOK
    PROVE  /\ Span(req) \subseteq Cells
           /\ \A c \in Span(req) : BlockOf(c) \in BlocksOf(req)
           /\ req.val \in Val /\ req.val # None
<1>1. req.lo \in Cells /\ req.hi \in Cells /\ req.val \in Val
  BY DEF TypeOK, WriteRequest
<1> QED
  BY <1>1, CardAssumption DEF Span, Cells, BlocksOf

\* A block is dirty when a cell of it is.
LEMMA DirtyBlocksWhole ==
    ASSUME TypeOK, WholeBlocks, NEW c \in Cells, BlockOf(c) \in DirtyBlocks
    PROVE  dirty[c] # None
<1>1. PICK d \in Cells : dirty[d] # None /\ BlockOf(c) = BlockOf(d)
  BY DEF DirtyBlocks
<1> QED
  BY <1>1 DEF WholeBlocks

\* The steps of a write.
LEMMA RestWrite ==
    ASSUME TypeOK, Rest,
           \/ AppendJournal \/ AppendFault \/ BufferWrite \/ BufferFault
    PROVE  Rest'
<1> USE DEF Rest, StartInv, RoleInv, WriteInv, TransactionInv, Alive, Idle
<1>1. \A c \in Cells : allowed[c] \subseteq Attempted[c]
  BY DEF Attempted
<1>2. ASSUME journal' = Recorded, allowed' = Attempted, pc = "append",
             UNCHANGED <<active, prev, handle, dirty>>
      PROVE  DiskInv' /\ LiveInv'
  <2>1. \A c \in Cells : Recorded.image[c]
                         = IF c \in Span(req) THEN req.val ELSE journal.image[c]
    BY DEF Recorded
  <2>2. \A c \in Span(req) : c \in Cells => req.val \in Attempted[c]
    BY DEF Attempted
  <2>3. active # NoFile
    BY <1>2 DEF LiveInv
  <2>4. DiskInv'
    BY <1>1, <1>2, <2>1, <2>2, <2>3, SpanInBlocks
    DEF DiskInv, Permits, Overlay
  <2>5. LiveInv'
    BY <1>1, <1>2 DEF LiveInv, Permits, Overlay, WholeBlocks
  <2> QED
    BY <2>4, <2>5
<1>3. CASE AppendJournal
  <2>1. DiskInv' /\ LiveInv'
    BY <1>2, <1>3 DEF AppendJournal, buffers
  <2>2. WriteInv'
    BY <1>3, SpanInBlocks DEF AppendJournal, Recorded, Attempted, Span, request
  <2> QED
    BY <1>3, <2>1, <2>2 DEF AppendJournal, buffers, request
<1>4. CASE AppendFault
  <2>1. CASE journal' = Recorded /\ allowed' = Attempted
    BY <1>2, <1>4, <2>1 DEF AppendFault, request
  <2>2. CASE journal' \in {journal, Torn} /\ UNCHANGED allowed
    <3>1. journal'.image = journal.image
      BY <2>2 DEF Torn, TypeOK, JournalFile
    <3>2. DiskInv'
      BY <1>4, <2>2, <3>1 DEF AppendFault, DiskInv, Permits, Overlay
    <3> QED
      BY <1>4, <2>2, <3>2, LiveFrame DEF AppendFault, request
  <2> QED
    BY <1>4, <2>1, <2>2 DEF AppendFault
<1>5. \A bs \in SUBSET BlocksOf(req) :
         (/\ dirty' = Buffered(bs)
          /\ pc = "buffer" /\ UNCHANGED <<active, prev, handle>>
          /\ handle # NoFile \/ \A b \in bs : b \in DirtyBlocks
          /\ \A c \in Cells : \/ allowed'[c] = allowed[c]
                              \/ c \in Span(req) /\ allowed'[c] = {req.val}
          /\ \A c \in Span(req) : BlockOf(c) \notin bs => allowed'[c] = allowed[c])
         => LiveInv'
  <2> TAKE bs \in SUBSET BlocksOf(req)
  <2>0. HAVE /\ dirty' = Buffered(bs)
             /\ pc = "buffer" /\ UNCHANGED <<active, prev, handle>>
             /\ handle # NoFile \/ \A b \in bs : b \in DirtyBlocks
             /\ \A c \in Cells : \/ allowed'[c] = allowed[c]
                                 \/ c \in Span(req) /\ allowed'[c] = {req.val}
             /\ \A c \in Span(req) : BlockOf(c) \notin bs
                                     => allowed'[c] = allowed[c]
  <2>1. /\ active # NoFile /\ WholeBlocks
        /\ Permits(Overlay(active.data, dirty))
        /\ prev # NoFile => Permits(Overlay(prev.data, dirty))
        /\ handle # NoFile => Permits(Overlay(handle.data, dirty))
    BY <2>0 DEF LiveInv
  <2>2. \A c \in Span(req) : c \in Cells /\ req.val \in allowed'[c]
    BY <2>0, SpanInBlocks
  <2>3. \A c \in Cells : BlockOf(c) \notin bs => dirty'[c] = dirty[c]
    BY <2>0 DEF Buffered
  <2>4. \A c \in Cells : BlockOf(c) \in bs /\ c \in Span(req) => dirty'[c] = req.val
    BY <2>0 DEF Buffered
  <2>5. \A c \in Cells : BlockOf(c) \in bs /\ c \notin Span(req) /\ dirty[c] # None
                         => dirty'[c] = dirty[c]
    BY <2>0 DEF Buffered
  <2>6. \A c \in Cells : BlockOf(c) \in bs /\ c \notin Span(req) /\ dirty[c] = None
                         => dirty'[c] = handle.data[c] /\ handle # NoFile
    BY <2>0, <2>1, DirtyBlocksWhole DEF Buffered
  <2>7. \A c \in Cells : BlockOf(c) \in bs => dirty'[c] # None
    <3>1. \A c \in Cells : handle.data[c] # None
      BY CardAssumption DEF TypeOK, File, Card
    <3> QED
      BY <2>4, <2>5, <2>6, <3>1, SpanInBlocks
  <2>8. WholeBlocks'
    BY <2>1, <2>3, <2>7 DEF WholeBlocks
  <2>9. \A c \in Cells : BlockOf(c) \in bs => dirty'[c] \in allowed'[c]
    <3>1. \A c \in Cells : c \notin Span(req) => allowed'[c] = allowed[c]
      BY <2>0
    <3> QED
      BY <2>1, <2>2, <2>4, <2>5, <2>6, <3>1 DEF Permits, Overlay
  <2>10. \A c \in Cells : BlockOf(c) \notin bs => allowed'[c] = allowed[c]
    BY <2>0
  <2>11. ASSUME NEW card, Permits(Overlay(card, dirty))
         PROVE  \A c \in Cells : Overlay(card, dirty')[c] \in allowed'[c]
    BY <2>3, <2>7, <2>9, <2>10, <2>11 DEF Permits, Overlay
  <2> QED
    BY <2>0, <2>1, <2>8, <2>11 DEF LiveInv, Permits
<1>6. CASE BufferWrite
  <2>1. \A c \in Cells : Acknowledged[c] = IF c \in Span(req) THEN {req.val}
                                           ELSE allowed[c]
    BY DEF Acknowledged
  <2>2. DiskInv'
    BY <1>6, <2>1, SpanInBlocks
    DEF BufferWrite, DiskInv, LiveInv, Permits, Overlay, disk
  <2>3. LiveInv'
    <3>1. /\ dirty' = Buffered(BlocksOf(req)) /\ pc = "buffer"
          /\ UNCHANGED <<active, prev, handle>>
      BY <1>6 DEF BufferWrite, disk
    <3>2. handle # NoFile \/ \A b \in BlocksOf(req) : b \in DirtyBlocks
      BY <1>6 DEF BufferWrite, CleanBlocks
    <3>3. \A c \in Cells : \/ allowed'[c] = allowed[c]
                           \/ c \in Span(req) /\ allowed'[c] = {req.val}
      BY <1>6, <2>1 DEF BufferWrite
    <3>4. \A c \in Span(req) : BlockOf(c) \in BlocksOf(req)
      BY SpanInBlocks
    <3> HIDE DEF Rest, StartInv, RoleInv, WriteInv, TransactionInv, Alive, Idle
    <3> QED
      BY <1>5, <3>1, <3>2, <3>3, <3>4
  <2> QED
    BY <1>6, <2>2, <2>3 DEF BufferWrite, disk, request
<1>7. CASE BufferFault
  <2>1. PICK b \in CleanBlocks :
          /\ dirty' = Buffered({d \in BlocksOf(req) : d < b})
          /\ handle = NoFile => \A d \in CleanBlocks : b <= d
    BY <1>7 DEF BufferFault
  <2>2. DiskInv'
    BY <1>7, DiskFrame DEF BufferFault, disk
  <2>3. BlocksOf(req) \subseteq Int
    BY CardAssumption DEF TypeOK, WriteRequest, BlocksOf, BlockOf, Span, Cells
  <2>4. handle # NoFile \/ \A d \in {d \in BlocksOf(req) : d < b} : d \in DirtyBlocks
    BY <2>1, <2>3 DEF CleanBlocks
  <2>5. LiveInv'
    <3> DEFINE bs == {d \in BlocksOf(req) : d < b}
    <3>1. /\ dirty' = Buffered(bs) /\ pc = "buffer" /\ bs \subseteq BlocksOf(req)
          /\ UNCHANGED <<active, prev, handle, allowed>>
      BY <1>7, <2>1 DEF BufferFault, disk
    <3>2. handle # NoFile \/ \A d \in bs : d \in DirtyBlocks
      BY <2>4
    <3> HIDE DEF bs, Rest, StartInv, RoleInv, WriteInv, TransactionInv, Alive, Idle
    <3> QED
      BY <1>5, <3>1, <3>2
  <2> QED
    BY <1>7, <2>2, <2>5 DEF BufferFault, disk, request
<1> QED
  BY <1>3, <1>4, <1>6, <1>7

\* The steps of a transaction.
LEMMA RestTransaction ==
    ASSUME TypeOK, Rest,
           \/ Stage \/ PrepareRaw \/ PrepareJson \/ PrepareWrite \/ PrepareLink
           \/ PrepareFault \/ RenameCandidate \/ CloseRefused \/ WriteMeta
           \/ CommitJson \/ CommitRaw \/ TransactionFault \/ Truncate
           \/ TruncateFault
    PROVE  Rest'
<1> USE DEF Rest, StartInv, RoleInv, WriteInv, TransactionInv, Alive, Idle,
            request, buffers
<1>1. CASE Stage
  BY <1>1, DiskFrame, LiveFrame DEF Stage
\* A step that changes no card but the marker, which goes or gets active's data.
<1>2. ASSUME Alive, UNCHANGED <<active, handle, journal, dirty, allowed>>,
             prev' \in {prev, NoFile} \/ prev'.data = active.data
      PROVE  DiskInv' /\ LiveInv'
  BY <1>2 DEF DiskInv, LiveInv, Permits, Overlay, WholeBlocks
<1>3. CASE PrepareRaw
  BY <1>2, <1>3 DEF PrepareRaw
<1>4. CASE PrepareJson
  BY <1>4, DiskFrame, LiveFrame DEF PrepareJson
<1>5. CASE PrepareWrite
  BY <1>5, DiskFrame, LiveFrame DEF PrepareWrite
<1>6. \A f \in PreviousCopies : f.data = active.data
  BY DEF PreviousCopies, TypeOK, File
<1>7. CASE PrepareLink
  BY <1>2, <1>6, <1>7 DEF PrepareLink
<1>8. CASE PrepareFault
  BY <1>2, <1>6, <1>8, Continuations DEF PrepareFault, LiveInv
<1>9. CASE RenameCandidate
  <2>1. \A c \in Cells : allowed[c] \subseteq allowed'[c]
    BY <1>9 DEF RenameCandidate
  <2>2. Permits(active.data)'
    <3>1. CASE txn = "flush"
      BY <1>9, <3>1 DEF RenameCandidate, Candidate, LiveInv, Permits
    <3>2. CASE txn # "flush"
      BY <1>9, <3>2 DEF RenameCandidate, Candidate, Permits
    <3> QED
      BY <3>1, <3>2
  <2>3. active' # NoFile /\ active'.ino # prev.ino
    BY <1>9, FreshInoIsNew DEF RenameCandidate, NoFile
  <2>4. DiskInv'
    BY <1>9, <2>1, <2>2, <2>3
    DEF RenameCandidate, DiskInv, LiveInv, Permits, Overlay
  <2>5. LiveInv'
    BY <1>9, <2>1, <2>2, <2>3
    DEF RenameCandidate, LiveInv, Permits, Overlay, WholeBlocks
  <2>6. txn = "activate" => active'.data = cand
    BY <1>9 DEF RenameCandidate, Candidate
  <2> QED
    BY <1>9, <2>2, <2>4, <2>5, <2>6 DEF RenameCandidate
<1>10. CASE WriteMeta
  <2>1. LiveInv'
    BY <1>10 DEF WriteMeta, LiveInv, Permits, Overlay, WholeBlocks
  <2> QED
    BY <1>10, <2>1, DiskFrame DEF WriteMeta, Described, Permits
<1>11. CASE CommitJson
  BY <1>11, DiskFrame, LiveFrame DEF CommitJson, Described, Permits
<1>12. CASE CommitRaw
  <2>1. CASE txn = "flush"
    BY <1>2, <1>12, <2>1 DEF CommitRaw, Described, Permits
  <2>2. CASE txn # "flush"
    <3>1. txn = "activate"
      BY <1>12, <2>2 DEF CommitRaw, TypeOK, Transactions
    <3>2. /\ active.data = cand /\ handle = active /\ active # NoFile
          /\ dirty = Clean /\ journal.image = Clean
      BY <1>12, <3>1 DEF CommitRaw, LiveInv
    <3>3. /\ allowed' = [c \in Cells |-> {cand[c]}] /\ prev' = NoFile
          /\ UNCHANGED <<active, handle, dirty, journal>>
      BY <1>12, <2>2 DEF CommitRaw
    <3>4. DiskInv'
      BY <3>2, <3>3 DEF DiskInv, Permits, Overlay, Clean
    <3>5. LiveInv'
      BY <3>2, <3>3 DEF LiveInv, Permits, Overlay, Clean, WholeBlocks
    <3> QED
      BY <1>12, <2>2, <3>4, <3>5 DEF CommitRaw
  <2> QED
    BY <2>1, <2>2
<1>13. CASE TransactionFault
  <2>1. LiveInv'
    BY <1>13 DEF TransactionFault, LiveInv, Permits, Overlay, WholeBlocks
  <2>2. DiskInv'
    BY <1>13 DEF TransactionFault, LiveInv, DiskInv, Permits, Overlay
  <2> QED
    BY <1>13, <2>1, <2>2 DEF TransactionFault
<1>14. CASE Truncate
  <2>1. DiskInv'
    BY <1>14 DEF Truncate, DiskInv, LiveInv, NoJournal, Clean, Permits, Overlay
  <2>2. LiveInv'
    BY <1>14 DEF Truncate, LiveInv, Clean, Permits, Overlay, WholeBlocks
  <2> QED
    BY <1>14, <2>1, <2>2 DEF Truncate, AfterFlush, NoJournal
<1>15. CASE TruncateFault
  <2>1. DiskInv'
    BY <1>15 DEF TruncateFault, DiskInv, LiveInv, NoJournal, Clean, Permits, Overlay
  <2> QED
    BY <1>15, <2>1, LiveFrame, Continuations DEF TruncateFault, NoJournal, LiveInv
<1>16. CASE CloseRefused
  BY <1>16, DiskFrame, LiveFrame DEF CloseRefused, disk
<1> QED
  BY <1>1, <1>3, <1>4, <1>5, <1>7, <1>8, <1>9, <1>10, <1>11, <1>12, <1>13, <1>14,
     <1>15, <1>16

\* Rollback, backup, and the ends of a call, a store and the process.
LEMMA RestEnding ==
    ASSUME TypeOK, Rest,
           \/ UndoRename \/ UndoMeta \/ UndoJson \/ UndoFault
           \/ BackupCard \/ BackupFault \/ Unstage \/ Return \/ Shut \/ Crash
    PROVE  Rest'
<1> USE DEF Rest, StartInv, RoleInv, WriteInv, TransactionInv, Alive, Idle,
            request, buffers
\* A rollback may bring the marker's card back, and the open file follows it.
<1>1. ASSUME pc = "undo", RenamePrevious \/ UNCHANGED <<active, prev>>,
             prev # NoFile, handle' \in {NoFile, active'},
             UNCHANGED <<journal, dirty, allowed>>
      PROVE  DiskInv' /\ LiveInv'
  BY <1>1 DEF RenamePrevious, DiskInv, LiveInv, Permits, Overlay, WholeBlocks
<1>2. CASE UndoRename
  <2>1. CASE prev = NoFile
    BY <1>2, <2>1, DiskFrame, LiveFrame, Continuations DEF UndoRename, LiveInv
  <2>2. CASE prev # NoFile
    BY <1>1, <1>2, <2>2 DEF UndoRename
  <2> QED
    BY <2>1, <2>2
<1>3. CASE UndoMeta
  BY <1>3, DiskFrame, LiveFrame DEF UndoMeta
<1>4. CASE UndoJson
  BY <1>4, DiskFrame, LiveFrame, Continuations DEF UndoJson, LiveInv
<1>5. CASE UndoFault
  <2>1. DiskInv' /\ LiveInv'
    <3>1. CASE pc = "undo"
      BY <1>1, <1>5, <3>1 DEF UndoFault
    <3>2. CASE pc # "undo"
      BY <1>5, <3>2, DiskFrame, LiveFrame DEF UndoFault
    <3> QED
      BY <3>1, <3>2
  <2> QED
    BY <1>5, <2>1, Continuations DEF UndoFault
<1>6. CASE BackupCard
  BY <1>6, DiskFrame, LiveFrame DEF BackupCard, AfterFailure
<1>7. CASE BackupFault
  BY <1>7, DiskFrame, LiveFrame, Continuations DEF BackupFault, LiveInv
<1>8. CASE Unstage
  BY <1>8, DiskFrame, LiveFrame DEF Unstage
<1>9. CASE Return
  BY <1>9, DiskFrame, LiveFrame DEF Return, disk
<1>10. CASE Shut
  BY <1>10, DiskFrame DEF Shut, MemoryLost, disk, LiveInv
<1>11. CASE Crash
  <2>1. journal'.image = journal.image
    BY <1>11 DEF Crash, Torn, TypeOK, JournalFile
  <2>2. DiskInv'
    BY <1>11, <2>1 DEF Crash, DiskInv, Permits, Overlay
  <2> QED
    BY <1>11, <2>2 DEF Crash, MemoryLost, LiveInv
<1> QED
  BY <1>2, <1>3, <1>4, <1>5, <1>6, <1>7, <1>8, <1>9, <1>10, <1>11

LEMMA RestStep == TypeOK /\ Rest /\ [Next]_vars => Rest'
<1> SUFFICES ASSUME TypeOK, Rest, [Next]_vars PROVE Rest'
  OBVIOUS
<1>1. CASE Next
  BY <1>1, RestOpening, RestCalls, RestWrite, RestTransaction, RestEnding DEF Next
<1>2. CASE UNCHANGED vars
  <2>1. DiskInv'
    BY <1>2, DiskFrame DEF Rest, vars
  <2>2. LiveInv'
    BY <1>2, LiveFrame DEF Rest, LiveInv, Alive, vars
  <2> QED
    BY <1>2, <2>1, <2>2
    DEF Rest, StartInv, RoleInv, WriteInv, TransactionInv, Alive, Described,
        Permits, Span, vars
<1> QED
  BY <1>1, <1>2

\* The inductive invariant holds in every reachable state.
THEOREM Invariant == Spec => []IInv
<1>1. Init => IInv
  BY TypeOKInit, RestInit DEF IInv, Rest
<1>2. IInv /\ [Next]_vars => IInv'
  BY TypeOKStep, RestStep DEF IInv, Rest
<1> QED
  BY <1>1, <1>2, PTL DEF Spec

\* Whatever card file startup recovery picks, the journal replayed over it has
\* every acknowledged write: no interleaving of flushCard, activateCandidate,
\* restorePrevious and recoverInterruptedActivation with any number of crashes
\* and I/O errors drops one.
THEOREM AckedWritesAreDurable == Spec => []AckedWritesSurvive
<1>1. IInv => AckedWritesSurvive
  BY DEF IInv, DiskInv, AckedWritesSurvive
<1> QED
  BY <1>1, Invariant, PTL

\* ReadSaveAt between two calls returns acknowledged data, after any number of
\* failed flushes, failed rollbacks and failed block reads.
THEOREM ReadsAreCurrent == Spec => []ReadsSeeAckedWrites
<1>1. IInv => ReadsSeeAckedWrites
  BY DEF IInv, LiveInv, Alive, Idle, ReadsSeeAckedWrites
<1> QED
  BY <1>1, Invariant, PTL

\* The only steps that empty a journal are the two outcomes of flushCard's
\* truncation, and they come after the card with its writes is confirmed and
\* its rollback marker gone.
THEOREM TruncationIsSafe == Spec => TruncatedOnlyWhenConfirmed
<1> DEFINE Emptied == journal # NoJournal /\ journal' = NoJournal
           Safe == Permits(active.data) /\ meta = Described /\ prev = NoFile
<1>1. ASSUME IInv, [Next]_vars, Emptied PROVE pc = "truncate"
  <2>1. Recorded # NoJournal /\ Torn # NoJournal
    <3>1. Recorded.total # 0
      BY <1>1, WriteTypes DEF IInv, TypeOK, JournalFile, Recorded
    <3>2. Torn.torn = TRUE
      BY <1>1 DEF IInv, TypeOK, JournalFile, Torn
    <3> QED
      BY <3>1, <3>2 DEF NoJournal
  <2>2. journal' # journal
    BY <1>1
  <2> QED
    BY <1>1, <2>1, <2>2
    DEF Next, vars, disk, CreateStage, CreateRename, CreateMeta, CreateFault,
        OpenStore, EnsureSaveObjects, RecoverInterruptedActivation, RecoverMeta,
        RecoverJson, RecoverSweep, OpenObject, OpenFault, WriteSaveAt, Sync,
        Backup, Close, Flushing, Restore, Upload, Replacing, AppendJournal,
        AppendFault, BufferWrite, BufferFault, Stage, PrepareRaw, PrepareJson,
        PrepareWrite, PrepareLink, PrepareFault, RenameCandidate, CloseRefused,
        WriteMeta, CommitJson, CommitRaw, TransactionFault, Truncate,
        TruncateFault,
        UndoRename, UndoMeta, UndoJson, UndoFault, BackupCard, BackupFault,
        Unstage, Return, Shut, Crash
<1>2. IInv /\ [Next]_vars => [Emptied => Safe]_vars
  BY <1>1 DEF IInv, TransactionInv
<1> QED
  BY <1>2, Invariant, PTL DEF Spec, TruncatedOnlyWhenConfirmed


-----------------------------------------------------------------------------
(***************************************************************************)
(* Checksums, the effect of one I/O error, and the atomic durable card.    *)
(***************************************************************************)
\* Metadata that names the identity of a card file has that file's sum; the
\* metadata that a rollback would put back does, too.
SumsInv ==
    /\ \A m \in {meta, prevMeta, cmeta, saved}, f \in {active, prev} :
          m # NoMeta /\ f # NoFile /\ m.ino = f.ino => m.sha = f.data
    /\ pc = "create.meta" => active.data = Blank
    /\ pc \in {"down", "create.rename", "create.meta"} => call = "none"

Confirmed == cmeta.sha = active.data /\ meta.sha = active.data

\* What a call with at most one I/O error knows at each step: outside the rename
\* of a candidate the metadata is the card's, and until the transaction ends the
\* marker and the metadata saved in memory are the way back.
ConfirmInv ==
    faults <= 1 /\ Alive =>
        /\ pc \notin {"meta", "undo", "undo.meta"} => Confirmed
        /\ pc \in {"prep.raw", "prep.json", "prep.write", "prep.link", "rename",
                   "meta"} => saved = cmeta
        /\ pc \in {"rename", "meta", "commit.json", "commit.raw"} =>
              prev # NoFile /\ saved.sha = prev.data
        /\ pc = "undo" => IF prev # NoFile THEN saved.sha = prev.data ELSE Confirmed
        /\ pc = "undo.meta" => saved.sha = active.data

\* Without an I/O error the counters are the journal's sizes, the open file is
\* the card, and a request that is appended fits.
CountInv ==
    faults = 0 =>
        /\ journal.total <= MaxPending /\ journal.bytes <= MaxJournal
        /\ journal.image = Clean => journal.total = 0 /\ journal.bytes = 0
        /\ pc \notin {"undo", "undo.meta", "undo.json"}
        /\ Alive =>
              /\ pc # "meta" => handle = active
              /\ IF pc = "buffer"
                 THEN /\ journal.total = pending + Size(req)
                      /\ journal.bytes = jbytes + Size(req) + Overhead
                 ELSE journal.total = pending /\ journal.bytes = jbytes
              /\ dirty = Clean => pending = 0 /\ jbytes = 0
              /\ call = "write" => RequestFits(req)
              /\ pc = "append" => /\ pending + Size(req) <= MaxPending
                                  /\ jbytes + Size(req) + Overhead <= MaxJournal

\* A cell is dirty when the journal covers it, and then it has the value that
\* replaying the journal gives.
Agrees(c) ==
    IF dirty[c] = None THEN journal.image[c] = None
    ELSE dirty[c] = Overlay(active.data, journal.image)[c]

Renamed == {"meta", "commit.json", "commit.raw"}

\* Without an I/O error memory and journal say the same, before and after the
\* candidate is renamed, and a call that returns has left its effect on disk.
AgreeInv ==
    faults = 0 /\ Alive =>
        /\ \A c \in Cells : Agrees(c) \/ (pc = "buffer" /\ c \in Span(req))
        /\ prev # NoFile /\ pc \notin Renamed => prev.data = active.data
        /\ pc \in Renamed /\ txn = "flush" =>
              \A c \in Cells : journal.image[c] = None => prev.data[c] = active.data[c]
        /\ pc \in Renamed \cup {"truncate"} /\ txn = "flush" =>
              \A c \in Cells : dirty[c] # None => active.data[c] = dirty[c]
        /\ pc = "truncate" => txn = "flush"
        /\ txn = "activate" => call \in {"restore", "upload"}
        /\ call \in {"restore", "upload"} /\ pc \in {"unstage", "return"} =>
              txn = "activate" /\ active.data = cand
        /\ pc = "unstage" => call \in {"restore", "upload"}
        /\ call = "write" /\ pc = "return" =>
              \A c \in Span(req) : journal.image[c] = req.val
        /\ pc = "open" => call = "none"

CInv == SumsInv /\ ConfirmInv /\ CountInv /\ AgreeInv

LEMMA CInvInit == Init => CInv
<1> SUFFICES ASSUME Init PROVE CInv
  OBVIOUS
<1>1. SumsInv
  BY DEF Init, SumsInv
<1>2. CountInv
  BY LimitAssumption DEF Init, CountInv, Alive, Idle, NoJournal
<1> QED
  BY <1>1, <1>2 DEF Init, CInv, ConfirmInv, AgreeInv, Alive, Idle

\* Opening accepts a card only with its checksum.
LEMMA ValidatedSum ==
    ASSUME SumsInv, CardFilesValid
    PROVE  Validated.sha = active.data
<1>1. active # NoFile /\ meta # NoMeta /\ Validated.sha = meta.sha
  BY DEF CardFilesValid, Validated
<1> QED
  BY <1>1 DEF SumsInv, CardFilesValid

\* New metadata is either one of the old ones or describes the card; a card file
\* is either one of the old ones, in the other's place or not, or has a new
\* identity.
LEMMA SumsFrame ==
    ASSUME TypeOK, DiskInv, SumsInv,
           {meta', prevMeta', cmeta', saved'}
              \subseteq {meta, prevMeta, cmeta, saved, NoMeta, Described},
           {active', prev'} \subseteq {active, prev, NoFile}
    PROVE  \A m \in {meta', prevMeta', cmeta', saved'}, f \in {active', prev'} :
              m # NoMeta /\ f # NoFile /\ m.ino = f.ino => m.sha = f.data
<1> SUFFICES ASSUME NEW m \in {meta, prevMeta, cmeta, saved, NoMeta, Described},
                    NEW f \in {active, prev, NoFile},
                    m # NoMeta, f # NoFile, m.ino = f.ino
             PROVE  m.sha = f.data
  OBVIOUS
<1>1. CASE m = Described
  BY <1>1 DEF Described, DiskInv
<1>2. CASE m \in {meta, prevMeta, cmeta, saved}
  BY <1>2 DEF SumsInv
<1> QED
  BY <1>1, <1>2

\* Creating and opening a card.
LEMMA SumsOpening ==
    ASSUME TypeOK, Rest, SumsInv,
           \/ CreateStage \/ CreateRename \/ CreateMeta \/ CreateFault
           \/ \E r \in {"export", "admin"} : OpenStore(r)
           \/ EnsureSaveObjects \/ RecoverInterruptedActivation \/ RecoverMeta
           \/ RecoverJson \/ RecoverSweep \/ OpenObject \/ OpenFault
    PROVE  SumsInv'
<1>0. DiskInv /\ StartInv
  BY DEF Rest
<1>1. CASE CreateStage
  BY <1>1 DEF CreateStage, SumsInv
<1>2. CASE CreateRename
  <2>1. /\ active' = [ino |-> FreshIno, data |-> Blank]
        /\ UNCHANGED <<meta, prev, prevMeta, cmeta, saved, call>>
        /\ pc = "create.rename" /\ pc' = "create.meta"
    BY <1>2 DEF CreateRename
  <2>2. \A m \in {meta, prevMeta, cmeta, saved} : m.ino # FreshIno
    BY FreshInoIsNew
  <2> QED
    BY <2>1, <2>2 DEF SumsInv
<1>3. CASE CreateMeta
  <2>1. /\ meta' = Described /\ UNCHANGED <<active, prev, prevMeta, cmeta, saved, call>>
        /\ pc = "create.meta" /\ pc' = "down"
    BY <1>3 DEF CreateMeta, SumsInv, Described
  <2> QED
    BY <1>0, <2>1, SumsFrame DEF SumsInv
<1>4. CASE CreateFault
  BY <1>4 DEF CreateFault, SumsInv
<1>5. CASE \E r \in {"export", "admin"} : OpenStore(r)
  BY <1>5 DEF OpenStore, disk, SumsInv
<1>6. CardFilesValid => Validated = Described
  <2> SUFFICES ASSUME CardFilesValid PROVE Validated = Described
    OBVIOUS
  <2>1. Validated.sha = active.data /\ Validated.ino = active.ino
        /\ Validated \in [sha : Card, ino : Ino]
    BY ValidatedSum DEF Validated, TypeOK, Metadata, File
  <2> QED
    BY <2>1 DEF Described
<1>7. CASE EnsureSaveObjects
  <2>1. /\ meta' \in {meta, Described} /\ UNCHANGED <<active, prev, prevMeta, cmeta, saved>>
        /\ pc' \in {"recover", "shut"}
    BY <1>6, <1>7 DEF EnsureSaveObjects
  <2> QED
    BY <1>0, <2>1, SumsFrame DEF SumsInv
<1>8. CASE RecoverInterruptedActivation
  <2>1. /\ prevMeta' \in {prevMeta, NoMeta} /\ UNCHANGED <<meta, cmeta, saved>>
        /\ {active', prev'} \subseteq {active, prev, NoFile}
        /\ pc' \in {"load", "recover.meta", "shut"}
    BY <1>8 DEF RecoverInterruptedActivation, RenamePrevious
  <2> QED
    BY <1>0, <2>1, SumsFrame DEF SumsInv
<1>9. CASE RecoverMeta
  <2>1. /\ meta' = Described /\ UNCHANGED <<active, prev, prevMeta, cmeta, saved>>
        /\ pc' = "recover.json"
    BY <1>9 DEF RecoverMeta, Described
  <2> QED
    BY <1>0, <2>1, SumsFrame DEF SumsInv
<1>10. CASE RecoverJson
  BY <1>10 DEF RecoverJson, SumsInv
<1>11. CASE RecoverSweep
  BY <1>11 DEF RecoverSweep, SumsInv
<1>12. CASE OpenObject
  <2>1. /\ meta' \in {meta, Described} /\ cmeta' \in {cmeta, Described}
        /\ UNCHANGED <<active, prev, prevMeta, saved>>
        /\ pc' \in {"return", "stage", "shut"}
    BY <1>6, <1>12 DEF OpenObject
  <2> QED
    BY <1>0, <2>1, SumsFrame DEF SumsInv
<1>13. CASE OpenFault
  BY <1>13 DEF OpenFault, disk, SumsInv
<1> QED
  BY <1>1, <1>2, <1>3, <1>4, <1>5, <1>7, <1>8, <1>9, <1>10, <1>11, <1>12, <1>13

\* The calls and the steps of a write touch no metadata and no card file.
LEMMA SumsCalls ==
    ASSUME SumsInv,
           \/ \E w \in WriteRequest : WriteSaveAt(w)
           \/ Sync \/ Backup \/ Close
           \/ \E card \in Card : Restore(card) \/ Upload(card)
           \/ AppendJournal \/ AppendFault \/ BufferWrite \/ BufferFault
    PROVE  SumsInv'
<1>1. /\ UNCHANGED <<active, prev, meta, prevMeta, cmeta, saved>>
      /\ pc' \in {"stage", "append", "backup", "shut", "return", "buffer"}
  BY Continuations
  DEF WriteSaveAt, Sync, Backup, Close, Flushing, Restore, Upload, Replacing,
      AppendJournal, AppendFault, BufferWrite, BufferFault, disk
<1> QED
  BY <1>1 DEF SumsInv

\* The steps of a transaction, of its rollback, of a backup, and the ends.
LEMMA SumsTransaction ==
    ASSUME TypeOK, Rest, SumsInv,
           \/ Stage \/ PrepareRaw \/ PrepareJson \/ PrepareWrite \/ PrepareLink
           \/ PrepareFault \/ RenameCandidate \/ CloseRefused \/ WriteMeta
           \/ CommitJson \/ CommitRaw \/ TransactionFault \/ Truncate
           \/ TruncateFault
           \/ UndoRename \/ UndoMeta \/ UndoJson \/ UndoFault
           \/ BackupCard \/ BackupFault \/ Unstage \/ Return \/ Shut \/ Crash
    PROVE  SumsInv'
<1> DEFINE Copy == [ino |-> FreshIno, data |-> active.data]
<1>0. DiskInv /\ StartInv
  BY DEF Rest
<1>1. \A m \in {meta, prevMeta, cmeta, saved} : m.ino # FreshIno
  BY FreshInoIsNew
<1>2. CASE RenameCandidate
  BY <1>1, <1>2 DEF RenameCandidate, SumsInv
\* The copy that preparePrevious makes has an identity of its own.
<1>3. ASSUME prev' = Copy, prevMeta' \in {prevMeta, cmeta},
             pc' \notin {"create.meta", "down", "create.rename"},
             UNCHANGED <<active, meta, cmeta, saved>>
      PROVE  SumsInv'
  BY <1>1, <1>3 DEF SumsInv
<1>4. CASE /\ ~ RenameCandidate
           /\ prev' # Copy \/ ~ (PrepareLink \/ PrepareFault)
           /\ pc' \notin {"create.meta", "down", "create.rename"}
  <2>1. {active', prev'} \subseteq {active, prev, NoFile}
    BY <1>4 DEF Stage, PrepareRaw, PrepareJson, PrepareWrite, PrepareLink,
        PrepareFault, CloseRefused, WriteMeta, CommitJson, CommitRaw,
        TransactionFault, Truncate, TruncateFault, UndoRename, UndoMeta, UndoJson,
        UndoFault, BackupCard, BackupFault, Unstage, Return, Shut, Crash, disk,
        PreviousCopies, RenamePrevious
  <2>2. {meta', prevMeta', cmeta', saved'}
              \subseteq {meta, prevMeta, cmeta, saved, NoMeta, Described}
    BY <1>4 DEF Stage, PrepareRaw, PrepareJson, PrepareWrite, PrepareLink,
        PrepareFault, CloseRefused, WriteMeta, CommitJson, CommitRaw,
        TransactionFault, Truncate, TruncateFault, UndoRename, UndoMeta, UndoJson,
        UndoFault, BackupCard, BackupFault, Unstage, Return, Shut, Crash, disk,
        MemoryLost
  <2> QED
    BY <1>0, <1>4, <2>1, <2>2, SumsFrame DEF SumsInv
<1>5. CASE Shut \/ Crash
  <2>1. /\ UNCHANGED <<active, prev, meta, prevMeta>>
        /\ cmeta' = NoMeta /\ saved' = NoMeta /\ pc' = "down" /\ call' = "none"
    BY <1>5 DEF Shut, Crash, MemoryLost, disk
  <2> QED
    BY <1>0, <2>1, SumsFrame DEF SumsInv
<1>6. CASE PrepareLink /\ prev' = Copy
  BY <1>3, <1>6 DEF PrepareLink
<1>7. CASE PrepareFault /\ prev' = Copy
  BY <1>3, <1>7, Continuations DEF PrepareFault
<1>8. ASSUME ~ Shut, ~ Crash
      PROVE  pc' \notin {"create.meta", "down", "create.rename"}
  <2> QED
  BY <1>8, Continuations, Zenon
  DEF Stage, PrepareRaw, PrepareJson, PrepareWrite, PrepareLink, PrepareFault,
      RenameCandidate, CloseRefused, WriteMeta, CommitJson, CommitRaw,
      TransactionFault, Truncate, TruncateFault, UndoRename, UndoMeta, UndoJson,
      UndoFault, BackupCard, BackupFault, Unstage, Return
<1> QED
  BY <1>2, <1>4, <1>5, <1>6, <1>7, <1>8

LEMMA SumsStep == TypeOK /\ Rest /\ SumsInv /\ [Next]_vars => SumsInv'
<1> SUFFICES ASSUME TypeOK, Rest, SumsInv, [Next]_vars PROVE SumsInv'
  OBVIOUS
<1>1. CASE Next
  BY <1>1, SumsOpening, SumsCalls, SumsTransaction DEF Next
<1>2. CASE UNCHANGED vars
  BY <1>2 DEF SumsInv, vars
<1> QED
  BY <1>1, <1>2

\* Before a card is loaded, and after it is given up, no store is alive.
LEMMA NotAliveYet ==
    ASSUME \/ CreateStage \/ CreateRename \/ CreateMeta \/ CreateFault
           \/ \E r \in {"export", "admin"} : OpenStore(r)
           \/ EnsureSaveObjects \/ RecoverInterruptedActivation \/ RecoverMeta
           \/ RecoverJson \/ RecoverSweep \/ OpenFault \/ Shut \/ Crash
    PROVE  ~Alive'
BY DEF CreateStage, CreateRename, CreateMeta, CreateFault, OpenStore,
       EnsureSaveObjects, RecoverInterruptedActivation, RecoverMeta, RecoverJson,
       RecoverSweep, OpenFault, Shut, Crash, MemoryLost, Alive, Idle

\* The other steps of a store are steps of an open one.
LEMMA AliveDuring ==
    ASSUME \/ \E w \in WriteRequest : WriteSaveAt(w)
           \/ Sync \/ Backup \/ Close
           \/ \E card \in Card : Restore(card) \/ Upload(card)
           \/ AppendJournal \/ AppendFault \/ BufferWrite \/ BufferFault
           \/ Stage \/ PrepareRaw \/ PrepareJson \/ PrepareWrite \/ PrepareLink
           \/ PrepareFault \/ RenameCandidate \/ CloseRefused \/ WriteMeta
           \/ CommitJson \/ CommitRaw \/ TransactionFault \/ Truncate
           \/ TruncateFault
           \/ UndoRename \/ UndoMeta \/ UndoJson \/ UndoFault
           \/ BackupCard \/ BackupFault \/ Unstage \/ Return
    PROVE  Alive
BY DEF WriteSaveAt, Sync, Backup, Close, Flushing, Restore, Upload, Replacing,
       AppendJournal, AppendFault, BufferWrite, BufferFault, Stage, PrepareRaw,
       PrepareJson, PrepareWrite, PrepareLink, PrepareFault, RenameCandidate,
       CloseRefused, WriteMeta, CommitJson, CommitRaw, TransactionFault, Truncate,
       TruncateFault, UndoRename, UndoMeta, UndoJson, UndoFault, BackupCard,
       BackupFault, Unstage, Return, Alive, Idle

\* A step that goes from one confirmed state to another and touches neither the
\* card nor the metadata.
Quiet == {"open", "append", "buffer", "stage", "backup", "unstage", "return",
          "truncate", "undo.json", "shut"}

LEMMA ConfirmQuiet ==
    ASSUME ConfirmInv, Alive, pc \notin {"meta", "undo", "undo.meta"},
           UNCHANGED <<active, cmeta>>, meta' \in {meta, cmeta},
           faults' <= 1 => faults <= 1, pc' \in Quiet
    PROVE  ConfirmInv'
BY DEF ConfirmInv, Confirmed, Quiet

\* One step more, with at most one I/O error so far.
LEMMA ConfirmStep ==
    ASSUME TypeOK, Rest, SumsInv, ConfirmInv, CountInv, Next
    PROVE  ConfirmInv'
<1>0. faults \in Nat /\ (Alive => active # NoFile)
  BY DEF TypeOK, Rest, LiveInv
<1>1. CASE ~Alive'
  BY <1>1 DEF ConfirmInv
<1>2. CASE OpenObject /\ Alive'
  <2>1. /\ CardFilesValid /\ cmeta' = Validated /\ meta' = Validated
        /\ active' = active /\ pc' \in {"return", "stage"}
    BY <1>2 DEF OpenObject, Alive, Idle
  <2>2. Validated.sha = active.data
    BY <2>1, ValidatedSum
  <2> QED
    BY <2>1, <2>2 DEF ConfirmInv, Confirmed
<1>3. CASE \/ \E w \in WriteRequest : WriteSaveAt(w)
           \/ Sync \/ Backup \/ Close
           \/ \E card \in Card : Restore(card) \/ Upload(card)
           \/ AppendJournal \/ BufferWrite \/ Truncate \/ Unstage \/ Return
           \/ BackupCard
  <2>1. /\ Alive /\ pc \notin {"meta", "undo", "undo.meta"}
        /\ UNCHANGED <<active, cmeta, faults>> /\ meta' \in {meta, cmeta}
        /\ pc' \in Quiet
    BY <1>3, Continuations
    DEF WriteSaveAt, Sync, Backup, Close, Flushing, Restore, Upload, Replacing,
        AppendJournal, BufferWrite, Truncate, Unstage, Return, BackupCard, disk,
        budgets, Alive, Idle, Quiet
  <2> QED
    BY <2>1, ConfirmQuiet
<1>4. CASE AppendFault \/ BufferFault \/ PrepareFault \/ TruncateFault \/ BackupFault
  <2>1. /\ Alive /\ pc \notin {"meta", "undo", "undo.meta"}
        /\ UNCHANGED <<active, cmeta>> /\ meta' \in {meta, cmeta}
        /\ pc' \in Quiet
    BY <1>4, Continuations
    DEF AppendFault, BufferFault, PrepareFault, TruncateFault, BackupFault, disk,
        Alive, Idle, Quiet
  <2>2. faults' \in {faults, faults + 1}
    BY <1>4
    DEF AppendFault, BufferFault, PrepareFault, TruncateFault, BackupFault, Fault,
        budgets
  <2>3. faults' <= 1 => faults <= 1
    BY <1>0, <2>2
  <2> QED
    BY <2>1, <2>3, ConfirmQuiet
<1>5. CASE Stage
  BY <1>5 DEF Stage, ConfirmInv, Confirmed, Alive, Idle, budgets
<1>6. CASE PrepareRaw \/ PrepareJson \/ PrepareWrite
  BY <1>6 DEF PrepareRaw, PrepareJson, PrepareWrite, ConfirmInv, Confirmed, Alive,
              Idle, budgets
<1>7. CASE PrepareLink
  <2>1. prev' # NoFile /\ prev'.data = active.data
    <3>1. active # NoFile
      BY <1>0, <1>7 DEF PrepareLink, Alive, Idle
    <3>2. [ino |-> FreshIno, data |-> active.data] # NoFile
      BY FreshInoIsNew DEF NoFile
    <3> QED
      BY <1>7, <3>1, <3>2 DEF PrepareLink, PreviousCopies
  <2> QED
    BY <1>7, <2>1 DEF PrepareLink, ConfirmInv, Confirmed, Alive, Idle, budgets
<1>8. CASE RenameCandidate
  BY <1>8 DEF RenameCandidate, ConfirmInv, Confirmed, Alive, Idle, budgets
<1>9. CASE CloseRefused
  BY <1>9 DEF CloseRefused, ConfirmInv, Confirmed, Alive, Idle, budgets, disk
<1>10. CASE WriteMeta
  BY <1>10 DEF WriteMeta, Described, ConfirmInv, Confirmed, Alive, Idle, budgets
<1>11. CASE CommitJson
  BY <1>11 DEF CommitJson, ConfirmInv, Confirmed, Alive, Idle, budgets
<1>12. CASE CommitRaw
  BY <1>12 DEF CommitRaw, ConfirmInv, Confirmed, Alive, Idle, budgets
<1>13. CASE TransactionFault
  <2>1. /\ pc \in {"rename", "meta", "commit.json", "commit.raw"} /\ pc' = "undo"
        /\ Alive /\ UNCHANGED <<active, saved>> /\ faults' = faults + 1
        /\ prev' = prev \/ (prev' = NoFile /\ pc = "commit.raw")
        /\ pc # "meta" => UNCHANGED <<cmeta, meta>>
    BY <1>13 DEF TransactionFault, Fault, Alive, Idle
  <2> QED
    BY <1>0, <2>1 DEF ConfirmInv, Confirmed
<1>14. CASE UndoRename
  <2>1. CASE prev = NoFile
    <3>1. /\ pc = "undo" /\ Alive /\ UNCHANGED <<active, cmeta, meta, faults>>
          /\ pc' \in Quiet
      BY <1>14, <2>1, Continuations DEF UndoRename, Alive, Idle, budgets, Quiet
    <3> QED
      BY <2>1, <3>1 DEF ConfirmInv, Confirmed, Quiet
  <2>2. CASE prev # NoFile
    <3>1. /\ pc = "undo" /\ pc' = "undo.meta" /\ Alive /\ UNCHANGED <<saved, faults>>
          /\ active'.data = prev.data
      BY <1>14, <2>2 DEF UndoRename, RenamePrevious, Alive, Idle, budgets, Rest, DiskInv
    <3> QED
      BY <2>2, <3>1 DEF ConfirmInv, Confirmed
  <2> QED
    BY <2>1, <2>2
<1>15. CASE UndoMeta
  BY <1>15 DEF UndoMeta, ConfirmInv, Confirmed, Alive, Idle, budgets
<1>16. CASE UndoJson
  <2>1. /\ pc = "undo.json" /\ Alive /\ UNCHANGED <<active, cmeta, meta, faults>>
        /\ pc' \in Quiet
    BY <1>16, Continuations DEF UndoJson, Alive, Idle, budgets, Quiet
  <2> QED
    BY <2>1, ConfirmQuiet
\* A failing rollback is the second I/O error.
<1>17. CASE UndoFault
  <2>1. faults' = faults + 1 /\ pc \in {"undo", "undo.meta", "undo.json"}
    BY <1>17 DEF UndoFault, Fault
  <2>2. faults # 0
    BY <2>1 DEF CountInv
  <2> QED
    BY <1>0, <2>1, <2>2 DEF ConfirmInv
<1> QED
  BY <1>1, <1>2, <1>3, <1>4, <1>5, <1>6, <1>7, <1>8, <1>9, <1>10, <1>11, <1>12,
     <1>13, <1>14, <1>15, <1>16, <1>17, NotAliveYet
  DEF Next

\* The steps of a behaviour without I/O errors: nothing is rolled back.
Opening ==
    \/ CreateStage \/ CreateRename \/ CreateMeta
    \/ \E r \in {"export", "admin"} : OpenStore(r)
    \/ EnsureSaveObjects \/ RecoverInterruptedActivation \/ RecoverMeta
    \/ RecoverJson \/ RecoverSweep
Calling ==
    \/ Sync \/ Backup \/ Close
    \/ \E card \in Card : Restore(card) \/ Upload(card)
Transacting ==
    \/ Stage \/ PrepareRaw \/ PrepareJson \/ PrepareWrite \/ PrepareLink
    \/ RenameCandidate \/ WriteMeta \/ CommitJson \/ CommitRaw

LEMMA FaultFree ==
    ASSUME TypeOK, Rest, CountInv, Next, faults' = 0
    PROVE  /\ faults = 0
           /\ \/ Opening \/ OpenObject \/ Calling \/ Transacting \/ Truncate
              \/ \E w \in WriteRequest : WriteSaveAt(w)
              \/ AppendJournal \/ BufferWrite
              \/ BackupCard \/ Unstage \/ Return \/ Shut \/ Crash
<1>1. faults \in Nat
  BY DEF TypeOK
<1>2. ~ Fault
  BY <1>1 DEF Fault
<1>3. faults = 0
  BY <1>2
  DEF Next, CreateStage, CreateRename, CreateMeta, CreateFault,
      OpenStore, EnsureSaveObjects, RecoverInterruptedActivation, RecoverMeta,
      RecoverJson, RecoverSweep, OpenObject, OpenFault, WriteSaveAt, Sync,
      Backup, Close, Flushing, Restore, Upload, Replacing, AppendJournal,
      AppendFault, BufferWrite, BufferFault, Stage, PrepareRaw, PrepareJson,
      PrepareWrite, PrepareLink, PrepareFault, RenameCandidate, CloseRefused,
      WriteMeta, CommitJson, CommitRaw, TransactionFault, Truncate,
      TruncateFault, UndoRename, UndoMeta, UndoJson, UndoFault, BackupCard,
      BackupFault, Unstage, Return, Shut, Crash, budgets
<1>4. pc \notin {"undo", "undo.meta", "undo.json"}
  BY <1>3 DEF CountInv
<1>5. pc \in {"buffer", "rename"} => handle # NoFile
  BY <1>3 DEF CountInv, Rest, LiveInv, Alive, Idle
<1> QED
  BY <1>2, <1>3, <1>4, <1>5
  DEF Next, Opening, Calling, Transacting, CreateFault, OpenFault, AppendFault,
      BufferFault, PrepareFault, CloseRefused, TransactionFault, TruncateFault,
      UndoRename, UndoMeta, UndoJson, UndoFault, BackupFault

\* A record covers at least one cell.
LEMMA RecordedIsNotClean ==
    ASSUME TypeOK
    PROVE  Recorded.image # Clean /\ Buffered(BlocksOf(req)) # Clean
<1>1. req.lo \in Cells /\ req.lo \in Span(req)
  BY DEF TypeOK, WriteRequest, Span, Cells
<1>2. Recorded.image[req.lo] = req.val
  BY <1>1 DEF Recorded
<1>3. Buffered(BlocksOf(req))[req.lo] = req.val
  BY <1>1, SpanInBlocks DEF Buffered
<1>4. Clean[req.lo] = None
  BY <1>1 DEF Clean
<1> QED
  BY <1>2, <1>3, <1>4, SpanInBlocks

\* The sizes that CountInv speaks of are numbers.
LEMMA CountTypes ==
    ASSUME TypeOK
    PROVE  /\ journal.total \in Nat /\ journal.bytes \in Nat
           /\ pending \in Nat /\ jbytes \in Nat /\ Size(req) \in Nat
           /\ MaxPending \in Nat /\ MaxJournal \in Nat /\ Overhead \in Nat
BY WriteTypes, LimitAssumption DEF TypeOK, JournalFile

\* A step within an open store that leaves the journal, the buffers and the
\* request alone.
LEMMA CountFrame ==
    ASSUME CountInv, Alive, faults = 0,
           UNCHANGED <<journal, dirty, pending, jbytes>>,
           pc \notin {"buffer", "append"}, pc' \notin {"buffer", "append"},
           pc' \notin {"undo", "undo.meta", "undo.json"},
           pc' # "meta" => handle' = active',
           call' = "write" => call = "write" /\ req' = req
    PROVE  CountInv'
BY DEF CountInv, RequestFits, Size, BlocksOf, Span

\* One step more, without I/O errors so far.
LEMMA CountStep ==
    ASSUME TypeOK, Rest, CountInv, Next
    PROVE  CountInv'
<1> SUFFICES ASSUME faults' = 0 PROVE CountInv'
  BY DEF CountInv
<1>0. faults = 0
  BY FaultFree
<1>1. CASE Opening
  <2>1. journal' = journal /\ ~Alive' /\ pc' \notin {"undo", "undo.meta", "undo.json"}
    BY <1>1
    DEF Opening, CreateStage, CreateRename, CreateMeta, OpenStore,
        EnsureSaveObjects, RecoverInterruptedActivation, RecoverMeta, RecoverJson,
        RecoverSweep, disk, Alive, Idle
  <2> QED
    BY <1>0, <2>1 DEF CountInv
<1>2. CASE OpenObject
  <2>1. CASE pc' = "shut"
    BY <1>0, <1>2, <2>1 DEF OpenObject, CountInv, Alive, Idle
  <2>2. CASE pc' # "shut"
    <3>1. /\ journal' = journal /\ handle' = active /\ active' = active
          /\ dirty' = Loaded /\ pending' = journal.total /\ jbytes' = journal.bytes
          /\ pc' \in {"return", "stage"} /\ call' = call /\ call = "open"
      BY <1>2, <2>2 DEF OpenObject, request, Rest, StartInv
    <3>2. Loaded = Clean => journal.image = Clean
      <4>1. SUFFICES ASSUME Loaded = Clean PROVE \A c \in Cells : journal.image[c] = None
        BY DEF TypeOK, JournalFile, Image, Clean
      <4> QED
        BY <4>1 DEF Loaded, Clean
    <3> QED
      BY <1>0, <3>1, <3>2 DEF CountInv
  <2> QED
    BY <2>1, <2>2
<1>3. CASE Calling \/ Transacting \/ BackupCard \/ Unstage \/ Return
  <2>1. /\ UNCHANGED <<journal, dirty, pending, jbytes>>
        /\ pc \notin {"buffer", "append"} /\ pc' \notin {"buffer", "append"}
        /\ pc' \notin {"undo", "undo.meta", "undo.json"}
        /\ call' = "write" => call = "write" /\ req' = req
    BY <1>3
    DEF Calling, Transacting, Sync, Backup, Close, Flushing, Restore, Upload,
        Replacing, Stage, PrepareRaw, PrepareJson, PrepareWrite, PrepareLink,
        RenameCandidate, WriteMeta, CommitJson, CommitRaw, BackupCard, Unstage,
        Return, AfterFlush, AfterFailure, disk, buffers, request
  <2>2. Alive
    BY <1>3, AliveDuring DEF Calling, Transacting
  <2>3. pc' # "meta" => handle' = active'
    <3>1. pc # "meta" => handle = active
      BY <1>0, <2>2 DEF CountInv
    <3> QED
      BY <1>3, <3>1, Continuations
      DEF Calling, Transacting, Sync, Backup, Close, Flushing, Restore, Upload,
        Replacing, Stage, PrepareRaw, PrepareJson, PrepareWrite, PrepareLink,
        RenameCandidate, WriteMeta, CommitJson, CommitRaw, BackupCard, Unstage,
        Return, disk
  <2> QED
    BY <1>0, <2>1, <2>2, <2>3, CountFrame
<1>4. CASE \E w \in WriteRequest : WriteSaveAt(w)
  <2>1. PICK w \in WriteRequest : WriteSaveAt(w)
    BY <1>4
  <2>2. /\ UNCHANGED <<journal, dirty, pending, jbytes, handle, active>>
        /\ pc = "open" /\ Alive /\ req' = w /\ RequestFits(w)
        /\ pc' = IF MustFlush(w) /\ dirty # Clean THEN "stage" ELSE "append"
    BY <2>1 DEF WriteSaveAt, disk, buffers, Alive, Idle
  <2>3. PICK n \in Nat : n = Size(w)
    BY DEF WriteRequest, Size, Cells
  <2>4. pc' = "append" => /\ pending + Size(w) <= MaxPending
                          /\ jbytes + Size(w) + Overhead <= MaxJournal
    <3>1. CASE dirty = Clean
      <4>1. pending = 0 /\ jbytes = 0
        BY <1>0, <2>2, <3>1 DEF CountInv
      <4> QED
        BY <2>2, <2>3, <4>1, CountTypes DEF RequestFits
    <3>2. CASE dirty # Clean
      BY <2>2, <2>3, <3>2, CountTypes DEF MustFlush
    <3> QED
      BY <3>1, <3>2
  <2>5. Size(req)' = Size(w) /\ RequestFits(req)'
    BY <2>2 DEF Size, RequestFits, BlocksOf, Span
  <2> QED
    BY <1>0, <2>2, <2>4, <2>5 DEF CountInv
<1>5. CASE AppendJournal
  <2>1. /\ journal' = Recorded /\ pc = "append" /\ pc' = "buffer" /\ Alive
        /\ UNCHANGED <<active, handle, dirty, pending, jbytes, req, call>>
    BY <1>5 DEF AppendJournal, request, buffers, Alive, Idle
  <2>2. /\ Recorded.total = journal.total + Size(req)
        /\ Recorded.bytes = journal.bytes + Size(req) + Overhead
    BY DEF Recorded
  <2>3. journal'.image # Clean
    BY <2>1, RecordedIsNotClean
  <2>4. Size(req)' = Size(req) /\ RequestFits(req)' = RequestFits(req)
    BY <2>1 DEF Size, RequestFits, BlocksOf, Span
  <2> QED
    BY <1>0, <2>1, <2>2, <2>3, <2>4, CountTypes DEF CountInv
<1>6. CASE BufferWrite
  <2>1. /\ dirty' = Buffered(BlocksOf(req)) /\ pending' = pending + Size(req)
        /\ jbytes' = jbytes + Size(req) + Overhead
        /\ pc = "buffer" /\ pc' = "return" /\ Alive
        /\ UNCHANGED <<journal, active, handle, req, call>>
    BY <1>6 DEF BufferWrite, disk, request, Alive, Idle
  <2>2. dirty' # Clean
    BY <2>1, RecordedIsNotClean
  <2>3. RequestFits(req)' = RequestFits(req)
    BY <2>1 DEF Size, RequestFits, BlocksOf, Span
  <2> QED
    BY <1>0, <2>1, <2>2, <2>3 DEF CountInv
<1>7. CASE Truncate
  <2>1. /\ journal' = NoJournal /\ dirty' = Clean /\ pending' = 0 /\ jbytes' = 0
        /\ UNCHANGED <<active, handle, req, call>> /\ pc = "truncate" /\ Alive
        /\ pc' = AfterFlush(call)
    BY <1>7 DEF Truncate, request, Alive, Idle
  <2>2. pc' \in {"append", "backup", "shut", "return"} /\ (pc' = "append" => call = "write")
    BY <2>1 DEF AfterFlush
  <2>3. Size(req)' = Size(req) /\ RequestFits(req)' = RequestFits(req)
    BY <2>1 DEF Size, RequestFits, BlocksOf, Span
  <2>4. journal'.total = 0 /\ journal'.bytes = 0
    BY <2>1 DEF NoJournal
  <2>5. call = "write" => /\ 0 + Size(req) <= MaxPending
                          /\ 0 + Size(req) + Overhead <= MaxJournal
    BY <1>0, <2>1, CountTypes DEF CountInv, RequestFits
  <2> QED
    BY <1>0, <2>1, <2>2, <2>3, <2>4, <2>5, CountTypes DEF CountInv
<1>8. CASE Shut \/ Crash
  <2>1. /\ journal'.image = journal.image /\ journal'.total = journal.total
        /\ journal'.bytes = journal.bytes /\ ~Alive' /\ pc' = "down"
    BY <1>8 DEF Shut, Crash, MemoryLost, Torn, disk, Alive, Idle, TypeOK, JournalFile
  <2> QED
    BY <1>0, <2>1 DEF CountInv
<1> QED
  BY <1>1, <1>2, <1>3, <1>4, <1>5, <1>6, <1>7, <1>8, FaultFree

\* A step within an open store that leaves the cards, the journal and the dirty
\* blocks alone, and is not one that returns with an effect.
LEMMA AgreeFrame ==
    ASSUME AgreeInv, Alive, faults = 0,
           UNCHANGED <<active, prev, journal, dirty>>,
           pc # "buffer", pc' # "buffer",
           pc' \in Renamed => pc \in Renamed /\ txn' = txn,
           pc' = "truncate" => txn' = "flush" /\ pc \in Renamed /\ txn = "flush",
           pc \in Renamed => pc' \in Renamed,
           txn' = "activate" => call' \in {"restore", "upload"},
           call' \in {"restore", "upload"} /\ pc' \in {"unstage", "return"} =>
               txn' = "activate" /\ active.data = cand',
           pc' = "unstage" => call' \in {"restore", "upload"},
           call' = "write" => pc' # "return",
           pc' = "open" => call' = "none"
    PROVE  AgreeInv'
<1>1. \A c \in Cells : Agrees(c)' = Agrees(c)
  BY DEF Agrees, Overlay
<1> QED
  BY <1>1 DEF AgreeInv

\* The card that a flush renames: what a dirty cell holds, and elsewhere the card.
LEMMA FlushedCard ==
    ASSUME TypeOK, NEW c \in Cells
    PROVE  /\ Overlay(active.data, dirty)[c]
                = IF dirty[c] # None THEN dirty[c] ELSE active.data[c]
           /\ Overlay(active.data, journal.image)[c]
                = IF journal.image[c] # None THEN journal.image[c] ELSE active.data[c]
           /\ active.data[c] # None
BY CardAssumption DEF Overlay, TypeOK, File, Card

LEMMA AgreeStep ==
    ASSUME TypeOK, Rest, ConfirmInv, CountInv, AgreeInv, Next
    PROVE  AgreeInv'
<1> SUFFICES ASSUME faults' = 0, Alive' PROVE AgreeInv'
  BY DEF AgreeInv
<1>0. faults = 0
  BY FaultFree
<1>1. CASE Opening \/ Shut \/ Crash
  BY <1>1, NotAliveYet DEF Opening
<1>2. CASE OpenObject
  <2>1. /\ UNCHANGED <<active, prev, journal>> /\ dirty' = Loaded
        /\ pc' \in {"return", "stage"} /\ txn' = "flush" /\ call' = "open"
        /\ prev # NoFile => prev.data = active.data
    BY <1>2 DEF OpenObject, request, Rest, StartInv, Alive, Idle
  <2>2. \A c \in Cells : Agrees(c)'
    BY <2>1, FlushedCard DEF Agrees, Overlay, Loaded
  <2> QED
    BY <2>1, <2>2 DEF AgreeInv, Renamed
<1>3. CASE \E w \in WriteRequest : WriteSaveAt(w)
  <2>1. /\ UNCHANGED <<active, prev, journal, dirty, cand>>
        /\ pc = "open" /\ Alive /\ pc' \in {"stage", "append"} /\ call' = "write"
        /\ txn' = "flush"
    BY <1>3 DEF WriteSaveAt, disk, buffers, Alive, Idle
  <2> QED
    BY <1>0, <2>1, AgreeFrame DEF Renamed
<1>4. CASE Calling
  <2>1. /\ UNCHANGED <<active, prev, journal, dirty>>
        /\ pc = "open" /\ Alive /\ txn' = "flush"
        /\ \/ /\ call' \in {"sync", "backup", "close"}
              /\ pc' \in {"stage", "backup", "shut", "return"}
           \/ call' \in {"restore", "upload"} /\ pc' \in {"stage", "backup"}
    BY <1>4
    DEF Calling, Sync, Backup, Close, Flushing, Restore, Upload, Replacing,
        AfterFlush, disk, buffers, Alive, Idle
  <2> QED
    BY <1>0, <2>1, AgreeFrame DEF Renamed
<1>5. CASE AppendJournal
  <2>1. /\ journal' = Recorded /\ pc = "append" /\ pc' = "buffer" /\ Alive
        /\ UNCHANGED <<active, prev, dirty, req, call, txn>>
    BY <1>5 DEF AppendJournal, request, buffers, Alive, Idle
  <2>2. \A c \in Cells : c \notin Span(req) => Recorded.image[c] = journal.image[c]
    BY DEF Recorded
  <2>3. \A c \in Cells : c \notin Span(req) => Agrees(c)'
    <3> SUFFICES ASSUME NEW c \in Cells, c \notin Span(req) PROVE Agrees(c)'
      OBVIOUS
    <3>1. Agrees(c)
      BY <1>0, <2>1 DEF AgreeInv
    <3> QED
      BY <2>1, <2>2, <3>1 DEF Agrees, Overlay
  <2>4. Span(req)' = Span(req)
    BY <2>1 DEF Span
  <2> QED
    BY <1>0, <2>1, <2>3, <2>4 DEF AgreeInv, Renamed
<1>6. CASE BufferWrite
  <2>1. /\ dirty' = Buffered(BlocksOf(req)) /\ pc = "buffer" /\ pc' = "return" /\ Alive
        /\ UNCHANGED <<active, prev, journal, req, call, txn>>
    BY <1>6 DEF BufferWrite, disk, request, Alive, Idle
  <2>2. handle = active /\ call = "write"
    BY <1>0, <2>1 DEF CountInv, Rest, RoleInv
  <2>3. \A c \in Span(req) : c \in Cells /\ BlockOf(c) \in BlocksOf(req)
                             /\ journal.image[c] = req.val /\ req.val # None
    BY <2>1, SpanInBlocks DEF Rest, WriteInv
  <2>4. ASSUME NEW c \in Cells PROVE Agrees(c)'
    <3>1. CASE c \in Span(req)
      <4>1. dirty'[c] = req.val
        BY <2>1, <2>3, <3>1 DEF Buffered
      <4> QED
        BY <2>1, <2>3, <3>1, <4>1 DEF Agrees, Overlay
    <3>2. CASE c \notin Span(req)
      <4>1. Agrees(c)
        BY <1>0, <2>1, <3>2 DEF AgreeInv
      <4>2. dirty'[c] = dirty[c] \/ (dirty[c] = None /\ dirty'[c] = active.data[c])
        BY <2>1, <2>2, <3>2 DEF Buffered
      <4> QED
        BY <2>1, <4>1, <4>2, FlushedCard DEF Agrees, Overlay
    <3> QED
      BY <3>1, <3>2
  <2>5. Span(req)' = Span(req)
    BY <2>1 DEF Span
  <2>6. \A c \in Span(req)' : journal'.image[c] = req'.val
    BY <2>1, <2>3, <2>5
  <2> QED
    BY <1>0, <2>1, <2>2, <2>4, <2>6 DEF AgreeInv, Renamed
<1>7. CASE Stage \/ PrepareJson \/ PrepareWrite \/ WriteMeta \/ CommitJson
  <2>1. /\ UNCHANGED <<active, prev, journal, dirty, call, txn, cand>> /\ Alive
        /\ \/ pc = "meta" /\ pc' = "commit.json"
           \/ pc = "commit.json" /\ pc' = "commit.raw"
           \/ /\ pc \in {"stage", "prep.json", "prep.write"}
              /\ pc' \in {"prep.raw", "prep.write", "prep.link"}
    BY <1>7
    DEF Stage, PrepareJson, PrepareWrite, WriteMeta, CommitJson, request, buffers,
        Alive, Idle
  <2>2. txn = "activate" => call \in {"restore", "upload"}
    BY <1>0, <2>1 DEF AgreeInv
  <2> QED
    BY <1>0, <2>1, <2>2, AgreeFrame DEF Renamed
<1>8. CASE PrepareRaw \/ PrepareLink
  <2>1. /\ UNCHANGED <<active, journal, dirty, call, txn, cand>> /\ Alive
        /\ pc \in {"prep.raw", "prep.link"} /\ pc' \in {"prep.json", "rename"}
        /\ prev' # NoFile => prev'.data = active.data
    BY <1>8
    DEF PrepareRaw, PrepareLink, PreviousCopies, request, buffers, Alive, Idle
  <2>2. \A c \in Cells : Agrees(c)' = Agrees(c)
    BY <2>1 DEF Agrees, Overlay
  <2> QED
    BY <1>0, <2>1, <2>2 DEF AgreeInv, Renamed
<1>9. CASE RenameCandidate
  <2>1. /\ UNCHANGED <<prev, journal, dirty, call, txn, cand>> /\ Alive
        /\ active'.data = Candidate /\ pc = "rename" /\ pc' = "meta"
    BY <1>9 DEF RenameCandidate, request, buffers, Alive, Idle
  <2>2. prev.data = active.data
    BY <1>0, <2>1 DEF ConfirmInv, AgreeInv, Renamed
  <2>3. \A c \in Cells : Agrees(c)
    BY <1>0, <2>1 DEF AgreeInv
  <2>4. CASE txn = "flush"
    <3>1. \A c \in Cells : active'.data[c] = IF dirty[c] # None THEN dirty[c]
                                             ELSE active.data[c]
      BY <2>1, <2>4, FlushedCard DEF Candidate
    <3>2. \A c \in Cells : Agrees(c)'
      BY <2>1, <2>3, <3>1, FlushedCard DEF Agrees, Overlay
    <3>3. \A c \in Cells : journal.image[c] = None => active'.data[c] = prev.data[c]
      BY <2>2, <2>3, <3>1, FlushedCard DEF Agrees
    <3>4. \A c \in Cells : dirty[c] # None => active'.data[c] = dirty[c]
      BY <3>1
    <3> QED
      BY <1>0, <2>1, <2>4, <3>2, <3>3, <3>4 DEF AgreeInv, Renamed
  <2>5. CASE txn # "flush"
    <3>1. dirty = Clean /\ txn = "activate"
      BY <2>1, <2>5 DEF Rest, RoleInv, TypeOK, Transactions
    <3>2. \A c \in Cells : Agrees(c)'
      BY <2>1, <2>3, <3>1 DEF Agrees, Overlay, Clean
    <3> QED
      BY <1>0, <2>1, <2>5, <3>2 DEF AgreeInv, Renamed
  <2> QED
    BY <2>4, <2>5
<1>10. CASE CommitRaw
  <2>1. /\ UNCHANGED <<active, journal, dirty, call, txn, cand>> /\ Alive
        /\ prev' = NoFile /\ pc = "commit.raw"
        /\ pc' = IF txn = "flush" THEN "truncate" ELSE "unstage"
    BY <1>10 DEF CommitRaw, request, buffers, Alive, Idle
  <2>2. \A c \in Cells : Agrees(c)'
    BY <1>0, <2>1 DEF AgreeInv, Agrees, Overlay
  <2>3. txn # "flush" => txn = "activate" /\ active.data = cand
    BY <2>1 DEF Rest, RoleInv, TransactionInv, TypeOK, Transactions
  <2> QED
    BY <1>0, <2>1, <2>2, <2>3 DEF AgreeInv, Renamed
<1>11. CASE Truncate
  <2>1. /\ UNCHANGED <<active, prev, call, txn, cand, req>> /\ Alive
        /\ pc = "truncate" /\ pc' = AfterFlush(call) /\ dirty' = Clean
        /\ journal' = NoJournal
    BY <1>11 DEF Truncate, request, Alive, Idle
  <2>2. \A c \in Cells : Agrees(c)'
    BY <2>1 DEF Agrees, NoJournal, Clean
  <2>3. /\ pc' \in {"append", "backup", "shut", "return"}
        /\ call = "write" => pc' = "append"
        /\ call \in {"restore", "upload"} => pc' = "backup"
    BY <2>1 DEF AfterFlush
  <2> QED
    BY <1>0, <2>1, <2>2, <2>3 DEF AgreeInv, Renamed
<1>12. CASE BackupCard
  <2>1. Alive /\ pc = "backup" /\ UNCHANGED <<active, prev, journal, dirty, call, cand>>
    BY <1>12 DEF BackupCard, request, buffers, Alive, Idle
  <2>2. active.data = cmeta.sha
    BY <1>0, <2>1 DEF ConfirmInv, Confirmed
  <2>3. call \in {"backup", "restore", "upload"}
    BY <2>1 DEF Rest, RoleInv
  <2>4. IF call = "backup" THEN pc' = "return" /\ txn' = txn
        ELSE pc' = "stage" /\ txn' = "activate"
    BY <1>12, <2>2 DEF BackupCard
  <2>5. txn = "activate" => call \in {"restore", "upload"}
    BY <1>0, <2>1 DEF AgreeInv
  <2> QED
    BY <1>0, <2>1, <2>3, <2>4, <2>5, AgreeFrame DEF Renamed
<1>13. CASE Unstage
  <2>1. /\ Alive /\ pc = "unstage" /\ pc' = "return"
        /\ UNCHANGED <<active, prev, journal, dirty, call, cand, txn>>
    BY <1>13 DEF Unstage, request, buffers, Alive, Idle
  <2>2. call \in {"restore", "upload"} /\ txn = "activate" /\ active.data = cand
    BY <1>0, <2>1 DEF AgreeInv
  <2> QED
    BY <1>0, <2>1, <2>2, AgreeFrame DEF Renamed
<1>14. CASE Return
  <2>1. /\ Alive /\ pc = "return" /\ pc' = "open" /\ call' = "none" /\ txn' = "none"
        /\ UNCHANGED <<active, prev, journal, dirty>>
    BY <1>14 DEF Return, disk, buffers, Alive, Idle
  <2> QED
    BY <1>0, <2>1, AgreeFrame DEF Renamed
<1> QED
  BY <1>1, <1>2, <1>3, <1>4, <1>5, <1>6, <1>7, <1>8, <1>9, <1>10, <1>11, <1>12,
     <1>13, <1>14, FaultFree
  DEF Transacting

LEMMA CInvStep == IInv /\ CInv /\ [Next]_vars => CInv'
<1> SUFFICES ASSUME IInv, CInv, [Next]_vars PROVE CInv'
  OBVIOUS
<1>0. TypeOK /\ Rest
  BY DEF IInv, Rest
<1>1. CASE Next
  BY <1>0, <1>1, SumsStep, ConfirmStep, CountStep, AgreeStep DEF CInv
<1>2. CASE UNCHANGED vars
  <2>1. SumsInv'
    BY <1>0, SumsStep DEF CInv
  <2>2. ConfirmInv'
    BY <1>2 DEF CInv, ConfirmInv, Confirmed, Alive, vars
  <2>3. CountInv'
    BY <1>2 DEF CInv, CountInv, Alive, vars, RequestFits, Size, BlocksOf, Span
  <2>4. \A c \in Cells : Agrees(c)' = Agrees(c)
    BY <1>2 DEF Agrees, Overlay, vars
  <2>5. AgreeInv'
    BY <1>2, <2>4 DEF CInv, AgreeInv, Alive, vars, Span
  <2> QED
    BY <2>1, <2>2, <2>3, <2>5 DEF CInv
<1> QED
  BY <1>1, <1>2

\* The second part of the invariant holds in every reachable state.
THEOREM ConfirmationInvariant == Spec => []CInv
<1> QED
  BY Invariant, CInvInit, CInvStep, PTL DEF Spec

\* validateCardFiles never accepts a card by its identity without its checksum.
THEOREM IdentityIsEnough == Spec => []IdentityImpliesChecksum
<1>1. CInv => IdentityImpliesChecksum
  BY DEF CInv, SumsInv, IdentityImpliesChecksum
<1> QED
  BY <1>1, ConfirmationInvariant, PTL

\* One I/O error anywhere, with any number of crashes, leaves a card that its
\* metadata describes, in memory and on disk, when the call returns.
THEOREM OneFaultIsHarmless == Spec => []OneFaultLeavesCardConfirmed
<1>1. CInv => OneFaultLeavesCardConfirmed
  BY DEF CInv, ConfirmInv, Confirmed, Alive, Idle, OneFaultLeavesCardConfirmed
<1> QED
  BY <1>1, ConfirmationInvariant, PTL

\* Without I/O errors the journal that any number of crashes leaves behind is
\* within the bounds that loadJournal enforces.
THEOREM JournalAlwaysReplayable == Spec => []JournalReplayable
<1>1. CInv => JournalReplayable
  BY DEF CInv, CountInv, JournalReplayable
<1> QED
  BY <1>1, ConfirmationInvariant, PTL

-----------------------------------------------------------------------------
(***************************************************************************)
(* Until the first I/O error the card is the atomic durable card.  The     *)
(* effect of a write takes place when its record is in the journal, that   *)
(* of a restore or an upload when the rollback marker goes; all other      *)
(* steps leave what startup would rebuild as it is.                        *)
(***************************************************************************)
\* The call in progress, and what a reader sees, in the abstract card's terms.
LEMMA Abstractly ==
    /\ call \notin {"write", "restore", "upload"} => CallInProgress = Durable!NoOp
    /\ call = "write" => CallInProgress = Durable!Write(req.lo, req.hi, req.val)
    /\ call \in {"restore", "upload"} => CallInProgress = Durable!Replace(cand)
    /\ pc # "open" => ReaderView = Durable!Hidden
    /\ pc = "open" => ReaderView = Durable!Shown(Overlay(handle.data, dirty))
BY DEF CallInProgress, ReaderView, Durable!NoOp, Durable!Write, Durable!Replace,
       Durable!Hidden, Durable!Shown

LEMMA AbstractlyNext ==
    /\ call' \notin {"write", "restore", "upload"} => CallInProgress' = Durable!NoOp
    /\ call' = "write" => CallInProgress' = Durable!Write(req'.lo, req'.hi, req'.val)
    /\ call' \in {"restore", "upload"} => CallInProgress' = Durable!Replace(cand')
    /\ pc' # "open" => ReaderView' = Durable!Hidden
    /\ pc' = "open" => ReaderView' = Durable!Shown(Overlay(handle'.data, dirty'))
BY DEF CallInProgress, ReaderView, Durable!NoOp, Durable!Write, Durable!Replace,
       Durable!Hidden, Durable!Shown

\* The card that startup would rebuild.
Base == IF prev # NoFile THEN prev.data ELSE active.data

LEMMA Rebuilt ==
    ASSUME TypeOK
    PROVE  /\ RecoveredCard \in Card
           /\ \A c \in Cells : RecoveredCard[c] =
                 IF journal.image[c] # None THEN journal.image[c] ELSE Base[c]
<1>1. RecoveredCard = Overlay(Base, journal.image)
  BY DEF RecoveredCard, Base
<1>2. Base \in Card /\ journal.image \in Image
  BY DEF Base, TypeOK, File, JournalFile
<1> QED
  BY <1>1, <1>2, OverlayType DEF Overlay

\* Two cards are equal when their cells are.
LEMMA SameRebuilt ==
    ASSUME TypeOK, TypeOK',
           \A c \in Cells :
              (IF journal'.image[c] # None THEN journal'.image[c] ELSE Base'[c])
              = (IF journal.image[c] # None THEN journal.image[c] ELSE Base[c])
    PROVE  RecoveredCard' = RecoveredCard
<1>1. /\ RecoveredCard' \in Card
      /\ \A c \in Cells : RecoveredCard'[c] =
            IF journal'.image[c] # None THEN journal'.image[c] ELSE Base'[c]
  <2>1. RecoveredCard' = Overlay(Base', journal'.image)
    BY DEF RecoveredCard, Base, Overlay
  <2>2. Base' \in Card /\ journal'.image \in Image
    BY DEF Base, TypeOK, File, JournalFile
  <2> QED
    BY <2>1, <2>2, OverlayType DEF Overlay
<1> QED
  BY <1>1, Rebuilt DEF Card

\* What the durable card shows of a card.
Seen == <<RecoveredCard, CallInProgress, ReaderView>>

\* A step that leaves the directory's cards and the journal's records alone keeps
\* the card; with the call, and no reader before or after, it is invisible.
LEMMA Invisible ==
    ASSUME RecoveredCard' = RecoveredCard, pc # "open", pc' # "open",
           \/ UNCHANGED <<call, req, cand>>
           \/ /\ call \notin {"write", "restore", "upload"}
              /\ call' \notin {"write", "restore", "upload"}
    PROVE  UNCHANGED Seen
<1>1. ReaderView' = ReaderView
  BY Abstractly, AbstractlyNext
<1>2. CallInProgress' = CallInProgress
  <2>1. CASE UNCHANGED <<call, req, cand>>
    BY <2>1 DEF CallInProgress
  <2>2. CASE ~ UNCHANGED <<call, req, cand>>
    BY <2>2, Abstractly, AbstractlyNext
  <2> QED
    BY <2>1, <2>2
<1> QED
  BY <1>1, <1>2 DEF Seen

\* Opening a card changes nothing that a reader or a crash would notice.
LEMMA OpeningInvisible ==
    ASSUME TypeOK, TypeOK', Rest, SumsInv, Opening \/ OpenObject
    PROVE  UNCHANGED Seen
<1>1. pc # "open" /\ pc' # "open" /\ journal' = journal
  BY DEF Opening, CreateStage, CreateRename, CreateMeta, OpenStore,
         EnsureSaveObjects, RecoverInterruptedActivation, RecoverMeta, RecoverJson,
         RecoverSweep, OpenObject, disk
<1>2. \/ UNCHANGED <<call, req, cand>>
      \/ /\ call \notin {"write", "restore", "upload"}
         /\ call' \notin {"write", "restore", "upload"}
  <2>1. CASE \E r \in {"export", "admin"} : OpenStore(r)
    BY <2>1 DEF OpenStore, SumsInv
  <2>2. CASE ~ \E r \in {"export", "admin"} : OpenStore(r)
    BY <2>2
    DEF Opening, CreateStage, CreateRename, CreateMeta, EnsureSaveObjects,
        RecoverInterruptedActivation, RecoverMeta, RecoverJson, RecoverSweep,
        OpenObject, request
  <2> QED
    BY <2>1, <2>2
<1>3. Base' = Base
  <2>1. CASE CreateRename
    <3>1. active = NoFile /\ prev = NoFile /\ prev' = NoFile /\ active'.data = Blank
      BY <2>1 DEF CreateRename, Rest, StartInv, DiskInv
    <3> QED
      BY <3>1 DEF Base, NoFile
  <2>2. CASE RecoverInterruptedActivation
    BY <2>2 DEF RecoverInterruptedActivation, RenamePrevious, Base
  <2>3. CASE ~ CreateRename /\ ~ RecoverInterruptedActivation
    <3>1. UNCHANGED <<active, prev>>
      BY <2>3
      DEF Opening, CreateStage, CreateMeta, OpenStore, EnsureSaveObjects,
          RecoverMeta, RecoverJson, RecoverSweep, OpenObject, disk
    <3> QED
      BY <3>1 DEF Base
  <2> QED
    BY <2>1, <2>2, <2>3
<1>4. RecoveredCard' = RecoveredCard
  BY <1>1, <1>3, SameRebuilt
<1> QED
  BY <1>1, <1>2, <1>4, Invisible

\* A checkpoint is invisible; an activation takes effect when its marker goes.
LEMMA TransactionEffect ==
    ASSUME TypeOK, TypeOK', Rest, ConfirmInv, CountInv, AgreeInv, faults = 0,
           Transacting \/ Truncate
    PROVE  Durable!Apply \/ UNCHANGED Seen
<1>0. /\ Alive /\ pc # "open" /\ pc' # "open"
      /\ UNCHANGED <<call, req, cand>>
  BY AliveDuring, Continuations
  DEF Transacting, Stage, PrepareRaw, PrepareJson, PrepareWrite, PrepareLink,
      RenameCandidate, WriteMeta, CommitJson, CommitRaw, Truncate, request
<1>1. CASE Stage \/ PrepareJson \/ PrepareWrite \/ WriteMeta \/ CommitJson
  <2>1. journal' = journal /\ Base' = Base
    BY <1>1 DEF Stage, PrepareJson, PrepareWrite, WriteMeta, CommitJson, Base
  <2>2. RecoveredCard' = RecoveredCard
    BY <2>1, SameRebuilt
  <2> QED
    BY <1>0, <2>2, Invisible
<1>2. CASE PrepareRaw \/ PrepareLink
  <2>1. /\ journal' = journal /\ active' = active
        /\ prev # NoFile => prev.data = active.data
        /\ prev' # NoFile => prev'.data = active.data
    BY <1>0, <1>2 DEF PrepareRaw, PrepareLink, PreviousCopies, AgreeInv, Renamed
  <2>2. Base' = Base
    BY <2>1 DEF Base
  <2>3. RecoveredCard' = RecoveredCard
    BY <2>1, <2>2, SameRebuilt
  <2> QED
    BY <1>0, <2>3, Invisible
<1>3. CASE RenameCandidate
  <2>1. journal' = journal /\ prev' = prev /\ prev # NoFile
    BY <1>0, <1>3 DEF RenameCandidate, ConfirmInv
  <2>2. Base' = Base
    BY <2>1 DEF Base
  <2>3. RecoveredCard' = RecoveredCard
    BY <2>1, <2>2, SameRebuilt
  <2> QED
    BY <1>0, <2>3, Invisible
<1>4. CASE CommitRaw /\ txn = "flush"
  <2>1. /\ journal' = journal /\ active' = active /\ prev # NoFile /\ prev' = NoFile
        /\ \A c \in Cells : journal.image[c] = None => prev.data[c] = active.data[c]
    BY <1>0, <1>4 DEF CommitRaw, ConfirmInv, AgreeInv, Renamed
  <2>2. RecoveredCard' = RecoveredCard
    BY <2>1, SameRebuilt DEF Base
  <2> QED
    BY <1>0, <2>2, Invisible
<1>5. CASE CommitRaw /\ txn # "flush"
  <2>1. txn = "activate" /\ pc = "commit.raw" /\ prev' = NoFile
        /\ UNCHANGED <<journal, active>>
    BY <1>0, <1>5 DEF CommitRaw, TypeOK, Transactions, Rest, RoleInv
  <2>2. /\ call \in {"restore", "upload"} /\ active.data = cand
        /\ journal.image = Clean
    BY <1>0, <2>1 DEF AgreeInv, Rest, RoleInv, TransactionInv
  <2>3. CallInProgress = Durable!Replace(cand) /\ CallInProgress' = CallInProgress
    BY <1>0, <2>2, Abstractly, AbstractlyNext
  <2>4. RecoveredCard' = cand
    <3>1. RecoveredCard' = Overlay(active.data, journal.image)
      BY <2>1 DEF RecoveredCard, Overlay
    <3>2. \A c \in Cells : Overlay(active.data, journal.image)[c] = cand[c]
      BY <2>2 DEF Overlay, Clean
    <3>3. cand \in Card /\ Overlay(active.data, journal.image) \in Card
      BY OverlayType DEF TypeOK, File, JournalFile
    <3> QED
      BY <3>1, <3>2, <3>3 DEF Card
  <2>5. ReaderView' = ReaderView
    BY <1>0, Abstractly, AbstractlyNext
  <2>6. CallInProgress # Durable!NoOp /\ Durable!Effect = cand
    BY <2>3 DEF Durable!Replace, Durable!NoOp, Durable!Effect
  <2> QED
    BY <2>3, <2>4, <2>5, <2>6 DEF Durable!Apply
<1>6. CASE Truncate
  <2>1. /\ pc = "truncate" /\ prev = NoFile /\ prev' = NoFile /\ active' = active
        /\ journal'.image = Clean /\ txn = "flush"
    BY <1>0, <1>6 DEF Truncate, NoJournal, Rest, TransactionInv, AgreeInv
  <2>2. \A c \in Cells : journal.image[c] # None => active.data[c] = journal.image[c]
    <3> SUFFICES ASSUME NEW c \in Cells, journal.image[c] # None
                 PROVE  active.data[c] = journal.image[c]
      OBVIOUS
    <3>1. Agrees(c) /\ (dirty[c] # None => active.data[c] = dirty[c])
      BY <1>0, <2>1 DEF AgreeInv
    <3> QED
      BY <3>1 DEF Agrees, Overlay
  <2>3. \A c \in Cells : journal'.image[c] = None
    BY <2>1 DEF Clean
  <2>4. RecoveredCard' = RecoveredCard
    BY <2>1, <2>2, <2>3, SameRebuilt DEF Base
  <2> QED
    BY <1>0, <2>4, Invisible
<1> QED
  BY <1>1, <1>2, <1>3, <1>4, <1>5, <1>6 DEF Transacting

\* A write takes effect when its record is in the journal.
LEMMA AppendEffect ==
    ASSUME TypeOK, TypeOK', Rest, AgreeInv, AppendJournal
    PROVE  Durable!Apply
<1>1. /\ journal' = Recorded /\ UNCHANGED <<active, prev, call, req, cand>>
      /\ call = "write" /\ pc # "open" /\ pc' # "open"
  BY DEF AppendJournal, request, Rest, RoleInv, Alive, Idle
<1>2. CallInProgress = Durable!Write(req.lo, req.hi, req.val)
      /\ CallInProgress' = CallInProgress /\ ReaderView' = ReaderView
  BY <1>1, Abstractly, AbstractlyNext
<1>3. CallInProgress # Durable!NoOp
  BY <1>2 DEF Durable!Write, Durable!NoOp
<1>4. Durable!Effect = [c \in Cells |-> IF c \in Span(req) THEN req.val
                                        ELSE RecoveredCard[c]]
  BY <1>2 DEF Durable!Write, Durable!Effect, Span
<1>5. RecoveredCard' = Overlay(Base, Recorded.image)
  BY <1>1 DEF RecoveredCard, Base, Overlay
<1>6. \A c \in Cells : Overlay(Base, Recorded.image)[c]
        = IF c \in Span(req) THEN req.val ELSE RecoveredCard[c]
  BY Rebuilt, SpanInBlocks DEF Overlay, Recorded
<1>7. Overlay(Base, Recorded.image)
        = [c \in Cells |-> IF c \in Span(req) THEN req.val ELSE RecoveredCard[c]]
  BY <1>6 DEF Overlay
<1> QED
  BY <1>2, <1>3, <1>4, <1>5, <1>7 DEF Durable!Apply

\* A call that returns has taken effect, and readers see the durable card.
LEMMA ReturnEffect ==
    ASSUME TypeOK, TypeOK', Rest, CountInv, AgreeInv, faults = 0, Return
    PROVE  Durable!Finish \/ Durable!Show
<1>1. /\ pc = "return" /\ pc' = "open" /\ call' = "none" /\ Alive
      /\ UNCHANGED <<active, prev, journal, handle, dirty>>
  BY DEF Return, disk, buffers, Alive, Idle
<1>2. /\ handle = active
      /\ prev # NoFile => prev.data = active.data
      /\ \A c \in Cells : Agrees(c)
  BY <1>1 DEF CountInv, AgreeInv, Renamed
<1>3. Base = active.data /\ Base' = Base
  BY <1>1, <1>2 DEF Base
<1>4. RecoveredCard' = RecoveredCard
  BY <1>1, <1>3, SameRebuilt
<1>5. Overlay(handle'.data, dirty') = RecoveredCard
  <2>1. \A c \in Cells : Overlay(active.data, dirty)[c] = RecoveredCard[c]
    BY <1>2, <1>3, Rebuilt, FlushedCard DEF Agrees
  <2>2. Overlay(active.data, dirty) \in Card /\ RecoveredCard \in Card
    BY OverlayType, Rebuilt DEF TypeOK, File
  <2>3. Overlay(active.data, dirty) = RecoveredCard
    BY <2>1, <2>2 DEF Card
  <2> QED
    BY <1>1, <1>2, <2>3
<1>6. ReaderView' = Durable!Shown(RecoveredCard) /\ CallInProgress' = Durable!NoOp
  BY <1>1, <1>5, AbstractlyNext
<1>7. CASE call = "write"
  <2>1. CallInProgress = Durable!Write(req.lo, req.hi, req.val)
    BY <1>7, Abstractly
  <2>2. CallInProgress # Durable!NoOp
    BY <2>1 DEF Durable!Write, Durable!NoOp
  <2>3. \A c \in Cells : c \in Span(req) => RecoveredCard[c] = req.val
    BY <1>1, <1>7, Rebuilt, SpanInBlocks DEF AgreeInv
  <2>4. Durable!Effect = [c \in Cells |-> IF c \in Span(req) THEN req.val
                                          ELSE RecoveredCard[c]]
    BY <2>1 DEF Durable!Write, Durable!Effect, Span
  <2>5. RecoveredCard = Durable!Effect
    BY <2>3, <2>4, Rebuilt DEF Card
  <2> QED
    BY <1>4, <1>6, <2>2, <2>5 DEF Durable!Finish
<1>8. CASE call \in {"restore", "upload"}
  <2>1. CallInProgress = Durable!Replace(cand)
    BY <1>8, Abstractly
  <2>2. CallInProgress # Durable!NoOp /\ Durable!Effect = cand
    BY <2>1 DEF Durable!Replace, Durable!NoOp, Durable!Effect
  <2>3. active.data = cand /\ journal.image = Clean
    BY <1>1, <1>8 DEF AgreeInv, Rest, RoleInv
  <2>4. \A c \in Cells : RecoveredCard[c] = cand[c]
    BY <1>3, <2>3, Rebuilt DEF Clean
  <2>5. RecoveredCard = cand
    BY <2>4, Rebuilt DEF Card, TypeOK
  <2> QED
    BY <1>4, <1>6, <2>2, <2>5 DEF Durable!Finish
<1>9. CASE call \notin {"write", "restore", "upload"}
  BY <1>4, <1>6, <1>9, Abstractly DEF Durable!Show
<1> QED
  BY <1>7, <1>8, <1>9

\* Every step is a step of the atomic card or invisible.
LEMMA DurableStep ==
    ASSUME IInv, IInv', CInv, Next, faults' = 0
    PROVE  Durable!Next \/ UNCHANGED Seen
<1>0. /\ TypeOK /\ TypeOK' /\ Rest /\ SumsInv /\ ConfirmInv /\ CountInv /\ AgreeInv
      /\ faults = 0
  BY FaultFree DEF IInv, CInv, Rest
<1>1. CASE Opening \/ OpenObject
  BY <1>0, <1>1, OpeningInvisible
<1>2. CASE Transacting \/ Truncate
  BY <1>0, <1>2, TransactionEffect DEF Durable!Next
<1>3. CASE AppendJournal
  BY <1>0, <1>3, AppendEffect DEF Durable!Next
<1>4. CASE Return
  BY <1>0, <1>4, ReturnEffect DEF Durable!Next
<1>5. CASE BufferWrite \/ BackupCard \/ Unstage
  <2>1. /\ UNCHANGED <<active, prev, journal, call, req, cand>>
        /\ pc # "open" /\ pc' # "open"
    BY <1>5, Continuations DEF BufferWrite, BackupCard, Unstage, disk, request
  <2>2. RecoveredCard' = RecoveredCard
    BY <1>0, <2>1, SameRebuilt DEF Base
  <2> QED
    BY <2>1, <2>2, Invisible
<1>6. CASE Shut \/ Crash
  <2>1. /\ UNCHANGED <<active, prev>> /\ journal'.image = journal.image
        /\ call' = "none" /\ pc' = "down"
    BY <1>0, <1>6 DEF Shut, Crash, MemoryLost, Torn, disk, TypeOK, JournalFile
  <2>2. RecoveredCard' = RecoveredCard
    BY <1>0, <2>1, SameRebuilt DEF Base
  <2> QED
    BY <2>1, <2>2, AbstractlyNext DEF Durable!Stop, Durable!Next
<1>7. CASE (\E w \in WriteRequest : WriteSaveAt(w)) \/ Calling
  <2>1. /\ pc = "open" /\ pc' # "open" /\ UNCHANGED <<active, prev, journal>>
    BY <1>7, Continuations
    DEF WriteSaveAt, Calling, Sync, Backup, Close, Flushing, Restore, Upload,
        Replacing, disk
  <2>2. RecoveredCard' = RecoveredCard
    BY <1>0, <2>1, SameRebuilt DEF Base
  <2>3. CallInProgress = Durable!NoOp
    <3>1. call = "none"
      BY <1>0, <2>1 DEF AgreeInv, Alive, Idle
    <3> QED
      BY <3>1, Abstractly
  <2>4. ReaderView' = Durable!Hidden
    BY <2>1, AbstractlyNext
  <2>5. CASE \E w \in WriteRequest : WriteSaveAt(w)
    <3>1. call' = "write" /\ req' \in WriteRequest
      BY <2>5 DEF WriteSaveAt
    <3>2. CallInProgress' = Durable!Write(req'.lo, req'.hi, req'.val)
      BY <3>1, AbstractlyNext
    <3>3. req'.lo \in Cells /\ req'.hi \in Cells /\ req'.val \in Val
      BY <3>1 DEF WriteRequest
    <3> QED
      BY <2>2, <2>3, <2>4, <3>2, <3>3 DEF Durable!Start, Durable!Next
  <2>6. CASE \E card \in Card : Restore(card) \/ Upload(card)
    <3>1. call' \in {"restore", "upload"} /\ cand' \in [Cells -> Val]
      BY <2>6 DEF Restore, Upload, Replacing, Card
    <3>2. CallInProgress' = Durable!Replace(cand')
      BY <3>1, AbstractlyNext
    <3> QED
      BY <2>2, <2>3, <2>4, <3>1, <3>2 DEF Durable!Start, Durable!Next
  <2>7. CASE Sync \/ Backup \/ Close
    <3>1. call' \in {"sync", "backup", "close"}
      BY <2>7 DEF Sync, Backup, Close, Flushing
    <3> QED
      BY <2>2, <2>4, <3>1, AbstractlyNext DEF Durable!Stop, Durable!Next
  <2> QED
    BY <1>7, <2>5, <2>6, <2>7 DEF Calling
<1> QED
  BY <1>0, <1>1, <1>2, <1>3, <1>4, <1>5, <1>6, <1>7, FaultFree

\* Until the first system call fails, the file-level protocol implements the
\* atomic, durable card: every write, restore and upload takes effect as a whole
\* before it returns, and no number of crashes, during recovery either, undoes one.
THEOREM CardIsAtomicAndDurable == Spec => AtomicDurableCard
<1> DEFINE J == IInv /\ CInv
<1>1. Init => J /\ Durable!Init
  <2> SUFFICES ASSUME Init PROVE J /\ Durable!Init
    OBVIOUS
  <2>1. IInv /\ CInv
    BY TypeOKInit, RestInit, CInvInit DEF IInv, Rest
  <2>2. RecoveredCard = [c \in Cells |-> Zero]
    <3>1. RecoveredCard = Overlay(Blank, Clean)
      BY DEF Init, RecoveredCard, NoFile, NoJournal
    <3> QED
      BY <3>1 DEF Overlay, Blank, Clean
  <2>3. CallInProgress = Durable!NoOp /\ ReaderView = Durable!Hidden
    BY Abstractly DEF Init
  <2>4. faults = 0
    BY DEF Init
  <2> QED
    BY <2>1, <2>2, <2>3, <2>4 DEF Durable!Init
<1>2. J /\ [Next]_vars => J'
  BY TypeOKStep, RestStep, CInvStep DEF IInv, Rest
<1>3. J /\ J' /\ [Next]_vars => [Durable!Next]_(Durable!vars)
  <2> SUFFICES ASSUME J, J', [Next]_vars
               PROVE  Durable!Next \/ UNCHANGED Durable!vars
    OBVIOUS
  <2>1. CASE UNCHANGED vars
    <3>1. RecoveredCard' = RecoveredCard
      BY <2>1 DEF vars, RecoveredCard, Overlay
    <3>2. CallInProgress' = CallInProgress /\ ReaderView' = ReaderView
      BY <2>1 DEF vars, CallInProgress, ReaderView, Overlay
    <3>3. faults' = faults
      BY <2>1 DEF vars, budgets
    <3> QED
      BY <3>1, <3>2, <3>3 DEF Durable!vars
  <2>2. CASE Next /\ faults' # 0
    BY <2>2 DEF Durable!DiskFailed, Durable!Next
  <2>3. CASE Next /\ faults' = 0
    <3>1. Durable!Next \/ UNCHANGED Seen
      BY <2>3, DurableStep
    <3>2. faults = 0
      BY <2>3, FaultFree DEF IInv, CInv, Rest
    <3> QED
      BY <2>3, <3>1, <3>2 DEF Seen, Durable!vars
  <2> QED
    BY <2>1, <2>2, <2>3
<1> QED
  BY <1>1, <1>2, <1>3, PTL DEF Spec, AtomicDurableCard, Durable!Spec
=============================================================================
