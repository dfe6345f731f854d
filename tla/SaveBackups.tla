---------------------------- MODULE SaveBackups ----------------------------
(***************************************************************************)
(* The backups of one managed memory card: backupCard, pruneBackups, and   *)
(* the Restore and Upload calls that make a safety backup before they      *)
(* replace the card (server/host-daemon/gamecube/saveoverlay.go).          *)
(*                                                                         *)
(* A backup is a pair of files with one base name, <time>-<sum>.raw and    *)
(* .json.  A base name is a stamp here: names sort by their time, and the  *)
(* clock is taken never to step backwards.  The calls on a card never      *)
(* overlap (store.mu); between two file operations the process may die or  *)
(* an operation may fail.  The card itself is a single value that is       *)
(* replaced atomically, which is what SaveCard shows of activateCandidate. *)
(* Temporary files have hidden names that no operation here looks at.      *)
(***************************************************************************)
EXTENDS Integers, FiniteSets, FiniteSetsExt

CONSTANTS
    Content,        \* contents of a card
    None,           \* no such file
    MaxBackups,     \* SaveStoreConfig.MaxBackups, at least one
    MaxStamp,       \* bound: backups started
    MaxCrashes,     \* bound: crashes
    MaxFaults       \* bound: failing system calls

ASSUME BackupAssumption ==
    /\ None \notin Content /\ Content # {}
    /\ MaxBackups \in Nat \ {0}
    /\ MaxStamp \in Nat /\ MaxCrashes \in Nat /\ MaxFaults \in Nat

Stamps == 1 .. MaxStamp

VARIABLES
    card,           \* active.raw
    raws,           \* backups/<stamp>.raw: its content
    jsons,          \* backups/<stamp>.json: the content whose sum it records
    pc, call,
    cand,           \* the staged input of Restore or Upload
    stamp,          \* the backup being made, or last made
    victim,         \* the pair that pruneBackups is removing
    confirmed,      \* observer: the last backup whose backupCard succeeded
    crashes, faults

vars == <<card, raws, jsons, pc, call, cand, stamp, victim, confirmed, crashes,
          faults>>
files == <<raws, jsons>>
budgets == <<crashes, faults>>

RawsPresent == {s \in Stamps : raws[s] # None}

\* What listBackupMetadata shows and Restore accepts: both files, and the raw
\* file has the recorded sum.
Complete == {s \in RawsPresent : jsons[s] = raws[s]}

TypeOK ==
    /\ card \in Content
    /\ raws \in [Stamps -> Content \cup {None}]
    /\ jsons \in [Stamps -> Content \cup {None}]
    /\ pc \in {"idle", "copy", "json", "confirm", "prune", "prune.json",
               "activate"}
    /\ call \in {"none", "backup", "restore", "upload"}
    /\ cand \in Content \cup {None}
    /\ stamp \in 0 .. MaxStamp /\ victim \in 0 .. MaxStamp
    /\ confirmed \in 0 .. MaxStamp
    /\ crashes \in 0 .. MaxCrashes /\ faults \in 0 .. MaxFaults

Init ==
    /\ card \in Content
    /\ raws = [s \in Stamps |-> None] /\ jsons = [s \in Stamps |-> None]
    /\ pc = "idle" /\ call = "none" /\ cand = None
    /\ stamp = 0 /\ victim = 0 /\ confirmed = 0
    /\ crashes = 0 /\ faults = 0

-----------------------------------------------------------------------------
\* The console writes to the card; its writes are flushed before any backup.
WriteCard ==
    /\ pc = "idle"
    /\ card' \in Content
    /\ UNCHANGED <<files, pc, call, cand, stamp, victim, confirmed, budgets>>

Start(c, input) ==
    /\ pc = "idle" /\ stamp < MaxStamp
    /\ call' = c /\ cand' = input
    /\ pc' = "copy"
    /\ UNCHANGED <<card, files, stamp, victim, confirmed, budgets>>

Backup == Start("backup", None)

\* Restore copies the selected pair aside before the safety backup, whose
\* pruning may remove it.
Restore(s) == s \in Complete /\ Start("restore", raws[s])
Upload(content) == Start("upload", content)

\* The call returns, with success or an error; its staged input is removed.
CallEnds ==
    /\ pc' = "idle" /\ call' = "none" /\ cand' = None /\ victim' = 0

Fault == faults < MaxFaults /\ faults' = faults + 1 /\ UNCHANGED crashes

\* backupCard: the card is copied, validated and renamed to its .raw name.
CopyCard ==
    /\ pc = "copy"
    /\ stamp' = stamp + 1
    /\ raws' = [raws EXCEPT ![stamp'] = card]
    /\ pc' = "json"
    /\ UNCHANGED <<card, jsons, call, cand, victim, confirmed, budgets>>

\* Mutant: a failed safety backup is ignored.
CopyFaultIgnored ==
    /\ pc = "copy" /\ Fault
    /\ IF call = "backup" THEN CallEnds
       ELSE pc' = "activate" /\ UNCHANGED <<call, cand, victim>>
    /\ UNCHANGED <<card, files, stamp, confirmed>>

CopyFault ==
    /\ pc = "copy" /\ Fault
    /\ CallEnds
    /\ UNCHANGED <<card, files, stamp, confirmed>>

WriteJson ==
    /\ pc = "json"
    /\ jsons' = [jsons EXCEPT ![stamp] = card]
    /\ pc' = "confirm"
    /\ UNCHANGED <<card, raws, call, cand, stamp, victim, confirmed, budgets>>

\* A failed .json takes the .raw with it.
JsonFault ==
    /\ pc = "json" /\ Fault
    /\ raws' = [raws EXCEPT ![stamp] = None]
    /\ CallEnds
    /\ UNCHANGED <<card, jsons, stamp, confirmed>>

\* The pair is read back, and LastBackup is recorded.
Confirm ==
    /\ pc = "confirm"
    /\ IF stamp \in Complete
       THEN pc' = "prune" /\ confirmed' = stamp /\ UNCHANGED <<call, cand, victim>>
       ELSE CallEnds /\ UNCHANGED confirmed
    /\ UNCHANGED <<card, files, stamp, budgets>>

\* The directory sync, the reading back or the metadata write fails: the pair
\* stays, and nothing is pruned.
ConfirmFault ==
    /\ pc = "confirm" /\ Fault
    /\ CallEnds
    /\ UNCHANGED <<card, files, stamp, confirmed>>

\* Mutants: the retention is off by one; the names are sorted the other way.
SurplusLate == Cardinality(RawsPresent) > MaxBackups + 1
Newest == Max(RawsPresent)

\* pruneBackups: the oldest .raw goes while there are more than the retention;
\* one without its .json stops the loop with an error.
Surplus == Cardinality(RawsPresent) > MaxBackups
Oldest == Min(RawsPresent)

Prune ==
    /\ pc = "prune"
    /\ \/ /\ ~Surplus
          /\ IF call = "backup"
             THEN CallEnds
             ELSE pc' = "activate" /\ UNCHANGED <<call, cand, victim>>
          /\ UNCHANGED raws
       \/ /\ Surplus /\ jsons[Oldest] # None
          /\ raws' = [raws EXCEPT ![Oldest] = None]
          /\ victim' = Oldest
          /\ pc' = "prune.json"
          /\ UNCHANGED <<call, cand>>
       \/ /\ Surplus /\ jsons[Oldest] = None
          /\ CallEnds
          /\ UNCHANGED raws
    /\ UNCHANGED <<card, jsons, stamp, confirmed, budgets>>

PruneJson ==
    /\ pc = "prune.json"
    /\ jsons' = [jsons EXCEPT ![victim] = None]
    /\ victim' = 0
    /\ pc' = "prune"
    /\ UNCHANGED <<card, raws, call, cand, stamp, confirmed, budgets>>

\* A removal fails, before or after it took effect on the .raw file.
PruneFault ==
    /\ pc \in {"prune", "prune.json"} /\ Fault
    /\ CallEnds
    /\ UNCHANGED <<card, files, stamp, confirmed>>

\* activateCandidate, or its failure, which leaves the card alone.
Activate ==
    /\ pc = "activate"
    /\ card' = cand
    /\ CallEnds
    /\ UNCHANGED <<files, stamp, confirmed, budgets>>

ActivateFault ==
    /\ pc = "activate" /\ Fault
    /\ CallEnds
    /\ UNCHANGED <<card, files, stamp, confirmed>>

Crash ==
    /\ pc # "idle" /\ crashes < MaxCrashes
    /\ crashes' = crashes + 1
    /\ CallEnds
    /\ UNCHANGED <<card, files, stamp, confirmed, faults>>

Next ==
    \/ WriteCard \/ Backup
    \/ \E s \in Stamps : Restore(s)
    \/ \E content \in Content : Upload(content)
    \/ CopyCard \/ CopyFault \/ WriteJson \/ JsonFault
    \/ Confirm \/ ConfirmFault \/ Prune \/ PruneJson \/ PruneFault
    \/ Activate \/ ActivateFault \/ Crash

Spec == Init /\ [][Next]_vars

-----------------------------------------------------------------------------
\* Once a backup has been confirmed there is, at every moment and after every
\* crash or failed removal, a complete backup at least as recent: pruneBackups
\* never removes the last good pair, although it also counts and steps over the
\* halves of pairs that crashes left behind.
NewestBackupSurvives ==
    confirmed # 0 => \E s \in Complete : s >= confirmed

\* Restore and Upload replace a card only while a complete backup of exactly
\* that card is on disk, so the replacement can be undone.
ReplacedCardIsBackedUp ==
    [][pc = "activate" /\ card' # card => \E s \in Complete : raws[s] = card]_vars

\* As long as the process does not die inside a backup the directory holds at
\* most the configured number of cards, the one being made, and one for every
\* backup that an I/O error stopped before pruning.
RetentionWithoutCrash ==
    crashes = 0 => Cardinality(RawsPresent) <= MaxBackups + 1 + faults

\* The retention is a hard limit: complete backups never exceed it by more than
\* the one being made and one for each crash before its own pruning.
RetentionIsHardLimit == Cardinality(Complete) <= MaxBackups + 1 + crashes

=============================================================================
