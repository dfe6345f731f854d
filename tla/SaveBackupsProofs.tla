------------------------- MODULE SaveBackupsProofs -------------------------
(***************************************************************************)
(* Proofs about SaveBackups, for every set of contents, retention, number  *)
(* of backups, crashes and failing system calls.                           *)
(*                                                                         *)
(* NewestBackupSurvives is not inductive: that pruneBackups never removes  *)
(* the last good pair rests on the pair just made being complete and being *)
(* the newest of the directory while the pruning runs, and on a backup     *)
(* that fails half-way having added nothing complete that it then takes    *)
(* away.  BInv says so, step by step of the call.  The retention needs, as *)
(* well, that without a crash every .raw file has its .json: pruneBackups  *)
(* stops at the first one that has not.                                    *)
(***************************************************************************)
EXTENDS SaveBackups, FiniteSetTheorems, WellFoundedInduction, TLAPS

\* Names are new: no file carries a stamp that has not been given out.
Fresh ==
    /\ \A s \in Stamps : s > stamp => raws[s] = None /\ jsons[s] = None
    /\ confirmed <= stamp

\* The pair that the running call made is complete and holds the card as it is.
Safe == stamp \in Stamps /\ raws[stamp] = card /\ jsons[stamp] = card

\* What the call has established at each of its steps.
Course ==
    /\ pc # "idle" => call # "none"
    /\ call \in {"restore", "upload"} => cand \in Content
    /\ pc = "copy" => stamp < MaxStamp
    /\ pc = "json" => stamp \in Stamps /\ raws[stamp] = card /\ jsons[stamp] = None
    /\ pc \in {"confirm", "prune", "prune.json", "activate"} => Safe
    /\ pc \in {"prune", "prune.json"} => confirmed = stamp
    /\ pc = "prune.json" => victim \in Stamps /\ raws[victim] = None
    /\ pc = "activate" => call \in {"restore", "upload"}

\* Without a crash only the pair being written is half a pair, and a surplus
\* that a failing call left behind is one card per failure.
Retained ==
    crashes = 0 =>
        /\ \A s \in RawsPresent : jsons[s] # None \/ (pc = "json" /\ s = stamp)
        /\ Cardinality(RawsPresent) <= MaxBackups + 1 + faults
        /\ pc \in {"idle", "copy", "activate"}
               => Cardinality(RawsPresent) <= MaxBackups + faults

BInv == TypeOK /\ Fresh /\ Course /\ NewestBackupSurvives /\ Retained

-----------------------------------------------------------------------------
\* A set of numbers that is not empty has a smallest element, and Min is it.
LEMMA MinOfNaturals ==
    ASSUME NEW S \in SUBSET Nat, S # {}
    PROVE  Min(S) \in S /\ \A y \in S : Min(S) <= y
<1>1. PICK x \in S : \A y \in S : ~ (<<y, x>> \in OpToRel(<, Nat))
  <2> HIDE DEF OpToRel
  <2> QED
    BY NatLessThanWellFounded, WFMin
<1>2. \A y \in S : x <= y
  <2> SUFFICES ASSUME NEW y \in S PROVE x <= y
    OBVIOUS
  <2>1. ~ (y < x)
    BY <1>1, Zenon DEF OpToRel
  <2> QED
    BY <2>1
<1> QED
  BY <1>2 DEF Min

\* The cards in the directory are finitely many.
LEMMA RawsFinite ==
    /\ IsFiniteSet(RawsPresent) /\ Cardinality(RawsPresent) \in Nat
    /\ RawsPresent \subseteq Stamps
<1>1. IsFiniteSet(Stamps)
  BY BackupAssumption, FS_Interval DEF Stamps
<1>2. RawsPresent \subseteq Stamps
  BY DEF RawsPresent
<1> QED
  BY <1>1, <1>2, FS_Subset, FS_CardinalityType

\* Pruning takes the oldest card, and never the only one.
LEMMA OldestIsNotAlone ==
    ASSUME Surplus
    PROVE  /\ Oldest \in RawsPresent
           /\ \A s \in RawsPresent : Oldest <= s
           /\ \E s \in RawsPresent : s # Oldest
<1>1. RawsPresent \in SUBSET Nat
  BY RawsFinite, BackupAssumption DEF Stamps
<1>2. RawsPresent # {}
  BY FS_EmptySet, BackupAssumption DEF Surplus
<1>3. /\ Oldest \in RawsPresent
      /\ \A s \in RawsPresent : Oldest <= s
  BY <1>1, <1>2, MinOfNaturals DEF Oldest
<1>4. ASSUME \A s \in RawsPresent : s = Oldest PROVE FALSE
  <2>1. RawsPresent = {Oldest}
    BY <1>3, <1>4
  <2>2. Cardinality(RawsPresent) = 1
    BY <2>1, FS_Singleton
  <2> QED
    BY <2>2, BackupAssumption DEF Surplus
<1> QED
  BY <1>3, <1>4

\* Init establishes the invariant.
LEMMA BInvInit == Init => BInv
<1> SUFFICES ASSUME Init PROVE BInv
  OBVIOUS
<1>1. TypeOK
  BY BackupAssumption DEF Init, TypeOK, Stamps
<1>2. RawsPresent = {}
  BY DEF Init, RawsPresent
<1>3. Cardinality(RawsPresent) = 0
  BY <1>2, FS_EmptySet
<1>4. Retained
  BY <1>2, <1>3, BackupAssumption DEF Retained, Init
<1>5. Fresh
  BY DEF Fresh, Init
<1>6. Course
  BY DEF Course, Init
<1>7. NewestBackupSurvives
  BY DEF NewestBackupSurvives, Init
<1> QED
  BY <1>1, <1>4, <1>5, <1>6, <1>7 DEF BInv

\* A step that touches no file keeps the directory, the complete pairs and what
\* Fresh says, unless it changes the stamps.
LEMMA SameFiles ==
    ASSUME UNCHANGED files
    PROVE  /\ RawsPresent' = RawsPresent
           /\ Complete' = Complete
           /\ Cardinality(RawsPresent)' = Cardinality(RawsPresent)
<1>1. UNCHANGED <<raws, jsons>>
  BY DEF files
<1>2. RawsPresent' = RawsPresent
  BY <1>1 DEF RawsPresent
<1> QED
  BY <1>1, <1>2 DEF Complete

\* The console's write and the start of a call touch no file.
LEMMA StartKeeps ==
    ASSUME BInv, WriteCard \/ \E c \in {"backup", "restore", "upload"},
                                 input \in Content \cup {None} :
                                   /\ Start(c, input)
                                   /\ c # "backup" => input \in Content
    PROVE  BInv'
<1>1. UNCHANGED <<raws, jsons, stamp, victim, confirmed, crashes, faults>>
  BY DEF WriteCard, Start, files, budgets
<1>2. /\ RawsPresent' = RawsPresent /\ Complete' = Complete
      /\ Cardinality(RawsPresent)' = Cardinality(RawsPresent)
  BY <1>1, SameFiles DEF files
<1>3. TypeOK'
  BY <1>1 DEF BInv, TypeOK, WriteCard, Start
<1>4. Fresh'
  BY <1>1 DEF BInv, Fresh
<1>5. Course'
  BY <1>1 DEF BInv, Course, WriteCard, Start
<1>6. NewestBackupSurvives'
  BY <1>1, <1>2 DEF BInv, NewestBackupSurvives
<1>7. Retained'
  BY <1>1, <1>2 DEF BInv, Retained, WriteCard, Start
<1> QED
  BY <1>3, <1>4, <1>5, <1>6, <1>7 DEF BInv

\* A call that ends where it stands, with an error, a crash or the new card
\* in place, leaves the files as they are.  Ending early costs a fault or a
\* crash; an end that costs neither is one with no surplus.
LEMMA EndKeeps ==
    ASSUME BInv, CallEnds,
           UNCHANGED <<raws, jsons, stamp, confirmed>>,
           card' \in Content,
           \/ faults' = faults + 1 /\ faults < MaxFaults /\ UNCHANGED crashes
           \/ crashes' = crashes + 1 /\ crashes < MaxCrashes /\ UNCHANGED faults
           \/ /\ UNCHANGED <<crashes, faults>>
              /\ crashes = 0 => Cardinality(RawsPresent) <= MaxBackups + faults,
           pc # "json" \/ crashes' # 0
    PROVE  BInv'
<1>2. /\ RawsPresent' = RawsPresent /\ Complete' = Complete
      /\ Cardinality(RawsPresent)' = Cardinality(RawsPresent)
  BY SameFiles DEF files
<1>3. TypeOK'
  BY BackupAssumption DEF BInv, TypeOK, CallEnds
<1>4. Fresh'
  BY DEF BInv, Fresh
<1>5. Course'
  BY DEF BInv, Course, CallEnds
<1>6. NewestBackupSurvives'
  BY <1>2 DEF BInv, NewestBackupSurvives
<1>7. Retained'
  <2>1. PICK n \in Nat : n = Cardinality(RawsPresent)
    BY RawsFinite
  <2>2. crashes \in Nat /\ faults \in Nat /\ MaxBackups \in Nat
    BY BackupAssumption DEF BInv, TypeOK
  <2> SUFFICES ASSUME crashes' = 0 PROVE Retained'
    BY DEF Retained
  <2>3. crashes = 0 /\ pc # "json"
    BY <2>2
  <2> QED
    BY <1>2, <2>1, <2>2, <2>3 DEF BInv, Retained, CallEnds
<1> QED
  BY <1>3, <1>4, <1>5, <1>6, <1>7 DEF BInv

\* backupCard adds one card, under a name that was never used.
LEMMA CopyCardKeeps ==
    ASSUME BInv, CopyCard
    PROVE  BInv'
<1> DEFINE t == stamp + 1
<1>1. /\ t \in Stamps /\ t > stamp /\ stamp' = t /\ stamp \in 0 .. MaxStamp
      /\ raws[t] = None /\ jsons[t] = None
      /\ raws' = [raws EXCEPT ![t] = card] /\ jsons' = jsons
      /\ UNCHANGED <<card, call, cand, victim, confirmed, crashes, faults>>
      /\ pc = "copy" /\ pc' = "json"
  BY BackupAssumption
  DEF BInv, TypeOK, Fresh, Course, CopyCard, Stamps, budgets
<1> HIDE DEF t
<1>2. card \in Content /\ card # None
  BY BackupAssumption DEF BInv, TypeOK
<1>3. /\ raws'[t] = card
      /\ \A s \in Stamps : s # t => raws'[s] = raws[s]
  BY <1>1 DEF BInv, TypeOK
<1>4. RawsPresent' = RawsPresent \cup {t} /\ t \notin RawsPresent
  BY <1>1, <1>2, <1>3 DEF RawsPresent
<1>5. Cardinality(RawsPresent)' = Cardinality(RawsPresent) + 1
  BY <1>4, RawsFinite, FS_AddElement
<1>6. TypeOK'
  BY <1>1, <1>2 DEF BInv, TypeOK, Stamps
<1>7. Fresh'
  BY <1>1, <1>3, BackupAssumption DEF BInv, Fresh, Stamps, TypeOK
<1>8. Course'
  BY <1>1, <1>3 DEF BInv, Course
<1>9. NewestBackupSurvives'
  <2>1. Complete \subseteq Complete'
    BY <1>1, <1>3, <1>4 DEF Complete, RawsPresent
  <2> QED
    BY <1>1, <2>1 DEF BInv, NewestBackupSurvives
<1>10. Retained'
  <2>1. PICK n \in Nat : n = Cardinality(RawsPresent)
    BY RawsFinite
  <2>2. faults \in Nat /\ MaxBackups \in Nat
    BY BackupAssumption DEF BInv, TypeOK
  <2> QED
    BY <1>1, <1>4, <1>5, <2>1, <2>2 DEF BInv, Retained
<1> QED
  BY <1>6, <1>7, <1>8, <1>9, <1>10 DEF BInv

\* The .json completes the pair.
LEMMA WriteJsonKeeps ==
    ASSUME BInv, WriteJson
    PROVE  BInv'
<1>1. /\ stamp \in Stamps /\ raws[stamp] = card /\ jsons[stamp] = None
      /\ jsons' = [jsons EXCEPT ![stamp] = card] /\ pc = "json" /\ pc' = "confirm"
      /\ UNCHANGED <<card, raws, call, cand, stamp, victim, confirmed, crashes, faults>>
  BY DEF BInv, Course, WriteJson, budgets
<1>2. card \in Content /\ card # None
  BY BackupAssumption DEF BInv, TypeOK
<1>3. /\ jsons'[stamp] = card
      /\ \A s \in Stamps : s # stamp => jsons'[s] = jsons[s]
  BY <1>1 DEF BInv, TypeOK
<1>4. RawsPresent' = RawsPresent
  BY <1>1 DEF RawsPresent
<1>5. TypeOK'
  BY <1>1, <1>2 DEF BInv, TypeOK
<1>6. Fresh'
  BY <1>1, <1>3, BackupAssumption DEF BInv, Fresh, Stamps, TypeOK
<1>7. Course'
  BY <1>1, <1>3 DEF BInv, Course, Safe
<1>8. NewestBackupSurvives'
  <2>1. Complete \subseteq Complete'
    BY <1>1, <1>2, <1>3, <1>4 DEF Complete, RawsPresent
  <2> QED
    BY <1>1, <2>1 DEF BInv, NewestBackupSurvives
<1>9. Retained'
  <2>1. ASSUME crashes = 0
        PROVE  \A s \in RawsPresent : jsons'[s] # None
    BY <1>1, <1>2, <1>3, <2>1 DEF BInv, Retained, RawsPresent
  <2> QED
    BY <1>1, <1>4, <2>1 DEF BInv, Retained
<1> QED
  BY <1>5, <1>6, <1>7, <1>8, <1>9 DEF BInv

\* A .json that cannot be written takes away a card that was half a pair.
LEMMA JsonFaultKeeps ==
    ASSUME BInv, JsonFault
    PROVE  BInv'
<1>1. /\ stamp \in Stamps /\ raws[stamp] = card /\ jsons[stamp] = None
      /\ raws' = [raws EXCEPT ![stamp] = None] /\ pc = "json" /\ pc' = "idle"
      /\ UNCHANGED <<card, jsons, stamp, confirmed, crashes>>
      /\ faults' = faults + 1 /\ faults < MaxFaults
      /\ call' = "none" /\ cand' = None /\ victim' = 0
  BY DEF BInv, Course, JsonFault, Fault, CallEnds
<1>2. card \in Content /\ card # None
  BY BackupAssumption DEF BInv, TypeOK
<1>3. /\ raws'[stamp] = None
      /\ \A s \in Stamps : s # stamp => raws'[s] = raws[s]
  BY <1>1 DEF BInv, TypeOK
<1>4. RawsPresent' = RawsPresent \ {stamp} /\ stamp \in RawsPresent
  BY <1>1, <1>2, <1>3 DEF RawsPresent
<1>5. Cardinality(RawsPresent)' = Cardinality(RawsPresent) - 1
  BY <1>4, RawsFinite, FS_RemoveElement
<1>6. TypeOK'
  BY <1>1, BackupAssumption DEF BInv, TypeOK
<1>7. Fresh'
  BY <1>1, <1>3 DEF BInv, Fresh
<1>8. Course'
  BY <1>1 DEF BInv, Course
<1>9. NewestBackupSurvives'
  <2>1. Complete \subseteq Complete'
    BY <1>1, <1>2, <1>3, <1>4 DEF Complete, RawsPresent
  <2> QED
    BY <1>1, <2>1 DEF BInv, NewestBackupSurvives
<1>10. Retained'
  <2>1. PICK n \in Nat : n = Cardinality(RawsPresent)
    BY RawsFinite
  <2>2. faults \in Nat /\ MaxBackups \in Nat
    BY BackupAssumption DEF BInv, TypeOK
  <2>3. ASSUME crashes = 0
        PROVE  \A s \in RawsPresent' : jsons'[s] # None
    BY <1>1, <1>4, <2>3 DEF BInv, Retained
  <2> QED
    BY <1>1, <1>5, <2>1, <2>2, <2>3 DEF BInv, Retained
<1> QED
  BY <1>6, <1>7, <1>8, <1>9, <1>10 DEF BInv

\* The pair just made reads back, so Confirm goes on to the pruning.
LEMMA ConfirmKeeps ==
    ASSUME BInv, Confirm
    PROVE  BInv'
<1>1. Safe /\ pc = "confirm"
  BY DEF BInv, Course, Confirm
<1>2. stamp \in Complete
  BY <1>1, BackupAssumption DEF Safe, Complete, RawsPresent, BInv, TypeOK
<1>3. /\ pc' = "prune" /\ confirmed' = stamp
      /\ UNCHANGED <<card, raws, jsons, stamp, call, cand, victim, crashes, faults>>
  BY <1>2 DEF Confirm, files, budgets
<1>4. /\ RawsPresent' = RawsPresent /\ Complete' = Complete
      /\ Cardinality(RawsPresent)' = Cardinality(RawsPresent)
  BY <1>3, SameFiles DEF files
<1>5. TypeOK'
  BY <1>3 DEF BInv, TypeOK
<1>6. Fresh'
  BY <1>3 DEF BInv, Fresh, TypeOK
<1>7. Course'
  BY <1>1, <1>3 DEF BInv, Course, Safe
<1>8. NewestBackupSurvives'
  BY <1>2, <1>3, <1>4 DEF NewestBackupSurvives, BInv, TypeOK
<1>9. Retained'
  BY <1>1, <1>3, <1>4 DEF BInv, Retained
<1> QED
  BY <1>5, <1>6, <1>7, <1>8, <1>9 DEF BInv

\* pruneBackups removes a card older than the pair just made.
LEMMA PruneRemoves ==
    ASSUME BInv, pc = "prune", Surplus,
           raws' = [raws EXCEPT ![Oldest] = None], victim' = Oldest,
           pc' = "prune.json",
           UNCHANGED <<card, jsons, stamp, call, cand, confirmed, crashes, faults>>
    PROVE  BInv'
<1>1. PICK o \in RawsPresent : o = Oldest /\ o \in Stamps
  BY OldestIsNotAlone, RawsFinite
<1>2. Safe /\ confirmed = stamp
  BY DEF BInv, Course
<1>3. \A s \in RawsPresent : s <= stamp
  BY DEF BInv, Fresh, RawsPresent, Stamps, TypeOK
<1>4. o # stamp
  BY <1>1, <1>3, OldestIsNotAlone, RawsFinite DEF Stamps, BInv, TypeOK
<1>5. /\ raws'[o] = None
      /\ \A s \in Stamps : s # o => raws'[s] = raws[s]
  BY <1>1 DEF BInv, TypeOK
<1>6. RawsPresent' = RawsPresent \ {o}
  BY <1>1, <1>5 DEF RawsPresent
<1>7. Cardinality(RawsPresent)' = Cardinality(RawsPresent) - 1
  BY <1>1, <1>6, RawsFinite, FS_RemoveElement
<1>8. Safe'
  BY <1>2, <1>4, <1>5 DEF Safe
<1>9. TypeOK'
  BY <1>1 DEF BInv, TypeOK, Stamps
<1>10. Fresh'
  BY <1>5 DEF BInv, Fresh
<1>11. Course'
  BY <1>1, <1>2, <1>5, <1>8 DEF BInv, Course
<1>12. NewestBackupSurvives'
  <2>1. stamp \in Complete'
    BY <1>8, BackupAssumption DEF Safe, Complete, RawsPresent, BInv, TypeOK
  <2> QED
    BY <1>2, <2>1 DEF NewestBackupSurvives, BInv, TypeOK
<1>13. Retained'
  <2>1. PICK n \in Nat : n = Cardinality(RawsPresent)
    BY RawsFinite
  <2>2. faults \in Nat /\ MaxBackups \in Nat
    BY BackupAssumption DEF BInv, TypeOK
  <2> QED
    BY <1>6, <1>7, <2>1, <2>2 DEF BInv, Retained
<1> QED
  BY <1>9, <1>10, <1>11, <1>12, <1>13 DEF BInv

\* One turn of pruneBackups.  Without a crash it never meets a card without its
\* .json, so it ends with the retention respected.
LEMMA PruneKeeps ==
    ASSUME BInv, Prune
    PROVE  BInv'
<1>1. /\ pc = "prune"
      /\ UNCHANGED <<card, jsons, stamp, confirmed, crashes, faults>>
  BY DEF Prune, budgets
<1>2. PICK n \in Nat : n = Cardinality(RawsPresent)
  BY RawsFinite
<1>3. faults \in Nat /\ MaxBackups \in Nat /\ card \in Content
  BY BackupAssumption DEF BInv, TypeOK
<1>4. CASE ~Surplus /\ call = "backup"
  <2>1. CallEnds /\ UNCHANGED raws
    BY <1>4 DEF Prune
  <2>2. Cardinality(RawsPresent) <= MaxBackups + faults
    BY <1>2, <1>3, <1>4 DEF Surplus
  <2> QED
    BY <1>1, <1>3, <2>1, <2>2, EndKeeps
<1>5. CASE ~Surplus /\ call # "backup"
  <2>1. pc' = "activate" /\ UNCHANGED <<call, cand, victim, raws>>
    BY <1>5 DEF Prune
  <2>2. call \in {"restore", "upload"}
    BY <1>1, <1>5 DEF BInv, Course, TypeOK
  <2>3. /\ RawsPresent' = RawsPresent /\ Complete' = Complete
        /\ Cardinality(RawsPresent)' = Cardinality(RawsPresent)
    BY <1>1, <2>1, SameFiles DEF files
  <2>4. TypeOK'
    BY <1>1, <2>1 DEF BInv, TypeOK
  <2>5. Fresh'
    BY <1>1, <2>1 DEF BInv, Fresh
  <2>6. Course'
    BY <1>1, <2>1, <2>2 DEF BInv, Course, Safe
  <2>7. NewestBackupSurvives'
    BY <1>1, <2>3 DEF BInv, NewestBackupSurvives
  <2>8. Retained'
    BY <1>1, <1>2, <1>3, <1>5, <2>1, <2>3 DEF BInv, Retained, Surplus
  <2> QED
    BY <2>4, <2>5, <2>6, <2>7, <2>8 DEF BInv
<1>6. CASE Surplus /\ jsons[Oldest] # None
  BY <1>1, <1>6, PruneRemoves DEF Prune
<1>7. CASE Surplus /\ jsons[Oldest] = None
  <2>1. CallEnds /\ UNCHANGED raws
    BY <1>7 DEF Prune
  <2>2. crashes # 0
    BY <1>1, <1>7, OldestIsNotAlone DEF BInv, Retained
  <2> QED
    BY <1>1, <1>3, <2>1, <2>2, EndKeeps
<1> QED
  BY <1>4, <1>5, <1>6, <1>7

\* The .json of the removed card goes; the pair just made is another one.
LEMMA PruneJsonKeeps ==
    ASSUME BInv, PruneJson
    PROVE  BInv'
<1>1. /\ Safe /\ confirmed = stamp /\ victim \in Stamps /\ raws[victim] = None
      /\ jsons' = [jsons EXCEPT ![victim] = None] /\ victim' = 0
      /\ pc = "prune.json" /\ pc' = "prune"
      /\ UNCHANGED <<card, raws, call, cand, stamp, confirmed, crashes, faults>>
  BY DEF BInv, Course, PruneJson, budgets
<1>2. card # None
  BY BackupAssumption DEF BInv, TypeOK
<1>3. /\ jsons'[victim] = None
      /\ \A s \in Stamps : s # victim => jsons'[s] = jsons[s]
  BY <1>1 DEF BInv, TypeOK
<1>4. RawsPresent' = RawsPresent /\ victim \notin RawsPresent
  BY <1>1 DEF RawsPresent
<1>5. Safe'
  BY <1>1, <1>2, <1>3 DEF Safe
<1>6. TypeOK'
  BY <1>1, BackupAssumption DEF BInv, TypeOK
<1>7. Fresh'
  BY <1>1, <1>3 DEF BInv, Fresh
<1>8. Course'
  BY <1>1, <1>5 DEF BInv, Course
<1>9. NewestBackupSurvives'
  <2>1. stamp \in Complete'
    BY <1>2, <1>5, <1>1 DEF Safe, Complete, RawsPresent
  <2> QED
    BY <1>1, <2>1 DEF NewestBackupSurvives, BInv, TypeOK
<1>10. Retained'
  <2>1. ASSUME crashes = 0
        PROVE  \A s \in RawsPresent' : jsons'[s] # None
    BY <1>1, <1>3, <1>4, <2>1 DEF BInv, Retained, RawsPresent
  <2> QED
    BY <1>1, <1>4, <2>1 DEF BInv, Retained
<1> QED
  BY <1>6, <1>7, <1>8, <1>9, <1>10 DEF BInv

\* Every step keeps the invariant.
LEMMA BInvStep == BInv /\ [Next]_vars => BInv'
<1> SUFFICES ASSUME BInv, [Next]_vars PROVE BInv'
  OBVIOUS
<1>1. CASE WriteCard
  BY <1>1, StartKeeps
<1>2. CASE Backup
  BY <1>2, StartKeeps DEF Backup
<1>3. ASSUME NEW s \in Stamps, Restore(s) PROVE BInv'
  <2>1. raws[s] \in Content
    BY <1>3 DEF Restore, Complete, RawsPresent, BInv, TypeOK
  <2> QED
    BY <1>3, <2>1, StartKeeps DEF Restore
<1>4. ASSUME NEW content \in Content, Upload(content) PROVE BInv'
  BY <1>4, StartKeeps DEF Upload
<1>5. CASE CopyCard
  BY <1>5, CopyCardKeeps
<1>6. CASE WriteJson
  BY <1>6, WriteJsonKeeps
<1>7. CASE JsonFault
  BY <1>7, JsonFaultKeeps
<1>8. CASE Confirm
  BY <1>8, ConfirmKeeps
<1>9. CASE Prune
  BY <1>9, PruneKeeps
<1>10. CASE PruneJson
  BY <1>10, PruneJsonKeeps
<1>11. CASE CopyFault \/ ConfirmFault \/ PruneFault \/ ActivateFault
  <2>1. /\ CallEnds /\ pc # "json"
        /\ UNCHANGED <<card, raws, jsons, stamp, confirmed, crashes>>
        /\ faults' = faults + 1 /\ faults < MaxFaults
    BY <1>11 DEF CopyFault, ConfirmFault, PruneFault, ActivateFault, Fault, files
  <2>2. card' \in Content
    BY <2>1 DEF BInv, TypeOK
  <2> QED
    BY <2>1, <2>2, EndKeeps
<1>12. CASE Activate
  <2>1. /\ CallEnds /\ pc = "activate" /\ card' = cand
        /\ UNCHANGED <<raws, jsons, stamp, confirmed, crashes, faults>>
    BY <1>12 DEF Activate, files, budgets
  <2>2. card' \in Content
    BY <2>1 DEF BInv, Course
  <2>3. crashes = 0 => Cardinality(RawsPresent) <= MaxBackups + faults
    BY <2>1 DEF BInv, Retained
  <2> QED
    BY <2>1, <2>2, <2>3, EndKeeps
<1>13. CASE Crash
  <2>1. /\ CallEnds /\ crashes' = crashes + 1 /\ crashes < MaxCrashes
        /\ UNCHANGED <<card, raws, jsons, stamp, confirmed, faults>>
    BY <1>13 DEF Crash, files
  <2>2. card' \in Content /\ crashes' # 0
    BY <2>1 DEF BInv, TypeOK
  <2> QED
    BY <2>1, <2>2, EndKeeps
<1>14. CASE UNCHANGED vars
  <2>1. UNCHANGED <<card, raws, jsons, pc, call, cand, stamp, victim, confirmed,
                    crashes, faults>>
    BY <1>14 DEF vars
  <2>2. /\ RawsPresent' = RawsPresent /\ Complete' = Complete
        /\ Cardinality(RawsPresent)' = Cardinality(RawsPresent)
    BY <2>1, SameFiles DEF files
  <2>3. TypeOK' /\ Fresh'
    BY <2>1 DEF BInv, TypeOK, Fresh
  <2>4. Course'
    BY <2>1 DEF BInv, Course, Safe
  <2>5. NewestBackupSurvives' /\ Retained'
    BY <2>1, <2>2 DEF BInv, NewestBackupSurvives, Retained
  <2> QED
    BY <2>3, <2>4, <2>5 DEF BInv
<1> QED
  BY <1>1, <1>2, <1>3, <1>4, <1>5, <1>6, <1>7, <1>8, <1>9, <1>10, <1>11, <1>12,
     <1>13, <1>14
  DEF Next

\* The inductive invariant holds in every reachable state.
THEOREM BackupInvariant == Spec => []BInv
BY BInvInit, BInvStep, PTL DEF Spec

\* pruneBackups, failing calls and crashes never cost the last good backup: there
\* is always a complete pair at least as recent as the last confirmed one.
THEOREM GoodBackupSurvives == Spec => []NewestBackupSurvives
<1>1. BInv => NewestBackupSurvives
  BY DEF BInv
<1> QED
  BY BackupInvariant, <1>1, PTL

\* Without a crash the directory never holds more cards than the retention, the
\* one being made and one for each backup that an I/O error stopped.
THEOREM RetentionHolds == Spec => []RetentionWithoutCrash
<1>1. BInv => RetentionWithoutCrash
  BY DEF BInv, Retained, RetentionWithoutCrash
<1> QED
  BY BackupInvariant, <1>1, PTL

\* Restore and Upload replace a card only while a complete backup of exactly
\* that card is on disk.
THEOREM ReplacementCanBeUndone == Spec => ReplacedCardIsBackedUp
<1>1. ASSUME BInv, pc = "activate"
      PROVE  \E s \in Complete : raws[s] = card
  <2>1. Safe /\ card # None
    BY <1>1, BackupAssumption DEF BInv, Course, TypeOK
  <2> QED
    BY <2>1 DEF Safe, Complete, RawsPresent
<1>2. BInv /\ [Next]_vars
        => [pc = "activate" /\ card' # card => \E s \in Complete : raws[s] = card]_vars
  BY <1>1
<1> QED
  BY BackupInvariant, <1>2, PTL DEF Spec, ReplacedCardIsBackedUp
=============================================================================
