---------------------------- MODULE VirtualDisk ----------------------------
(***************************************************************************)
(* The backends that the NBD server reads and writes: the GameCube disk    *)
(* (fat32virtual/backend.go) with its cache of source handles and its card *)
(* extents, and the Wii disk (vdisk/vdisk.go), which opens the source for  *)
(* every read.                                                             *)
(*                                                                         *)
(* Backend.mu is held for a whole ReadAt or WriteAt, but the source files  *)
(* belong to others: one may be replaced, go away or come back between     *)
(* verifyIdentity, open and the read, so these are steps.  The identity    *)
(* that the layout recorded is version 0 of a file.  A failed read also    *)
(* reports the source's failure, which is SourceCatalog's ReadFails.       *)
(***************************************************************************)
EXTENDS FatVolume

CONSTANTS
    Libraries,      \* the libraries that are built: [kind, size, files, games]
    Source,         \* source paths
    Card,           \* save objects
    CacheLimit,     \* OpenOptions.CacheLimit
    Reads, Writes,  \* bound: the offsets and lengths that are read and written
    MaxChanges      \* bound: changes of source files

\* What Build lays out and ReadAt relies on.  The extents are in the order of their
\* offsets, on the GameCube disk because Build sorts them; there it also checks that
\* they do not overlap.  Of the Wii disk ReadAt's comments say so: "Build appends
\* disjoint extents in virtual-offset order", "Metadata occupies whole sectors".
Aligned(u) == u % SectorSize = 0
Ascending(items) == \A i, j \in DOMAIN items : i < j => items[i].off <= items[j].off
EndOf(e) == e.off + e.len
Within(e, u) == e.off <= u /\ u < EndOf(e)
Covered(items, u) == \E i \in DOMAIN items : Within(items[i], u)
LaidOut(d) ==
    LET Extents(Paths) == [off : Nat, len : Nat, path : Paths, from : Int]
        fatEnd == d.fatStart + NumFATs * At(d.fatSectors)
    IN  /\ d.meta \in Seq(Extents({0})) /\ Ascending(d.meta)
        /\ d.sources \in Seq(Extents(Source \cup {0})) /\ Ascending(d.sources)
        /\ d.saves \in Seq(Extents(Card)) /\ Ascending(d.saves)
        /\ d.kind = "wii" =>
              /\ d.saves = <<>> /\ ValidRanges(d)
              /\ {d.fatStart, d.fatSectors} \subseteq Nat /\ Aligned(d.fatStart)
              /\ \A i \in DOMAIN d.meta : Aligned(d.meta[i].off) /\ Aligned(d.meta[i].len)
              /\ \A i \in DOMAIN d.sources :
                    /\ Aligned(d.sources[i].off) \/ Covered(d.sources, d.sources[i].off - 1)
                    /\ \/ d.sources[i].off >= fatEnd
                       \/ EndOf(d.sources[i]) <= d.fatStart

Build(l) == IF l.kind = "wii" THEN WiiDisk(l.games) ELSE GameCubeDisk(l.size, l.files)

ASSUME DiskAssumption ==
    /\ CacheLimit \in Nat \ {0} /\ MaxChanges \in Nat
    /\ Reads \cup Writes \subseteq Nat \X (Nat \ {0})

\* No path is a file and the directory of another file.  makeTree would make two
\* nodes of it; mapFiles names images below the game's folder and copies trees.
ASSUME PathAssumption ==
    \A l \in DOMAIN Libraries : \A f \in Libraries[l].files :
        f.path \notin Dirs(Libraries[l].files)

ASSUME LayoutAssumption ==
    \A l \in DOMAIN Libraries :
        LET d == Build(Libraries[l])
        IN  d.ok => d.size \in Nat /\ d.kind = Libraries[l].kind /\ LaidOut(d)

VARIABLES
    library, disk,  \* which library was built, and the disk that Build made of it
    source,         \* version of the file at each path, or Gone
    cache,          \* open handles, most recently used first
    op,             \* the ReadAt that holds the lock
    card,           \* contents of the save objects
    written,        \* units that were written and acknowledged
    closed,
    raced,          \* paths that changed between a check and the open after it
    changes

vars == <<library, disk, source, cache, op, card, written, closed, raced, changes>>

Gone == -1
Idle == [phase |-> "idle", off |-> 0, len |-> 0, buf |-> <<>>, ok |-> TRUE]

Init ==
    /\ library \in DOMAIN Libraries /\ disk = Build(Libraries[library])
    /\ source = [p \in Source |-> 0] /\ cache = <<>> /\ op = Idle
    /\ card = [c \in Card |-> {}] /\ written = {}
    /\ closed = FALSE /\ raced = {} /\ changes = 0

-----------------------------------------------------------------------------
\* The lookups: the first extent that ends after the position, if it holds it.
NoExtent == Extent(-1, 0, 0, 0)
Find(items, u) ==
    LET I == {i \in DOMAIN items : EndOf(items[i]) > u}
    IN  IF I # {} /\ items[Least(I)].off <= u THEN items[Least(I)] ELSE NoExtent

InFat(d, u) == d.kind = "wii" /\ u >= d.fatStart
               /\ u < d.fatStart + NumFATs * At(d.fatSectors)

\* What ReadAt finds at a unit; a source range with path 0 is padding.
Region(d, u) ==
    CASE Find(d.saves, u) # NoExtent -> "save"
      [] Find(d.saves, u) = NoExtent /\ Find(d.meta, u) # NoExtent -> "meta"
      [] Find(d.saves, u) = NoExtent /\ Find(d.meta, u) = NoExtent /\ InFat(d, u) -> "fat"
      [] /\ Find(d.saves, u) = NoExtent /\ Find(d.meta, u) = NoExtent
         /\ ~InFat(d, u) /\ Find(d.sources, u).path # 0 -> "source"
      [] OTHER -> "zero"

CardOffset(e, u) == e.from + u - e.off

\* The value of a unit, read at the extent that was found for a position: of a
\* source in the given version, of a card as written or not.
ValueAt(d, position, u, version, wrote) ==
    LET r == Region(d, position)
        save == Find(d.saves, position)
        meta == Find(d.meta, position)
        src == Find(d.sources, position)
    IN  CASE r = "save" -> CardUnit(save.path, CardOffset(save, u), wrote)
          [] r = "meta" -> d.store[meta.from + u - meta.off + 1]
          [] r = "fat" -> <<"fat", FatValue(d.counts, (u - d.fatStart) % At(d.fatSectors)), 0, 0>>
          [] r = "source" -> SourceUnit(src.path, version, src.from + u - src.off)
          [] r = "zero" -> Zero

\* Whether a card has a unit that is read at the extent of a position.
Wrote(d, position, u, cards) ==
    LET save == Find(d.saves, position)
    IN  IF CardOffset(save, u) \in cards[save.path] THEN 1 ELSE 0

\* The units that one round of ReadAt's loop serves: up to the end of what was
\* found, or of the sector where the Wii disk looks sector by sector.  A gap of the
\* GameCube disk reaches to the next extent.
SectorEnd(u) == (u \div SectorSize + 1) * SectorSize
GapEnd(d, u, end) ==
    Least({end} \cup {e.off : e \in {x \in Elements(d.meta) \cup Elements(d.sources)
                                        \cup Elements(d.saves) : x.off > u}})
SegmentEnd(d, u, end) ==
    LET r == Region(d, u)
        mapped == Find(d.sources, u)
    IN  CASE r = "save" -> AtMost(end, EndOf(Find(d.saves, u)))
          [] r = "meta" /\ d.kind # "wii" -> AtMost(end, EndOf(Find(d.meta, u)))
          [] r = "source" \/ (r = "zero" /\ d.kind = "wii" /\ mapped # NoExtent) ->
                AtMost(end, EndOf(mapped))
          [] r = "zero" /\ d.kind # "wii" -> GapEnd(d, u, end)
          [] OTHER -> AtMost(end, SectorEnd(u))

Position == op.off + Len(op.buf)
End == op.off + op.len
Path == Find(disk.sources, Position).path
Round == SegmentEnd(disk, Position, End)

-----------------------------------------------------------------------------
\* ReadAt

Begin(off, len) ==
    /\ disk.ok /\ ~closed /\ op.phase = "idle"
    /\ off + len <= disk.size
    /\ op' = [Idle EXCEPT !.phase = "round", !.off = off, !.len = len]
    /\ UNCHANGED <<library, disk, source, cache, card, written, closed, raced, changes>>

Fail == op' = [op EXCEPT !.phase = "done", !.ok = FALSE]
Append1(units) == op' = [op EXCEPT !.phase = "round", !.buf = @ \o units]
FailAfter(units) == \E n \in 0 .. Round - Position - 1 :
    op' = [op EXCEPT !.phase = "done", !.ok = FALSE, !.buf = @ \o SubSeq(units, 1, n)]
Handles(p) == {i \in DOMAIN cache : cache[i].path = p}
Handle(p) == cache[Least(Handles(p))]
Dropped(p) == IF Handles(p) = {} THEN cache ELSE RemoveAt(cache, Least(Handles(p)))
Units(version) == [i \in 1 .. Round - Position |->
    LET u == Position + i - 1
    IN  ValueAt(disk, Position, u, version, Wrote(disk, Position, u, card))]

\* A round that needs no source: card, metadata or zeroes.  A read of the save
\* store can fail, after some units.
ServeStored ==
    /\ op.phase = "round" /\ Position < End
    /\ Region(disk, Position) # "source"
    /\ \/ Append1(Units(0))
       \/ Region(disk, Position) = "save" /\ FailAfter(Units(0))
    /\ UNCHANGED <<library, disk, source, cache, card, written, closed, raced, changes>>

\* Mutant: any file at the path will do.
VerifiesPresence(p) == source[p] # Gone

Verifies(p) == source[p] = 0

\* verifyIdentity: what is at the path now; on a mismatch its handle is dropped.
VerifySource ==
    /\ op.phase = "round" /\ Position < End /\ Region(disk, Position) = "source"
    /\ IF Verifies(Path) THEN op' = [op EXCEPT !.phase = "verified"] /\ UNCHANGED cache
       ELSE Fail /\ cache' = Dropped(Path)
    /\ UNCHANGED <<library, disk, source, card, written, closed, raced, changes>>

\* Mutant: the handle to be added is not counted.
EvictedLate == IF Len(cache) > CacheLimit THEN Front(cache) ELSE cache

\* Backend.open: a cached handle moves to the front; otherwise the oldest is
\* closed when the cache is full.  The close, and the open of a file that is there,
\* can fail as well.  The Wii disk caches none.
Evicted == IF Len(cache) >= CacheLimit THEN Front(cache) ELSE cache
OpenSource ==
    /\ op.phase = "verified"
    /\ IF Handles(Path) # {}
       THEN /\ cache' = <<Handle(Path)>> \o Dropped(Path)
            /\ op' = [op EXCEPT !.phase = "opened"]
       ELSE \/ /\ source[Path] # Gone
               /\ cache' = <<[path |-> Path, version |-> source[Path]]>> \o Evicted
               /\ op' = [op EXCEPT !.phase = "opened"]
            \/ Fail /\ cache' = Evicted
    /\ UNCHANGED <<library, disk, source, card, written, closed, raced, changes>>

\* readFullAt on the handle, whatever has happened to the path; on an error the
\* handle is dropped and the units read so far are returned with it.
ReadSource ==
    /\ op.phase = "opened"
    /\ LET units == Units(Handle(Path).version)
           left == IF disk.kind = "wii" THEN Dropped(Path) ELSE cache
       IN  \/ Append1(units) /\ cache' = left
           \/ FailAfter(units) /\ cache' = Dropped(Path)
    /\ UNCHANGED <<library, disk, source, card, written, closed, raced, changes>>

Return ==
    /\ \/ op.phase = "round" /\ Position = End
       \/ op.phase = "done"
    /\ op' = Idle
    /\ UNCHANGED <<library, disk, source, cache, card, written, closed, raced, changes>>

\* WriteAt, between reads, when WriteSaveAt takes the whole buffer.  What a write
\* leaves behind that the save store refuses or that fails in it is in SaveCard.
Writable(off, len) ==
    LET e == Find(disk.saves, off)
    IN  disk.saves # <<>> /\ e # NoExtent /\ len <= EndOf(e) - off

WriteAt(off, len) ==
    LET e == Find(disk.saves, off)
        into == CardOffset(e, off)
    IN  /\ disk.ok /\ ~closed /\ op.phase = "idle" /\ Writable(off, len)
        /\ card' = [card EXCEPT ![e.path] = @ \cup (into .. into + len - 1)]
        /\ written' = written \cup (off .. off + len - 1)
        /\ UNCHANGED <<library, disk, source, cache, op, closed, raced, changes>>

Close ==
    /\ disk.ok /\ ~closed /\ op.phase = "idle"
    /\ closed' = TRUE /\ cache' = <<>>
    /\ UNCHANGED <<library, disk, source, op, card, written, raced, changes>>

\* Someone replaces a source file, takes it away or puts it back.
Change(p, v) ==
    /\ changes < MaxChanges /\ source[p] # v
    /\ source' = [source EXCEPT ![p] = v] /\ changes' = changes + 1
    /\ raced' = IF op.phase = "verified" /\ Path = p THEN raced \cup {p} ELSE raced
    /\ UNCHANGED <<library, disk, cache, op, card, written, closed>>

Next ==
    \/ \E r \in Reads : Begin(r[1], r[2])
    \/ \E w \in Writes : WriteAt(w[1], w[2])
    \/ ServeStored \/ VerifySource \/ OpenSource \/ ReadSource \/ Return
    \/ Close
    \/ \E p \in Source, v \in {Gone, 0, 1} : Change(p, v)

Spec == Init /\ [][Next]_vars

-----------------------------------------------------------------------------
\* A unit as it should read: the recorded version of a source, and of a card what
\* was last written, whatever has been done to the files since.
Expected(u) == ValueAt(disk, u, u, 0, IF u \in written THEN 1 ELSE 0)

\* What ReadAt has put into the buffer is what the disk holds there, unit by
\* unit, however the range falls over extents, gaps and sectors, in whatever order
\* handles were cached, evicted and dropped, and although source files are
\* replaced, removed and restored at any time; the exception is a file that was
\* replaced in the moment between the check of its identity and its opening.
ReadsAreTrue ==
    \A i \in DOMAIN op.buf :
        \/ op.buf[i] = Expected(op.off + i - 1)
        \/ op.buf[i][1] = "source" /\ op.buf[i][2] \in raced

\* Open source handles never exceed the limit, are one for a path, and none
\* outlives the read (Wii) or the backend (GameCube).
HandlesBounded ==
    /\ Len(cache) <= CacheLimit
    /\ \A i, j \in DOMAIN cache : cache[i].path = cache[j].path => i = j
    /\ (closed \/ (disk.ok /\ disk.kind = "wii" /\ op.phase = "idle")) => cache = <<>>

\* What a driver reads that reads the whole disk now.
Contents ==
    [i \in 1 .. disk.size |-> LET u == i - 1 IN ValueAt(disk, u, u, 0, Wrote(disk, u, u, card))]
        \o <<>>

ReadsBack(l, R) ==
    /\ DriverAccounts(R)
    /\ \A f \in l.files :
          DriverReads(R, f.path,
              [i \in 1 .. f.size |->
                  IF f.card = 0 THEN SourceUnit(f.source, 0, f.from + i - 1)
                  ELSE CardUnit(f.card, i - 1, IF i - 1 \in card[f.card] THEN 1 ELSE 0)], 1)
    /\ \A g \in l.games : \A k \in 0 .. g.size \div MaxSegment :
          LET low == k * MaxSegment
              len == AtMost(MaxSegment, g.size - low)
              Part(o) == CHOOSE q \in g.parts : o \in q.off .. q.off + q.len - 1
              Unit(o) == SourceUnit(Part(o).path, 0, o - Part(o).off)
          IN  low < g.size => DriverReads(R, <<Wbfs, 10 * g.id + k>>,
                                          [i \in 1 .. len |-> Unit(low + i - 1)], 0)

\* A FAT driver that follows the directories and the chains on the disk finds
\* every file of the library with its size and its content, cards as they were last
\* written, in as many clusters as it needs; the two FATs agree, and the count of
\* free clusters is exact.  It reads between other reads, with the source files in
\* place.
VolumeReadsBack ==
    disk.ok /\ op = Idle /\ source = [p \in Source |-> 0] =>
        ReadsBack(Libraries[library], Contents)

=============================================================================
