----------------------------- MODULE FatVolume -----------------------------
(***************************************************************************)
(* The two synthesised FAT32 volumes: the GameCube library                 *)
(* (server/host-daemon/fat32virtual/layout.go, Build) and the Wii library  *)
(* (server/host-daemon/vdisk/vdisk.go, Build), as functions from a library *)
(* to a disk, and the reader that both must satisfy: a FAT driver that     *)
(* knows nothing but what it reads from the disk.                          *)
(*                                                                         *)
(* Data.  Offsets and lengths count units.  A unit is one FAT entry or one *)
(* directory entry, and a sector has SectorSize of them.  The value of a   *)
(* unit is a 4-tuple whose first element says what it is.  A name is a     *)
(* number, in the order of the lower-cased names; short names, checksums,  *)
(* hashes, labels and the fields of the boot sectors that do not say where *)
(* something is are left out.                                              *)
(***************************************************************************)
EXTENDS Integers, SequencesExt

CONSTANTS
    SectorSize,         \* units in a sector
    PartitionStart,     \* sectors before the partition
    Reserved,           \* reservedSectors
    ClusterSectors,     \* sectorsPerCluster of the GameCube volume
    WiiClusterSectors,  \* wiiSectorsPerCluster, ascending
    MinimumClusters,    \* FAT32 has at least so many
    MaxClusters,        \* maxFAT32DataClusters
    MaxSectors,         \* maxMBRPartitionSectors, MaxUint32
    MaxFile,            \* the largest FAT32 file
    MaxSegment,         \* maxSegment: where a Wii game is split
    LargeVolume,        \* largeWiiVolumeThreshold
    Slots               \* lfnSlots of each name

ASSUME VolumeAssumption ==
    /\ {SectorSize, ClusterSectors, MaxSegment, MinimumClusters} \subseteq Nat \ {0}
    /\ Reserved > 7 /\ PartitionStart > 0
    /\ MaxSegment <= MaxFile
    /\ WiiClusterSectors \in Seq(Nat \ {0}) /\ WiiClusterSectors # <<>>

NumFATs == 2
CeilDiv(a, b) == (a + b - 1) \div b
AtLeast(a, b) == IF a < b THEN b ELSE a
Least(S) == CHOOSE x \in S : \A y \in S : x <= y
Elements(s) == {s[i] : i \in DOMAIN s}
AtMost(a, b) == IF a < b THEN a ELSE b
SumTo(s, n) == LET sum[i \in 0 .. n] == IF i = 0 THEN 0 ELSE sum[i - 1] + s[i] IN sum[n]
Total(s) == SumTo(s, Len(s))

\* The elements of a set in a strict order, and the place of one.
Sorted(S, Less(_, _)) ==
    [i \in 1 .. Cardinality(S) |->
        CHOOSE x \in S : Cardinality({y \in S : Less(y, x)}) = i - 1] \o <<>>
IndexIn(s, x) == CHOOSE i \in DOMAIN s : s[i] = x

Zero == <<"zero", 0, 0, 0>>
Pad(s, n) == s \o [i \in 1 .. n - Len(s) |-> Zero]
Entry(name, first, size) == <<"entry", name, first, size>>
LongName(name) == <<"lfn", name, 0, 0>>
SourceUnit(path, version, off) == <<"source", path, version, off>>
CardUnit(object, off, value) == <<"card", object, off, value>>

\* Names in a directory that are not names of files.
Volume == -1
Dot == -2
DotDot == -3
Wbfs == -4

\* FAT entries.
Free == 0
Eoc == -1
Media == -2

-----------------------------------------------------------------------------
\* Clusters: chains of the given lengths, one after the other from cluster 2.

FirstOf(counts, i) == 2 + SumTo(counts, i - 1)
NextFree(counts) == 2 + Total(counts)

ChainOf(counts, c) ==
    LET I == {i \in DOMAIN counts : FirstOf(counts, i) + counts[i] > c}
    IN  IF c < 2 \/ I = {} THEN 0 ELSE Least(I)

\* Mutant: the end of a chain is written one cluster late.
FatValueLate(counts, c) ==
    LET i == ChainOf(counts, c)
    IN  CASE c = 0 -> Media
          [] c = 1 -> Eoc
          [] c > 1 /\ i = 0 -> Free
          [] c > 1 /\ i # 0 /\ c = FirstOf(counts, i) + counts[i] -> Eoc
          [] OTHER -> c + 1

FatValue(counts, c) ==
    LET i == ChainOf(counts, c)
    IN  CASE c = 0 -> Media
          [] c = 1 -> Eoc
          [] c > 1 /\ i = 0 -> Free
          [] c > 1 /\ i # 0 /\ c + 1 = FirstOf(counts, i) + counts[i] -> Eoc
          [] OTHER -> c + 1

FatUnits(counts, sectors) ==
    [u \in 1 .. sectors * SectorSize |-> <<"fat", FatValue(counts, u - 1), 0, 0>>]

FatSectors(clusters) == CeilDiv(clusters + 2, SectorSize)
FirstData(fatSectors) == Reserved + NumFATs * fatSectors

Mbr(sectors) == Pad(<<<<"mbr", PartitionStart, sectors, 0>>>>, SectorSize)
Boot(spc, fatSectors, root) == Pad(<<<<"boot", spc, fatSectors, root>>>>, SectorSize)
FsInfo(free, next) == Pad(<<<<"info", free, next, 0>>>>, SectorSize)

At(sector) == sector * SectorSize
Extent(off, len, path, from) == [off |-> off, len |-> len, path |-> path, from |-> from]
Rejected == [ok |-> FALSE]

-----------------------------------------------------------------------------
\* fat32virtual.Build.  A file is [path, size, source, from, sourceSize, card]:
\* card is the save object of a writable file, or 0.

Dirs(files) == UNION {{SubSeq(f.path, 1, n) : n \in 0 .. Len(f.path) - 1} : f \in files}

Before(p, q) ==
    \E k \in 0 .. AtMost(Len(p), Len(q)) :
        /\ SubSeq(p, 1, k) = SubSeq(q, 1, k)
        /\ k < Len(q) /\ (Len(p) = k \/ p[k + 1] < q[k + 1])

\* collectNodes: depth first, and children in the order of their names.
DirNodes(files) == Sorted(Dirs(files), Before)
FileNodes(files) == Sorted(files, LAMBDA f, g : Before(f.path, g.path))

Parent(p) == Front(p)
Children(files, d) == {p \in (Dirs(files) \ {<<>>}) \cup {f.path : f \in files} :
                            Parent(p) = d}

DirEntryCount(files, d) ==
    (IF d = <<>> THEN 1 ELSE 2)
        + LET children == Sorted(Children(files, d), Before)
          IN  Total([i \in DOMAIN children |-> Slots[Last(children[i])] + 1])

FileClusters(f) == AtLeast(CeilDiv(f.size, SectorSize * ClusterSectors), 1)
DirClusters(files, d) ==
    AtLeast(CeilDiv(DirEntryCount(files, d), SectorSize * ClusterSectors), 1)

\* The nodes in the order of allocation, and the clusters of each.
Plan(files) ==
    LET dirs == DirNodes(files)
        nodes == FileNodes(files)
    IN  [dirs |-> dirs, nodes |-> nodes,
         counts |-> [i \in DOMAIN dirs |-> DirClusters(files, dirs[i])]
                        \o [i \in DOMAIN nodes |-> FileClusters(nodes[i])]]

FirstOfDir(plan, d) == FirstOf(plan.counts, IndexIn(plan.dirs, d))
FirstOfFile(plan, f) == FirstOf(plan.counts, Len(plan.dirs) + IndexIn(plan.nodes, f))

\* buildDirectory
DirUnits(plan, files, d) ==
    LET head == IF d = <<>> THEN <<Entry(Volume, 0, 0)>>
                ELSE <<Entry(Dot, FirstOfDir(plan, d), 0),
                       Entry(DotDot, IF Parent(d) = <<>> THEN 0
                                     ELSE FirstOfDir(plan, Parent(d)), 0)>>
        children == Sorted(Children(files, d), Before)
        Short(p) == IF p \in Elements(plan.dirs) THEN Entry(Last(p), FirstOfDir(plan, p), 0)
                    ELSE LET f == CHOOSE x \in files : x.path = p
                         IN  Entry(Last(p), FirstOfFile(plan, f), f.size)
        Named(p) == [i \in 1 .. Slots[Last(p)] |-> LongName(Last(p))] \o <<Short(p)>>
    IN  Pad(head \o FlattenSeq([i \in DOMAIN children |-> Named(children[i])]),
            DirClusters(files, d) * ClusterSectors * SectorSize)

\* The clusters of the partition when the FAT is made for the given number.
Available(partition, clusters) ==
    (partition - FirstData(FatSectors(clusters))) \div ClusterSectors

\* validateRanges: every extent lies within the disk, no two of them overlap, and a
\* save object has one.
Apart(e, g) == e.off + e.len <= g.off \/ g.off + g.len <= e.off
ValidRanges(d) ==
    LET all == d.meta \o d.sources \o d.saves
    IN  /\ \A i \in DOMAIN all : all[i].off >= 0 /\ all[i].off + all[i].len <= d.size
        /\ \A i, j \in DOMAIN all : i # j => Apart(all[i], all[j])
        /\ \A i \in DOMAIN d.meta : d.meta[i].len > 0
        /\ \A i \in DOMAIN d.saves : d.saves[i].len > 0
        /\ \A i, j \in DOMAIN d.saves : d.saves[i].path = d.saves[j].path => i = j

\* The metadata, in the order in which it is stored; the second FAT is the
\* first one's stored copy.
MetadataBlocks(plan, files, sectors, fatSectors, free) ==
    LET counts == plan.counts
        data == At(PartitionStart + FirstData(fatSectors))
        boot == Boot(ClusterSectors, fatSectors, FirstOfDir(plan, <<>>))
        info == FsInfo(free, IF free = 0 THEN Eoc ELSE NextFree(counts))
        Block(off, units) == [off |-> off, units |-> units]
    IN  <<Block(0, Mbr(sectors)), Block(At(PartitionStart), boot),
          Block(At(PartitionStart + 6), boot), Block(At(PartitionStart + 1), info),
          Block(At(PartitionStart + 7), info),
          Block(At(PartitionStart + Reserved), FatUnits(counts, fatSectors))>>
        \o [i \in DOMAIN plan.dirs |->
              Block(data + (FirstOf(counts, i) - 2) * ClusterSectors * SectorSize,
                    DirUnits(plan, files, plan.dirs[i]))]

ByOffset(extents) == Sorted(extents, LAMBDA e, g : e.off < g.off)

GameCubeLayout(size, files) ==
    LET plan == Plan(files)
        counts == plan.counts
        allocated == Total(counts)
        partition == size \div SectorSize - PartitionStart
        first == Available(partition, AtLeast(allocated, MinimumClusters))
        fatSectors == FatSectors(first)
        clusters == Available(partition, first)
        data == At(PartitionStart + FirstData(fatSectors))
        OffsetOf(f) == data + (FirstOfFile(plan, f) - 2) * ClusterSectors * SectorSize
        blocks == MetadataBlocks(plan, files, partition, fatSectors, clusters - allocated)
        StoredAt(i) == Total([j \in 1 .. i - 1 |-> Len(blocks[j].units)])
        meta == {Extent(blocks[i].off, Len(blocks[i].units), 0, StoredAt(i)) :
                    i \in DOMAIN blocks}
                \cup {Extent(At(PartitionStart + Reserved + fatSectors),
                             At(fatSectors), 0, StoredAt(6))}
        sources == {Extent(OffsetOf(f), f.size, f.source, f.from) :
                        f \in {g \in files : g.card = 0}}
        saves == {Extent(OffsetOf(f), f.size, f.card, 0) :
                        f \in {g \in files : g.card # 0}}
    IN  IF \/ size <= At(PartitionStart + Reserved) \/ size % SectorSize # 0
           \/ files = {} \/ size \div SectorSize > MaxSectors
           \/ \E f, g \in files : f # g /\ f.path = g.path
           \/ \E f \in files : f.size > MaxFile
           \/ first < allocated \/ clusters < allocated
           \/ \E f \in files : f.card = 0 /\ f.from > f.sourceSize - f.size
        THEN Rejected
        ELSE [ok |-> TRUE, kind |-> "gamecube", size |-> size,
              meta |-> ByOffset(meta), sources |-> ByOffset(sources),
              saves |-> ByOffset(saves), counts |-> counts,
              store |-> FlattenSeq([i \in DOMAIN blocks |-> blocks[i].units])]

GameCubeDisk(size, files) ==
    LET d == GameCubeLayout(size, files)
    IN  IF d.ok /\ ~ValidRanges(d) THEN Rejected ELSE d

-----------------------------------------------------------------------------
\* vdisk.Build.  A game is [id, size, parts] and a part [path, off, len], the
\* part of the game that is a file of its own.

WiiSegments(g) ==
    [s \in 1 .. CeilDiv(g.size, MaxSegment) |->
        [game |-> g, name |-> 10 * g.id + s - 1, off |-> (s - 1) * MaxSegment,
         len |-> AtMost(MaxSegment, g.size - (s - 1) * MaxSegment)]]

WiiFiles(games) ==
    LET ordered == Sorted(games, LAMBDA g, h : g.id < h.id)
    IN  FlattenSeq([i \in DOMAIN ordered |-> WiiSegments(ordered[i])])

\* The clusters of the root, of /wbfs and of the files.
WiiCounts(files, spc) ==
    <<1, AtLeast(CeilDiv(2 + 2 * Len(files), spc * SectorSize), 1)>>
        \o [i \in DOMAIN files |-> CeilDiv(files[i].len, spc * SectorSize)]

WiiClusters(files, spc) == AtLeast(Total(WiiCounts(files, spc)) + 1, MinimumClusters)
WiiSectors(files, spc) ==
    FirstData(FatSectors(WiiClusters(files, spc))) + WiiClusters(files, spc) * spc

\* selectDiskGeometry: the smallest cluster that fits; a large library has the
\* largest cluster.
WiiCandidates(files) ==
    LET n == Len(WiiClusterSectors)
        large == Total([i \in DOMAIN files |-> files[i].len]) >= LargeVolume
    IN  {i \in (IF large THEN {n} ELSE 1 .. n) :
            /\ WiiClusters(files, WiiClusterSectors[i]) <= MaxClusters
            /\ WiiSectors(files, WiiClusterSectors[i]) <= MaxSectors
            /\ PartitionStart + WiiSectors(files, WiiClusterSectors[i]) <= MaxSectors + 1}

\* The extents of a file that starts at the given unit: one for each part of the
\* game it overlaps, and the padding of its last cluster.
WiiExtents(f, start, cluster) ==
    LET parts == {q \in f.game.parts : q.off < f.off + f.len /\ f.off < q.off + q.len}
        Low(q) == AtLeast(q.off, f.off)
        High(q) == AtMost(q.off + q.len, f.off + f.len)
    IN  {Extent(start + Low(q) - f.off, High(q) - Low(q), q.path, Low(q) - q.off) :
            q \in parts}
        \cup (IF f.len % cluster = 0 THEN {}
              ELSE {Extent(start + f.len, cluster - (f.len % cluster), 0, 0)})

WiiDirUnits(files, counts, cluster) ==
    LET names == [i \in DOMAIN files |-> <<LongName(files[i].name),
                    Entry(files[i].name, FirstOf(counts, i + 2), files[i].len)>>]
    IN  Pad(<<Entry(Dot, FirstOf(counts, 2), 0), Entry(DotDot, 0, 0)>> \o FlattenSeq(names),
            counts[2] * cluster)

WiiGap(g) == \E o \in 0 .. g.size - 1 : \A q \in g.parts : o \notin q.off .. q.off + q.len - 1

WiiDisk(games) ==
    LET files == WiiFiles(games)
        spc == WiiClusterSectors[Least(WiiCandidates(files))]
        cluster == spc * SectorSize
        counts == WiiCounts(files, spc)
        clusters == WiiClusters(files, spc)
        fatSectors == FatSectors(clusters)
        data == At(PartitionStart + FirstData(fatSectors))
        StartOf(i) == data + (FirstOf(counts, i) - 2) * cluster
        boot == Boot(spc, fatSectors, 2)
        info == FsInfo(clusters - Total(counts), NextFree(counts))
        root == Pad(<<Entry(Volume, 0, 0), Entry(Wbfs, FirstOf(counts, 2), 0)>>, cluster)
        Block(off, units) == [off |-> off, units |-> units]
        blocks == <<Block(0, Mbr(WiiSectors(files, spc))), Block(At(PartitionStart), boot),
                    Block(At(PartitionStart + 6), boot), Block(At(PartitionStart + 1), info),
                    Block(At(PartitionStart + 7), info), Block(data, root),
                    Block(StartOf(2), WiiDirUnits(files, counts, cluster))>>
        StoredAt(i) == Total([j \in 1 .. i - 1 |-> Len(blocks[j].units)])
    IN  IF WiiCandidates(files) = {} \/ \E g \in games : WiiGap(g)
        THEN Rejected
        ELSE [ok |-> TRUE, kind |-> "wii",
              size |-> At(PartitionStart + WiiSectors(files, spc)),
              meta |-> ByOffset({Extent(blocks[i].off, Len(blocks[i].units), 0, StoredAt(i)) :
                                    i \in DOMAIN blocks}),
              fatStart |-> At(PartitionStart + Reserved), fatSectors |-> fatSectors,
              sources |-> ByOffset(UNION {WiiExtents(files[i], StartOf(i + 2), cluster) :
                                            i \in DOMAIN files}),
              saves |-> <<>>, counts |-> counts,
              store |-> FlattenSeq([i \in DOMAIN blocks |-> blocks[i].units])]

-----------------------------------------------------------------------------
\* A FAT driver.  R is what the disk reads as, unit by unit.

DriverAt(R, u) == R[u + 1]
DriverBoot(R) == DriverAt(R, At(PartitionStart))
DriverClusterSize(R) == DriverBoot(R)[2] * SectorSize
DriverFat(R, copy, c) ==
    DriverAt(R, At(PartitionStart + Reserved + copy * DriverBoot(R)[3]) + c)[2]
DriverData(R) == At(PartitionStart + Reserved + NumFATs * DriverBoot(R)[3])
DriverClusters(R) == (DriverAt(R, 0)[3] - (Reserved + NumFATs * DriverBoot(R)[3])) \div DriverBoot(R)[2]

\* The clusters of a chain, in order; one that does not end within the volume
\* is not a chain.
DriverChain(R, first) ==
    LET step[k \in 0 .. DriverClusters(R)] ==
            IF k = 0 THEN first
            ELSE IF step[k - 1] > 1 THEN DriverFat(R, 0, step[k - 1]) ELSE step[k - 1]
        ends == {k \in DOMAIN step : step[k] = Eoc}
    IN  IF ends = {} THEN <<>> ELSE [k \in 1 .. Least(ends) |-> step[k - 1]] \o <<>>

DriverUnits(R, first) ==
    LET chain == DriverChain(R, first)
        size == DriverClusterSize(R)
    IN  [u \in 1 .. Len(chain) * size |->
            DriverAt(R, DriverData(R) + (chain[(u - 1) \div size + 1] - 2) * size
                            + ((u - 1) % size))] \o <<>>

\* The first entry of a name in a directory: its long name and its first cluster.
DriverFind(R, dir, name) ==
    LET units == DriverUnits(R, dir)
        I == {i \in DOMAIN units : units[i][1] = "entry" /\ units[i][2] = name}
    IN  IF I = {} THEN Zero ELSE units[Least(I)]

\* The entry that a path leads to.
DriverOpen(R, path) ==
    LET at[k \in 0 .. Len(path)] ==
            IF k = 0 THEN Entry(Volume, DriverBoot(R)[4], 0)
            ELSE DriverFind(R, at[k - 1][3], path[k])
    IN  at[Len(path)]

\* The file at path is content, in exactly as many clusters as it needs.
DriverReads(R, path, content, atLeast) ==
    LET e == DriverOpen(R, path)
        units == DriverUnits(R, e[3])
        size == DriverClusterSize(R)
    IN  /\ e[1] = "entry" /\ e[4] = Len(content)
        /\ Len(units) = AtLeast(CeilDiv(Len(content), size), atLeast) * size
        /\ \A i \in DOMAIN content : units[i] = content[i]

\* The two FATs agree and the free-space information is exact.
DriverAccounts(R) ==
    LET clusters == 2 .. DriverClusters(R) + 1
        free == {c \in clusters : DriverFat(R, 0, c) = Free}
        info == DriverAt(R, At(PartitionStart + 1))
    IN  /\ \A c \in clusters : DriverFat(R, 0, c) = DriverFat(R, 1, c)
        /\ info[2] = Cardinality(free)
        /\ free # {} => info[3] \in free

=============================================================================
