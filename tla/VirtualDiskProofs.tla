------------------------- MODULE VirtualDiskProofs -------------------------
(***************************************************************************)
(* Theorems about VirtualDisk, for every pair of disks that are laid out   *)
(* as LayoutAssumption says, every read and write, every limit of the      *)
(* handle cache and any number of changes of the source files.             *)
(***************************************************************************)
EXTENDS VirtualDisk, SequenceTheorems, WellFoundedInduction, TLAPS

-----------------------------------------------------------------------------
\* The lookups.

LEMMA LeastOfNaturals ==
    ASSUME NEW S \in SUBSET Nat, S # {}
    PROVE  Least(S) \in S /\ \A y \in S : Least(S) <= y
<1>1. PICK x \in S : \A y \in S : ~ (<<y, x>> \in OpToRel(<, Nat))
  <2> HIDE DEF OpToRel
  <2> QED
    BY NatLessThanWellFounded, WFMin
<1>2. \A y \in S : x <= y
  <2> SUFFICES ASSUME NEW y \in S PROVE x <= y
    OBVIOUS
  <2>1. ~ (y < x)
    BY <1>1, Zenon DEF OpToRel
  <2> QED
    BY <2>1
<1> QED
  BY <1>2 DEF Least

\* A list of extents that the binary search can be used on.
Listed(items) ==
    /\ \E n \in Nat : DOMAIN items = 1 .. n
    /\ \A i \in DOMAIN items : items[i].off \in Nat /\ items[i].len \in Nat
    /\ Ascending(items)
    /\ \A i, j \in DOMAIN items : i # j => Apart(items[i], items[j])

\* An extent is found for a position exactly if it is the one that holds it.
LEMMA Lookup ==
    ASSUME NEW items, Listed(items), NEW u \in Nat
    PROVE  /\ \A i \in DOMAIN items : Within(items[i], u) => Find(items, u) = items[i]
           /\ Find(items, u) # NoExtent =>
                 \E i \in DOMAIN items : Find(items, u) = items[i] /\ Within(items[i], u)
<1> DEFINE I == {i \in DOMAIN items : EndOf(items[i]) > u}
<1>1. PICK n \in Nat : DOMAIN items = 1 .. n
  BY DEF Listed
<1>2. I \in SUBSET Nat
  BY <1>1
<1>3. \A i \in DOMAIN items : items[i] # NoExtent
  BY DEF Listed, NoExtent, Extent
<1>4. Find(items, u) = IF I # {} /\ items[Least(I)].off <= u THEN items[Least(I)] ELSE NoExtent
  BY DEF Find
<1>5. I # {} => Least(I) \in I /\ \A y \in I : Least(I) <= y
  BY <1>2, LeastOfNaturals
<1> HIDE DEF I
<1>6. ASSUME NEW i \in DOMAIN items, Within(items[i], u) PROVE Find(items, u) = items[i]
  <2>1. i \in I
    BY <1>6 DEF I, Within
  <2>2. Least(I) \in I /\ Least(I) <= i
    BY <1>5, <2>1
  <2>3. Least(I) \in DOMAIN items /\ EndOf(items[Least(I)]) > u
    BY <2>2 DEF I
  <2>4. items[Least(I)].off <= items[i].off
    BY <1>1, <2>2, <2>3 DEF Listed, Ascending
  <2>5. items[Least(I)].off <= u
    BY <1>6, <2>3, <2>4 DEF Within, Listed
  <2>6. Least(I) = i
    <3> DEFINE e == items[Least(I)]  g == items[i]
    <3>1. e.off \in Nat /\ e.len \in Nat /\ g.off \in Nat /\ g.len \in Nat
      BY <2>3 DEF Listed
    <3>2. e.off <= u /\ u < e.off + e.len /\ g.off <= u /\ u < g.off + g.len
      BY <1>6, <2>3, <2>5, <3>1 DEF Within, EndOf
    <3> HIDE DEF e, g
    <3>3. ~Apart(e, g)
      BY <3>1, <3>2 DEF Apart
    <3> USE DEF e, g
    <3>4. QED
      BY <2>3, <3>3 DEF Listed
  <2>7. QED
    BY <1>4, <2>1, <2>5, <2>6
<1>7. ASSUME Find(items, u) # NoExtent
      PROVE  \E i \in DOMAIN items : Find(items, u) = items[i] /\ Within(items[i], u)
  <2>1. I # {} /\ items[Least(I)].off <= u /\ Find(items, u) = items[Least(I)]
    BY <1>4, <1>7
  <2>2. Least(I) \in DOMAIN items /\ EndOf(items[Least(I)]) > u
    BY <1>5, <2>1 DEF I
  <2>3. QED
    BY <2>1, <2>2 DEF Within, Listed, EndOf
<1>8. QED
  BY <1>6, <1>7

\* What holds a position holds the later ones up to its end.
LEMMA FoundAgain ==
    ASSUME NEW items, Listed(items), NEW u \in Nat, NEW v \in Nat, u <= v,
           Find(items, u) # NoExtent, v < EndOf(Find(items, u))
    PROVE  Find(items, v) = Find(items, u) /\ u < EndOf(Find(items, u))
<1>1. PICK i \in DOMAIN items : Find(items, u) = items[i] /\ Within(items[i], u)
  BY Lookup
<1>2. Within(items[i], v)
  BY <1>1 DEF Within, Listed
<1>3. QED
  BY <1>1, <1>2, Lookup DEF Within

\* What holds a position and starts no later than an earlier one holds that, too.
LEMMA FoundBefore ==
    ASSUME NEW items, Listed(items), NEW u \in Nat, NEW v \in Nat, u <= v,
           \A i \in DOMAIN items : items[i].off <= v => items[i].off <= u
    PROVE  Find(items, v) \in {NoExtent, Find(items, u)}
<1>1. SUFFICES ASSUME Find(items, v) # NoExtent PROVE Find(items, v) = Find(items, u)
  OBVIOUS
<1>2. PICK i \in DOMAIN items : Find(items, v) = items[i] /\ Within(items[i], v)
  BY <1>1, Lookup
<1>3. Within(items[i], u)
  BY <1>2 DEF Within, Listed, EndOf
<1>4. QED
  BY <1>2, <1>3, Lookup

\* Two lists without a common unit.
ApartLists(s, t) == \A i \in DOMAIN s, j \in DOMAIN t : Apart(s[i], t[j])
LEMMA FoundOnce ==
    ASSUME NEW s, NEW t, Listed(s), Listed(t), ApartLists(s, t) \/ ApartLists(t, s),
           NEW u \in Nat, Find(s, u) # NoExtent
    PROVE  Find(t, u) = NoExtent
<1>1. PICK i \in DOMAIN s : Within(s[i], u)
  BY Lookup
<1>2. SUFFICES ASSUME Find(t, u) # NoExtent PROVE FALSE
  OBVIOUS
<1>3. PICK j \in DOMAIN t : Within(t[j], u)
  BY <1>2, Lookup
<1>4. Apart(s[i], t[j]) \/ Apart(t[j], s[i])
  BY <1>1, <1>3 DEF ApartLists
<1>5. QED
  BY <1>1, <1>3, <1>4 DEF Apart, Within, EndOf, Listed

-----------------------------------------------------------------------------
\* The layout of a disk.

Laid(d) ==
    /\ Listed(d.meta) /\ Listed(d.sources) /\ Listed(d.saves)
    /\ ApartLists(d.saves, d.meta) /\ ApartLists(d.saves, d.sources)
    /\ ApartLists(d.meta, d.sources)

LEMMA BuiltIsValid ==
    ASSUME NEW l, Build(l).ok
    PROVE  l.kind # "wii" => ValidRanges(Build(l))
<1> SUFFICES ASSUME l.kind # "wii" PROVE ValidRanges(Build(l))
  OBVIOUS
<1>1. Build(l) = GameCubeDisk(l.size, l.files)
  BY DEF Build
<1> DEFINE d == GameCubeLayout(l.size, l.files)
<1>2. GameCubeDisk(l.size, l.files) = IF d.ok /\ ~ValidRanges(d) THEN Rejected ELSE d
  BY DEF GameCubeDisk
<1>3. ~Rejected.ok
  BY DEF Rejected
<1> HIDE DEF d
<1>4. QED
  BY <1>1, <1>2, <1>3

\* The lists are parts of the list of all extents.
LEMMA ThreeLists ==
    ASSUME NEW S, NEW a \in Seq(S), NEW b \in Seq(S), NEW c \in Seq(S),
           \A i, j \in DOMAIN (a \o b \o c) :
               i # j => Apart((a \o b \o c)[i], (a \o b \o c)[j])
    PROVE  /\ \A i, j \in DOMAIN a : i # j => Apart(a[i], a[j])
           /\ \A i, j \in DOMAIN b : i # j => Apart(b[i], b[j])
           /\ \A i, j \in DOMAIN c : i # j => Apart(c[i], c[j])
           /\ ApartLists(c, a) /\ ApartLists(c, b) /\ ApartLists(a, b)
<1> DEFINE all == a \o b \o c
<1>1. /\ Len(a) \in Nat /\ Len(b) \in Nat /\ Len(c) \in Nat
      /\ DOMAIN a = 1 .. Len(a) /\ DOMAIN b = 1 .. Len(b) /\ DOMAIN c = 1 .. Len(c)
      /\ DOMAIN all = 1 .. Len(a) + Len(b) + Len(c)
      /\ \A i \in DOMAIN a : all[i] = a[i]
      /\ \A i \in DOMAIN b : all[Len(a) + i] = b[i]
      /\ \A i \in DOMAIN c : all[Len(a) + Len(b) + i] = c[i]
  OBVIOUS
<1>2. \A i, j \in DOMAIN all : i # j => Apart(all[i], all[j])
  OBVIOUS
<1> HIDE DEF all
<1>3. /\ \A i, j \in DOMAIN a : i # j => Apart(a[i], a[j])
      /\ ApartLists(a, b)
  <2>1. \A i \in DOMAIN a : i \in DOMAIN all /\ all[i] = a[i]
    BY <1>1
  <2>2. \A j \in DOMAIN b : Len(a) + j \in DOMAIN all /\ all[Len(a) + j] = b[j]
    BY <1>1
  <2>3. \A i \in DOMAIN a, j \in DOMAIN b : i # Len(a) + j
    BY <1>1
  <2>4. QED
    BY <1>2, <2>1, <2>2, <2>3 DEF ApartLists
<1>4. \A i, j \in DOMAIN b : i # j => Apart(b[i], b[j])
  <2> SUFFICES ASSUME NEW i \in DOMAIN b, NEW j \in DOMAIN b, i # j PROVE Apart(b[i], b[j])
    OBVIOUS
  <2>1. Len(a) + i \in DOMAIN all /\ Len(a) + j \in DOMAIN all /\ Len(a) + i # Len(a) + j
    BY <1>1
  <2>2. QED
    BY <1>1, <1>2, <2>1
<1>5. \A i, j \in DOMAIN c : i # j => Apart(c[i], c[j])
  <2> SUFFICES ASSUME NEW i \in DOMAIN c, NEW j \in DOMAIN c, i # j PROVE Apart(c[i], c[j])
    OBVIOUS
  <2> DEFINE n == Len(a) + Len(b)
  <2>1. n + i \in DOMAIN all /\ n + j \in DOMAIN all /\ n + i # n + j
    BY <1>1
  <2>2. QED
    BY <1>1, <1>2, <2>1
<1>6. ApartLists(c, a) /\ ApartLists(c, b)
  <2> SUFFICES ASSUME NEW i \in DOMAIN c
               PROVE  /\ \A j \in DOMAIN a : Apart(c[i], a[j])
                      /\ \A j \in DOMAIN b : Apart(c[i], b[j])
    BY DEF ApartLists
  <2> DEFINE n == Len(a) + Len(b)
  <2>1. n + i \in DOMAIN all /\ all[n + i] = c[i]
    BY <1>1
  <2>2. \A j \in DOMAIN a : j \in DOMAIN all /\ n + i # j /\ all[j] = a[j]
    BY <1>1
  <2>3. \A j \in DOMAIN b : /\ Len(a) + j \in DOMAIN all /\ n + i # Len(a) + j
                            /\ all[Len(a) + j] = b[j]
    BY <1>1
  <2>4. QED
    BY <1>2, <2>1, <2>2, <2>3
<1>7. QED
  BY <1>3, <1>4, <1>5, <1>6

LEMMA BuiltIsLaid ==
    ASSUME NEW l \in DOMAIN Libraries, NEW d, d = Build(Libraries[l]), d.ok
    PROVE  d.size \in Nat /\ LaidOut(d) /\ ValidRanges(d) /\ Laid(d)
<1>1. d.size \in Nat /\ LaidOut(d)
  BY LayoutAssumption
<1>2. ValidRanges(d)
  BY <1>1, BuiltIsValid, LayoutAssumption DEF LaidOut
<1> DEFINE Entries == [off : Nat, len : Nat, path : Source \cup Card \cup {0}, from : Int]
<1>3. d.meta \in Seq(Entries) /\ d.sources \in Seq(Entries) /\ d.saves \in Seq(Entries)
  <2>1. /\ d.meta \in Seq([off : Nat, len : Nat, path : {0}, from : Int])
        /\ d.sources \in Seq([off : Nat, len : Nat, path : Source \cup {0}, from : Int])
        /\ d.saves \in Seq([off : Nat, len : Nat, path : Card, from : Int])
    BY <1>1 DEF LaidOut
  <2>2. /\ [off : Nat, len : Nat, path : {0}, from : Int] \subseteq Entries
        /\ [off : Nat, len : Nat, path : Source \cup {0}, from : Int] \subseteq Entries
        /\ [off : Nat, len : Nat, path : Card, from : Int] \subseteq Entries
    OBVIOUS
  <2> HIDE DEF Entries
  <2>3. QED
    BY <2>1, <2>2, SeqMonotonic
<1>t. \A e \in Entries : e.off \in Nat /\ e.len \in Nat
  OBVIOUS
<1> HIDE DEF Entries
<1>4. ASSUME NEW items \in Seq(Entries)
      PROVE  /\ \E n \in Nat : DOMAIN items = 1 .. n
             /\ \A i \in DOMAIN items : items[i].off \in Nat /\ items[i].len \in Nat
  BY <1>4, <1>t
<1>5. QED
  <2>1. /\ Ascending(d.meta) /\ Ascending(d.sources) /\ Ascending(d.saves)
    BY <1>1 DEF LaidOut
  <2>2. \A i, j \in DOMAIN (d.meta \o d.sources \o d.saves) : i # j =>
            Apart((d.meta \o d.sources \o d.saves)[i], (d.meta \o d.sources \o d.saves)[j])
    BY <1>2 DEF ValidRanges
  <2>3. /\ \A i, j \in DOMAIN d.meta : i # j => Apart(d.meta[i], d.meta[j])
        /\ \A i, j \in DOMAIN d.sources : i # j => Apart(d.sources[i], d.sources[j])
        /\ \A i, j \in DOMAIN d.saves : i # j => Apart(d.saves[i], d.saves[j])
        /\ ApartLists(d.saves, d.meta) /\ ApartLists(d.saves, d.sources)
        /\ ApartLists(d.meta, d.sources)
    BY <1>3, <2>2, ThreeLists
  <2>4. QED
    BY <1>1, <1>2, <1>3, <1>4, <2>1, <2>3 DEF Laid, Listed

-----------------------------------------------------------------------------
\* Sectors.

LEMMA Sectors ==
    ASSUME NEW u \in Nat
    PROVE  /\ u \div SectorSize \in Nat /\ u % SectorSize \in 0 .. SectorSize - 1
           /\ u = SectorSize * (u \div SectorSize) + (u % SectorSize)
           /\ SectorEnd(u) \in Nat /\ u < SectorEnd(u)
<1>1. SectorSize \in Nat \ {0}
  BY VolumeAssumption
<1> DEFINE q == u \div SectorSize  r == u % SectorSize
<1>2. q \in Nat /\ r \in 0 .. SectorSize - 1 /\ u = SectorSize * q + r
  BY <1>1
<1> HIDE DEF q, r
<1>3. (q + 1) * SectorSize \in Nat /\ u < (q + 1) * SectorSize
  BY <1>1, <1>2
<1>4. QED
  BY <1>2, <1>3 DEF SectorEnd, q, r

\* A boundary of sectors lies not within one.
LEMMA NoBoundary ==
    ASSUME NEW b \in Nat, Aligned(b), NEW u \in Nat, u < b
    PROVE  SectorEnd(u) <= b
<1> DEFINE q == u \div SectorSize  k == b \div SectorSize
<1>1. SectorSize \in Nat \ {0}
  BY VolumeAssumption
<1>2. /\ q \in Nat /\ k \in Nat /\ b = SectorSize * k /\ SectorSize * q <= u
  BY <1>1, Sectors DEF Aligned
<1> HIDE DEF q, k
<1>3. q + 1 <= k
  <2>1. SUFFICES ASSUME k <= q PROVE FALSE
    BY <1>2
  <2>2. SectorSize * k <= SectorSize * q
    BY <1>1, <1>2, <2>1
  <2>3. QED
    BY <1>2, <2>2, <1>1
<1>4. SectorSize * (q + 1) <= SectorSize * k
  BY <1>1, <1>2, <1>3
<1>5. QED
  BY <1>1, <1>2, <1>4 DEF SectorEnd, q

LEMMA AlignedSum ==
    ASSUME NEW a \in Nat, NEW b \in Nat, Aligned(a), Aligned(b)
    PROVE  Aligned(a + b)
<1> DEFINE p == a \div SectorSize  q == b \div SectorSize
<1>1. SectorSize \in Nat \ {0}
  BY VolumeAssumption
<1>2. p \in Nat /\ q \in Nat /\ a = SectorSize * p /\ b = SectorSize * q
  BY <1>1, Sectors DEF Aligned
<1> HIDE DEF p, q
<1>3. a + b = SectorSize * (p + q)
  BY <1>1, <1>2
<1>4. (SectorSize * (p + q)) % SectorSize = 0
  BY <1>1, <1>2
<1>5. QED
  BY <1>3, <1>4 DEF Aligned

LEMMA FatIsAligned ==
    ASSUME NEW s \in Nat, NEW n \in Nat, Aligned(s)
    PROVE  /\ s + NumFATs * At(n) \in Nat /\ Aligned(s + NumFATs * At(n))
<1>1. SectorSize \in Nat \ {0}
  BY VolumeAssumption
<1>2. NumFATs * At(n) = SectorSize * (2 * n)
  BY <1>1 DEF NumFATs, At
<1>3. SectorSize * (2 * n) \in Nat /\ (SectorSize * (2 * n)) % SectorSize = 0
  BY <1>1
<1>4. QED
  BY <1>2, <1>3, AlignedSum DEF Aligned

-----------------------------------------------------------------------------
\* One round of a read.

LEMMA RegionIs ==
    ASSUME NEW d, NEW u
    PROVE  /\ Region(d, u) \in {"save", "meta", "fat", "source", "zero"}
           /\ Region(d, u) = "save" <=> Find(d.saves, u) # NoExtent
           /\ Region(d, u) = "meta" <=> Find(d.saves, u) = NoExtent /\ Find(d.meta, u) # NoExtent
           /\ Region(d, u) = "fat" <=> /\ Find(d.saves, u) = NoExtent
                                       /\ Find(d.meta, u) = NoExtent /\ InFat(d, u)
           /\ Region(d, u) = "source" <=> /\ Find(d.saves, u) = NoExtent
                                          /\ Find(d.meta, u) = NoExtent /\ ~InFat(d, u)
                                          /\ Find(d.sources, u).path # 0
<1> DEFINE s == Find(d.saves, u)  m == Find(d.meta, u)  f == InFat(d, u)
           x == Find(d.sources, u)
<1>1. Region(d, u) =
        CASE s # NoExtent -> "save"
          [] s = NoExtent /\ m # NoExtent -> "meta"
          [] s = NoExtent /\ m = NoExtent /\ f -> "fat"
          [] s = NoExtent /\ m = NoExtent /\ ~f /\ x.path # 0 -> "source"
          [] OTHER -> "zero"
  BY DEF Region
<1> HIDE DEF s, m, f, x
<1>2. CASE s # NoExtent
  BY <1>1, <1>2 DEF s, m, f, x
<1>3. CASE s = NoExtent /\ m # NoExtent
  BY <1>1, <1>3 DEF s, m, f, x
<1>4. CASE s = NoExtent /\ m = NoExtent /\ f
  BY <1>1, <1>4 DEF s, m, f, x
<1>5. CASE s = NoExtent /\ m = NoExtent /\ ~f /\ x.path # 0
  BY <1>1, <1>5 DEF s, m, f, x
<1>6. CASE s = NoExtent /\ m = NoExtent /\ ~f /\ x.path = 0
  BY <1>1, <1>6 DEF s, m, f, x
<1>7. QED
  BY <1>2, <1>3, <1>4, <1>5, <1>6

\* How far a round reaches.
LEMMA SegmentIs ==
    ASSUME NEW d, NEW u, NEW end
    PROVE  LET r == Region(d, u)
               e == SegmentEnd(d, u, end)
           IN  \/ r = "save" /\ e = AtMost(end, EndOf(Find(d.saves, u)))
               \/ r = "meta" /\ d.kind # "wii" /\ e = AtMost(end, EndOf(Find(d.meta, u)))
               \/ /\ r = "source" \/ (r = "zero" /\ d.kind = "wii" /\ Find(d.sources, u) # NoExtent)
                  /\ e = AtMost(end, EndOf(Find(d.sources, u)))
               \/ r = "zero" /\ d.kind # "wii" /\ e = GapEnd(d, u, end)
               \/ /\ \/ r = "zero" /\ d.kind = "wii" /\ Find(d.sources, u) = NoExtent
                     \/ r = "meta" /\ d.kind = "wii"
                     \/ r = "fat"
                  /\ e = AtMost(end, SectorEnd(u))
<1> DEFINE r == Region(d, u)  w == d.kind = "wii"  x == Find(d.sources, u)
<1>1. SegmentEnd(d, u, end) =
        CASE r = "save" -> AtMost(end, EndOf(Find(d.saves, u)))
          [] r = "meta" /\ ~w -> AtMost(end, EndOf(Find(d.meta, u)))
          [] r = "source" \/ (r = "zero" /\ w /\ x # NoExtent) -> AtMost(end, EndOf(x))
          [] r = "zero" /\ ~w -> GapEnd(d, u, end)
          [] OTHER -> AtMost(end, SectorEnd(u))
  BY DEF SegmentEnd
<1>2. r \in {"save", "meta", "fat", "source", "zero"}
  BY RegionIs
<1>3. CASE r = "save"
  BY <1>1, <1>3
<1>4. CASE r = "meta"
  BY <1>1, <1>4
<1>5. CASE r = "fat"
  BY <1>1, <1>5
<1>6. CASE r = "source"
  BY <1>1, <1>6
<1>7. CASE r = "zero"
  BY <1>1, <1>7
<1>8. QED
  BY <1>2, <1>3, <1>4, <1>5, <1>6, <1>7

\* A gap reaches to the next extent.
LEMMA GapReaches ==
    ASSUME NEW d, Laid(d), NEW u \in Nat, NEW end \in Nat, u < end
    PROVE  /\ GapEnd(d, u, end) \in u + 1 .. end
           /\ \A items \in {d.meta, d.sources, d.saves} : \A i \in DOMAIN items :
                 items[i].off > u => GapEnd(d, u, end) <= items[i].off
<1> DEFINE All == Elements(d.meta) \cup Elements(d.sources) \cup Elements(d.saves)
           Offs == {end} \cup {e.off : e \in {x \in All : x.off > u}}
<1>1. \A e \in All : e.off \in Nat
  BY DEF Laid, Listed, Elements
<1>2. \A items \in {d.meta, d.sources, d.saves} : \A i \in DOMAIN items : items[i] \in All
  BY DEF Elements
<1>3. Offs \in SUBSET Nat /\ Offs # {} /\ end \in Offs
  BY <1>1
<1>4. GapEnd(d, u, end) = Least(Offs)
  BY DEF GapEnd
<1> HIDE DEF All
<1>5. \A o \in Offs : o > u /\ o \in Nat
  BY <1>1
<1>6. \A items \in {d.meta, d.sources, d.saves} : \A i \in DOMAIN items :
          items[i].off > u => items[i].off \in Offs
  BY <1>2
<1> HIDE DEF Offs
<1>7. Least(Offs) \in Offs /\ \A y \in Offs : Least(Offs) <= y
  BY <1>3, LeastOfNaturals
<1>8. GapEnd(d, u, end) \in Nat /\ u < GapEnd(d, u, end) /\ GapEnd(d, u, end) <= end
  BY <1>3, <1>4, <1>5, <1>7
<1>9. \A items \in {d.meta, d.sources, d.saves} : \A i \in DOMAIN items :
          items[i].off > u => GapEnd(d, u, end) <= items[i].off
  BY <1>4, <1>6, <1>7
<1>10. QED
  BY <1>8, <1>9

\* A round serves at least one unit, and none beyond the end of the read.
LEMMA RoundGrows ==
    ASSUME NEW d, Laid(d), NEW u \in Nat, NEW end \in Nat, u < end
    PROVE  SegmentEnd(d, u, end) \in u + 1 .. end
<1>1. ASSUME NEW items, Listed(items), Find(items, u) # NoExtent
      PROVE  EndOf(Find(items, u)) \in Nat /\ u < EndOf(Find(items, u))
  <2>1. PICK i \in DOMAIN items : Find(items, u) = items[i] /\ Within(items[i], u)
    BY <1>1, Lookup
  <2>2. QED
    BY <1>1, <2>1 DEF Within, EndOf, Listed
<1>2. \A n \in Nat : u < n => AtMost(end, n) \in u + 1 .. end
  BY DEF AtMost
<1>3. Listed(d.saves) /\ Listed(d.meta) /\ Listed(d.sources)
  BY DEF Laid
<1>4. SectorEnd(u) \in Nat /\ u < SectorEnd(u)
  BY Sectors
<1>5. Region(d, u) = "source" => Find(d.sources, u) # NoExtent
  BY RegionIs DEF NoExtent, Extent
<1>6. GapEnd(d, u, end) \in u + 1 .. end
  BY GapReaches
<1>7. QED
  BY <1>1, <1>2, <1>3, <1>4, <1>5, <1>6, RegionIs, SegmentIs

\* A gap of the Wii disk reaches at least to the end of its sector.
LEMMA GapFillsSector ==
    ASSUME NEW items, Listed(items), NEW u \in Nat, NEW v \in Nat, u <= v, v < SectorEnd(u),
           \A i \in DOMAIN items :
               Aligned(items[i].off) \/ Covered(items, items[i].off - 1),
           Find(items, u) = NoExtent
    PROVE  Find(items, v) = NoExtent
<1> SUFFICES ASSUME Find(items, v) # NoExtent PROVE FALSE
  OBVIOUS
<1>1. PICK k \in DOMAIN items : Within(items[k], v)
  BY Lookup
<1>2. PICK n \in Nat : DOMAIN items = 1 .. n
  BY DEF Listed
<1>3. \A i \in DOMAIN items : items[i].off \in Nat /\ items[i].len \in Nat /\ items[i] # NoExtent
  BY DEF Listed, NoExtent, Extent
<1> DEFINE J == {i \in DOMAIN items : EndOf(items[i]) > u}  m == Least(J)
<1>4. k \in J /\ J \in SUBSET Nat
  BY <1>1, <1>2, <1>3 DEF Within, EndOf
<1>5. m \in J /\ \A j \in J : m <= j
  BY <1>4, LeastOfNaturals
<1>6. ~(items[m].off <= u)
  <2>1. Find(items, u) = IF J # {} /\ items[m].off <= u THEN items[m] ELSE NoExtent
    BY DEF Find
  <2>2. m \in DOMAIN items
    BY <1>5
  <2> HIDE DEF J, m
  <2>3. QED
    BY <1>3, <1>4, <2>1, <2>2
<1>7. m \in DOMAIN items /\ \A j \in DOMAIN items : EndOf(items[j]) > u => m <= j
  BY <1>5
<1>8. k \in DOMAIN items /\ m <= k
  BY <1>4, <1>5
<1> HIDE DEF J, m
<1>9. items[m].off <= items[k].off
  BY <1>2, <1>3, <1>7, <1>8 DEF Listed, Ascending
<1> DEFINE b == items[m].off
<1>10. b \in Nat /\ u < b /\ b <= v
  BY <1>1, <1>3, <1>6, <1>7, <1>9 DEF Within
<1>11. ~Aligned(b)
  <2>1. SectorEnd(u) \in Nat
    BY Sectors
  <2> HIDE DEF b
  <2>2. QED
    BY <1>10, <2>1, NoBoundary
<1>12. PICK j \in DOMAIN items : Within(items[j], b - 1)
  BY <1>7, <1>11 DEF Covered
<1>13. EndOf(items[j]) > u /\ items[j].off < b
  BY <1>3, <1>10, <1>12 DEF Within, EndOf
<1>14. m <= j /\ m # j
  BY <1>7, <1>10, <1>13
<1>15. b <= items[j].off
  BY <1>2, <1>7, <1>14 DEF Listed, Ascending
<1>16. QED
  BY <1>3, <1>10, <1>13, <1>15

\* What the first unit of a round is, the others are too.
LEMMA SameExtent ==
    ASSUME NEW d, Laid(d), LaidOut(d), NEW u \in Nat, NEW end \in Nat, u < end,
           NEW v \in u .. SegmentEnd(d, u, end) - 1
    PROVE  /\ Region(d, v) = Region(d, u)
           /\ Region(d, u) = "save" => Find(d.saves, v) = Find(d.saves, u)
           /\ Region(d, u) = "meta" => Find(d.meta, v) = Find(d.meta, u)
           /\ Region(d, u) = "source" => Find(d.sources, v) = Find(d.sources, u)
<1> DEFINE e == SegmentEnd(d, u, end)
<1>1. e \in Nat /\ v \in Nat /\ u <= v /\ v < e
  BY RoundGrows
<1>2. Listed(d.saves) /\ Listed(d.meta) /\ Listed(d.sources)
  BY DEF Laid
<1>3. NoExtent.path = 0
  BY DEF NoExtent, Extent
<1>4. d.kind # "wii" => ~InFat(d, u) /\ ~InFat(d, v)
  BY DEF InFat
<1>5. ASSUME NEW items, Listed(items), Find(items, u) # NoExtent,
             e = AtMost(end, EndOf(Find(items, u)))
      PROVE  Find(items, v) = Find(items, u)
  <2>1. EndOf(Find(items, u)) \in Nat
    <3>1. PICK i \in DOMAIN items : Find(items, u) = items[i]
      BY <1>5, Lookup
    <3>2. QED
      BY <1>5, <3>1 DEF EndOf, Listed
  <2>2. v < EndOf(Find(items, u))
    BY <1>1, <1>5, <2>1 DEF AtMost
  <2>3. QED
    BY <1>1, <1>5, <2>2, FoundAgain
<1>6. /\ Find(d.meta, v) # NoExtent => Find(d.saves, v) = NoExtent
      /\ Find(d.sources, v) # NoExtent => Find(d.saves, v) = NoExtent /\ Find(d.meta, v) = NoExtent
  BY <1>1, <1>2, FoundOnce DEF Laid
<1>7. CASE Region(d, u) = "save"
  <2>1. Find(d.saves, v) = Find(d.saves, u)
    BY <1>2, <1>5, <1>7, RegionIs, SegmentIs
  <2>2. QED
    BY <1>7, <2>1, RegionIs
<1>8. CASE Region(d, u) = "meta" /\ d.kind # "wii"
  <2>1. Find(d.meta, v) = Find(d.meta, u) /\ Find(d.meta, v) # NoExtent
    BY <1>2, <1>5, <1>8, RegionIs, SegmentIs
  <2>2. QED
    BY <1>6, <1>8, <2>1, RegionIs
<1>9. CASE \/ Region(d, u) = "source"
           \/ Region(d, u) = "zero" /\ d.kind = "wii" /\ Find(d.sources, u) # NoExtent
  <2>1. Find(d.sources, u) # NoExtent
    BY <1>3, <1>9, RegionIs
  <2>2. Find(d.sources, v) = Find(d.sources, u)
    BY <1>2, <1>5, <1>9, <2>1, SegmentIs
  <2>3. ~InFat(d, v)
    <3>1. CASE d.kind # "wii"
      BY <1>4, <3>1
    <3>2. CASE d.kind = "wii"
      <4>1. PICK i \in DOMAIN d.sources : Within(d.sources[i], v)
        BY <1>1, <1>2, <2>1, <2>2, Lookup
      <4>2. /\ d.fatStart \in Nat /\ d.fatSectors \in Nat /\ Aligned(d.fatStart)
            /\ \/ d.sources[i].off >= d.fatStart + NumFATs * At(d.fatSectors)
               \/ EndOf(d.sources[i]) <= d.fatStart
        BY <3>2 DEF LaidOut
      <4>3. d.fatStart + NumFATs * At(d.fatSectors) \in Nat
        BY <4>2, FatIsAligned
      <4>4. d.sources[i].off \in Nat /\ d.sources[i].len \in Nat
        BY <1>2 DEF Listed
      <4>5. QED
        BY <1>1, <4>1, <4>2, <4>3, <4>4 DEF Within, InFat, EndOf
    <3>3. QED
      BY <3>1, <3>2
  <2>4. QED
    BY <1>6, <1>9, <2>1, <2>2, <2>3, RegionIs
<1>10. CASE Region(d, u) = "zero" /\ d.kind # "wii"
  <2>1. e = GapEnd(d, u, end)
    BY <1>10, SegmentIs
  <2>2. \A items \in {d.meta, d.sources, d.saves} : \A i \in DOMAIN items :
            items[i].off <= v => items[i].off <= u
    <3>t. \A items \in {d.meta, d.sources, d.saves} : \A i \in DOMAIN items :
              items[i].off \in Nat
      BY <1>2 DEF Listed
    <3> SUFFICES ASSUME NEW items \in {d.meta, d.sources, d.saves}, NEW i \in DOMAIN items,
                        items[i].off > u
                 PROVE  items[i].off > v
      BY <1>1, <3>t
    <3>1. e <= items[i].off
      BY <2>1, GapReaches
    <3>2. items[i].off \in Nat
      BY <1>2 DEF Listed
    <3> HIDE DEF e
    <3>3. QED
      BY <1>1, <3>1, <3>2
  <2>3. /\ Find(d.saves, v) \in {NoExtent, Find(d.saves, u)}
        /\ Find(d.meta, v) \in {NoExtent, Find(d.meta, u)}
        /\ Find(d.sources, v) \in {NoExtent, Find(d.sources, u)}
    BY <1>1, <1>2, <2>2, FoundBefore
  <2>4. QED
    BY <1>3, <1>4, <1>10, <2>3, RegionIs
<1>11. CASE /\ d.kind = "wii"
            /\ \/ Region(d, u) \in {"meta", "fat"}
               \/ Region(d, u) = "zero" /\ Find(d.sources, u) = NoExtent
  <2>1. e = AtMost(end, SectorEnd(u))
    BY <1>11, SegmentIs
  <2>2. SectorEnd(u) \in Nat /\ v < SectorEnd(u)
    <3>1. SectorEnd(u) \in Nat
      BY Sectors
    <3>2. QED
      BY <1>1, <2>1, <3>1 DEF AtMost
  <2>3. /\ d.saves = <<>> /\ d.fatStart \in Nat /\ d.fatSectors \in Nat /\ Aligned(d.fatStart)
        /\ \A i \in DOMAIN d.meta : Aligned(d.meta[i].off) /\ Aligned(d.meta[i].len)
        /\ \A i \in DOMAIN d.sources :
              Aligned(d.sources[i].off) \/ Covered(d.sources, d.sources[i].off - 1)
    BY <1>11 DEF LaidOut
  <2>4. Find(d.saves, v) = NoExtent
    BY <1>1, <1>2, <2>3, Lookup
  <2>5. \A b \in Nat : Aligned(b) => (b <= u <=> b <= v)
    <3> SUFFICES ASSUME NEW b \in Nat, Aligned(b), u < b PROVE v < b
      BY <1>1
    <3>1. QED
      BY <1>1, <2>2, NoBoundary
  <2>6. Find(d.meta, v) = Find(d.meta, u)
    <3>1. CASE Find(d.meta, u) # NoExtent
      <4>1. PICK i \in DOMAIN d.meta : Find(d.meta, u) = d.meta[i] /\ Within(d.meta[i], u)
        BY <1>2, <3>1, Lookup
      <4>2. d.meta[i].off \in Nat /\ d.meta[i].len \in Nat
        BY <1>2 DEF Listed
      <4>3. EndOf(d.meta[i]) \in Nat /\ Aligned(EndOf(d.meta[i]))
        BY <2>3, <4>2, AlignedSum DEF EndOf
      <4>4. v < EndOf(d.meta[i])
        BY <1>1, <2>5, <4>1, <4>3 DEF Within
      <4>5. QED
        BY <1>1, <1>2, <3>1, <4>1, <4>4, FoundAgain
    <3>2. CASE Find(d.meta, u) = NoExtent
      <4>1. \A i \in DOMAIN d.meta : d.meta[i].off <= v => d.meta[i].off <= u
        BY <1>2, <2>3, <2>5 DEF Listed
      <4>2. QED
        BY <1>1, <1>2, <3>2, <4>1, FoundBefore
    <3>3. QED
      BY <3>1, <3>2
  <2>7. InFat(d, v) <=> InFat(d, u)
    <3> DEFINE f == d.fatStart + NumFATs * At(d.fatSectors)
    <3>1. f \in Nat /\ Aligned(f)
      BY <2>3, FatIsAligned
    <3>2. \A x \in Nat : InFat(d, x) <=> d.fatStart <= x /\ ~(f <= x)
      BY <1>11, <2>3, <3>1 DEF InFat
    <3> HIDE DEF f
    <3>3. QED
      BY <1>1, <2>3, <2>5, <3>1, <3>2
  <2>8. Region(d, u) = "zero" => Find(d.sources, v) = NoExtent
    BY <1>1, <1>2, <1>11, <2>2, <2>3, GapFillsSector
  <2>9. Find(d.saves, u) = NoExtent
    BY <1>2, <2>3, Lookup
  <2>10. QED
    BY <1>3, <1>11, <2>4, <2>6, <2>7, <2>8, <2>9, RegionIs
<1>12. Region(d, u) = "fat" => d.kind = "wii"
  BY <1>4, RegionIs
<1>13. QED
  BY <1>7, <1>8, <1>9, <1>10, <1>11, <1>12, RegionIs

\* So a round reads what the disk holds at each of its units.
LEMMA RoundIsTrue ==
    ASSUME NEW d, Laid(d), LaidOut(d), NEW u \in Nat, NEW end \in Nat, u < end,
           NEW v \in u .. SegmentEnd(d, u, end) - 1, NEW version, NEW wrote
    PROVE  ValueAt(d, u, v, version, wrote) = ValueAt(d, v, v, version, wrote)
<1>1. /\ Region(d, v) = Region(d, u)
      /\ Region(d, u) = "save" => Find(d.saves, v) = Find(d.saves, u)
      /\ Region(d, u) = "meta" => Find(d.meta, v) = Find(d.meta, u)
      /\ Region(d, u) = "source" => Find(d.sources, v) = Find(d.sources, u)
  BY SameExtent
<1>2. CASE Region(d, u) = "save"
  BY <1>1, <1>2 DEF ValueAt
<1>3. CASE Region(d, u) = "meta"
  BY <1>1, <1>3 DEF ValueAt
<1>4. CASE Region(d, u) = "fat"
  BY <1>1, <1>4 DEF ValueAt
<1>5. CASE Region(d, u) = "source"
  BY <1>1, <1>5 DEF ValueAt
<1>6. CASE Region(d, u) = "zero"
  BY <1>1, <1>6 DEF ValueAt
<1>7. QED
  BY <1>2, <1>3, <1>4, <1>5, <1>6, RegionIs

-----------------------------------------------------------------------------
\* The handle cache.

Handle1 == [path : Source, version : {0, 1}]
OneEach(s) == \A i, j \in DOMAIN s : s[i].path = s[j].path => i = j
Fresh(s, changed) == \A i \in DOMAIN s : s[i].version # 0 => s[i].path \in changed
CacheOK(s, changed) == s \in Seq(Handle1) /\ OneEach(s) /\ Fresh(s, changed)

LEMMA Removal ==
    ASSUME NEW s, NEW changed, CacheOK(s, changed), NEW i \in DOMAIN s
    PROVE  /\ CacheOK(RemoveAt(s, i), changed)
           /\ Len(RemoveAt(s, i)) = Len(s) - 1 /\ Len(s) \in Nat
           /\ \A j \in DOMAIN RemoveAt(s, i) : RemoveAt(s, i)[j].path # s[i].path
<1> DEFINE a == SubSeq(s, 1, i - 1)  b == SubSeq(s, i + 1, Len(s))  t == RemoveAt(s, i)
           K(j) == IF j < i THEN j ELSE j + 1
<1>1. s \in Seq(Handle1) /\ Len(s) \in Nat /\ i \in 1 .. Len(s) /\ DOMAIN s = 1 .. Len(s)
  BY DEF CacheOK
<1>2. /\ a \in Seq(Handle1) /\ Len(a) = i - 1 /\ \A j \in 1 .. i - 1 : a[j] = s[j]
      /\ b \in Seq(Handle1) /\ Len(b) = Len(s) - i /\ \A j \in 1 .. Len(s) - i : b[j] = s[i + j]
  <2>1. a \in Seq(Handle1) /\ Len(a) = i - 1 /\ \A j \in 1 .. i - 1 : a[j] = s[j]
    BY <1>1
  <2>2. i + 1 \in Int /\ Len(s) \in Int /\ \A j \in i + 1 .. Len(s) : s[j] \in Handle1
    BY <1>1
  <2>3. /\ b \in Seq(Handle1)
        /\ Len(b) = IF i + 1 <= Len(s) THEN Len(s) - (i + 1) + 1 ELSE 0
        /\ \A j \in 1 .. Len(s) - (i + 1) + 1 : b[j] = s[(i + 1) + j - 1]
    BY <2>2, SubSeqProperties
  <2> HIDE DEF a, b
  <2>4. Len(b) = Len(s) - i
    BY <1>1, <2>3
  <2>5. ASSUME NEW j \in 1 .. Len(s) - i PROVE b[j] = s[i + j]
    <3>1. j \in 1 .. Len(s) - (i + 1) + 1 /\ (i + 1) + j - 1 = i + j
      BY <1>1
    <3>2. QED
      BY <2>3, <3>1
  <2>6. QED
    BY <2>1, <2>3, <2>4, <2>5
<1>3. t = a \o b
  BY DEF RemoveAt
<1> HIDE DEF a, b, t
<1>4. /\ t \in Seq(Handle1) /\ Len(t) = Len(s) - 1 /\ DOMAIN t = 1 .. Len(s) - 1
      /\ \A j \in 1 .. Len(s) - 1 : t[j] = s[K(j)]
  <2>1. /\ t \in Seq(Handle1) /\ Len(t) = Len(a) + Len(b)
        /\ \A j \in 1 .. Len(a) + Len(b) : t[j] = IF j <= Len(a) THEN a[j] ELSE b[j - Len(a)]
    BY <1>2, <1>3, ConcatProperties
  <2>2. Len(t) = Len(s) - 1 /\ DOMAIN t = 1 .. Len(s) - 1
    BY <1>1, <1>2, <2>1
  <2>3. ASSUME NEW j \in 1 .. Len(s) - 1 PROVE t[j] = s[K(j)]
    <3>1. t[j] = IF j <= i - 1 THEN a[j] ELSE b[j - (i - 1)]
      BY <1>1, <1>2, <2>1
    <3>2. CASE j <= i - 1
      <4>1. j \in 1 .. i - 1 /\ j < i
        BY <1>1, <3>2
      <4>2. QED
        BY <1>2, <3>1, <3>2, <4>1
    <3>3. CASE ~(j <= i - 1)
      <4>1. j - (i - 1) \in 1 .. Len(s) - i /\ i + (j - (i - 1)) = j + 1 /\ ~(j < i)
        BY <1>1, <3>3
      <4>2. QED
        BY <1>2, <3>1, <3>3, <4>1
    <3>4. QED
      BY <3>2, <3>3
  <2>4. QED
    BY <2>1, <2>2, <2>3
<1>5. \A j \in 1 .. Len(s) - 1 : K(j) \in DOMAIN s /\ K(j) # i
  BY <1>1
<1>6. \A j, k \in 1 .. Len(s) - 1 : K(j) = K(k) => j = k
  BY <1>1
<1> HIDE DEF K
<1>7. OneEach(t) /\ Fresh(t, changed)
  <2>1. OneEach(t)
    <3> SUFFICES ASSUME NEW j \in DOMAIN t, NEW k \in DOMAIN t, t[j].path = t[k].path
                 PROVE  j = k
      BY DEF OneEach
    <3>1. K(j) \in DOMAIN s /\ K(k) \in DOMAIN s /\ s[K(j)].path = s[K(k)].path
      BY <1>4, <1>5
    <3>2. K(j) = K(k)
      BY <3>1 DEF CacheOK, OneEach
    <3>3. QED
      BY <1>4, <1>6, <3>2
  <2>2. Fresh(t, changed)
    <3> SUFFICES ASSUME NEW j \in DOMAIN t, t[j].version # 0 PROVE t[j].path \in changed
      BY DEF Fresh
    <3>1. K(j) \in DOMAIN s /\ t[j] = s[K(j)]
      BY <1>4, <1>5
    <3>2. QED
      BY <3>1 DEF CacheOK, Fresh
  <2>3. QED
    BY <2>1, <2>2
<1>8. ASSUME NEW j \in DOMAIN t PROVE t[j].path # s[i].path
  <2>1. K(j) \in DOMAIN s /\ K(j) # i /\ t[j] = s[K(j)]
    BY <1>4, <1>5
  <2>2. QED
    BY <2>1 DEF CacheOK, OneEach
<1>9. QED
  BY <1>1, <1>4, <1>7, <1>8 DEF t, CacheOK

LEMMA Added ==
    ASSUME NEW s, NEW changed, CacheOK(s, changed), NEW h \in Handle1,
           \A j \in DOMAIN s : s[j].path # h.path, h.version # 0 => h.path \in changed
    PROVE  /\ CacheOK(<<h>> \o s, changed) /\ Len(<<h>> \o s) = Len(s) + 1 /\ Len(s) \in Nat
           /\ (<<h>> \o s)[1] = h
<1> DEFINE t == <<h>> \o s
<1>1. s \in Seq(Handle1) /\ Len(s) \in Nat /\ DOMAIN s = 1 .. Len(s)
  BY DEF CacheOK
<1>2. /\ t \in Seq(Handle1) /\ Len(t) = Len(s) + 1 /\ DOMAIN t = 1 .. Len(s) + 1
      /\ t[1] = h /\ \A j \in 2 .. Len(s) + 1 : t[j] = s[j - 1] /\ j - 1 \in DOMAIN s
  BY <1>1
<1> HIDE DEF t
<1>3. ASSUME NEW i \in DOMAIN t, NEW j \in DOMAIN t, t[i].path = t[j].path PROVE i = j
  <2>1. /\ i = 1 \/ (i \in 2 .. Len(s) + 1 /\ i # 1)
        /\ j = 1 \/ (j \in 2 .. Len(s) + 1 /\ j # 1)
    BY <1>1, <1>2
  <2>2. CASE i = 1
    BY <1>2, <1>3, <2>1, <2>2
  <2>3. CASE j = 1
    BY <1>2, <1>3, <2>1, <2>3
  <2>4. CASE i # 1 /\ j # 1
    <3>1. /\ i - 1 \in DOMAIN s /\ j - 1 \in DOMAIN s
          /\ t[i] = s[i - 1] /\ t[j] = s[j - 1]
      BY <1>2, <2>1, <2>4
    <3>2. i - 1 = j - 1
      BY <1>3, <3>1 DEF CacheOK, OneEach
    <3>3. QED
      BY <2>1, <2>4, <3>2
  <2>5. QED
    BY <2>2, <2>3, <2>4
<1>4. ASSUME NEW i \in DOMAIN t, t[i].version # 0 PROVE t[i].path \in changed
  <2>1. CASE i = 1
    BY <1>2, <1>4, <2>1
  <2>2. CASE i # 1
    <3>1. i - 1 \in DOMAIN s /\ t[i] = s[i - 1]
      BY <1>1, <1>2, <2>2
    <3>2. QED
      BY <1>4, <3>1 DEF CacheOK, Fresh
  <2>3. QED
    BY <2>1, <2>2
<1>5. OneEach(t) /\ Fresh(t, changed)
  BY <1>3, <1>4 DEF OneEach, Fresh
<1>6. QED
  BY <1>1, <1>2, <1>5 DEF t, CacheOK

\* The handle of a path: it is there once.
LEMMA HandleIs ==
    ASSUME NEW p, NEW changed, CacheOK(cache, changed), Handles(p) # {}
    PROVE  /\ Least(Handles(p)) \in DOMAIN cache /\ Handle(p) \in Handle1 /\ Handle(p).path = p
           /\ Handle(p).version # 0 => p \in changed
<1>1. cache \in Seq(Handle1) /\ DOMAIN cache = 1 .. Len(cache) /\ Len(cache) \in Nat
  BY DEF CacheOK
<1>2. Handles(p) \in SUBSET Nat
  BY <1>1 DEF Handles
<1>3. Least(Handles(p)) \in Handles(p)
  BY <1>2, LeastOfNaturals
<1>4. Least(Handles(p)) \in DOMAIN cache /\ cache[Least(Handles(p))].path = p
  BY <1>3 DEF Handles
<1>5. Handle(p) = cache[Least(Handles(p))]
  BY DEF Handle
<1>6. QED
  BY <1>1, <1>4, <1>5 DEF CacheOK, Fresh

LEMMA DroppedIs ==
    ASSUME NEW p, NEW changed, CacheOK(cache, changed)
    PROVE  /\ CacheOK(Dropped(p), changed)
           /\ Len(cache) \in Nat /\ Len(Dropped(p)) \in Nat
           /\ Len(Dropped(p)) = IF Handles(p) = {} THEN Len(cache) ELSE Len(cache) - 1
           /\ \A j \in DOMAIN Dropped(p) : Dropped(p)[j].path # p
<1>0. Len(cache) \in Nat
  BY DEF CacheOK
<1>1. CASE Handles(p) = {}
  BY <1>0, <1>1 DEF Dropped, Handles
<1>2. CASE Handles(p) # {}
  <2>1. Least(Handles(p)) \in DOMAIN cache /\ cache[Least(Handles(p))].path = p
    BY <1>2, HandleIs DEF Handle
  <2>2. Dropped(p) = RemoveAt(cache, Least(Handles(p)))
    BY <1>2 DEF Dropped
  <2> DEFINE n == Least(Handles(p))
  <2> HIDE DEF n
  <2>3. /\ CacheOK(RemoveAt(cache, n), changed) /\ Len(RemoveAt(cache, n)) = Len(cache) - 1
        /\ \A j \in DOMAIN RemoveAt(cache, n) : RemoveAt(cache, n)[j].path # p
    BY <2>1, Removal DEF n
  <2>4. Len(cache) - 1 \in Nat
    BY <1>0, <2>3 DEF CacheOK
  <2>5. QED
    BY <1>0, <1>2, <2>2, <2>3, <2>4 DEF n
<1>3. QED
  BY <1>1, <1>2

LEMMA EvictedIs ==
    ASSUME NEW changed, CacheOK(cache, changed), Len(cache) <= CacheLimit
    PROVE  /\ CacheOK(Evicted, changed) /\ Len(Evicted) \in Nat
           /\ Len(Evicted) < CacheLimit /\ Len(Evicted) <= Len(cache)
           /\ \A j \in DOMAIN Evicted : j \in DOMAIN cache /\ Evicted[j] = cache[j]
<1>1. /\ cache \in Seq(Handle1) /\ DOMAIN cache = 1 .. Len(cache) /\ Len(cache) \in Nat
      /\ CacheLimit \in Nat \ {0}
  BY DiskAssumption DEF CacheOK
<1>2. CASE Len(cache) < CacheLimit
  BY <1>1, <1>2 DEF Evicted
<1>3. CASE Len(cache) = CacheLimit
  <2>1. Evicted = SubSeq(cache, 1, Len(cache) - 1)
    BY <1>1, <1>3 DEF Evicted, Front
  <2>2. /\ Evicted \in Seq(Handle1) /\ Len(Evicted) = Len(cache) - 1
        /\ \A j \in 1 .. Len(cache) - 1 : Evicted[j] = cache[j]
    BY <1>1, <1>3, <2>1, SubSeqProperties
  <2>3. DOMAIN Evicted = 1 .. Len(cache) - 1
    BY <1>1, <2>2
  <2>4. \A j \in DOMAIN Evicted : j \in DOMAIN cache /\ Evicted[j] = cache[j]
    BY <1>1, <2>2, <2>3
  <2>5. OneEach(Evicted) /\ Fresh(Evicted, changed)
    BY <2>4 DEF CacheOK, OneEach, Fresh
  <2>6. QED
    BY <1>1, <1>3, <2>2, <2>4, <2>5 DEF CacheOK
<1>4. Len(cache) < CacheLimit \/ Len(cache) = CacheLimit
  <2>1. \A m, n \in Nat : m <= n => m < n \/ m = n
    OBVIOUS
  <2>2. QED
    BY <1>1, <2>1
<1>5. QED
  BY <1>2, <1>3, <1>4

\* A read that goes on: the units of a round behind those before.
Extends(t, s, n, f) ==
    \A i \in DOMAIN t : \/ i \in DOMAIN s /\ t[i] = s[i]
                       \/ \E k \in 1 .. n : i = Len(s) + k /\ t[i] = f[k]
LEMMA MoreUnits ==
    ASSUME NEW S, NEW s \in Seq(S), NEW n \in Nat, NEW f, f = [i \in 1 .. n |-> f[i]]
    PROVE  /\ \E T : s \o f \in Seq(T)
           /\ Len(s \o f) = Len(s) + n
           /\ Extends(s \o f, s, n, f)
<1> DEFINE T == S \cup {f[i] : i \in 1 .. n}
<1>1. f \in [1 .. n -> T]
  OBVIOUS
<1>2. f \in Seq(T) /\ Len(f) = n
  BY <1>1, IsASeq
<1>3. s \in Seq(T)
  BY SeqMonotonic
<1> HIDE DEF T
<1>4. s \o f \in Seq(T) /\ Len(s \o f) = Len(s) + n /\ Len(s) \in Nat
  BY <1>2, <1>3
<1>5. \A i \in 1 .. Len(s) + n : (s \o f)[i] = IF i <= Len(s) THEN s[i] ELSE f[i - Len(s)]
  BY <1>2, <1>3
<1>6. DOMAIN (s \o f) = 1 .. Len(s) + n /\ DOMAIN s = 1 .. Len(s)
  BY <1>3, <1>4
<1>7. ASSUME NEW i \in 1 .. Len(s) + n
      PROVE  \/ i \in DOMAIN s /\ (s \o f)[i] = s[i]
             \/ \E k \in 1 .. n : i = Len(s) + k /\ (s \o f)[i] = f[k]
  <2>1. CASE i <= Len(s)
    BY <1>4, <1>5, <1>6, <2>1
  <2>2. CASE ~(i <= Len(s))
    <3>1. i - Len(s) \in 1 .. n /\ i = Len(s) + (i - Len(s))
      BY <1>4, <2>2
    <3>2. (s \o f)[i] = f[i - Len(s)]
      BY <1>5, <2>2
    <3>3. QED
      BY <3>1, <3>2
  <2>3. QED
    BY <2>1, <2>2
<1>8. Extends(s \o f, s, n, f)
  BY <1>6, <1>7 DEF Extends
<1>9. QED
  BY <1>4, <1>8

-----------------------------------------------------------------------------
\* The invariant.

Phases == {"idle", "round", "verified", "opened", "done"}
Typed ==
    /\ \E l \in DOMAIN Libraries : disk = Build(Libraries[l])
    /\ \E S : op \in [phase : Phases, off : Nat, len : Nat, buf : Seq(S), ok : BOOLEAN]
    /\ source \in [Source -> {Gone, 0, 1}] /\ card \in [Card -> SUBSET Int]

\* The handles: the Wii disk has one only while it reads from it.
CacheInv ==
    /\ CacheOK(cache, raced) /\ Len(cache) <= CacheLimit
    /\ closed => cache = <<>>
    /\ disk.ok /\ disk.kind = "wii" => Len(cache) = IF op.phase = "opened" THEN 1 ELSE 0

\* What a read relies on from step to step.
Course ==
    /\ op.phase = "idle" => op = Idle
    /\ op.phase # "idle" => disk.ok /\ ~closed /\ Len(op.buf) <= op.len
    /\ op.phase \in {"verified", "opened"} => Position < End /\ Region(disk, Position) = "source"
    /\ op.phase = "verified" => source[Path] = 0 \/ Path \in raced
    /\ op.phase = "opened" => Handles(Path) # {}

\* The save objects hold what was written through the disk.
CardInv ==
    disk.ok => \A i \in DOMAIN disk.saves, u \in Nat :
        LET e == disk.saves[i]
        IN  Within(e, u) => (CardOffset(e, u) \in card[e.path] <=> u \in written)

DInv == Typed /\ CacheInv /\ Course /\ CardInv /\ ReadsAreTrue

LEMMA OpIs ==
    ASSUME Typed
    PROVE  /\ op.phase \in Phases /\ op.off \in Nat /\ op.len \in Nat
           /\ Len(op.buf) \in Nat /\ DOMAIN op.buf = 1 .. Len(op.buf)
           /\ Position = op.off + Len(op.buf) /\ End = op.off + op.len
           /\ Position \in Nat /\ End \in Nat
<1>1. PICK S : op \in [phase : Phases, off : Nat, len : Nat, buf : Seq(S), ok : BOOLEAN]
  BY DEF Typed
<1>2. op.off \in Nat /\ op.len \in Nat /\ op.buf \in Seq(S) /\ op.phase \in Phases
  BY <1>1
<1>3. Len(op.buf) \in Nat /\ DOMAIN op.buf = 1 .. Len(op.buf)
  BY <1>2
<1>4. QED
  BY <1>2, <1>3 DEF Position, End

LEMMA DiskIs ==
    ASSUME Typed, disk.ok
    PROVE  /\ disk.size \in Nat /\ LaidOut(disk) /\ ValidRanges(disk) /\ Laid(disk)
           /\ Listed(disk.saves) /\ Listed(disk.meta) /\ Listed(disk.sources)
<1>1. PICK l \in DOMAIN Libraries : disk = Build(Libraries[l])
  BY DEF Typed
<1>2. QED
  BY <1>1, BuiltIsLaid DEF Laid

LEMMA SourceIs ==
    ASSUME Typed, disk.ok, Region(disk, Position) = "source"
    PROVE  Path \in Source
<1>1. Find(disk.sources, Position) # NoExtent /\ Path # 0
  BY RegionIs DEF NoExtent, Extent, Path
<1>2. PICK i \in DOMAIN disk.sources : Find(disk.sources, Position) = disk.sources[i]
  BY <1>1, OpIs, DiskIs, Lookup
<1>3. disk.sources[i].path \in Source \cup {0}
  <2> DEFINE R == [off : Nat, len : Nat, path : Source \cup {0}, from : Int]
  <2>1. disk.sources \in Seq(R)
    BY DiskIs DEF LaidOut
  <2>2. \A e \in R : e.path \in Source \cup {0}
    OBVIOUS
  <2> HIDE DEF R
  <2>3. QED
    BY <1>2, <2>1, <2>2
<1>4. QED
  BY <1>1, <1>2, <1>3 DEF Path

LEMMA RoundIs ==
    ASSUME Typed, disk.ok, Position < End
    PROVE  Round \in Position + 1 .. End /\ Round - Position \in Nat
<1>1. Position \in Nat /\ End \in Nat
  BY OpIs
<1>2. Round \in Position + 1 .. End
  BY <1>1, DiskIs, RoundGrows DEF Round
<1>3. QED
  BY <1>1, <1>2

\* The read goes on: what is added to the buffer is true, and not too much.
TrueUnit(x, u) == x = Expected(u) \/ (x[1] = "source" /\ x[2] \in raced)

LEMMA UnitsAreTrue ==
    ASSUME DInv, op.phase # "idle", Position < End, NEW version,
           Region(disk, Position) = "source" => version = 0 \/ Path \in raced,
           NEW k \in 1 .. Round - Position
    PROVE  TrueUnit(Units(version)[k], Position + k - 1)
<1> DEFINE u == Position + k - 1  found == Find(disk.saves, Position)
           r == Region(disk, Position)  w == Wrote(disk, Position, u, card)
           said == IF u \in written THEN 1 ELSE 0
<1>1. Typed /\ disk.ok /\ Position \in Nat /\ End \in Nat
  BY OpIs DEF DInv, Course
<1>2. Round \in Position + 1 .. End /\ Round = SegmentEnd(disk, Position, End)
  BY <1>1, RoundIs DEF Round
<1>3. u \in Position .. SegmentEnd(disk, Position, End) - 1 /\ u \in Nat
  BY <1>1, <1>2
<1>4. Units(version)[k] = ValueAt(disk, Position, u, version, w)
  BY DEF Units
<1>5. /\ LaidOut(disk) /\ Laid(disk) /\ Listed(disk.saves)
  BY <1>1, DiskIs
<1>6. \A v, x : ValueAt(disk, Position, u, v, x) = ValueAt(disk, u, u, v, x)
  BY <1>1, <1>3, <1>5, RoundIsTrue
<1>7. Expected(u) = ValueAt(disk, u, u, 0, said)
  BY DEF Expected
<1> HIDE DEF u, w, said
<1>8. CASE r = "save"
  <2>1. found # NoExtent
    BY <1>8, RegionIs
  <2>2. Find(disk.saves, u) = found
    BY <1>1, <1>3, <1>5, <1>8, SameExtent
  <2>3. PICK i \in DOMAIN disk.saves : found = disk.saves[i] /\ Within(disk.saves[i], u)
    BY <1>3, <1>5, <2>1, <2>2, Lookup
  <2>4. CardOffset(found, u) \in card[found.path] <=> u \in written
    BY <1>1, <1>3, <2>3 DEF DInv, CardInv
  <2>5. w = said
    BY <2>4 DEF Wrote, w, said
  <2>6. ValueAt(disk, Position, u, version, said) = ValueAt(disk, Position, u, 0, said)
    BY <1>8 DEF ValueAt
  <2>7. QED
    BY <1>4, <1>6, <1>7, <2>5, <2>6 DEF TrueUnit, u
<1>9. CASE r = "source"
  <2>1. \A v, x : ValueAt(disk, Position, u, v, x) =
                     SourceUnit(Path, v, Find(disk.sources, Position).from + u
                                            - Find(disk.sources, Position).off)
    BY <1>9 DEF ValueAt, Path
  <2>2. CASE version = 0
    BY <1>4, <1>6, <1>7, <2>1, <2>2 DEF TrueUnit, u
  <2>3. CASE Path \in raced
    BY <1>4, <2>1, <2>3 DEF TrueUnit, SourceUnit
  <2>4. QED
    BY <1>9, <2>2, <2>3
<1>10. CASE r \in {"meta", "fat", "zero"}
  <2>1. ValueAt(disk, Position, u, version, w) = ValueAt(disk, Position, u, 0, said)
    BY <1>10 DEF ValueAt
  <2>2. QED
    BY <1>4, <1>6, <1>7, <2>1 DEF TrueUnit, u
<1>11. QED
  BY <1>8, <1>9, <1>10, RegionIs

LEMMA BufferGrows ==
    ASSUME DInv, NEW n \in Nat, NEW f, f = [i \in 1 .. n |-> f[i]],
           \A k \in 1 .. n : TrueUnit(f[k], Position + k - 1),
           NEW ph \in Phases, NEW ok \in BOOLEAN,
           op' = [op EXCEPT !.phase = ph, !.buf = op.buf \o f, !.ok = ok],
           disk' = disk, written' = written, raced' = raced
    PROVE  /\ \E S : op' \in [phase : Phases, off : Nat, len : Nat, buf : Seq(S), ok : BOOLEAN]
           /\ op'.phase = ph /\ op'.off = op.off /\ op'.len = op.len
           /\ Len(op'.buf) = Len(op.buf) + n
           /\ ReadsAreTrue'
<1>1. PICK S : op \in [phase : Phases, off : Nat, len : Nat, buf : Seq(S), ok : BOOLEAN]
  BY DEF DInv, Typed
<1>2. op.buf \in Seq(S)
  BY <1>1
<1> DEFINE b == op.buf \o f
<1>3. /\ \E T : b \in Seq(T)
      /\ Len(b) = Len(op.buf) + n
      /\ Extends(b, op.buf, n, f)
  BY <1>2, MoreUnits
<1> HIDE DEF b
<1>4. PICK T : b \in Seq(T)
  BY <1>3
<1>5. op' = [op EXCEPT !.phase = ph, !.buf = b, !.ok = ok]
  BY DEF b
<1>6. op' \in [phase : Phases, off : Nat, len : Nat, buf : Seq(T), ok : BOOLEAN]
  BY <1>1, <1>4, <1>5
<1>7. op'.phase = ph /\ op'.off = op.off /\ op'.len = op.len /\ op'.buf = b
  BY <1>1, <1>5
<1>8. ASSUME NEW i \in DOMAIN b PROVE TrueUnit(b[i], op.off + i - 1)
  <2>1. CASE i \in DOMAIN op.buf /\ b[i] = op.buf[i]
    BY <2>1 DEF DInv, ReadsAreTrue, TrueUnit
  <2>2. CASE \E k \in 1 .. n : i = Len(op.buf) + k /\ b[i] = f[k]
    <3>1. PICK k \in 1 .. n : i = Len(op.buf) + k /\ b[i] = f[k]
      BY <2>2
    <3>2. Position + k - 1 = op.off + i - 1
      BY <3>1, OpIs DEF DInv
    <3>3. TrueUnit(f[k], Position + k - 1)
      OBVIOUS
    <3>4. QED
      BY <3>1, <3>2, <3>3
  <2>3. QED
    BY <1>3, <2>1, <2>2 DEF Extends
<1>9. ReadsAreTrue'
  <2> SUFFICES ASSUME NEW i \in DOMAIN (op.buf)'
               PROVE  \/ (op.buf[i])' = Expected(op.off + i - 1)'
                      \/ (op.buf[i][1])' = "source" /\ (op.buf[i][2])' \in raced'
    BY DEF ReadsAreTrue
  <2>1. TrueUnit(b[i], op.off + i - 1)
    BY <1>7, <1>8
  <2>2. Expected(op.off + i - 1)' = Expected(op.off + i - 1)
    BY <1>7 DEF Expected
  <2>3. QED
    BY <1>7, <2>1, <2>2 DEF TrueUnit
<1>10. QED
  BY <1>3, <1>6, <1>7, <1>9

LEMMA CardStays ==
    ASSUME CardInv, disk' = disk, card' = card, written' = written
    PROVE  CardInv'
BY DEF CardInv

LEMMA ReadsStay ==
    ASSUME ReadsAreTrue, op' = op \/ (op'.buf = op.buf /\ op'.off = op.off),
           disk' = disk, written' = written, raced \subseteq raced'
    PROVE  ReadsAreTrue'
<1>1. (op.buf)' = op.buf /\ (op.off)' = op.off
  OBVIOUS
<1> SUFFICES ASSUME NEW i \in DOMAIN (op.buf)'
             PROVE  \/ (op.buf[i])' = Expected(op.off + i - 1)'
                    \/ (op.buf[i][1])' = "source" /\ (op.buf[i][2])' \in raced'
  BY DEF ReadsAreTrue
<1>2. Expected(op.off + i - 1)' = Expected(op.off + i - 1)
  BY <1>1 DEF Expected
<1>3. \/ op.buf[i] = Expected(op.off + i - 1)
      \/ op.buf[i][1] = "source" /\ op.buf[i][2] \in raced
  BY <1>1 DEF ReadsAreTrue
<1>4. QED
  BY <1>1, <1>2, <1>3

LEMMA NothingRead ==
    ASSUME op'.buf = <<>>
    PROVE  ReadsAreTrue'
<1>1. DOMAIN (op.buf)' = {}
  OBVIOUS
<1>2. QED
  BY <1>1 DEF ReadsAreTrue

LEMMA NoOp ==
    /\ Idle \in [phase : Phases, off : Nat, len : Nat, buf : Seq({}), ok : BOOLEAN]
    /\ Idle.phase = "idle" /\ Idle.buf = <<>>
BY DEF Idle, Phases

LEMMA DInvInit ==
    ASSUME Init
    PROVE  DInv
<1>1. Typed
  <2>1. \E l \in DOMAIN Libraries : disk = Build(Libraries[l])
    BY DEF Init
  <2>2. source \in [Source -> {Gone, 0, 1}] /\ card \in [Card -> SUBSET Int]
    BY DEF Init
  <2>3. QED
    BY <2>1, <2>2, NoOp DEF Typed, Init
<1>2. CacheInv
  <2>1. CacheOK(<<>>, raced) /\ Len(<<>>) = 0
    BY DEF CacheOK, OneEach, Fresh
  <2>2. cache = <<>> /\ op.phase # "opened" /\ 0 <= CacheLimit
    BY NoOp, DiskAssumption DEF Init
  <2>3. QED
    BY <2>1, <2>2 DEF CacheInv
<1>3. Course
  BY NoOp DEF Init, Course
<1>4. CardInv
  <2>1. ASSUME disk.ok, NEW i \in DOMAIN disk.saves PROVE disk.saves[i].path \in Card
    <3> DEFINE R == [off : Nat, len : Nat, path : Card, from : Int]
    <3>1. disk.saves \in Seq(R)
      BY <1>1, <2>1, DiskIs DEF LaidOut
    <3>2. \A e \in R : e.path \in Card
      OBVIOUS
    <3> HIDE DEF R
    <3>3. QED
      BY <2>1, <3>1, <3>2
  <2>2. written = {} /\ \A c \in Card : card[c] = {}
    BY DEF Init
  <2>3. QED
    BY <2>1, <2>2 DEF CardInv
<1>5. ReadsAreTrue
  <2>1. DOMAIN op.buf = {}
    BY NoOp DEF Init
  <2>2. QED
    BY <2>1 DEF ReadsAreTrue
<1>6. QED
  BY <1>1, <1>2, <1>3, <1>4, <1>5 DEF DInv

LEMMA BeginKeepsDInv ==
    ASSUME DInv, NEW r \in Reads, Begin(r[1], r[2])
    PROVE  DInv'
<1>1. r[1] \in Nat /\ r[2] \in Nat
  BY DiskAssumption
<1>2. /\ op' = [phase |-> "round", off |-> r[1], len |-> r[2], buf |-> <<>>, ok |-> TRUE]
      /\ disk.ok /\ ~closed /\ op.phase = "idle"
      /\ UNCHANGED <<library, disk, source, cache, card, written, closed, raced, changes>>
  BY DEF Begin, Idle
<1>3. Typed'
  <2>1. op' \in [phase : Phases, off : Nat, len : Nat, buf : Seq({}), ok : BOOLEAN]
    BY <1>1, <1>2 DEF Phases
  <2>2. QED
    BY <1>2, <2>1 DEF DInv, Typed
<1>4. CacheInv'
  BY <1>2 DEF DInv, CacheInv
<1>5. Course'
  <2>1. Len(op.buf)' <= (op.len)'
    BY <1>1, <1>2
  <2>2. QED
    BY <1>2, <2>1 DEF Course
<1>6. CardInv' /\ ReadsAreTrue'
  BY <1>2, CardStays, NothingRead DEF DInv
<1>7. QED
  BY <1>3, <1>4, <1>5, <1>6 DEF DInv

LEMMA ReturnKeepsDInv ==
    ASSUME DInv, Return
    PROVE  DInv'
<1>1. /\ op' = Idle /\ op.phase # "opened"
      /\ UNCHANGED <<library, disk, source, cache, card, written, closed, raced, changes>>
  BY DEF Return
<1>2. Typed'
  BY <1>1, NoOp DEF DInv, Typed
<1>3. CacheInv'
  BY <1>1, NoOp DEF DInv, CacheInv
<1>4. Course'
  BY <1>1, NoOp DEF Course
<1>5. CardInv' /\ ReadsAreTrue'
  BY <1>1, NoOp, CardStays, NothingRead DEF DInv
<1>6. QED
  BY <1>2, <1>3, <1>4, <1>5 DEF DInv

LEMMA CloseKeepsDInv ==
    ASSUME DInv, Close
    PROVE  DInv'
<1>1. /\ op.phase = "idle" /\ cache' = <<>>
      /\ UNCHANGED <<library, disk, source, op, card, written, raced, changes>>
  BY DEF Close
<1>2. Typed'
  BY <1>1 DEF DInv, Typed
<1>3. CacheInv'
  <2>1. CacheOK(<<>>, raced) /\ Len(<<>>) = 0 /\ 0 <= CacheLimit
    BY DiskAssumption DEF CacheOK, OneEach, Fresh
  <2>2. QED
    BY <1>1, <2>1 DEF CacheInv
<1>4. Course'
  BY <1>1 DEF DInv, Course
<1>5. CardInv' /\ ReadsAreTrue'
  BY <1>1, CardStays, ReadsStay DEF DInv
<1>6. QED
  BY <1>2, <1>3, <1>4, <1>5 DEF DInv

LEMMA ChangeKeepsDInv ==
    ASSUME DInv, NEW p \in Source, NEW v \in {Gone, 0, 1}, Change(p, v)
    PROVE  DInv'
<1>1. /\ source' = [source EXCEPT ![p] = v]
      /\ raced' = IF op.phase = "verified" /\ Path = p THEN raced \cup {p} ELSE raced
      /\ UNCHANGED <<library, disk, cache, op, card, written, closed>>
  BY DEF Change
<1>2. raced \subseteq raced'
  BY <1>1
<1>3. Typed'
  <2>1. source' \in [Source -> {Gone, 0, 1}]
    BY <1>1 DEF DInv, Typed
  <2>2. QED
    BY <1>1, <2>1 DEF DInv, Typed
<1>4. CacheInv'
  <2>1. CacheOK(cache, raced')
    BY <1>2 DEF DInv, CacheInv, CacheOK, Fresh
  <2>2. QED
    BY <1>1, <2>1 DEF DInv, CacheInv
<1>5. Course'
  <2>1. Position' = Position /\ End' = End /\ Path' = Path
    BY <1>1 DEF Position, End, Path
  <2>2. Handles(Path)' = Handles(Path)
    BY <1>1, <2>1 DEF Handles
  <2>3. op.phase = "verified" => source'[Path] = 0 \/ Path \in raced'
    <3>1. CASE p = Path
      BY <1>1, <3>1
    <3>2. CASE p # Path
      BY <1>1, <1>2, <3>2 DEF DInv, Course, Typed
    <3>3. QED
      BY <3>1, <3>2
  <2>4. QED
    BY <1>1, <2>1, <2>2, <2>3 DEF DInv, Course
<1>6. CardInv' /\ ReadsAreTrue'
  BY <1>1, <1>2, CardStays, ReadsStay DEF DInv
<1>7. QED
  BY <1>3, <1>4, <1>5, <1>6 DEF DInv

LEMMA ReadContinues ==
    ASSUME DInv, op.phase # "idle", Position < End, NEW version, Append1(Units(version)),
           Region(disk, Position) = "source" => version = 0 \/ Path \in raced,
           disk' = disk, written' = written, raced' = raced
    PROVE  /\ \E S : op' \in [phase : Phases, off : Nat, len : Nat, buf : Seq(S), ok : BOOLEAN]
           /\ op'.phase = "round" /\ Len(op'.buf) <= op'.len
           /\ ReadsAreTrue'
<1> DEFINE f == Units(version)  n == Round - Position
<1>1. PICK S : op \in [phase : Phases, off : Nat, len : Nat, buf : Seq(S), ok : BOOLEAN]
  BY DEF DInv, Typed
<1>2. op' = [op EXCEPT !.phase = "round", !.buf = op.buf \o f, !.ok = op.ok]
  BY <1>1 DEF Append1
<1>3. f = [k \in 1 .. n |-> f[k]]
  BY DEF Units
<1>4. n \in Nat /\ Round \in Position + 1 .. End
  BY RoundIs DEF DInv, Course
<1>5. \A k \in 1 .. n : TrueUnit(f[k], Position + k - 1)
  BY UnitsAreTrue
<1>6. op.ok \in BOOLEAN /\ "round" \in Phases
  BY <1>1 DEF Phases
<1> HIDE DEF f, n
<1>7. /\ \E T : op' \in [phase : Phases, off : Nat, len : Nat, buf : Seq(T), ok : BOOLEAN]
      /\ op'.phase = "round" /\ op'.len = op.len /\ Len(op'.buf) = Len(op.buf) + n
      /\ ReadsAreTrue'
  BY <1>2, <1>3, <1>4, <1>5, <1>6, BufferGrows
<1>8. Len(op.buf) + n <= op.len
  BY <1>4, OpIs DEF n, DInv
<1>9. QED
  BY <1>7, <1>8

LEMMA ReadFails ==
    ASSUME DInv, op.phase # "idle", Position < End, NEW version,
           NEW n \in 0 .. Round - Position - 1,
           op' = [op EXCEPT !.phase = "done", !.ok = FALSE,
                            !.buf = @ \o SubSeq(Units(version), 1, n)],
           Region(disk, Position) = "source" => version = 0 \/ Path \in raced,
           disk' = disk, written' = written, raced' = raced
    PROVE  /\ \E S : op' \in [phase : Phases, off : Nat, len : Nat, buf : Seq(S), ok : BOOLEAN]
           /\ op'.phase = "done" /\ Len(op'.buf) <= op'.len
           /\ ReadsAreTrue'
<1> DEFINE f == SubSeq(Units(version), 1, n)
<1>1. PICK S : op \in [phase : Phases, off : Nat, len : Nat, buf : Seq(S), ok : BOOLEAN]
  BY DEF DInv, Typed
<1>2. Round - Position \in Nat /\ Round \in Position + 1 .. End
  BY RoundIs DEF DInv, Course
<1>3. n \in Nat /\ \A k \in 1 .. n : k \in 1 .. Round - Position
  BY <1>2
<1>4. f = [k \in 1 .. n |-> Units(version)[k]]
  BY <1>3
<1>5. f = [k \in 1 .. n |-> f[k]] /\ \A k \in 1 .. n : f[k] = Units(version)[k]
  BY <1>4
<1>6. \A k \in 1 .. n : TrueUnit(Units(version)[k], Position + k - 1)
  BY <1>3, UnitsAreTrue
<1> HIDE DEF f
<1>7. \A k \in 1 .. n : TrueUnit(f[k], Position + k - 1)
  BY <1>5, <1>6
<1>8. op' = [op EXCEPT !.phase = "done", !.buf = op.buf \o f, !.ok = FALSE]
  BY <1>1 DEF f
<1>9. "done" \in Phases
  BY DEF Phases
<1>10. /\ \E T : op' \in [phase : Phases, off : Nat, len : Nat, buf : Seq(T), ok : BOOLEAN]
       /\ op'.phase = "done" /\ op'.len = op.len /\ Len(op'.buf) = Len(op.buf) + n
       /\ ReadsAreTrue'
  BY <1>3, <1>5, <1>7, <1>8, <1>9, BufferGrows
<1>11. Len(op.buf) + n <= op.len
  <2>1. /\ op.off \in Nat /\ op.len \in Nat /\ Len(op.buf) \in Nat
        /\ Position = op.off + Len(op.buf) /\ End = op.off + op.len
    BY OpIs DEF DInv
  <2>2. Round \in Int /\ Round <= End /\ n <= Round - Position - 1 /\ n \in Nat
    BY <1>2, <1>3, <2>1
  <2>3. QED
    BY <2>1, <2>2
<1>12. QED
  BY <1>10, <1>11

\* A step that only moves a read on to its next phase.
LEMMA PhaseIs ==
    ASSUME Typed, NEW ph \in Phases, NEW ok \in BOOLEAN,
           op' = [op EXCEPT !.phase = ph] \/ op' = [op EXCEPT !.phase = ph, !.ok = ok]
    PROVE  /\ \E S : op' \in [phase : Phases, off : Nat, len : Nat, buf : Seq(S), ok : BOOLEAN]
           /\ op'.phase = ph /\ op'.buf = op.buf /\ op'.off = op.off /\ op'.len = op.len
<1>1. PICK S : op \in [phase : Phases, off : Nat, len : Nat, buf : Seq(S), ok : BOOLEAN]
  BY DEF Typed
<1>2. op' \in [phase : Phases, off : Nat, len : Nat, buf : Seq(S), ok : BOOLEAN]
  BY <1>1
<1>3. QED
  BY <1>1, <1>2

LEMMA ServeStoredKeepsDInv ==
    ASSUME DInv, ServeStored
    PROVE  DInv'
<1>1. /\ op.phase = "round" /\ Position < End /\ Region(disk, Position) # "source"
      /\ Append1(Units(0)) \/ FailAfter(Units(0))
      /\ UNCHANGED <<library, disk, source, cache, card, written, closed, raced, changes>>
  BY DEF ServeStored
<1>2. /\ \E S : op' \in [phase : Phases, off : Nat, len : Nat, buf : Seq(S), ok : BOOLEAN]
      /\ op'.phase \in {"round", "done"} /\ Len(op'.buf) <= op'.len
      /\ ReadsAreTrue'
  <2>1. CASE Append1(Units(0))
    BY <1>1, <2>1, ReadContinues
  <2>2. CASE FailAfter(Units(0))
    BY <1>1, <2>2, ReadFails DEF FailAfter
  <2>3. QED
    BY <1>1, <2>1, <2>2
<1>3. Typed'
  BY <1>1, <1>2 DEF DInv, Typed
<1>4. CacheInv'
  BY <1>1, <1>2 DEF DInv, CacheInv
<1>5. Course'
  BY <1>1, <1>2 DEF DInv, Course
<1>6. CardInv'
  BY <1>1, CardStays DEF DInv
<1>7. QED
  BY <1>2, <1>3, <1>4, <1>5, <1>6 DEF DInv

\* A handle that is dropped.
LEMMA DropKeeps ==
    ASSUME CacheInv, NEW p, cache' \in {Dropped(p), cache}, UNCHANGED <<disk, closed, raced>>,
           op.phase # "opened", op'.phase # "opened"
    PROVE  CacheInv'
<1>1. CacheOK(cache, raced) /\ Len(cache) <= CacheLimit /\ CacheLimit \in Nat /\ Len(cache) \in Nat
  BY DiskAssumption DEF CacheInv, CacheOK
<1>2. /\ CacheOK(Dropped(p), raced) /\ Len(Dropped(p)) \in Nat
      /\ Len(Dropped(p)) = IF Handles(p) = {} THEN Len(cache) ELSE Len(cache) - 1
  BY <1>1, DroppedIs
<1>3. Len(Dropped(p)) <= CacheLimit /\ (Len(cache) = 0 => Len(Dropped(p)) = 0)
  BY <1>1, <1>2
<1>4. cache = <<>> => Dropped(p) = <<>>
  BY <1>2, <1>3, EmptySeq DEF CacheOK
<1>5. QED
  BY <1>1, <1>2, <1>3, <1>4 DEF CacheInv

LEMMA VerifySourceKeepsDInv ==
    ASSUME DInv, VerifySource
    PROVE  DInv'
<1>1. /\ op.phase = "round" /\ Position < End /\ Region(disk, Position) = "source"
      /\ \/ source[Path] = 0 /\ op' = [op EXCEPT !.phase = "verified"] /\ cache' = cache
         \/ op' = [op EXCEPT !.phase = "done", !.ok = FALSE] /\ cache' = Dropped(Path)
      /\ UNCHANGED <<library, disk, source, card, written, closed, raced, changes>>
  BY DEF VerifySource, Verifies, Fail
<1>2. PICK ph \in {"verified", "done"} :
        /\ op' = [op EXCEPT !.phase = ph] \/ op' = [op EXCEPT !.phase = ph, !.ok = FALSE]
        /\ ph = "verified" => source[Path] = 0
  BY <1>1
<1>3. ph \in Phases /\ FALSE \in BOOLEAN
  BY DEF Phases
<1>4. /\ \E S : op' \in [phase : Phases, off : Nat, len : Nat, buf : Seq(S), ok : BOOLEAN]
      /\ op'.phase = ph /\ op'.buf = op.buf /\ op'.off = op.off /\ op'.len = op.len
  BY <1>2, <1>3, PhaseIs DEF DInv
<1>5. Typed'
  BY <1>1, <1>4 DEF DInv, Typed
<1>6. CacheInv'
  BY <1>1, <1>2, <1>4, DropKeeps DEF DInv
<1>7. Course'
  <2>1. Position' = Position /\ End' = End /\ Path' = Path
    BY <1>1, <1>4 DEF Position, End, Path
  <2>2. QED
    BY <1>1, <1>2, <1>4, <2>1 DEF DInv, Course
<1>8. CardInv' /\ ReadsAreTrue'
  BY <1>1, <1>4, CardStays, ReadsStay DEF DInv
<1>9. QED
  BY <1>5, <1>6, <1>7, <1>8 DEF DInv

LEMMA OpenSourceKeepsDInv ==
    ASSUME DInv, OpenSource
    PROVE  DInv'
<1>1. op.phase = "verified" /\ UNCHANGED <<library, disk, source, card, written, closed, raced, changes>>
  BY DEF OpenSource
<1>2. /\ disk.ok /\ ~closed /\ Len(op.buf) <= op.len /\ Position < End
      /\ Region(disk, Position) = "source" /\ (source[Path] = 0 \/ Path \in raced)
  BY <1>1 DEF DInv, Course
<1>3. Path \in Source
  BY <1>2, SourceIs DEF DInv
<1>4. /\ CacheOK(cache, raced) /\ Len(cache) <= CacheLimit /\ Len(cache) \in Nat
      /\ CacheLimit \in Nat \ {0}
      /\ disk.kind = "wii" => Len(cache) = 0
  BY <1>1, <1>2, DiskAssumption DEF DInv, CacheInv, CacheOK
<1> DEFINE h == IF Handles(Path) # {} THEN Handle(Path)
                ELSE [path |-> Path, version |-> source[Path]]
           rest == IF Handles(Path) # {} THEN Dropped(Path) ELSE Evicted
           opened == cache' = <<h>> \o rest /\ op' = [op EXCEPT !.phase = "opened"]
           failed == cache' = Evicted /\ op' = [op EXCEPT !.phase = "done", !.ok = FALSE]
<1>5. \/ opened /\ (Handles(Path) = {} => source[Path] # Gone)
      \/ failed
  BY DEF OpenSource, Fail
<1>6. /\ CacheOK(rest, raced) /\ Len(rest) \in Nat /\ Len(rest) < CacheLimit
      /\ Len(rest) <= Len(cache)
      /\ \A j \in DOMAIN rest : rest[j].path # Path
  <2>1. CASE Handles(Path) # {}
    <3>1. /\ CacheOK(Dropped(Path), raced) /\ Len(Dropped(Path)) \in Nat
          /\ Len(Dropped(Path)) = Len(cache) - 1
          /\ \A j \in DOMAIN Dropped(Path) : Dropped(Path)[j].path # Path
      BY <1>4, <2>1, DroppedIs
    <3>2. rest = Dropped(Path)
      BY <2>1
    <3> HIDE DEF rest
    <3>3. QED
      BY <1>4, <3>1, <3>2
  <2>2. CASE Handles(Path) = {}
    <3>1. /\ CacheOK(Evicted, raced) /\ Len(Evicted) \in Nat
          /\ Len(Evicted) < CacheLimit /\ Len(Evicted) <= Len(cache)
          /\ \A j \in DOMAIN Evicted : j \in DOMAIN cache /\ Evicted[j] = cache[j]
      BY <1>4, EvictedIs
    <3>2. rest = Evicted /\ \A j \in DOMAIN cache : cache[j].path # Path
      BY <2>2 DEF Handles
    <3> HIDE DEF rest
    <3>3. QED
      BY <3>1, <3>2
  <2>3. QED
    BY <2>1, <2>2
<1>7. CASE opened /\ (Handles(Path) = {} => source[Path] # Gone)
  <2>1. h \in Handle1 /\ h.path = Path /\ (h.version # 0 => h.path \in raced)
    <3>1. CASE Handles(Path) # {}
      BY <1>4, <3>1, HandleIs
    <3>2. CASE Handles(Path) = {}
      <4>1. source[Path] \in {0, 1}
        BY <1>3, <1>7, <3>2 DEF DInv, Typed
      <4>2. h = [path |-> Path, version |-> source[Path]]
        BY <3>2
      <4> HIDE DEF h
      <4>3. QED
        BY <1>2, <1>3, <4>1, <4>2 DEF Handle1
    <3>3. QED
      BY <3>1, <3>2
  <2> HIDE DEF h, rest
  <2>2. /\ CacheOK(<<h>> \o rest, raced) /\ Len(<<h>> \o rest) = Len(rest) + 1
        /\ (<<h>> \o rest)[1] = h
    BY <1>6, <2>1, Added
  <2>3. cache' = <<h>> \o rest /\ op' = [op EXCEPT !.phase = "opened"]
    BY <1>7
  <2>4. "opened" \in Phases
    BY DEF Phases
  <2>5. /\ \E S : op' \in [phase : Phases, off : Nat, len : Nat, buf : Seq(S), ok : BOOLEAN]
        /\ op'.phase = "opened" /\ op'.buf = op.buf /\ op'.off = op.off /\ op'.len = op.len
    BY <2>3, <2>4, PhaseIs DEF DInv
  <2>6. Typed'
    BY <1>1, <2>5 DEF DInv, Typed
  <2>7. CacheInv'
    <3>1. /\ CacheOK(cache', raced) /\ Len(cache') <= CacheLimit
          /\ disk.kind = "wii" => Len(cache') = 1
      BY <1>4, <1>6, <2>2, <2>3
    <3>2. QED
      BY <1>1, <1>2, <2>5, <3>1 DEF CacheInv
  <2>8. Course'
    <3>1. Position' = Position /\ End' = End /\ Path' = Path
      BY <1>1, <2>5 DEF Position, End, Path
    <3>2. 1 \in DOMAIN cache' /\ cache'[1].path = Path
      BY <1>6, <2>1, <2>2, <2>3 DEF CacheOK
    <3>3. Handles(Path)' # {}
      BY <3>1, <3>2 DEF Handles
    <3>4. QED
      BY <1>1, <1>2, <2>5, <3>1, <3>3 DEF Course
  <2>9. CardInv' /\ ReadsAreTrue'
    BY <1>1, <2>5, CardStays, ReadsStay DEF DInv
  <2>10. QED
    BY <2>6, <2>7, <2>8, <2>9 DEF DInv
<1>8. CASE failed
  <2>1. "done" \in Phases /\ FALSE \in BOOLEAN
    BY DEF Phases
  <2>2. /\ \E S : op' \in [phase : Phases, off : Nat, len : Nat, buf : Seq(S), ok : BOOLEAN]
        /\ op'.phase = "done" /\ op'.buf = op.buf /\ op'.off = op.off /\ op'.len = op.len
    BY <1>8, <2>1, PhaseIs DEF DInv
  <2>3. Typed'
    BY <1>1, <2>2 DEF DInv, Typed
  <2>4. CacheInv'
    <3>1. /\ CacheOK(Evicted, raced) /\ Len(Evicted) \in Nat
          /\ Len(Evicted) < CacheLimit /\ Len(Evicted) <= Len(cache)
      BY <1>4, EvictedIs
    <3>2. /\ CacheOK(cache', raced) /\ Len(cache') <= CacheLimit
          /\ disk.kind = "wii" => Len(cache') = 0
      BY <1>4, <1>8, <3>1
    <3>3. QED
      BY <1>1, <1>2, <2>2, <3>2 DEF CacheInv
  <2>5. Course'
    BY <1>1, <1>2, <2>2 DEF Course
  <2>6. CardInv' /\ ReadsAreTrue'
    BY <1>1, <2>2, CardStays, ReadsStay DEF DInv
  <2>7. QED
    BY <2>3, <2>4, <2>5, <2>6 DEF DInv
<1>9. QED
  BY <1>5, <1>7, <1>8

LEMMA ReadSourceKeepsDInv ==
    ASSUME DInv, ReadSource
    PROVE  DInv'
<1> DEFINE version == Handle(Path).version
<1>1. op.phase = "opened" /\ UNCHANGED <<library, disk, source, card, written, closed, raced, changes>>
  BY DEF ReadSource
<1>2. /\ disk.ok /\ ~closed /\ Position < End
      /\ Region(disk, Position) = "source" /\ Handles(Path) # {}
  BY <1>1 DEF DInv, Course
<1>3. /\ CacheOK(cache, raced) /\ Len(cache) <= CacheLimit /\ Len(cache) \in Nat
      /\ CacheLimit \in Nat
      /\ disk.kind = "wii" => Len(cache) = 1
  BY <1>1, <1>2, DiskAssumption DEF DInv, CacheInv, CacheOK
<1>4. version = 0 \/ Path \in raced
  BY <1>2, <1>3, HandleIs
<1>5. /\ CacheOK(Dropped(Path), raced) /\ Len(Dropped(Path)) \in Nat
      /\ Len(Dropped(Path)) = Len(cache) - 1
  BY <1>2, <1>3, DroppedIs
<1>6. /\ cache' \in {Dropped(Path), cache} /\ (disk.kind = "wii" => cache' = Dropped(Path))
      /\ \/ Append1(Units(version))
         \/ \E n \in 0 .. Round - Position - 1 :
               op' = [op EXCEPT !.phase = "done", !.ok = FALSE,
                                !.buf = @ \o SubSeq(Units(version), 1, n)]
  BY DEF ReadSource, FailAfter
<1> HIDE DEF version
<1>7. /\ \E S : op' \in [phase : Phases, off : Nat, len : Nat, buf : Seq(S), ok : BOOLEAN]
      /\ op'.phase \in {"round", "done"} /\ Len(op'.buf) <= op'.len
      /\ ReadsAreTrue'
  <2>1. CASE Append1(Units(version))
    BY <1>1, <1>2, <1>4, <2>1, ReadContinues
  <2>2. CASE \E n \in 0 .. Round - Position - 1 :
               op' = [op EXCEPT !.phase = "done", !.ok = FALSE,
                                !.buf = @ \o SubSeq(Units(version), 1, n)]
    BY <1>1, <1>2, <1>4, <2>2, ReadFails
  <2>3. QED
    BY <1>6, <2>1, <2>2
<1>8. Typed'
  BY <1>1, <1>7 DEF DInv, Typed
<1>9. CacheInv'
  <2>1. Len(Dropped(Path)) <= CacheLimit /\ (Len(cache) = 1 => Len(Dropped(Path)) = 0)
    BY <1>3, <1>5
  <2>2. /\ CacheOK(cache', raced) /\ Len(cache') <= CacheLimit
        /\ disk.kind = "wii" => Len(cache') = 0
    BY <1>3, <1>5, <1>6, <2>1
  <2>3. QED
    BY <1>1, <1>2, <1>7, <2>2 DEF CacheInv
<1>10. Course'
  BY <1>1, <1>2, <1>7 DEF Course
<1>11. CardInv'
  BY <1>1, CardStays DEF DInv
<1>12. QED
  BY <1>7, <1>8, <1>9, <1>10, <1>11 DEF DInv

LEMMA WriteAtKeepsDInv ==
    ASSUME DInv, NEW w \in Writes, WriteAt(w[1], w[2])
    PROVE  DInv'
<1> DEFINE e == Find(disk.saves, w[1])
           into == CardOffset(e, w[1])
           last == w[1] + w[2] - 1
<1>1. w[1] \in Nat /\ w[2] \in Nat \ {0}
  BY DiskAssumption
<1>2. /\ disk.ok /\ op.phase = "idle" /\ e # NoExtent /\ w[2] <= EndOf(e) - w[1]
      /\ card' = [card EXCEPT ![e.path] = @ \cup (into .. into + w[2] - 1)]
      /\ written' = written \cup (w[1] .. last)
      /\ UNCHANGED <<library, disk, source, cache, op, closed, raced, changes>>
  BY DEF WriteAt, Writable
<1>3. op = Idle
  BY <1>2 DEF DInv, Course
<1> DEFINE R == [off : Nat, len : Nat, path : Card, from : Int]
<1>4. disk.saves \in Seq(R) /\ Listed(disk.saves) /\ ValidRanges(disk)
  BY <1>2, DiskIs DEF DInv, LaidOut
<1>5. \A x \in R : x.off \in Nat /\ x.len \in Nat /\ x.path \in Card /\ x.from \in Int
  OBVIOUS
<1> HIDE DEF R
<1>6. \A i \in DOMAIN disk.saves : disk.saves[i] \in R
  BY <1>4
<1>7. PICK k \in DOMAIN disk.saves : e = disk.saves[k] /\ Within(disk.saves[k], w[1])
  BY <1>1, <1>2, <1>4, Lookup
<1>8. e \in R /\ into = e.from + w[1] - e.off
  BY <1>6, <1>7 DEF CardOffset
<1> HIDE DEF e, into, last
<1>9. e.off \in Nat /\ e.len \in Nat /\ e.path \in Card /\ e.from \in Int /\ into \in Int
  BY <1>1, <1>5, <1>8
<1>10. e.off <= w[1] /\ last < e.off + e.len /\ last \in Nat /\ w[1] <= last
  BY <1>1, <1>2, <1>7, <1>9 DEF Within, EndOf, last
<1>11. Typed'
  <2>1. card' \in [Card -> SUBSET Int]
    <3>1. into .. into + w[2] - 1 \subseteq Int
      BY <1>1, <1>9
    <3>2. card \in [Card -> SUBSET Int]
      BY DEF DInv, Typed
    <3>3. QED
      BY <1>2, <1>9, <3>1, <3>2
  <2>2. QED
    BY <1>2, <2>1 DEF DInv, Typed
<1>12. CacheInv'
  BY <1>2 DEF DInv, CacheInv
<1>13. Course'
  BY <1>2, <1>3 DEF Course
<1>14. CardInv'
  <2> SUFFICES ASSUME NEW i \in DOMAIN disk.saves, NEW u \in Nat, Within(disk.saves[i], u)
               PROVE  CardOffset(disk.saves[i], u) \in card'[disk.saves[i].path]
                         <=> u \in written'
    BY <1>2 DEF CardInv
  <2> DEFINE x == disk.saves[i]
  <2>1. CardOffset(x, u) \in card[x.path] <=> u \in written
    BY <1>2 DEF DInv, CardInv
  <2>2. x.off \in Nat /\ x.len \in Nat /\ x.path \in Card /\ x.from \in Int
    BY <1>5, <1>6
  <2>3. x.off <= u /\ u < x.off + x.len
    BY DEF Within, EndOf
  <2>4. DOMAIN card = Card
    BY DEF DInv, Typed
  <2>5. CASE i = k
    <3>1. x = e
      BY <1>7, <2>5
    <3>2. card'[x.path] = card[x.path] \cup (into .. into + w[2] - 1)
      BY <1>2, <1>9, <2>4, <3>1
    <3>3. CardOffset(x, u) \in into .. into + w[2] - 1 <=> u \in w[1] .. last
      BY <1>1, <1>8, <1>9, <3>1 DEF CardOffset, last
    <3>4. QED
      BY <1>2, <2>1, <3>2, <3>3
  <2>6. CASE i # k
    <3>1. x.path # e.path
      BY <1>4, <1>7, <2>6 DEF ValidRanges
    <3>2. Apart(x, e)
      BY <1>4, <1>7, <2>6 DEF Listed
    <3>3. card'[x.path] = card[x.path]
      BY <1>2, <2>2, <2>4, <3>1
    <3> HIDE DEF x
    <3>4. u \notin w[1] .. last
      BY <1>1, <1>9, <1>10, <2>2, <2>3, <3>2 DEF Apart
    <3>5. QED
      BY <1>2, <2>1, <3>3, <3>4 DEF x
  <2>7. QED
    BY <2>5, <2>6
<1>15. ReadsAreTrue'
  BY <1>2, <1>3, NoOp, NothingRead
<1>16. QED
  BY <1>11, <1>12, <1>13, <1>14, <1>15 DEF DInv

LEMMA DInvStep ==
    ASSUME DInv, [Next]_vars
    PROVE  DInv'
<1>1. CASE UNCHANGED vars
  <2>1. UNCHANGED <<library, disk, source, cache, op, card, written, closed, raced, changes>>
    BY <1>1 DEF vars
  <2>2. Typed' /\ CacheInv'
    BY <2>1 DEF DInv, Typed, CacheInv
  <2>3. Position' = Position /\ End' = End /\ Path' = Path
    BY <2>1 DEF Position, End, Path
  <2>4. Handles(Path)' = Handles(Path)
    BY <2>1, <2>3 DEF Handles
  <2>5. Course'
    BY <2>1, <2>3, <2>4 DEF DInv, Course
  <2>6. CardInv' /\ ReadsAreTrue'
    BY <2>1, CardStays, ReadsStay DEF DInv
  <2>7. QED
    BY <2>2, <2>5, <2>6 DEF DInv
<1>2. CASE \E r \in Reads : Begin(r[1], r[2])
  BY <1>2, BeginKeepsDInv
<1>3. CASE \E w \in Writes : WriteAt(w[1], w[2])
  BY <1>3, WriteAtKeepsDInv
<1>4. CASE ServeStored
  BY <1>4, ServeStoredKeepsDInv
<1>5. CASE VerifySource
  BY <1>5, VerifySourceKeepsDInv
<1>6. CASE OpenSource
  BY <1>6, OpenSourceKeepsDInv
<1>7. CASE ReadSource
  BY <1>7, ReadSourceKeepsDInv
<1>8. CASE Return
  BY <1>8, ReturnKeepsDInv
<1>9. CASE Close
  BY <1>9, CloseKeepsDInv
<1>10. CASE \E p \in Source, v \in {Gone, 0, 1} : Change(p, v)
  BY <1>10, ChangeKeepsDInv
<1>11. QED
  BY <1>1, <1>2, <1>3, <1>4, <1>5, <1>6, <1>7, <1>8, <1>9, <1>10 DEF Next

-----------------------------------------------------------------------------
\* The invariant of a backend: what ReadAt, WriteAt and Close rely on from step to
\* step, in every state that any interleaving with changes of the files reaches.
THEOREM DiskInvariant == Spec => []DInv
<1>1. Init => DInv
  BY DInvInit
<1>2. DInv /\ [Next]_vars => DInv'
  BY DInvStep
<1>3. QED
  BY <1>1, <1>2, PTL DEF Spec

\* ReadAt (backend.go, vdisk.go) puts into the buffer what the disk holds at each
\* unit, for any layout, any read and write, and any changes of the source files;
\* the exception is a file replaced between verifyIdentity and open.
THEOREM ReadsStayTrue == Spec => []ReadsAreTrue
<1>1. DInv => ReadsAreTrue
  BY DEF DInv
<1>2. QED
  BY <1>1, DiskInvariant, PTL

\* Backend.open and dropCached keep at most CacheLimit handles and one of a path,
\* whatever the limit; none outlives Close, or a read of the Wii disk.
THEOREM HandlesStayBounded == Spec => []HandlesBounded
<1>1. DInv => HandlesBounded
  <2> SUFFICES ASSUME DInv PROVE HandlesBounded
    OBVIOUS
  <2>1. /\ Len(cache) <= CacheLimit
        /\ \A i, j \in DOMAIN cache : cache[i].path = cache[j].path => i = j
        /\ closed => cache = <<>>
    BY DEF DInv, CacheInv, CacheOK, OneEach
  <2>2. ASSUME disk.ok, disk.kind = "wii", op.phase = "idle" PROVE cache = <<>>
    <3>1. cache \in Seq(Handle1) /\ Len(cache) = 0
      BY <2>2 DEF DInv, CacheInv, CacheOK
    <3>2. QED
      BY <3>1, EmptySeq
  <2>3. QED
    BY <2>1, <2>2 DEF HandlesBounded
<1>2. QED
  BY <1>1, DiskInvariant, PTL

=============================================================================
