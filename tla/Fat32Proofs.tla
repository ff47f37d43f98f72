---------------------------- MODULE Fat32Proofs -----------------------------
(***************************************************************************)
(* Proofs about Fat32: the types, the copy of the allocation table, the    *)
(* cached sector and the files that read back, whatever the sizes and the  *)
(* number of calls and faults.                                             *)
(***************************************************************************)
EXTENDS Fat32, TLAPS, WellFoundedInduction

-----------------------------------------------------------------------------
USE DEF history

(* Sectors: the entry at an offset of a sector, and back.                   *)
LEMMA DivUnique ==
  ASSUME NEW q \in Nat, NEW r \in Nat, NEW d \in Nat \ {0}, r < d
  PROVE  (q * d + r) \div d = q /\ (q * d + r) % d = r
OBVIOUS

LEMMA DivMod ==
  ASSUME NEW x \in Nat, NEW d \in Nat \ {0}
  PROVE  x \div d \in Nat /\ x % d \in 0 .. d-1 /\ (x \div d) * d + (x % d) = x
OBVIOUS

LEMMA TimesMonotone ==
  ASSUME NEW a \in Nat, NEW b \in Nat, NEW d \in Nat, a <= b
  PROVE  a * d <= b * d
OBVIOUS

(* The number of a sector, and that Far is no sector of the FAT.            *)
LEMMA SectorNumber ==
  ASSUME NEW x \in Entries
  PROVE  SectorOf(x) = x \div PerSector
BY SizesAssumption DEF SectorOf, Entries

LEMMA DivLess ==
  ASSUME NEW x \in Nat, NEW d \in Nat \ {0}
  PROVE  x \div d <= x
OBVIOUS

LEMMA FarAway ==
  /\ \A x \in Entries : SectorOf(x) # Far
  /\ \A s \in 0 .. SectorOf(Size-1) : s # Far
  /\ \A x \in 0 .. BAD : SectorOf(x) = Far <=> x > Size
<1> USE SizesAssumption
<1>1. ASSUME NEW x \in 0 .. Size PROVE SectorOf(x) \in Int /\ SectorOf(x) <= Size
  <2>1. x \in Nat /\ PerSector \in Nat \ {0} /\ x <= Size
    OBVIOUS
  <2>2. x \div PerSector \in Nat /\ x \div PerSector <= x
    BY <2>1, DivMod, DivLess
  <2>3. SectorOf(x) = x \div PerSector
    BY <2>1 DEF SectorOf
  <2>4. QED
    BY <2>1, <2>2, <2>3
<1>2. Size - 1 \in 0 .. Size
  OBVIOUS
<1>3. SectorOf(Size-1) \in Int /\ SectorOf(Size-1) <= Size
  BY <1>1, <1>2
<1>4. \A x \in 0 .. BAD : SectorOf(x) = Far <=> x > Size
  <2> SUFFICES ASSUME NEW x \in 0 .. BAD PROVE SectorOf(x) = Far <=> x > Size
    OBVIOUS
  <2>1. CASE x > Size
    BY <2>1 DEF SectorOf
  <2>2. CASE x <= Size
    BY <1>1, <2>2 DEF Far
  <2>3. QED
    BY <2>1, <2>2
<1>5. \A x \in Entries : x \in 0 .. BAD /\ x <= Size /\ ~(x > Size)
  BY DEF Entries, BAD
<1>6. \A s \in 0 .. SectorOf(Size-1) : s # Far
  BY <1>3 DEF Far
<1>7. QED
  BY <1>4, <1>5, <1>6

LEMMA SectorBound ==
  ASSUME NEW s \in 0 .. SectorOf(Size-1), NEW o \in Offsets
  PROVE  EntryAt(s, o) \in Entries
<1> USE SizesAssumption
<1> DEFINE k == Size \div PerSector
<1>1. Size = k * PerSector /\ k \in Nat
  <2>1. k \in Nat /\ k * PerSector + (Size % PerSector) = Size
    BY DivMod
  <2>2. k * PerSector \in Nat
    BY <2>1
  <2> HIDE DEF k
  <2>3. QED
    BY <2>1, <2>2
<1>2. k >= 1 /\ k - 1 \in Nat
  BY <1>1
<1> HIDE DEF k
<1>3. Size - 1 = (k-1) * PerSector + (PerSector-1)
  BY <1>1, <1>2
<1>4. SectorOf(Size-1) = k-1
  <2>1. ((k-1) * PerSector + (PerSector-1)) \div PerSector = k-1
    <3>1. PerSector-1 \in Nat /\ PerSector-1 < PerSector
      OBVIOUS
    <3>2. QED
      BY <1>2, <3>1, DivUnique
  <2>2. Size - 1 \in Entries
    BY DEF Entries
  <2>3. QED
    BY <2>1, <2>2, <1>3, SectorNumber, Zenon
<1>5. s * PerSector <= (k-1) * PerSector /\ s * PerSector \in Nat
  BY <1>2, <1>4, TimesMonotone
<1>6. QED
  <2> DEFINE a == s * PerSector
             b == (k-1) * PerSector
  <2>1. a \in Nat /\ a <= b /\ Size - 1 = b + (PerSector-1)
    BY <1>3, <1>5
  <2>2. b \in Int
    BY <1>2
  <2> HIDE DEF a, b
  <2>3. a + o \in 0 .. Size-1
    BY <2>1, <2>2 DEF Offsets
  <2>4. QED
    BY <2>3 DEF EntryAt, Entries, a

LEMMA SectorArithmetic ==
  /\ \A x \in Entries : /\ SectorOf(x) \in 0 .. SectorOf(Size-1) /\ Offset(x) \in Offsets
                        /\ EntryAt(SectorOf(x), Offset(x)) = x
  /\ \A s \in 0 .. SectorOf(Size-1), o \in Offsets :
       /\ EntryAt(s, o) \in Entries
       /\ SectorOf(EntryAt(s, o)) = s /\ Offset(EntryAt(s, o)) = o
<1> USE SizesAssumption
<1>1. ASSUME NEW x \in Entries
      PROVE  SectorOf(x) \in Nat /\ Offset(x) \in Offsets /\ EntryAt(SectorOf(x), Offset(x)) = x
  <2>1. x \in Nat /\ PerSector \in Nat \ {0}
    BY DEF Entries
  <2>2. x \div PerSector \in Nat /\ x % PerSector \in 0 .. PerSector-1
        /\ (x \div PerSector) * PerSector + (x % PerSector) = x
    BY <2>1, DivMod, Zenon
  <2>3. SectorOf(x) = x \div PerSector
    BY SectorNumber, Zenon
  <2>4. QED
    BY <2>2, <2>3, Zenon DEF Offset, Offsets, EntryAt
<1>2. SectorOf(Size-1) \in Nat
  <2>1. Size-1 \in Entries
    <3>1. Size \in Int /\ 4 <= Size-1
      OBVIOUS
    <3>2. QED
      BY <3>1 DEF Entries
  <2>2. QED
    BY <2>1, <1>1
<1>3. ASSUME NEW x \in Entries
      PROVE  SectorOf(x) <= SectorOf(Size-1)
  <2> DEFINE q == SectorOf(x)
             t == SectorOf(Size-1)
  <2> SUFFICES ASSUME q >= t + 1 PROVE FALSE
    BY <1>1, <1>2
  <2>1. (t+1) * PerSector <= q * PerSector
    BY <1>1, <1>2, TimesMonotone
  <2>2. Size - 1 < t * PerSector + PerSector
    <3>1. Size - 1 = t * PerSector + ((Size-1) % PerSector) /\ (Size-1) % PerSector \in 0 .. PerSector-1
      <4>1. Size - 1 \in Entries /\ Size - 1 \in Nat
        BY DEF Entries
      <4>2. t = (Size-1) \div PerSector
        BY <4>1, SectorNumber
      <4>3. QED
        BY <4>1, <4>2, DivMod
    <3>2. t * PerSector \in Nat
      BY <1>2
    <3> HIDE DEF t
    <3>3. QED
      BY <3>1, <3>2
  <2>3. (t+1) * PerSector = t * PerSector + PerSector
    BY <1>2
  <2>4. q * PerSector <= x /\ q * PerSector \in Nat
    <3>1. x = q * PerSector + Offset(x)
      BY <1>1 DEF EntryAt
    <3>2. q * PerSector \in Nat
      BY <1>1
    <3> HIDE DEF q
    <3>3. QED
      BY <3>1, <3>2, <1>1 DEF Offsets, Entries
  <2>5. t * PerSector \in Nat
    BY <1>2
  <2> HIDE DEF q, t
  <2>6. QED
    BY <2>1, <2>2, <2>3, <2>4, <2>5 DEF Entries
<1>4. ASSUME NEW s \in 0 .. SectorOf(Size-1), NEW o \in Offsets
      PROVE  SectorOf(EntryAt(s, o)) = s /\ Offset(EntryAt(s, o)) = o
  <2>1. EntryAt(s, o) \in Entries
    BY SectorBound
  <2>2. SectorOf(EntryAt(s, o)) = EntryAt(s, o) \div PerSector
    BY <2>1, SectorNumber
  <2>3. s \in Nat /\ o \in Nat /\ o < PerSector /\ PerSector \in Nat \ {0}
    BY <1>2 DEF Offsets
  <2>4. (s * PerSector + o) \div PerSector = s /\ (s * PerSector + o) % PerSector = o
    BY <2>3, DivUnique
  <2>5. QED
    BY <2>2, <2>4, Zenon DEF Offset, EntryAt
<1>5. QED
  BY <1>1, <1>2, <1>3, <1>4, SectorBound
-----------------------------------------------------------------------------
(* The accesses: at most one entry is read and one is written at a stage,   *)
(* and never both.                                                          *)
LEMMA AccessKinds ==
  ASSUME TypeOK
  PROVE  /\ Reads \subseteq 0 .. BAD /\ \A c, d \in Reads : c = d
         /\ \A w \in Writes : /\ w.at \in 0 .. BAD
                              /\ w.at \in Entries => w.value \in 0 .. BAD
         /\ \A v, w \in Writes : v = w
         /\ Reads # {} => Writes = {}
         /\ Reads # {} \/ Writes # {} => pc \in Stages
<1>0. \A p \in Entries : p + 1 \in 0 .. BAD
  BY SizesAssumption DEF Entries, BAD
<1> USE SizesAssumption DEF TypeOK, CallOK, Locals
<1>1. call.pos \in 0 .. BAD /\ call.cur \in 0 .. BAD
  OBVIOUS
<1>2. CASE pc = "seek"
  BY <1>1, <1>2 DEF Reads, Writes, Stages
<1>3. CASE pc \in {"walk", "skip", "next", "follow"}
  BY <1>1, <1>3 DEF Reads, Writes, Stages
<1>4. CASE pc = "unlink"
  BY <1>1, <1>4 DEF Reads, Writes, Stages
<1>5. CASE pc = "mark"
  <2>1. Reads = {} /\ Writes = {[at |-> call.pos, value |-> call.pos + 1]}
    BY <1>5 DEF Reads, Writes
  <2>2. call.pos \in Entries => call.pos + 1 \in 0 .. BAD
    BY <1>0
  <2>3. \A w \in Writes : w.at = call.pos /\ w.value = call.pos + 1
    BY <2>1
  <2>4. pc \in Stages
    BY <1>5 DEF Stages
  <2> HIDE SizesAssumption DEF TypeOK, CallOK, Locals
  <2>5. \A v, w \in Writes : v = w
    BY <2>1
  <2>6. \A w \in Writes : w.at \in 0 .. BAD /\ (w.at \in Entries => w.value \in 0 .. BAD)
    BY <1>1, <2>2, <2>3
  <2>7. QED
    BY <2>1, <2>4, <2>5, <2>6
<1>6. CASE pc = "link"
  BY <1>1, <1>6 DEF Reads, Writes, Stages
<1>7. CASE pc \in {"release", "unlinked"}
  BY <1>1, <1>7 DEF Reads, Writes, Stages, BAD, FREE
<1>8. CASE pc \in {"idle", "overrun", "data", "entry", "erase"}
  BY <1>8 DEF Reads, Writes
<1>9. QED
  BY <1>2, <1>3, <1>4, <1>5, <1>6, <1>7, <1>8 DEF Stages

(* The store: between the two steps of a read the cached sector is the one  *)
(* that is read; between the steps of a write the buffer is its sector of   *)
(* the FAT with the new entry, which the FAT has once it is written.        *)
LabelInv ==
  phase = "labelled" => \E c \in Reads : c # Size /\ cache.sector = SectorOf(c)

BufferInv ==
  phase \in {"loaded", "written"} =>
    \E w \in Writes :
      /\ w.at \in Entries
      /\ buffer = [x \in OnSector(SectorOf(w.at)) |-> IF x = w.at THEN w.value ELSE fat[x]]
      /\ phase = "written" => fat[w.at] = w.value

(* What CacheFollows says, and that of a sector that is being written it    *)
(* is only the new entry that the cache lacks.                              *)
CacheInv ==
  cache.sector \notin {-1, Far} /\ phase # "labelled" /\ "stale" \notin events =>
    \A o \in Offsets :
      EntryAt(cache.sector, o) \notin Interrupted
        => cache.entries[o] = fat[EntryAt(cache.sector, o)]

(* The entry that is read next, when what goes before is done.              *)
Coming ==
  CASE pc = "seek" -> {call.pos}
    [] pc \in {"walk", "skip", "next", "follow", "unlink"} -> {call.cur}
    [] pc \in {"release", "unlinked"} -> {call.next}
    [] OTHER -> {}

(* A number of the sector Far comes from an entry that was read last: the   *)
(* cached sector has the number of that entry's sector, or of the one that  *)
(* is read now.                                                             *)
Fresh == phase # "labelled" => \A c \in Coming : c > Size => cache.sector # Far

StoreInv == LabelInv /\ BufferInv /\ CopyFollows /\ CacheInv
VolumeInv == TypeOK /\ StoreInv
FatInv == VolumeInv /\ Fresh

USE DEF VolumeInv

(* A step between two accesses, and one before the first.                   *)
LEMMA QuietKeeps ==
  ASSUME StoreInv, phase = "start", UNCHANGED <<fat, backup, cache, phase, torn>>,
         "stale" \in events <=> "stale" \in events'
  PROVE  StoreInv'
BY DEF StoreInv, LabelInv, BufferInv, CopyFollows, CacheInv, Interrupted

LEMMA EntryRead ==
  ASSUME FatInv, NEW c \in Reads, NEW v, readcluster(c, v)
  PROVE  c \in Entries
<1>1. c \in 0 .. BAD /\ c # Size /\ c \in Coming
  BY AccessKinds DEF FatInv, readcluster, Reads, Coming
<1>2. c > Size => SectorOf(c) = Far
  BY <1>1, FarAway
<1>3. ~(c > Size)
  BY <1>1, <1>2, SizesAssumption DEF FatInv, Fresh, readcluster
<1>4. QED
  BY <1>1, <1>3, SizesAssumption DEF Entries, BAD

LEMMA ReadKeeps ==
  ASSUME FatInv, NEW c \in Reads, NEW v \in 0 .. BAD, readcluster(c, v),
         "stale" \in events <=> "stale" \in events'
  PROVE  /\ StoreInv'
         /\ cache' \in [sector : CacheSectors, entries : [Offsets -> 0 .. BAD]]
         /\ phase' = "start" /\ UNCHANGED <<drive, bounds, torn>>
<1> USE SizesAssumption DEF FatInv
<1>1. c \in Entries
  BY EntryRead
<1>2. phase \in {"start", "labelled"} /\ phase' = "start" /\ UNCHANGED <<drive, bounds, torn>>
  BY DEF readcluster
<1>3. Interrupted = {} /\ Interrupted' = {}
  BY <1>2 DEF Interrupted
<1>4. CopyFollows'
  BY <1>2, <1>3 DEF StoreInv, CopyFollows, drive
<1>5. LabelInv' /\ BufferInv'
  BY <1>2 DEF LabelInv, BufferInv
<1>6. CASE UNCHANGED cache /\ phase = "start"
  BY <1>2, <1>3, <1>4, <1>5, <1>6 DEF StoreInv, CacheInv, TypeOK, drive, CacheSectors
<1>7. CASE phase = "labelled" /\ cache' = [cache EXCEPT !.entries = SectorAt(fat, SectorOf(c))]
  <2>1. cache.sector = SectorOf(c)
    BY <1>7, AccessKinds DEF StoreInv, LabelInv
  <2>2. SectorOf(c) \in 0 .. SectorOf(Size-1)
    BY <1>1, SectorArithmetic
  <2>3. SectorAt(fat, SectorOf(c)) \in [Offsets -> 0 .. BAD]
    BY <2>2, SectorArithmetic DEF SectorAt, TypeOK
  <2>4. cache'.sector = SectorOf(c) /\ cache'.entries = SectorAt(fat, SectorOf(c))
        /\ cache' \in [sector : CacheSectors, entries : [Offsets -> 0 .. BAD]]
    BY <1>7, <2>1, <2>3 DEF TypeOK, CacheSectors
  <2>5. CacheInv'
    BY <2>4, <1>2 DEF CacheInv, SectorAt, drive
  <2>6. QED
    BY <1>2, <1>4, <1>5, <2>4, <2>5 DEF StoreInv
<1>8. QED
  BY <1>6, <1>7 DEF readcluster

LEMMA WriteKeeps ==
  ASSUME FatInv, NEW w \in Writes, writecluster(w),
         "stale" \in events <=> "stale" \in events'
  PROVE  /\ StoreInv' /\ w.at \in Entries
         /\ backup' \in [Entries -> 0 .. BAD]
         /\ cache' \in [sector : CacheSectors, entries : [Offsets -> 0 .. BAD]]
         /\ phase' = "start" /\ UNCHANGED <<fat, data, dir, bounds, torn>>
<1> USE SizesAssumption DEF FatInv
<1>1. phase = "written" /\ phase' = "start" /\ UNCHANGED <<fat, data, dir, bounds, torn>>
  BY DEF writecluster
<1>2. /\ w.at \in Entries /\ fat[w.at] = w.value /\ w.value \in 0 .. BAD
      /\ buffer = [x \in OnSector(SectorOf(w.at)) |-> IF x = w.at THEN w.value ELSE fat[x]]
  BY <1>1, AccessKinds DEF StoreInv, BufferInv
<1>3. Interrupted = {w.at} /\ Interrupted' = {}
  BY <1>1, AccessKinds DEF Interrupted
<1>4. backup' = [x \in Entries |-> IF SectorOf(x) = SectorOf(w.at) THEN fat[x] ELSE backup[x]]
  BY <1>2 DEF writecluster, Written, OnSector
<1>5. CopyFollows'
  BY <1>1, <1>3, <1>4 DEF StoreInv, CopyFollows
<1>6. LabelInv' /\ BufferInv'
  BY <1>1 DEF LabelInv, BufferInv
<1>7. SectorOf(w.at) \in 0 .. SectorOf(Size-1) /\ Offset(w.at) \in Offsets
      /\ EntryAt(SectorOf(w.at), Offset(w.at)) = w.at
  BY <1>2, SectorArithmetic
<1>8. cache' \in [sector : CacheSectors, entries : [Offsets -> 0 .. BAD]]
  BY <1>2, <1>7 DEF writecluster, TypeOK
<1>9. CacheInv'
  <2> SUFFICES ASSUME cache'.sector \notin {-1, Far}, "stale" \notin events, NEW o \in Offsets
               PROVE  cache'.entries[o] = fat[EntryAt(cache'.sector, o)]
    BY <1>1 DEF CacheInv
  <2>1. cache'.sector = cache.sector /\ cache.sector \in 0 .. SectorOf(Size-1)
    BY DEF writecluster, TypeOK, CacheSectors
  <2>2. EntryAt(cache.sector, o) # w.at => cache.entries[o] = fat[EntryAt(cache.sector, o)]
    BY <1>1, <1>3, <2>1 DEF StoreInv, CacheInv
  <2>3. CASE cache.sector = SectorOf(w.at)
    <3>1. cache'.entries = [cache.entries EXCEPT ![Offset(w.at)] = w.value]
      BY <2>3 DEF writecluster, TypeOK
    <3>2. CASE o = Offset(w.at)
      BY <3>1, <3>2, <2>1, <2>3, <1>2, <1>7 DEF TypeOK
    <3>3. CASE o # Offset(w.at)
      <4>1. EntryAt(cache.sector, o) # w.at
        BY <3>3, <2>1, SectorArithmetic
      <4>2. QED
        BY <4>1, <3>1, <3>3, <2>1, <2>2 DEF TypeOK
    <3>4. QED
      BY <3>2, <3>3
  <2>4. CASE cache.sector # SectorOf(w.at)
    <3>1. EntryAt(cache.sector, o) # w.at
      BY <2>4, <2>1, SectorArithmetic
    <3>2. QED
      BY <3>1, <2>1, <2>2, <2>4 DEF writecluster
  <2>5. QED
    BY <2>3, <2>4
<1>10. QED
  BY <1>1, <1>2, <1>4, <1>5, <1>6, <1>8, <1>9 DEF StoreInv, TypeOK

(* A read or a write by one of the stages keeps the types of the volume.    *)
DriveOK ==
  /\ fat \in [Entries -> 0 .. BAD] /\ backup \in [Entries -> 0 .. BAD]
  /\ data \in [Entries -> Files \cup {None}]
  /\ dir \in [Files -> FileEntries \cup {Absent}]
  /\ cache \in [sector : CacheSectors, entries : [Offsets -> 0 .. BAD]]
  /\ start_lookup \in 0 .. Size
  /\ phase \in {"start", "labelled", "loaded", "written"}

LEMMA ReadTypes ==
  ASSUME FatInv, NEW c \in Reads, NEW v \in 0 .. BAD, readcluster(c, v),
         "stale" \in events <=> "stale" \in events'
  PROVE  DriveOK' /\ StoreInv'
BY ReadKeeps DEF FatInv, TypeOK, DriveOK, drive, bounds

LEMMA WriteTypes ==
  ASSUME FatInv, NEW w \in Writes, writecluster(w),
         "stale" \in events <=> "stale" \in events'
  PROVE  DriveOK' /\ StoreInv' /\ w.at \in Entries
BY WriteKeeps DEF FatInv, TypeOK, DriveOK, drive, bounds

LEMMA Assemble ==
  ASSUME DriveOK', entry' \in [Files -> FileEntries], CallOK', StoreInv'
  PROVE  VolumeInv'
BY DEF FatInv, TypeOK, DriveOK

(* Where Resize leads, the locals have their types.                         *)
LEMMA ResizeTypes ==
  ASSUME TypeOK, NEW k \in Locals, k.file \in Files, Resize(k)
  PROVE  CallOK'
<1>1. start_lookup \in 0 .. Size /\ start_lookup \in 0 .. BAD /\ entry[k.file].first \in 0 .. BAD
  BY SizesAssumption DEF TypeOK, FileEntries, Entries, BAD
<1>2. k.have \in 0 .. MaxClusters /\ k.want \in 0 .. MaxClusters
  BY DEF Locals
<1> DEFINE p == [k EXCEPT !.pos = start_lookup]
           c == [k EXCEPT !.cur = entry[k.file].first, !.i = 0]
<1>3. p \in Locals /\ p.file = k.file /\ p.have = k.have /\ p.want = k.want
  BY <1>1 DEF Locals
<1>4. c \in Locals /\ c.file = k.file
  BY <1>1 DEF Locals
<1>5. \/ k.have < k.want /\ pc' = "seek" /\ call' = p
      \/ pc' \in {"skip", "data"} /\ call' = c
  BY <1>2 DEF Resize, Goto
<1> HIDE DEF p, c
<1>6. QED
  BY <1>3, <1>4, <1>5 DEF CallOK, Stages

LEMMA ReturnTypes ==
  ASSUME Return
  PROVE  CallOK'
BY SizesAssumption DEF Return, Goto, CallOK, NoCall, Locals, Stages, BAD

(* Nothing is under way in the store where no entry of the FAT is accessed. *)
LEMMA NoAccess ==
  ASSUME FatInv, phase = "start" \/ Reads = {}, \A w \in Writes : w.at \notin Entries
  PROVE  phase = "start"
BY DEF FatInv, TypeOK, StoreInv, LabelInv, BufferInv

(* A step that leaves the FAT, its copy and the cache alone.                *)
LEMMA QuietTypes ==
  ASSUME FatInv, phase = "start" \/ Reads = {}, \A w \in Writes : w.at \notin Entries,
         UNCHANGED <<fat, backup, cache, start_lookup, phase, torn>>,
         "stale" \in events <=> "stale" \in events',
         data' \in [Entries -> Files \cup {None}],
         dir' \in [Files -> FileEntries \cup {Absent}],
         entry' \in [Files -> FileEntries], CallOK'
  PROVE  VolumeInv'
<1>1. phase = "start"
  BY NoAccess
<1>2. StoreInv'
  BY <1>1, QuietKeeps DEF FatInv
<1>3. QED
  BY <1>2 DEF FatInv, TypeOK

LEMMA LabelKeeps ==
  ASSUME FatInv, Label
  PROVE  VolumeInv'
<1> USE DEF FatInv
<1>1. PICK c \in Reads : c # Size /\ cache.sector # SectorOf(c)
  BY DEF Label
<1>2. c = (CHOOSE d \in Reads : TRUE) /\ c \in 0 .. BAD
  BY <1>1, AccessKinds, SizesAssumption
<1>3. SectorOf(c) \in CacheSectors
  <2>1. CASE c > Size
    BY <1>2, <2>1, FarAway DEF CacheSectors
  <2>2. CASE ~(c > Size)
    <3>1. c \in Entries
      BY <1>1, <1>2, <2>2, SizesAssumption DEF Entries, BAD
    <3>2. SectorOf(c) \in 0 .. SectorOf(Size-1)
      BY <3>1, SectorArithmetic
    <3>3. QED
      BY <3>2 DEF CacheSectors
  <2>3. QED
    BY <2>1, <2>2
<1>4. cache' = [cache EXCEPT !.sector = SectorOf(c)] /\ phase' = "labelled"
  BY <1>2, Zenon DEF Label
<1>5. TypeOK'
  BY <1>3, <1>4 DEF TypeOK, Label, drive, bounds, CallOK
<1>6. Reads' = Reads
  BY DEF Label, Reads
<1>7. LabelInv'
  BY <1>1, <1>4, <1>6 DEF LabelInv, TypeOK
<1>8. BufferInv' /\ CacheInv'
  BY <1>4 DEF BufferInv, CacheInv
<1>9. CopyFollows'
  BY <1>4 DEF CopyFollows, Interrupted, StoreInv, Label, drive
<1>10. QED
  BY <1>5, <1>7, <1>8, <1>9 DEF StoreInv

LEMMA LoadKeeps ==
  ASSUME FatInv, Load
  PROVE  VolumeInv'
<1>1. phase = "start" /\ phase' = "loaded" /\ Writes' = Writes
      /\ UNCHANGED <<fat, backup, data, dir, entry, cache, start_lookup, pc, call, torn, events>>
  BY DEF Load, drive, bounds, Writes
<1>2. TypeOK'
  BY <1>1 DEF FatInv, TypeOK, CallOK
<1>3. BufferInv'
  <2>1. PICK w \in Writes :
          /\ w.at < Size
          /\ buffer' = [x \in OnSector(SectorOf(w.at)) |-> IF x = w.at THEN w.value ELSE fat[x]]
    BY DEF Load
  <2>2. w.at \in Entries
    BY <2>1, AccessKinds, SizesAssumption DEF FatInv, Entries, BAD
  <2>3. QED
    BY <1>1, <2>1, <2>2 DEF BufferInv
<1>4. LabelInv' /\ CopyFollows' /\ CacheInv'
  BY <1>1 DEF LabelInv, CopyFollows, CacheInv, Interrupted, FatInv, StoreInv
<1>5. QED
  BY <1>2, <1>3, <1>4 DEF FatInv, StoreInv

LEMMA WriteFatKeeps ==
  ASSUME FatInv, WriteFat
  PROVE  VolumeInv'
<1>1. phase = "loaded" /\ phase' = "written" /\ Writes' = Writes /\ fat' = Written(fat)
      /\ UNCHANGED <<backup, data, dir, entry, cache, start_lookup, pc, call, buffer, torn, events>>
  BY DEF WriteFat, bounds, Writes
<1>2. PICK w \in Writes :
        /\ w.at \in Entries
        /\ buffer = [x \in OnSector(SectorOf(w.at)) |-> IF x = w.at THEN w.value ELSE fat[x]]
  BY <1>1 DEF FatInv, StoreInv, BufferInv
<1>3. w.value \in 0 .. BAD
  BY <1>2, AccessKinds DEF FatInv
<1>4. fat' = [fat EXCEPT ![w.at] = w.value] /\ fat \in [Entries -> 0 .. BAD]
  BY <1>1, <1>2 DEF Written, OnSector, FatInv, TypeOK
<1>5. TypeOK'
  BY <1>1, <1>2, <1>3, <1>4 DEF FatInv, TypeOK, CallOK
<1>6. Interrupted = {} /\ Interrupted' = {w.at}
  BY <1>1, <1>2, AccessKinds DEF Interrupted, FatInv
<1>7. CopyFollows'
  BY <1>1, <1>2, <1>4, <1>6 DEF CopyFollows, FatInv, StoreInv
<1>8. CacheInv'
  <2> SUFFICES ASSUME cache.sector \notin {-1, Far}, "stale" \notin events, NEW o \in Offsets,
                      EntryAt(cache.sector, o) # w.at
               PROVE  cache.entries[o] = fat'[EntryAt(cache.sector, o)]
    BY <1>1, <1>6 DEF CacheInv
  <2>1. cache.entries[o] = fat[EntryAt(cache.sector, o)]
    BY <1>1, <1>6 DEF FatInv, StoreInv, CacheInv
  <2>2. EntryAt(cache.sector, o) \in Entries
    BY SectorArithmetic DEF FatInv, TypeOK, CacheSectors
  <2>3. QED
    BY <1>4, <2>1, <2>2
<1>9. buffer = [x \in OnSector(SectorOf(w.at)) |-> IF x = w.at THEN w.value ELSE fat'[x]]
  BY <1>2, <1>4 DEF OnSector
<1>10. LabelInv' /\ BufferInv'
  BY <1>1, <1>2, <1>4, <1>9 DEF LabelInv, BufferInv
<1>11. QED
  BY <1>5, <1>7, <1>8, <1>10 DEF FatInv, StoreInv

-----------------------------------------------------------------------------
(* The stages that read an entry.                                           *)
LEMMA ReadingStages ==
  ASSUME FatInv, get_free_cluster \/ Walk \/ SkipKept \/ NextOfFreed \/ Follow \/ Unlink
  PROVE  VolumeInv'
<1> USE DEF FatInv
<1>0. call \in Locals /\ call.file \in Files \cup {None} /\ call.i + 1 \in Nat /\ call.pos \in 0 .. BAD
      /\ entry \in [Files -> FileEntries] /\ CallOK
  BY DEF TypeOK, CallOK, Locals
<1>1. CASE get_free_cluster
  <2>1. PICK v \in 0 .. BAD :
          /\ readcluster(call.pos, v)
          /\ IF v = FREE THEN Goto("mark", call) ELSE Goto("seek", [call EXCEPT !.pos = v])
    BY <1>1 DEF get_free_cluster
  <2>2. pc = "seek" /\ call.pos \in Reads /\ UNCHANGED <<entry, events>>
    BY <1>1 DEF get_free_cluster, Reads
  <2>3. DriveOK' /\ StoreInv'
    BY <2>1, <2>2, ReadTypes
  <2>4. CASE v = FREE
    <3>1. Goto("mark", call)
      BY <2>1, <2>4
    <3>2. CallOK'
      BY <2>2, <3>1, <1>0 DEF Goto, CallOK, Stages
    <3>3. QED
      BY <3>2, <2>2, <2>3, <1>0, Assemble
  <2>5. CASE v # FREE
    <3> DEFINE k == [call EXCEPT !.pos = v]
    <3>1. pc' = "seek" /\ call' = k
      BY <2>1, <2>5 DEF Goto
    <3>2. k \in Locals /\ k.file = call.file /\ k.have = call.have /\ k.want = call.want
      BY <1>0 DEF Locals
    <3> HIDE DEF k
    <3>3. CallOK'
      BY <1>0, <2>2, <3>1, <3>2 DEF CallOK, Stages
    <3>4. QED
      BY <2>2, <2>3, <3>3, <1>0, Assemble
  <2>6. QED
    BY <2>4, <2>5
<1>2. CASE Walk
  <2>1. PICK v \in 0 .. BAD :
          /\ readcluster(call.cur, v)
          /\ IF CONTINUE(v) THEN Goto("walk", [call EXCEPT !.cur = v])
                            ELSE Resize([call EXCEPT !.cur = v])
    BY <1>2 DEF Walk
  <2>2. pc = "walk" /\ call.cur \in Reads /\ UNCHANGED <<entry, events>>
    BY <1>2 DEF Walk, Reads
  <2>3. DriveOK' /\ StoreInv'
    BY <2>1, <2>2, ReadTypes
  <2> DEFINE k == [call EXCEPT !.cur = v]
  <2>4. k \in Locals /\ k.file \in Files
    BY <1>0, <2>2 DEF Locals, CallOK, Stages
  <2>5. Goto("walk", k) \/ Resize(k)
    BY <2>1
  <2> HIDE DEF k
  <2>6. CallOK'
    <3>1. CASE Goto("walk", k)
      BY <2>4, <3>1 DEF Goto, CallOK, Stages
    <3>2. CASE Resize(k)
      BY <2>4, <3>2, ResizeTypes
    <3>3. QED
      BY <2>5, <3>1, <3>2
  <2>7. QED
    BY <2>2, <2>3, <2>6, <1>0, Assemble
<1>3. CASE SkipKept
  <2>1. PICK v \in 0 .. BAD :
          /\ readcluster(call.cur, v)
          /\ Goto(IF call.i + 1 < call.want THEN "skip" ELSE "next",
                  [call EXCEPT !.cur = v, !.i = @ + 1])
    BY <1>3 DEF SkipKept
  <2>2. pc = "skip" /\ call.cur \in Reads /\ UNCHANGED <<entry, events>>
    BY <1>3 DEF SkipKept, Reads
  <2>3. DriveOK' /\ StoreInv'
    BY <2>1, <2>2, ReadTypes
  <2>4. CallOK'
    BY <1>0, <2>1, <2>2 DEF Goto, CallOK, Locals, Stages
  <2>5. QED
    BY <2>2, <2>3, <2>4, <1>0, Assemble
<1>4. CASE NextOfFreed
  <2>1. PICK v \in 0 .. BAD :
          readcluster(call.cur, v) /\ Goto("release", [call EXCEPT !.next = v])
    BY <1>4 DEF NextOfFreed
  <2>2. pc = "next" /\ call.cur \in Reads /\ UNCHANGED <<entry, events>>
    BY <1>4 DEF NextOfFreed, Reads
  <2>3. DriveOK' /\ StoreInv'
    BY <2>1, <2>2, ReadTypes
  <2>4. CallOK'
    BY <1>0, <2>1, <2>2 DEF Goto, CallOK, Locals, Stages
  <2>5. QED
    BY <2>2, <2>3, <2>4, <1>0, Assemble
<1>5. CASE Follow
  <2>1. PICK v \in 0 .. BAD :
          /\ readcluster(call.cur, v)
          /\ Goto(IF call.i + 1 < call.want THEN "data" ELSE "entry",
                  [call EXCEPT !.cur = v, !.i = @ + 1])
    BY <1>5 DEF Follow
  <2>2. pc = "follow" /\ call.cur \in Reads /\ UNCHANGED <<entry, events>>
    BY <1>5 DEF Follow, Reads
  <2>3. DriveOK' /\ StoreInv'
    BY <2>1, <2>2, ReadTypes
  <2>4. CallOK'
    BY <1>0, <2>1, <2>2 DEF Goto, CallOK, Locals, Stages
  <2>5. QED
    BY <2>2, <2>3, <2>4, <1>0, Assemble
<1>6. CASE Unlink
  <2>1. PICK v \in 0 .. BAD :
          readcluster(call.cur, v) /\ Goto("unlinked", [call EXCEPT !.next = v])
    BY <1>6 DEF Unlink
  <2>2. pc = "unlink" /\ call.cur \in Reads /\ UNCHANGED <<entry, events>>
    BY <1>6 DEF Unlink, Reads
  <2>3. DriveOK' /\ StoreInv'
    BY <2>1, <2>2, ReadTypes
  <2>4. CallOK'
    BY <1>0, <2>1, <2>2 DEF Goto, CallOK, Locals, Stages
  <2>5. QED
    BY <2>2, <2>3, <2>4, <1>0, Assemble
<1>7. QED
  BY <1>1, <1>2, <1>3, <1>4, <1>5, <1>6

(* The stages that write one.                                               *)
LEMMA WritingStages ==
  ASSUME FatInv, allocate_cluster \/ Link \/ free_cluster \/ Unlinked
  PROVE  VolumeInv'
<1> USE DEF FatInv
<1>0. call \in Locals /\ call.i + 1 \in Nat /\ {call.pos, call.cur, call.next} \subseteq 0 .. BAD
      /\ call.have \in 0 .. MaxClusters /\ call.want \in 0 .. MaxClusters
      /\ entry \in [Files -> FileEntries] /\ CallOK
  BY DEF TypeOK, CallOK, Locals
<1>1. CASE allocate_cluster
  <2>1. PICK w \in Writes : writecluster(w)
    BY <1>1 DEF allocate_cluster
  <2>2. pc = "mark" /\ w.at = call.pos /\ ("stale" \in events <=> "stale" \in events')
        /\ call.file \in Files /\ call.have < call.want
    BY <1>0, <1>1, <2>1 DEF allocate_cluster, Writes, CallOK, Stages
  <2>3. DriveOK' /\ StoreInv' /\ call.pos \in Entries
    BY <2>1, <2>2, WriteTypes
  <2>4. CASE call.have = 0
    <3>1. entry' = [entry EXCEPT ![call.file].first = call.pos] /\ pc' = "walk"
          /\ call' = [call EXCEPT !.have = 1, !.cur = call.pos]
      BY <1>1, <2>4 DEF allocate_cluster, Goto, File
    <3>2. entry' \in [Files -> FileEntries]
      BY <1>0, <2>2, <2>3, <3>1 DEF FileEntries
    <3>3. call' \in Locals /\ call'.file = call.file
      <4>1. 1 \in 0 .. MaxClusters
        BY SizesAssumption
      <4>2. QED
        BY <1>0, <3>1, <4>1 DEF Locals
    <3>4. CallOK'
      BY <3>1, <3>3, <2>2 DEF CallOK, Stages
    <3>5. QED
      BY <2>3, <3>2, <3>4, Assemble
  <2>5. CASE call.have # 0
    <3>1. UNCHANGED <<entry, call>> /\ pc' = "link"
      BY <1>1, <2>5 DEF allocate_cluster, Goto
    <3>2. QED
      BY <1>0, <2>2, <2>3, <3>1, Assemble DEF CallOK, Stages
  <2>6. QED
    BY <2>4, <2>5
<1>2. CASE Link
  <2>1. PICK w \in Writes : writecluster(w)
    BY <1>2 DEF Link
  <2>2. pc = "link" /\ UNCHANGED <<entry, events>> /\ call.file \in Files /\ call.have < call.want
    BY <1>0, <1>2 DEF Link, CallOK, Stages
  <2>3. DriveOK' /\ StoreInv'
    BY <2>1, <2>2, WriteTypes
  <2> DEFINE k == [call EXCEPT !.cur = call.pos, !.have = @ + 1]
  <2>4. k \in Locals /\ k.file \in Files
    <3>1. call.have + 1 \in 0 .. MaxClusters
      BY <1>0, <2>2, SizesAssumption
    <3>2. QED
      BY <1>0, <2>2, <3>1 DEF Locals
  <2>5. Resize(k)
    BY <1>2 DEF Link
  <2> HIDE DEF k
  <2>6. QED
    BY <2>2, <2>3, <2>4, <2>5, <1>0, ResizeTypes, Assemble
<1>3. CASE free_cluster
  <2>1. PICK w \in Writes : writecluster(w)
    BY <1>3 DEF free_cluster
  <2>2. pc = "release" /\ UNCHANGED <<entry, events>> /\ call.file \in Files
    BY <1>0, <1>3 DEF free_cluster, CallOK, Stages
  <2>3. DriveOK' /\ StoreInv'
    BY <2>1, <2>2, WriteTypes
  <2> DEFINE k == [call EXCEPT !.cur = call.next, !.i = @ + 1]
             r == [k EXCEPT !.have = k.want]
  <2>4. k \in Locals /\ k.file \in Files
    BY <1>0, <2>2 DEF Locals
  <2>5. (pc' = "next" /\ call' = k) \/ Resize(r)
    BY <1>3 DEF free_cluster, Goto
  <2> HIDE DEF k
  <2>6. r \in Locals /\ r.file \in Files
    BY <2>4 DEF Locals
  <2> HIDE DEF r
  <2>7. CallOK'
    <3>1. CASE pc' = "next" /\ call' = k
      BY <2>4, <3>1 DEF CallOK, Stages
    <3>2. CASE Resize(r)
      BY <2>6, <3>2, ResizeTypes
    <3>3. QED
      BY <2>5, <3>1, <3>2
  <2>8. QED
    BY <2>2, <2>3, <2>7, <1>0, Assemble
<1>4. CASE Unlinked
  <2>1. PICK w \in Writes : writecluster(w)
    BY <1>4 DEF Unlinked
  <2>2. pc = "unlinked" /\ UNCHANGED <<entry, events>>
    BY <1>4 DEF Unlinked
  <2>3. DriveOK' /\ StoreInv'
    BY <2>1, <2>2, WriteTypes
  <2>4. CallOK'
    BY <1>0, <1>4, <2>2 DEF Unlinked, Goto, CallOK, Locals, Stages
  <2>5. QED
    BY <2>2, <2>3, <2>4, <1>0, Assemble
<1>5. QED
  BY <1>1, <1>2, <1>3, <1>4

-----------------------------------------------------------------------------
(* The stages that access no entry, and the calls.                          *)
LEMMA OtherStages ==
  ASSUME FatInv,
         write_cluster_data \/ WriteEntry \/ UnlinkBroken \/ Erase \/ Overrun
  PROVE  VolumeInv'
<1> USE DEF FatInv
<1>0. /\ call \in Locals /\ call.want \in 0 .. MaxClusters /\ CallOK
      /\ entry \in [Files -> FileEntries] /\ dir \in [Files -> FileEntries \cup {Absent}]
      /\ data \in [Entries -> Files \cup {None}]
  BY DEF TypeOK, CallOK, Locals
<1>2. CASE write_cluster_data
  <2>1. Reads = {} /\ Writes = {} /\ call.file \in Files
    BY <1>0, <1>2 DEF write_cluster_data, Reads, Writes, CallOK, Stages
  <2>2. data' \in [Entries -> Files \cup {None}]
    BY <1>0, <1>2, <2>1 DEF write_cluster_data, File
  <2>3. CallOK'
    <3>1. Goto("follow", call) \/ Return
      BY <1>2 DEF write_cluster_data
    <3>2. QED
      BY <1>0, <2>1, <3>1, ReturnTypes DEF Goto, CallOK, Stages
  <2>4. QED
    BY <1>0, <1>2, <2>1, <2>2, <2>3, QuietTypes DEF write_cluster_data, bounds
<1>3. CASE WriteEntry
  <2>1. Reads = {} /\ Writes = {} /\ call.file \in Files
    BY <1>0, <1>3 DEF WriteEntry, Reads, Writes, CallOK, Stages
  <2>2. entry' \in [Files -> FileEntries]
    BY <1>0, <1>3, <2>1 DEF WriteEntry, File, FileEntries
  <2>3. dir' \in [Files -> FileEntries \cup {Absent}]
    <3>1. dir' = [dir EXCEPT ![call.file] = entry'[call.file]]
      BY <1>3 DEF WriteEntry, File
    <3>2. QED
      BY <1>0, <2>1, <2>2, <3>1
  <2>4. CallOK'
    BY <1>3, ReturnTypes DEF WriteEntry
  <2>5. QED
    BY <1>0, <1>3, <2>1, <2>2, <2>3, <2>4, QuietTypes DEF WriteEntry, bounds
<1>4. CASE UnlinkBroken
  <2>1. Reads = {} /\ Writes = {}
    BY <1>4 DEF UnlinkBroken, Reads, Writes
  <2>2. CallOK'
    BY <1>4, ReturnTypes DEF UnlinkBroken
  <2>3. QED
    BY <1>0, <1>4, <2>1, <2>2, QuietTypes DEF UnlinkBroken, drive, bounds
<1>5. CASE Erase
  <2>1. Reads = {} /\ Writes = {}
    BY <1>5 DEF Erase, Reads, Writes
  <2>2. dir' \in [Files -> FileEntries \cup {Absent}]
    BY <1>0, <1>5 DEF Erase
  <2>3. CallOK'
    BY <1>5, ReturnTypes DEF Erase
  <2>4. QED
    BY <1>0, <1>5, <2>1, <2>2, <2>3, QuietTypes DEF Erase, bounds
<1>6. CASE Overrun
  <2>1. phase = "start"
    BY <1>6 DEF Overrun
  <2>2. Writes = {} /\ pc' = "overrun" /\ call' = call
    BY <1>6, AccessKinds DEF Overrun, Goto
  <2>3. CallOK'
    BY <1>0, <2>2 DEF CallOK, Stages
  <2>4. QED
    BY <1>0, <1>6, <2>1, <2>2, <2>3, QuietTypes DEF Overrun, drive, bounds
<1>7. QED
  BY <1>2, <1>3, <1>4, <1>5, <1>6

LEMMA CallsKeep ==
  ASSUME FatInv, NEW f \in Files,
         \/ \E n \in 1 .. MaxClusters : fat32_writefile(f, n)
         \/ fat32_deletefile(f) \/ fat32_createfile(f)
  PROVE  VolumeInv'
<1> USE DEF FatInv
<1>0. /\ entry \in [Files -> FileEntries] /\ dir \in [Files -> FileEntries \cup {Absent}]
      /\ data \in [Entries -> Files \cup {None}] /\ CallOK
      /\ start_lookup \in 0 .. Size /\ start_lookup \in 0 .. BAD
      /\ entry[f].first \in 0 .. BAD /\ entry[f].count \in 0 .. MaxClusters
  BY SizesAssumption DEF TypeOK, FileEntries, Entries, BAD
<1>1. NoCall \in Locals
  BY SizesAssumption DEF NoCall, Locals, BAD
<1>2. pc = "idle"
  BY DEF fat32_writefile, fat32_deletefile, fat32_createfile
<1>3. Reads = {} /\ Writes = {}
  BY <1>2 DEF Reads, Writes
<1>4. CASE \E n \in 1 .. MaxClusters : fat32_writefile(f, n)
  <2>1. PICK n \in 1 .. MaxClusters : fat32_writefile(f, n)
    BY <1>4
  <2> DEFINE k == [NoCall EXCEPT !.file = f, !.want = n, !.have = entry[f].count,
                                 !.cur = entry[f].first, !.pos = start_lookup]
  <2>2. pc' = (IF entry[f].count = 0 THEN "seek" ELSE "walk") /\ call' = k
    BY <2>1 DEF fat32_writefile, Goto
  <2>3. n \in 0 .. MaxClusters /\ n > 0
    BY <2>1, SizesAssumption
  <2>4. k \in Locals /\ k.file = f /\ k.want = n /\ k.have = entry[f].count
    BY <1>0, <1>1, <2>3 DEF Locals, NoCall
  <2> HIDE DEF k
  <2>5. CallOK'
    BY <2>2, <2>3, <2>4 DEF CallOK, Stages
  <2>6. QED
    BY <1>0, <1>3, <2>1, <2>5, QuietTypes DEF fat32_writefile, Reuses, drive
<1>5. CASE fat32_deletefile(f)
  <2> DEFINE k == [NoCall EXCEPT !.file = f, !.have = entry[f].count, !.cur = entry[f].first]
  <2>1. pc' = (IF entry[f].count = 0 THEN "erase" ELSE "unlink") /\ call' = k
    BY <1>5 DEF fat32_deletefile, Goto
  <2>2. k \in Locals /\ k.file = f
    BY <1>0, <1>1 DEF Locals, NoCall
  <2> HIDE DEF k
  <2>3. CallOK'
    BY <2>1, <2>2 DEF CallOK, Stages
  <2>4. QED
    BY <1>0, <1>3, <1>5, <2>3, QuietTypes DEF fat32_deletefile, Reuses, drive
<1>6. CASE fat32_createfile(f)
  <2>1. Empty \in FileEntries
    BY SizesAssumption DEF Empty, FileEntries, Entries
  <2>2. entry' \in [Files -> FileEntries] /\ dir' \in [Files -> FileEntries \cup {Absent}]
    BY <1>0, <1>6, <2>1 DEF fat32_createfile
  <2>3. CallOK'
    BY <1>0, <1>6 DEF fat32_createfile, CallOK
  <2>4. QED
    BY <1>0, <1>3, <1>6, <2>2, <2>3, QuietTypes DEF fat32_createfile
<1>7. QED
  BY <1>4, <1>5, <1>6

(* After an access that failed.                                             *)
LEMMA AbandonTypes ==
  ASSUME FatInv, Abandon
  PROVE  CallOK'
<1> USE DEF FatInv
<1>0. call \in Locals /\ call.want \in 0 .. MaxClusters /\ CallOK
  BY DEF TypeOK, CallOK, Locals
<1>1. CASE pc = "walk"
  <2>1. Resize(call) /\ call.file \in Files
    BY <1>0, <1>1 DEF Abandon, CallOK, Stages
  <2>2. QED
    BY <1>0, <2>1, ResizeTypes
<1>2. CASE pc = "follow" /\ call.i + 1 = call.want
  <2>1. Goto("entry", call)
    BY <1>2 DEF Abandon
  <2>2. QED
    BY <1>0, <1>2, <2>1 DEF Goto, CallOK, Stages
<1>3. CASE pc # "walk" /\ ~(pc = "follow" /\ call.i + 1 = call.want)
  <2>1. Return
    BY <1>3 DEF Abandon
  <2>2. QED
    BY <2>1, ReturnTypes
<1>4. QED
  BY <1>1, <1>2, <1>3

(* A read of the sector Far leaves its number with the cached entries.      *)
LEMMA OutsideKeeps ==
  ASSUME FatInv, Outside
  PROVE  VolumeInv'
<1> USE DEF FatInv
<1>1. /\ phase' = "start" /\ phase \in {"start", "labelled"}
      /\ UNCHANGED <<fat, backup, data, dir, entry, cache, start_lookup, torn, events>>
  BY DEF Outside, drive, bounds
<1>2. phase = "labelled" => cache.sector = Far
  <2> SUFFICES ASSUME phase = "labelled" PROVE cache.sector = Far
    OBVIOUS
  <2>1. PICK c \in Reads : SectorOf(c) = Far
    BY DEF Outside
  <2>2. QED
    BY <2>1, AccessKinds DEF StoreInv, LabelInv
<1>3. Interrupted = {} /\ Interrupted' = {}
  BY <1>1 DEF Interrupted
<1>4. StoreInv'
  BY <1>1, <1>2, <1>3 DEF StoreInv, LabelInv, BufferInv, CopyFollows, CacheInv
<1>5. DriveOK' /\ entry' \in [Files -> FileEntries]
  BY <1>1 DEF DriveOK, TypeOK
<1>6. CallOK'
  BY AbandonTypes DEF Outside
<1>7. QED
  BY <1>4, <1>5, <1>6, Assemble

(* A failing access and a stop: what the access leaves behind is recorded.  *)
LEMMA FailKeeps ==
  ASSUME FatInv, Fail
  PROVE  VolumeInv'
<1> USE DEF FatInv
<1>0. /\ call \in Locals /\ call.want \in 0 .. MaxClusters /\ call.i \in Nat /\ CallOK
      /\ entry \in [Files -> FileEntries]
  BY DEF TypeOK, CallOK, Locals
<1>1. /\ phase' = "start" /\ torn' = torn \cup Interrupted
      /\ UNCHANGED <<fat, backup, data, dir, cache, start_lookup>>
      /\ "stale" \in events' <=> "stale" \in events \/ phase \in {"labelled", "written"}
  BY DEF Fail, drive
<1>2. Interrupted' = {}
  BY <1>1 DEF Interrupted
<1>3. CacheInv'
  BY <1>1, <1>2 DEF StoreInv, CacheInv, Interrupted
<1>4. StoreInv'
  BY <1>1, <1>2, <1>3 DEF StoreInv, LabelInv, BufferInv, CopyFollows
<1>5. DriveOK'
  BY <1>1 DEF DriveOK, TypeOK
<1>6. entry' \in [Files -> FileEntries]
  BY <1>0 DEF Fail, File, FileEntries, CallOK, Stages
<1>7. CallOK'
  BY AbandonTypes DEF Fail
<1>8. QED
  BY <1>4, <1>5, <1>6, <1>7, Assemble

LEMMA NoCacheTypes ==
  NoCache \in [sector : CacheSectors, entries : [Offsets -> 0 .. BAD]]
  /\ NoCache.sector = -1
<1>1. Size-1 \in Entries
  BY SizesAssumption DEF Entries
<1>2. SectorOf(Size-1) \in 0 .. SectorOf(Size-1)
  BY <1>1, SectorArithmetic
<1>3. -1 \in CacheSectors /\ FREE \in 0 .. BAD
  BY <1>2, SizesAssumption DEF FREE, BAD, CacheSectors
<1>4. QED
  BY <1>3 DEF NoCache

LEMMA StopKeeps ==
  ASSUME FatInv, Stop
  PROVE  VolumeInv'
<1> USE DEF FatInv
<1>1. /\ phase' = "start" /\ torn' = torn \cup Interrupted /\ cache' = NoCache
      /\ UNCHANGED <<fat, backup, data, dir, start_lookup>>
      /\ entry' = [f \in Files |-> IF dir[f] = Absent THEN Empty ELSE dir[f]]
  BY DEF Stop, drive
<1>2. Interrupted' = {}
  BY <1>1 DEF Interrupted
<1>3. StoreInv'
  BY <1>1, <1>2, NoCacheTypes DEF StoreInv, LabelInv, BufferInv, CopyFollows, CacheInv
<1>4. DriveOK'
  BY <1>1, NoCacheTypes DEF DriveOK, TypeOK
<1>5. Empty \in FileEntries
  BY SizesAssumption DEF Empty, FileEntries, Entries
<1>6. entry' \in [Files -> FileEntries]
  BY <1>1, <1>5 DEF TypeOK
<1>7. CallOK'
  BY ReturnTypes DEF Stop
<1>8. QED
  BY <1>3, <1>4, <1>6, <1>7, Assemble

LEMMA InitOK ==
  ASSUME Init
  PROVE  VolumeInv
<1> USE SizesAssumption, FilesAssumption
<1>1. PICK host \in SUBSET {CHOOSE f \in Files : TRUE}, bad \in SUBSET {6} :
        /\ fat = [c \in Entries |->
                    CASE c \in {0, 1, 2} -> EOC
                      [] c = 3 /\ host # {} -> 4
                      [] c = 4 /\ host # {} -> EOC
                      [] c \in bad -> BAD
                      [] OTHER -> FREE]
        /\ data = [c \in Entries |->
                     IF c \in {3, 4} /\ host # {} THEN CHOOSE f \in host : TRUE ELSE None]
        /\ dir = [f \in Files |-> IF f \in host THEN [first |-> 3, count |-> 2] ELSE Empty]
        /\ start_lookup = IF host # {} THEN 5 ELSE 3
  BY DEF Init
<1>2. host \subseteq Files
  BY <1>1
<1>3. {EOC, BAD, FREE, 3, 4, 5} \subseteq 0 .. BAD /\ 3 \in Entries /\ 0 \in Entries
      /\ 2 \in 0 .. MaxClusters /\ 0 \in 0 .. MaxClusters
  BY DEF EOC, BAD, FREE, Entries
<1>4. fat \in [Entries -> 0 .. BAD]
  <2> DEFINE v(c) == CASE c \in {0, 1, 2} -> EOC
                       [] c = 3 /\ host # {} -> 4
                       [] c = 4 /\ host # {} -> EOC
                       [] c \in bad -> BAD
                       [] OTHER -> FREE
  <2>1. \A c \in Entries : v(c) \in {EOC, BAD, FREE, 4}
    OBVIOUS
  <2>2. fat = [c \in Entries |-> v(c)]
    BY <1>1
  <2> HIDE DEF v
  <2>3. QED
    BY <2>1, <2>2, <1>3
<1>5. data \in [Entries -> Files \cup {None}]
  BY <1>1, <1>2
<1>6. dir \in [Files -> FileEntries] /\ start_lookup \in 0 .. Size
  BY <1>1, <1>3 DEF FileEntries, Empty
<1>7. /\ backup = fat /\ entry = dir /\ cache = NoCache
      /\ pc = "idle" /\ call = NoCall /\ phase = "start"
  BY DEF Init
<1>8. CallOK
  <2>1. NoCall \in Locals
    BY <1>3 DEF NoCall, Locals, FREE
  <2>2. QED
    BY <2>1, <1>7 DEF CallOK, Stages
<1>9. TypeOK
  <2>1. cache \in [sector : CacheSectors, entries : [Offsets -> 0 .. BAD]]
    BY <1>7, NoCacheTypes
  <2>2. QED
    BY <1>4, <1>5, <1>6, <1>7, <1>8, <2>1 DEF TypeOK
<1>10. StoreInv
  BY <1>7, NoCacheTypes DEF StoreInv, LabelInv, BufferInv, CopyFollows, CacheInv
<1>11. QED
  BY <1>9, <1>10 DEF VolumeInv

(* A number of the sector Far is only ever read next after the entry that   *)
(* has it was read, through the cache.                                      *)
LEMMA ReadSector ==
  ASSUME FatInv, NEW c \in Reads, NEW v, readcluster(c, v)
  PROVE  cache'.sector # Far
<1>1. c \in Entries
  BY EntryRead
<1>2. cache.sector = SectorOf(c)
  BY AccessKinds DEF readcluster, FatInv, StoreInv, LabelInv
<1>3. cache'.sector = cache.sector
  BY DEF readcluster, FatInv, TypeOK
<1>4. QED
  BY <1>1, <1>2, <1>3, FarAway

LEMMA ResizeComing ==
  ASSUME TypeOK, NEW k \in Locals, k.file \in Files, Resize(k)
  PROVE  \A c \in Coming' : ~(c > Size)
<1>1. start_lookup \in 0 .. Size /\ entry[k.file].first \in 0 .. Size-1
  BY DEF TypeOK, FileEntries, Entries
<1>2. \/ pc' = "seek" /\ call'.pos = start_lookup
      \/ pc' \in {"skip", "data"} /\ call'.cur = entry[k.file].first
  BY DEF Resize, Goto, Locals
<1>3. QED
  BY <1>1, <1>2, SizesAssumption DEF Coming

LEMMA FreshKept ==
  ASSUME FatInv, [Next]_vars
  PROVE  Fresh'
<1> USE DEF FatInv
<1>0. /\ call \in Locals /\ CallOK /\ TypeOK /\ File = call.file /\ call.i + 1 \in Nat
      /\ pc \in {"idle", "overrun"} \cup Stages
  BY DEF TypeOK, CallOK, File, Locals
<1>1. CASE UNCHANGED vars
  BY <1>1 DEF vars, Fresh, Coming
<1>2. CASE Label
  BY <1>2 DEF Label, Fresh
<1>3. CASE Load \/ WriteFat
  BY <1>3 DEF Load, WriteFat, Fresh, Coming
<1>4. CASE get_free_cluster \/ Walk \/ SkipKept \/ NextOfFreed \/ Follow \/ Unlink
  <2>1. \E c \in Reads, v \in 0 .. BAD : readcluster(c, v)
    BY <1>4 DEF get_free_cluster, Walk, SkipKept, NextOfFreed, Follow, Unlink, Reads
  <2>2. QED
    BY <2>1, ReadSector DEF Fresh
<1>5. CASE Link
  <2> DEFINE k == [call EXCEPT !.cur = call.pos, !.have = @ + 1]
  <2>1. Resize(k) /\ pc = "link"
    BY <1>5 DEF Link
  <2>2. call.file \in Files /\ call.have < call.want
    BY <1>0, <2>1 DEF CallOK, Stages
  <2>3. call.have + 1 \in 0 .. MaxClusters
    BY <1>0, <2>2, SizesAssumption DEF Locals
  <2>4. k \in Locals /\ k.file \in Files
    BY <1>0, <2>2, <2>3 DEF Locals
  <2> HIDE DEF k
  <2>5. QED
    BY <1>0, <2>1, <2>4, ResizeComing DEF Fresh
<1>6. CASE allocate_cluster
  <2>1. PICK w \in Writes : writecluster(w)
    BY <1>6 DEF allocate_cluster
  <2>2. pc = "mark" /\ w.at = call.pos
    BY <1>6, <2>1 DEF allocate_cluster, Writes
  <2>3. call.pos \in Entries
    BY <2>1, <2>2, AccessKinds DEF writecluster, StoreInv, BufferInv
  <2>4. pc' \in {"walk", "link"} /\ (pc' = "walk" => call'.cur = call.pos)
    BY <1>0, <1>6 DEF allocate_cluster, Goto, Locals
  <2>5. QED
    BY <2>3, <2>4, SizesAssumption DEF Fresh, Coming, Entries
<1>7. CASE free_cluster
  <2>1. PICK w \in Writes : writecluster(w)
    BY <1>7 DEF free_cluster
  <2>2. pc = "release" /\ phase = "written" /\ cache'.sector = cache.sector /\ call.file \in Files
    BY <1>0, <1>7, <2>1 DEF free_cluster, writecluster, TypeOK, CallOK, Stages
  <2>3. \A c \in {call.next} : c > Size => cache.sector # Far
    BY <2>2 DEF Fresh, Coming
  <2> DEFINE k == [call EXCEPT !.cur = call.next, !.i = @ + 1]
             m == [k EXCEPT !.have = k.want]
  <2>4. k \in Locals /\ k.cur = call.next /\ k.file \in Files
    BY <1>0, <2>2 DEF Locals
  <2>5. Goto("next", k) \/ Resize(m)
    BY <1>7 DEF free_cluster
  <2> HIDE DEF k
  <2>6. m \in Locals /\ m.file \in Files
    BY <2>4 DEF Locals
  <2> HIDE DEF m
  <2>7. CASE Goto("next", k)
    BY <2>2, <2>3, <2>4, <2>7 DEF Goto, Fresh, Coming
  <2>8. CASE Resize(m)
    BY <1>0, <2>6, <2>8, ResizeComing DEF Fresh
  <2>9. QED
    BY <2>5, <2>7, <2>8
<1>8. CASE Unlinked
  <2>1. PICK w \in Writes : writecluster(w)
    BY <1>8 DEF Unlinked
  <2>2. pc = "unlinked" /\ phase = "written" /\ cache'.sector = cache.sector
    BY <1>8, <2>1 DEF Unlinked, writecluster, TypeOK
  <2>3. \A c \in {call.next} : c > Size => cache.sector # Far
    BY <2>2 DEF Fresh, Coming
  <2>4. call'.cur = call.next /\ pc' \in {"unlink", "erase"}
    BY <1>0, <1>8 DEF Unlinked, Goto, Locals
  <2>5. QED
    BY <2>2, <2>3, <2>4 DEF Fresh, Coming
<1>9. CASE write_cluster_data
  <2>1. pc = "data" /\ UNCHANGED cache
    BY <1>9 DEF write_cluster_data
  <2>2. pc' = "idle" \/ (pc' = "follow" /\ call' = call /\ call.cur \in 2 .. LastCluster)
    BY <1>9 DEF write_cluster_data, Goto, Return
  <2>3. QED
    BY <2>2, SizesAssumption DEF Fresh, Coming
<1>10. CASE WriteEntry \/ UnlinkBroken \/ Erase \/ Overrun
  <2>1. Coming' = {}
    BY <1>10 DEF WriteEntry, UnlinkBroken, Erase, Overrun, Goto, Return, Coming
  <2>2. QED
    BY <2>1 DEF Fresh
<1>11. CASE Outside \/ Fail
  <2>1. Abandon
    BY <1>11 DEF Outside, Fail
  <2>2. CASE pc = "walk"
    <3>1. Resize(call) /\ call.file \in Files
      BY <1>0, <2>1, <2>2 DEF Abandon, CallOK, Stages
    <3>2. QED
      BY <1>0, <3>1, ResizeComing DEF Fresh
  <2>3. CASE pc # "walk"
    <3>1. pc' \in {"entry", "idle"}
      BY <2>1, <2>3 DEF Abandon, Goto, Return
    <3>2. QED
      BY <3>1 DEF Fresh, Coming
  <2>4. QED
    BY <2>2, <2>3
<1>12. CASE Stop
  BY <1>12 DEF Stop, Return, Goto, Fresh, Coming
<1>13. ASSUME NEW f \in Files,
              \/ \E n \in 1 .. MaxClusters : fat32_writefile(f, n)
              \/ fat32_deletefile(f) \/ fat32_createfile(f)
       PROVE  Fresh'
  <2>1. start_lookup \in 0 .. Size /\ entry[f].first \in 0 .. Size-1
    BY <1>0 DEF TypeOK, FileEntries, Entries
  <2>2. \/ pc' = "seek" /\ call'.pos = start_lookup
        \/ pc' \in {"walk", "unlink"} /\ call'.cur = entry[f].first
        \/ pc' \in {"erase", "idle"}
    BY <1>13 DEF fat32_writefile, fat32_deletefile, fat32_createfile, Goto, NoCall
  <2>3. QED
    BY <2>1, <2>2, SizesAssumption DEF Fresh, Coming
<1>14. QED
  BY <1>1, <1>2, <1>3, <1>4, <1>5, <1>6, <1>7, <1>8, <1>9, <1>10, <1>11, <1>12, <1>13
     DEF Next, Step

(* Every step keeps the volume and the store as they should be.             *)
LEMMA FatInvKept ==
  ASSUME FatInv, [Next]_vars
  PROVE  FatInv'
<1>1. CASE UNCHANGED vars
  <2>1. VolumeInv'
    BY <1>1 DEF vars, drive, FatInv, TypeOK, CallOK, StoreInv, LabelInv, BufferInv,
                CopyFollows, CacheInv, Interrupted, Reads, Writes
  <2>2. QED
    BY <2>1, FreshKept DEF FatInv
<1>2. CASE Step
  BY <1>2, LabelKeeps, LoadKeeps, WriteFatKeeps, ReadingStages, WritingStages, OtherStages,
     OutsideKeeps, FreshKept DEF Step, FatInv
<1>3. CASE Fail
  BY <1>3, FailKeeps, FreshKept DEF FatInv
<1>4. CASE Stop
  BY <1>4, StopKeeps, FreshKept DEF FatInv
<1>5. CASE \E f \in Files : \/ \E n \in 1 .. MaxClusters : fat32_writefile(f, n)
                           \/ fat32_deletefile(f) \/ fat32_createfile(f)
  BY <1>5, CallsKeep, FreshKept DEF FatInv
<1>6. QED
  BY <1>1, <1>2, <1>3, <1>4, <1>5 DEF Next

LEMMA CacheInvGives == FatInv => CacheFollows
<1> SUFFICES ASSUME FatInv, "stale" \notin events
             PROVE  CacheFollows
  BY DEF CacheFollows
<1>1. ASSUME cache.sector \notin {-1, Far}, phase \notin {"labelled", "written"}
      PROVE  cache.entries = SectorAt(fat, cache.sector)
  <2>1. \A o \in Offsets : cache.entries[o] = fat[EntryAt(cache.sector, o)]
    BY <1>1 DEF FatInv, StoreInv, CacheInv, Interrupted
  <2>2. QED
    BY <2>1 DEF FatInv, TypeOK, SectorAt
<1>2. ASSUME phase = "start", NEW c \in Reads, SectorOf(c) = Far
      PROVE  cache.sector # Far
  <2>1. c \in 0 .. BAD /\ c \in Coming
    BY AccessKinds DEF FatInv, Reads, Coming
  <2>2. c > Size
    BY <1>2, <2>1, FarAway
  <2>3. QED
    BY <1>2, <2>1, <2>2 DEF FatInv, Fresh
<1>3. QED
  BY <1>1, <1>2 DEF CacheFollows

-----------------------------------------------------------------------------
(* The volume and the store are sound for a FAT and a sector of every size, *)
(* any files, and any number of calls, failing accesses and stops           *)
(* (readcluster and writecluster of fat32.c, and their callers).            *)
THEOREM VolumeCorrect == Spec => []FatInv
<1>1. Init => FatInv
  BY InitOK DEF FatInv, Init, Fresh, Coming
<1>2. FatInv /\ [Next]_vars => FatInv'
  BY FatInvKept
<1>3. QED
  BY <1>1, <1>2, PTL DEF Spec

(* The type invariant of the FAT, the cache and the call under way.         *)
THEOREM TypeCorrect == Spec => []TypeOK
<1>1. FatInv => TypeOK
  BY DEF FatInv
<1>2. QED
  BY <1>1, VolumeCorrect, PTL

(* The copy of the FAT differs from it only where a write of both was       *)
(* interrupted (writecluster of fat32.c writes one after the other).        *)
THEOREM CopyAgrees == Spec => []CopyFollows
<1>1. FatInv => CopyFollows
  BY DEF FatInv, StoreInv
<1>2. QED
  BY <1>1, VolumeCorrect, PTL

(* What is read from the cached sector is what is on the drive until an     *)
(* access has failed (readcluster sets the number before the entries, and   *)
(* writecluster the entry after the drive).                                 *)
THEOREM CacheAgrees == Spec => []CacheFollows
<1>1. FatInv => CacheFollows
  BY CacheInvGives
<1>2. QED
  BY <1>1, VolumeCorrect, PTL

-----------------------------------------------------------------------------
(* The files.  While the cache is right and no file is in pieces, each file *)
(* that no interrupted call was about lies in one piece of the volume,      *)
(* chained entry by entry and written with its data, and the pieces are     *)
(* apart.  The last entry of a piece ends the chain of a file of another    *)
(* system, and leads past the piece in a file of this driver.               *)
Piece(b, n) == b .. b+n-1

Chained(b, n) ==
  \A c \in Piece(b, n) :
    /\ c \in 2 .. Size-1
    /\ fat[c] = c + 1 \/ (c = b+n-1 /\ fat[c] = EOC)

Wrote(f, n) ==
  \A c \in Piece(entry[f].first, n) : c <= LastCluster /\ data[c] = f

Of(f) == Piece(entry[f].first, entry[f].count)
Others == {f \in Files \ ({File} \cup damaged) : dir[f] # Absent}

\* The file the call is about: what its entry says, and what it has so far.
Base == entry[File].first
Count == entry[File].count
Extent == IF call.have < Count THEN Count ELSE call.have

\* Chains only lead upwards, and the hint is past the root directory.
Ascends ==
  \A c \in Entries : fat[c] \in {FREE, EOC, BAD} \/ (fat[c] > c /\ fat[c] \in 3 .. Size)
Hint == start_lookup \in 3 .. 5

Named ==
  \A f \in Files \ damaged : dir[f] # Absent =>
    entry[f].count = dir[f].count /\ (dir[f].count # 0 => entry[f] = dir[f])
Resting ==
  \A f \in Others : Chained(entry[f].first, entry[f].count) /\ Wrote(f, entry[f].count)
Apart == \A f, g \in Others : f # g => \A c \in Of(f) : c \notin Of(g)
Clear == File # None => \A f \in Others : \A c \in Of(f) : c \notin Piece(Base, Extent)

(* A file that grows.  A cluster that has been marked is linked to what the *)
(* walk ended on, which is the last cluster only if this call allocated it. *)
Ended == fat[Base + call.have - 1] = EOC
Growing ==
  /\ Count <= call.have /\ Chained(Base, call.have) /\ Wrote(File, Count)
  /\ call.want >= 1 /\ (call.have > call.want => call.have = Count)
  /\ pc # "walk" /\ call.have # 0 =>
       /\ call.cur \in {0, EOC, BAD, Base + call.have - 1}
       /\ Ended => call.cur = EOC
  /\ pc = "walk" =>
       /\ call.have # 0
       /\ call.cur \notin Piece(Base, call.have) => ~Ended \/ call.cur = EOC
  /\ pc = "seek" => call.pos >= 3
  /\ pc \in {"mark", "link"} =>
       /\ call.pos \in 3 .. Size-1
       /\ \A f \in Others : call.pos \notin Of(f)
       /\ call.pos \notin Piece(Base, call.have)
  /\ pc = "mark" /\ phase # "written" => fat[call.pos] = FREE
  /\ pc = "link" =>
       call.have # 0 /\ call.pos = Base + call.have /\ fat[call.pos] = call.pos + 1

\* What is left of a file from its cluster number i on.
Remains(i) ==
  \A c \in Base+i .. Base+call.have-1 :
    /\ c \in 2 .. Size-1
    /\ fat[c] = c + 1 \/ (c = Base+call.have-1 /\ fat[c] = EOC)
Freed == IF phase = "written" THEN call.i + 1 ELSE call.i

Shrinking ==
  /\ call.have = Count /\ call.want < call.have /\ call.want >= 1
  /\ Wrote(File, call.want) /\ call.cur = Base + call.i
  /\ pc = "skip" => call.i < call.want /\ Chained(Base, call.have)
  /\ pc # "skip" =>
       call.want <= call.i /\ call.i < call.have /\ Chained(Base, call.want)
  /\ pc = "next" => Remains(call.i)
  /\ pc = "release" =>
       Remains(Freed) /\ (call.i + 1 < call.have => call.next = call.cur + 1)

Filling ==
  /\ call.have = call.want /\ call.want >= 1 /\ Chained(Base, call.want)
  /\ \A c \in Piece(Base, call.want) :
       c < Base + Count \/ c < Base + call.i => c <= LastCluster /\ data[c] = File
  /\ pc # "entry" => call.i < call.want /\ call.cur = Base + call.i
  /\ pc = "follow" => data[call.cur] = File /\ call.cur <= LastCluster
  /\ pc = "entry" => call.i = call.want

Deleting ==
  /\ call.have = Count /\ call.i < call.have /\ call.cur = Base + call.i
  /\ pc = "unlink" => Remains(call.i)
  /\ pc = "unlinked" =>
       Remains(Freed) /\ (call.i + 1 < call.have => call.next = call.cur + 1)

Own ==
  /\ pc = "idle" => File = None
  /\ pc # "idle" => File \in Files /\ dir[File] # Absent
  /\ pc \in {"seek", "mark", "link", "walk"} => Growing
  /\ pc \in {"skip", "next", "release"} => Shrinking
  /\ pc \in {"data", "follow", "entry"} => Filling
  /\ pc \in {"unlink", "unlinked"} => Deleting

Laid == Ascends /\ Hint /\ Named /\ Resting /\ Apart /\ Clear /\ Own

FilesInv ==
  /\ "stale" \in events => "failed" \in events
  /\ events = {} => Laid

-----------------------------------------------------------------------------
LEMMA Numbers ==
  /\ Size \in Nat /\ Size >= 5 /\ LastCluster \in Nat /\ 4 <= LastCluster /\ LastCluster < Size
  /\ MaxClusters \in Nat /\ MaxClusters >= 2
  /\ FREE = 0 /\ EOC = Size + 1 /\ BAD = Size + 2 /\ Entries = 0 .. Size-1
BY SizesAssumption DEF FREE, EOC, BAD, Entries

LEMMA CallTypes ==
  ASSUME TypeOK
  PROVE  /\ call.file \in Files \cup {None} /\ call.want \in 0 .. MaxClusters
         /\ call.have \in 0 .. MaxClusters /\ call.i \in Nat
         /\ call.pos \in 0 .. BAD /\ call.cur \in 0 .. BAD /\ call.next \in 0 .. BAD
         /\ call \in Locals
BY DEF TypeOK, CallOK, Locals

LEMMA EntryTypes ==
  ASSUME TypeOK, NEW f \in Files
  PROVE  entry[f].first \in Entries /\ entry[f].count \in 0 .. MaxClusters
BY DEF TypeOK, FileEntries

\* A file of a call under way, and the numbers of the call.
LEMMA OwnTypes ==
  ASSUME TypeOK, File \in Files
  PROVE  /\ Base \in Nat /\ Base < Size /\ Count \in Nat /\ Count <= MaxClusters
         /\ call.have \in Nat /\ call.want \in Nat /\ call.i \in Nat
         /\ Extent \in Nat /\ call.have <= Extent /\ Count <= Extent
BY CallTypes, EntryTypes, Numbers DEF Base, Count, Extent, File

\* What is read is what the table has.
LEMMA ReadValue ==
  ASSUME FatInv, events = {}, NEW c \in Reads, NEW v \in 0 .. BAD, readcluster(c, v)
  PROVE  /\ c \in Entries /\ v = fat[c] /\ phase' = "start" /\ phase # "written"
         /\ UNCHANGED <<fat, data, dir, start_lookup, damaged>>
<1>1. c \in Entries
  BY EntryRead
<1>2. phase' = "start" /\ phase # "written" /\ UNCHANGED <<fat, data, dir, start_lookup, damaged>>
  BY DEF readcluster, drive, bounds
<1>3. /\ SectorOf(c) \in 0 .. SectorOf(Size-1) /\ Offset(c) \in Offsets
      /\ EntryAt(SectorOf(c), Offset(c)) = c
  BY <1>1, SectorArithmetic
<1>4. CASE phase = "start" /\ cache.sector = SectorOf(c) /\ v = cache.entries[Offset(c)]
  <2>1. cache.sector \notin {-1, Far} /\ Interrupted = {}
    BY <1>1, <1>3, <1>4, FarAway DEF Interrupted
  <2>2. cache.entries[Offset(c)] = fat[EntryAt(cache.sector, Offset(c))]
    BY <1>3, <1>4, <2>1 DEF FatInv, StoreInv, CacheInv
  <2>3. QED
    BY <1>1, <1>2, <1>3, <1>4, <2>2
<1>5. QED
  BY <1>1, <1>2, <1>4 DEF readcluster

\* What is written is in the table already when the copy is written.
LEMMA WroteValue ==
  ASSUME FatInv, NEW w \in Writes, writecluster(w)
  PROVE  /\ w.at \in Entries /\ fat[w.at] = w.value /\ phase = "written" /\ phase' = "start"
         /\ UNCHANGED <<fat, data, dir, start_lookup, damaged>>
<1>1. phase = "written" /\ phase' = "start" /\ UNCHANGED <<fat, data, dir, start_lookup, damaged>>
  BY DEF writecluster, bounds
<1>2. QED
  BY <1>1, AccessKinds DEF FatInv, StoreInv, BufferInv

\* The first clusters of a piece are a piece.
LEMMA Prefix ==
  ASSUME NEW b \in Int, NEW n \in Nat, NEW m \in Nat, m <= n, Chained(b, n)
  PROVE  Chained(b, m)
BY DEF Chained, Piece

(* A step within a call leaves the other files alone if it changes none of  *)
(* their entries and clusters and takes none of their clusters.             *)
LEMMA Within ==
  ASSUME Laid, pc # "idle", pc' # "idle", File' = File,
         UNCHANGED <<dir, start_lookup, damaged>>, Ascends', Named',
         \A f \in Others : entry'[f] = entry[f],
         \A f \in Others : \A c \in Of(f) : fat'[c] = fat[c] /\ data'[c] = data[c],
         \A f \in Others : \A c \in Of(f) : c \notin Piece(Base', Extent'),
         Own'
  PROVE  Laid'
<1>1. Others' = Others /\ \A f \in Others : Of(f)' = Of(f)
  BY DEF Others, Of, Piece
<1>2. Resting'
  BY <1>1 DEF Laid, Resting, Chained, Wrote, Of, Piece
<1>3. Apart'
  BY <1>1 DEF Laid, Apart
<1>4. Clear'
  BY <1>1 DEF Clear, Piece, Others, Of
<1>5. QED
  BY <1>2, <1>3, <1>4 DEF Laid, Hint

\* A step that only moves the call on, with no more clusters than before.
LEMMA Moves ==
  ASSUME FatInv, Laid, pc # "idle", pc' # "idle", File' = File,
         UNCHANGED <<fat, data, dir, entry, start_lookup, damaged>>,
         call'.have <= Extent, call'.have \in Nat, Own'
  PROVE  Laid'
<1>1. File \in Files /\ TypeOK
  BY DEF Laid, Own, FatInv
<1>2. Base' = Base /\ Count' = Count
  BY DEF Base, Count
<1>3. Extent' <= Extent /\ Extent' \in Nat /\ Base \in Nat /\ Extent \in Nat
  BY <1>1, <1>2, OwnTypes DEF Extent
<1>4. \A f \in Others : \A c \in Of(f) : c \notin Piece(Base, Extent)
  BY <1>1, FilesAssumption DEF Laid, Clear
<1>5. \A f \in Others : \A c \in Of(f) : c \notin Piece(Base', Extent')
  BY <1>2, <1>3, <1>4 DEF Piece
<1>6. Ascends' /\ Named'
  BY DEF Laid, Ascends, Named
<1>7. QED
  BY <1>5, <1>6, Within

(* A call that comes to its end leaves its file as its entry says.          *)
LEMMA Settles ==
  ASSUME FatInv, Laid, pc # "idle", Return, UNCHANGED <<fat, data, start_lookup, damaged>>,
         \A f \in Files \ {File} : entry'[f] = entry[f] /\ dir'[f] = dir[f], Named',
         NEW n \in Nat, entry'[File].first = Base, entry'[File].count = n,
         dir'[File] # Absent => n <= Extent /\ Chained(Base, n) /\ Wrote(File, n)
  PROVE  Laid'
<1>1. File \in Files /\ TypeOK /\ dir[File] # Absent
  BY DEF Laid, Own, FatInv
<1>2. pc' = "idle" /\ File' = None /\ call' = NoCall
  BY DEF Return, Goto, File, NoCall
<1>3. /\ Others' \subseteq Others \cup {File}
      /\ File \in Others' => dir'[File] # Absent
  BY <1>1, <1>2, FilesAssumption DEF Others
<1>4. \A f \in Others : Of(f)' = Of(f)
  BY DEF Of, Piece, Others
<1>5. \A f : f = File => Of(f)' = Piece(Base, n)
  BY DEF Of, Piece
<1>6. Resting'
  <2> SUFFICES ASSUME NEW f \in Others'
               PROVE  Chained(entry[f].first, entry[f].count)' /\ Wrote(f, entry[f].count)'
    BY DEF Resting
  <2>1. CASE f \in Others
    <3>1. Chained(entry[f].first, entry[f].count) /\ Wrote(f, entry[f].count)
      BY <2>1 DEF Laid, Resting
    <3>2. entry'[f] = entry[f]
      BY <2>1 DEF Others
    <3>3. QED
      BY <3>1, <3>2 DEF Chained, Wrote, Piece
  <2>2. CASE f = File
    <3>1. Chained(Base, n) /\ Wrote(File, n)
      BY <1>3, <2>2
    <3>2. QED
      BY <2>2, <3>1 DEF Chained, Wrote, Piece, Base
  <2>3. QED
    BY <1>3, <2>1, <2>2
<1>7. ASSUME File \in Others' PROVE \A f \in Others : \A c \in Of(f) : c \notin Piece(Base, n)
  <2>1. \A f \in Others : \A c \in Of(f) : c \notin Piece(Base, Extent)
    BY <1>1, FilesAssumption DEF Laid, Clear
  <2>2. \A c \in Piece(Base, n) : c \in Piece(Base, Extent)
    BY <1>1, <1>3, <1>7, OwnTypes DEF Piece
  <2>3. QED
    BY <2>1, <2>2
<1>8. Apart'
  <2> SUFFICES ASSUME NEW f \in Others', NEW g \in Others', f # g, NEW c \in Of(f)'
               PROVE  c \notin Of(g)'
    BY DEF Apart
  <2>1. CASE f \in Others /\ g \in Others
    BY <1>4, <2>1 DEF Laid, Apart
  <2>2. CASE f = File
    BY <1>3, <1>4, <1>5, <1>7, <2>2
  <2>3. CASE g = File
    BY <1>3, <1>4, <1>5, <1>7, <2>3
  <2>4. QED
    BY <1>3, <2>1, <2>2, <2>3
<1>9. Clear' /\ Own'
  BY <1>2 DEF Clear, Own
<1>10. Ascends' /\ Hint'
  BY DEF Laid, Ascends, Hint
<1>11. QED
  BY <1>6, <1>8, <1>9, <1>10 DEF Laid

LEMMA Returns ==
  ASSUME FatInv, Laid, pc # "idle", Return,
         UNCHANGED <<fat, data, dir, entry, start_lookup, damaged>>,
         Chained(Base, Count), Wrote(File, Count)
  PROVE  Laid'
<1>1. File \in Files /\ TypeOK /\ Count \in Nat /\ Count <= Extent
  BY OwnTypes DEF Laid, Own, FatInv
<1>2. Named'
  BY DEF Laid, Named
<1>3. QED
  BY <1>1, <1>2, Settles DEF Base, Count

-----------------------------------------------------------------------------
(* The steps of the store.                                                  *)
LEMMA OwnStays ==
  ASSUME Own, UNCHANGED <<fat, data, dir, entry, pc, call, damaged>>,
         phase' = "written" <=> phase = "written"
  PROVE  Own'
<1>1. File' = File /\ Base' = Base /\ Count' = Count /\ Freed' = Freed /\ Others' = Others
  BY DEF File, Base, Count, Freed, Others
<1>2. Growing => Growing'
  BY <1>1 DEF Growing, Chained, Wrote, Ended, Of, Piece
<1>3. Shrinking => Shrinking'
  BY <1>1 DEF Shrinking, Chained, Wrote, Remains, Piece
<1>4. Filling => Filling'
  BY <1>1 DEF Filling, Chained, Piece
<1>5. Deleting => Deleting'
  BY <1>1 DEF Deleting, Remains
<1>6. QED
  BY <1>1, <1>2, <1>3, <1>4, <1>5 DEF Own

LEMMA LaidStays ==
  ASSUME Laid, UNCHANGED <<fat, data, dir, entry, start_lookup, pc, call, damaged>>,
         phase' = "written" <=> phase = "written"
  PROVE  Laid'
<1>1. File' = File /\ Base' = Base /\ Extent' = Extent /\ Others' = Others
  BY DEF File, Base, Count, Extent, Others
<1>2. Own'
  BY OwnStays DEF Laid
<1>3. Ascends' /\ Hint' /\ Named'
  BY DEF Laid, Ascends, Hint, Named
<1>4. Resting' /\ Apart' /\ Clear'
  BY <1>1 DEF Laid, Resting, Apart, Clear, Chained, Wrote, Of, Piece
<1>5. QED
  BY <1>2, <1>3, <1>4 DEF Laid

LEMMA WriteFatLaid ==
  ASSUME FatInv, Laid, WriteFat
  PROVE  Laid'
<1>1. /\ phase = "loaded" /\ phase' = "written"
      /\ UNCHANGED <<data, dir, entry, start_lookup, pc, call, damaged>> /\ fat' = Written(fat)
  BY DEF WriteFat, bounds
<1>2. PICK w \in Writes :
        /\ w.at \in Entries
        /\ buffer = [x \in OnSector(SectorOf(w.at)) |-> IF x = w.at THEN w.value ELSE fat[x]]
  BY <1>1 DEF FatInv, StoreInv, BufferInv
<1>3. fat' = [fat EXCEPT ![w.at] = w.value] /\ fat \in [Entries -> 0 .. BAD]
  BY <1>1, <1>2 DEF Written, OnSector, FatInv, TypeOK
<1>4. \A c \in Entries : fat'[c] = IF c = w.at THEN w.value ELSE fat[c]
  BY <1>3
<1>5. pc # "idle" /\ pc' # "idle" /\ File \in Files /\ dir[File] # Absent /\ File' = File
  BY <1>1, <1>2 DEF Writes, Laid, Own, File
<1>6. /\ Base' = Base /\ Count' = Count /\ Extent' = Extent /\ Others' = Others
      /\ \A f \in Others : Of(f)' = Of(f) /\ f \in Files
  BY <1>1 DEF Base, Count, Extent, File, Others, Of, Piece
<1>7. /\ Base \in Nat /\ Base < Size /\ Count \in Nat
      /\ call.have \in Nat /\ call.want \in Nat /\ call.i \in Nat
      /\ Extent \in Nat /\ call.have <= Extent /\ Count <= Extent
  BY <1>5, OwnTypes DEF FatInv
<1>8. \A f \in Others : \A c \in Of(f) :
        c \in 2 .. Size-1 /\ c \in Entries /\ c \notin Piece(Base, Extent)
  <2> SUFFICES ASSUME NEW f \in Others, NEW c \in Of(f)
               PROVE  c \in 2 .. Size-1 /\ c \in Entries /\ c \notin Piece(Base, Extent)
    OBVIOUS
  <2>1. c \in 2 .. Size-1
    BY DEF Laid, Resting, Chained, Of
  <2>2. c \notin Piece(Base, Extent)
    BY <1>5, FilesAssumption DEF Laid, Clear
  <2>3. QED
    BY <2>1, <2>2, Numbers
<1>9. Named'
  BY <1>1 DEF Laid, Named
<1>10. ASSUME Ascends', Own', \A f \in Others : w.at \notin Of(f)
       PROVE  Laid'
  <2>1. \A f \in Others : \A c \in Of(f) : fat'[c] = fat[c] /\ data'[c] = data[c]
    BY <1>1, <1>4, <1>8, <1>10
  <2>2. \A f \in Others : \A c \in Of(f) : c \notin Piece(Base', Extent')
    BY <1>6, <1>8
  <2>3. \A f \in Others : entry'[f] = entry[f]
    BY <1>1
  <2>4. QED
    BY <1>1, <1>5, <1>9, <1>10, <2>1, <2>2, <2>3, Within
<1>11. CASE pc = "mark"
  <2>1. w.at = call.pos /\ w.value = call.pos + 1 /\ Growing
    BY <1>2, <1>11 DEF Writes, Laid, Own
  <2>2. call.pos \in 3 .. Size-1 /\ call.pos \notin Piece(Base, call.have)
    BY <1>11, <2>1 DEF Growing
  <2>3. Ascends'
    BY <1>4, <2>1, <2>2, Numbers DEF Ascends, Laid
  <2>4. Chained(Base, call.have)'
    <3>1. \A c \in Piece(Base, call.have) :
            /\ c \in 2 .. Size-1 /\ c \in Entries /\ c # w.at
            /\ fat[c] = c + 1 \/ (c = Base + call.have - 1 /\ fat[c] = EOC)
      BY <2>1, <2>2, Numbers DEF Growing, Chained
    <3>2. \A c \in Piece(Base, call.have) : fat'[c] = fat[c]
      BY <1>4, <3>1
    <3>3. QED
      BY <1>1, <1>6, <3>1, <3>2 DEF Chained
  <2>5. Ended' => call.have = 0 \/ Ended
    <3>1. call.have # 0 => Base + call.have - 1 \in Piece(Base, call.have)
      BY <1>7 DEF Piece
    <3>2. call.have # 0 => Base + call.have - 1 \in Entries
      BY <3>1, <2>1, Numbers DEF Growing, Chained
    <3>3. QED
      BY <1>1, <1>4, <1>6, <2>1, <2>2, <3>1, <3>2 DEF Ended
  <2>6. Growing'
    BY <1>1, <1>6, <1>11, <2>1, <2>4, <2>5 DEF Growing, Wrote, Piece, File
  <2>7. Own'
    BY <1>1, <1>5, <1>11, <2>6 DEF Own
  <2>8. QED
    BY <1>10, <1>11, <2>1, <2>3, <2>7 DEF Growing
<1>12. CASE pc = "link"
  <2>1. w.at = call.cur /\ w.value = call.pos /\ Growing
    BY <1>2, <1>12 DEF Writes, Laid, Own
  <2>2. call.pos = Base + call.have /\ call.have # 0 /\ call.pos \in 3 .. Size-1
    BY <1>12, <2>1 DEF Growing
  <2>3. call.cur \in {0, Base + call.have - 1} /\ ~Ended
    BY <1>2, <1>12, <2>1, <2>2, Numbers DEF Growing
  <2>4. Ascends'
    <3>1. w.value > w.at /\ w.value \in 3 .. Size
      BY <1>7, <2>1, <2>2, <2>3, Numbers
    <3>2. QED
      BY <1>4, <3>1 DEF Ascends, Laid
  <2>5. \A f \in Others : call.cur \notin Of(f)
    BY <1>7, <1>8, <2>2, <2>3 DEF Piece
  <2>6. \A c \in Piece(Base, call.have) : c \in 2 .. Size-1 /\ fat[c] = c + 1
    BY <1>7, <2>1, <2>3 DEF Growing, Chained, Piece, Ended
  <2>7. \A c \in Piece(Base, call.have) : fat'[c] = c + 1
    BY <1>4, <1>7, <2>1, <2>2, <2>3, <2>6, Numbers DEF Piece
  <2>8. Chained(Base, call.have)'
    BY <1>1, <1>6, <2>6, <2>7 DEF Chained, Piece
  <2>9. ~Ended'
    <3>1. Base + call.have - 1 \in Piece(Base, call.have)
      BY <1>7, <2>2 DEF Piece
    <3>2. QED
      BY <1>1, <1>6, <1>7, <2>2, <2>6, <2>7, <3>1, Numbers DEF Ended
  <2>10. fat'[call.pos] = call.pos + 1
    <3>1. call.pos \in Entries /\ call.pos # w.at /\ fat[call.pos] = call.pos + 1
      BY <1>7, <1>12, <2>1, <2>2, <2>3, Numbers DEF Growing
    <3>2. QED
      BY <1>4, <3>1
  <2>11. Growing'
    BY <1>1, <1>6, <1>12, <2>1, <2>8, <2>9, <2>10 DEF Growing, Wrote, Piece, File
  <2>12. Own'
    BY <1>1, <1>5, <1>12, <2>11 DEF Own
  <2>13. QED
    BY <1>10, <2>1, <2>4, <2>5, <2>12
<1>13. CASE pc \in {"release", "unlinked"}
  <2>1. w.at = call.cur /\ w.value = FREE
    BY <1>2, <1>13 DEF Writes
  <2>2. call.cur = Base + call.i /\ call.i < call.have
    BY <1>13 DEF Laid, Own, Shrinking, Deleting
  <2>3. Ascends'
    BY <1>4, <2>1 DEF Ascends, Laid
  <2>4. \A f \in Others : call.cur \notin Of(f)
    BY <1>7, <1>8, <2>2 DEF Piece
  <2>5. Freed = call.i /\ Freed' = call.i + 1
    BY <1>1 DEF Freed
  <2>6. Remains(Freed) => Remains(Freed)'
    <3>1. SUFFICES ASSUME Remains(call.i),
                          NEW c \in Base + (call.i + 1) .. Base + call.have - 1
                   PROVE  /\ c \in 2 .. Size-1
                          /\ fat'[c] = c + 1 \/ (c = Base + call.have - 1 /\ fat'[c] = EOC)
      BY <1>1, <1>6, <1>7, <2>5 DEF Remains
    <3>2. c \in Base + call.i .. Base + call.have - 1 /\ c # w.at
      BY <1>7, <2>1, <2>2, Numbers
    <3>3. /\ c \in 2 .. Size-1 /\ c \in Entries
          /\ fat[c] = c + 1 \/ (c = Base + call.have - 1 /\ fat[c] = EOC)
      BY <3>1, <3>2, Numbers DEF Remains
    <3>4. fat'[c] = fat[c]
      BY <1>4, <3>2, <3>3
    <3>5. QED
      BY <3>3, <3>4
  <2>7. ASSUME pc = "release" PROVE Shrinking'
    <3>1. Shrinking
      BY <2>7 DEF Laid, Own
    <3>2. Chained(Base, call.want)'
      BY <1>1, <1>4, <1>6, <1>7, <2>1, <2>2, <2>7, <3>1, Numbers DEF Shrinking, Chained, Piece
    <3>3. QED
      BY <1>1, <1>6, <2>6, <2>7, <3>1, <3>2 DEF Shrinking, Wrote, Piece, File
  <2>8. ASSUME pc = "unlinked" PROVE Deleting'
    BY <1>1, <1>6, <2>6, <2>8 DEF Laid, Own, Deleting, File
  <2>9. Own'
    BY <1>1, <1>5, <1>13, <2>7, <2>8 DEF Own
  <2>10. QED
    BY <1>10, <2>1, <2>3, <2>4, <2>9
<1>14. QED
  BY <1>2, <1>11, <1>12, <1>13 DEF Writes

-----------------------------------------------------------------------------
(* Once the chain has been walked.                                          *)
LEMMA ResizeLaid ==
  ASSUME FatInv, Laid, pc # "idle", UNCHANGED <<fat, data, dir, entry, start_lookup, damaged>>,
         NEW k \in Locals, k.file = File, Resize(k), k.want >= 1, k.have >= 1,
         Chained(Base, k.have),
         \A c \in Piece(Base, k.want) :
           c < Base + Count => c <= LastCluster /\ data[c] = File,
         \/ k.have = k.want
         \/ /\ Count <= k.have /\ (k.have > k.want => k.have = Count)
            /\ k.cur \in {0, EOC, BAD, Base + k.have - 1}
            /\ fat[Base + k.have - 1] = EOC => k.cur = EOC,
         \A f \in Others : \A c \in Of(f) : c \notin Piece(Base, k.have)
  PROVE  Laid'
<1>1. File \in Files /\ TypeOK /\ dir[File] # Absent
  BY DEF Laid, Own, FatInv
<1>2. /\ k.have \in Nat /\ k.want \in Nat /\ Base \in Nat /\ Base < Size /\ Count \in Nat
      /\ Extent \in Nat /\ Count <= Extent
  BY <1>1, OwnTypes, Numbers DEF Locals
<1>3. /\ pc' \in {"seek", "skip", "data"} /\ File' = File /\ call'.have = k.have
      /\ call'.want = k.want
      /\ pc' = "seek" => /\ k.have < k.want /\ call'.cur = k.cur
                         /\ call'.pos = start_lookup
      /\ pc' = "skip" => k.have > k.want /\ call'.cur = Base /\ call'.i = 0
      /\ pc' = "data" => k.have = k.want /\ call'.cur = Base /\ call'.i = 0
  <2>1. CASE k.have < k.want
    BY <1>2, <2>1 DEF Resize, Goto, Locals, File
  <2>2. CASE k.have > k.want
    BY <1>2, <2>2 DEF Resize, Goto, Locals, File, Base
  <2>3. CASE k.have = k.want
    BY <1>2, <2>3 DEF Resize, Goto, Locals, File, Base
  <2>4. QED
    BY <1>2, <2>1, <2>2, <2>3
<1>4. Base' = Base /\ Count' = Count /\ Others' = Others
  BY <1>3 DEF Base, Count, Others
<1>5. pc' = "seek" => Growing'
  <2> SUFFICES ASSUME pc' = "seek" PROVE Growing'
    OBVIOUS
  <2>1. Wrote(File, Count)
    BY <1>2, <1>3 DEF Wrote, Piece, Base, Count
  <2>2. start_lookup >= 3
    BY DEF Laid, Hint
  <2>3. Chained(Base, call.have)' /\ Wrote(File, Count)'
    BY <1>3, <1>4, <2>1 DEF Chained, Wrote, Piece
  <2>4. Count' <= call'.have /\ call'.want >= 1 /\ ~(call'.have > call'.want)
    BY <1>2, <1>3, <1>4
  <2>5. /\ call'.cur \in {0, EOC, BAD, Base' + call'.have - 1}
        /\ Ended' => call'.cur = EOC
    BY <1>2, <1>3, <1>4 DEF Ended
  <2>6. QED
    BY <1>3, <2>2, <2>3, <2>4, <2>5 DEF Growing
<1>6. pc' = "skip" => Shrinking'
  <2> SUFFICES ASSUME pc' = "skip" PROVE Shrinking'
    OBVIOUS
  <2>1. k.have = Count /\ k.want < k.have
    BY <1>2, <1>3
  <2>2. Wrote(File, k.want)
    BY <1>2, <2>1 DEF Wrote, Piece, Base
  <2>3. Chained(Base, call.have)' /\ Wrote(File, call.want)'
    BY <1>3, <1>4, <2>2 DEF Chained, Wrote, Piece
  <2>4. QED
    BY <1>2, <1>3, <1>4, <2>1, <2>3 DEF Shrinking
<1>7. pc' = "data" => Filling'
  <2> SUFFICES ASSUME pc' = "data" PROVE Filling'
    OBVIOUS
  <2>1. Chained(Base, call.want)'
    BY <1>3, <1>4 DEF Chained, Piece
  <2>2. (\A c \in Piece(Base, call.want) :
           c < Base + Count \/ c < Base + call.i => c <= LastCluster /\ data[c] = File)'
    BY <1>2, <1>3, <1>4 DEF Piece
  <2>3. QED
    BY <1>2, <1>3, <1>4, <2>1, <2>2 DEF Filling
<1>8. Own'
  BY <1>1, <1>3, <1>5, <1>6, <1>7 DEF Own
<1>9. \A f \in Others : \A c \in Of(f) : c \notin Piece(Base', Extent')
  <2>1. \A f \in Others : \A c \in Of(f) : c \notin Piece(Base, Extent)
    BY <1>1, FilesAssumption DEF Laid, Clear
  <2>2. Extent' = Count \/ Extent' = k.have
    BY <1>3, <1>4 DEF Extent
  <2>3. \A c \in Piece(Base, Count) : c \in Piece(Base, Extent)
    BY <1>2 DEF Piece
  <2>4. QED
    BY <1>4, <2>1, <2>2, <2>3
<1>10. Ascends' /\ Named'
  BY DEF Laid, Ascends, Named
<1>11. pc' # "idle"
  BY <1>3
<1>12. QED
  BY <1>3, <1>8, <1>9, <1>10, <1>11, Within

LEMMA LoadsLaid ==
  ASSUME Laid, Label \/ Load
  PROVE  Laid'
BY LaidStays DEF Label, Load, drive, bounds

LEMMA get_free_clusterLaid ==
  ASSUME FatInv, Laid, events = {}, get_free_cluster
  PROVE  Laid'
<1>1. PICK v \in 0 .. BAD :
        /\ readcluster(call.pos, v)
        /\ IF v = FREE THEN Goto("mark", call) ELSE Goto("seek", [call EXCEPT !.pos = v])
  BY DEF get_free_cluster
<1>2. pc = "seek" /\ call.pos \in Reads /\ UNCHANGED entry
  BY DEF get_free_cluster, Reads
<1>3. /\ call.pos \in Entries /\ v = fat[call.pos] /\ phase' = "start"
      /\ UNCHANGED <<fat, data, dir, start_lookup, damaged>>
  BY <1>1, <1>2, ReadValue
<1>4. Growing /\ File \in Files /\ dir[File] # Absent /\ TypeOK /\ call.pos >= 3
  BY <1>2 DEF Laid, Own, Growing, FatInv
<1>5. /\ Base \in Nat /\ Count \in Nat /\ call.have \in Nat /\ Count <= call.have
      /\ call.have <= Extent /\ call \in Locals /\ call.want \in Nat
  BY <1>4, OwnTypes, CallTypes DEF Growing
<1>6. CASE v = FREE
  <2>1. pc' = "mark" /\ call' = call
    BY <1>1, <1>6, Numbers DEF Goto
  <2>2. \A f \in Others : call.pos \notin Of(f)
    <3> SUFFICES ASSUME NEW f \in Others, call.pos \in Of(f) PROVE FALSE
      OBVIOUS
    <3>1. fat[call.pos] = call.pos + 1 \/ fat[call.pos] = EOC
      BY DEF Laid, Resting, Chained, Of
    <3>2. QED
      BY <1>3, <1>6, <3>1, Numbers
  <2>3. call.pos \notin Piece(Base, call.have)
    <3> SUFFICES ASSUME call.pos \in Piece(Base, call.have) PROVE FALSE
      OBVIOUS
    <3>1. fat[call.pos] = call.pos + 1 \/ fat[call.pos] = EOC
      BY <1>4 DEF Growing, Chained
    <3>2. QED
      BY <1>3, <1>6, <3>1, Numbers
  <2>4. Base' = Base /\ Count' = Count /\ Others' = Others
    BY <1>2, <1>3, <2>1 DEF Base, Count, Others, File
  <2>5. Chained(Base, call.have)' /\ Wrote(File, Count)' /\ (Ended <=> Ended')
    BY <1>2, <1>3, <1>4, <2>1, <2>4 DEF Growing, Chained, Wrote, Ended, Piece, File
  <2>6. (\A f \in Others : call.pos \notin Of(f))' /\ call'.pos \notin Piece(Base, call.have)'
    BY <1>2, <2>1, <2>2, <2>3, <2>4 DEF Of, Piece
  <2>7. call.pos \in 3 .. Size-1
    BY <1>3, <1>4, Numbers
  <2>8. Growing'
    BY <1>2, <1>3, <1>4, <1>6, <2>1, <2>4, <2>5, <2>6, <2>7 DEF Growing
  <2>9. Own'
    BY <1>3, <1>4, <2>1, <2>8 DEF Own, File
  <2>10. QED
    BY <1>2, <1>3, <1>5, <2>1, <2>9, Moves DEF File
<1>7. CASE v # FREE
  <2>1. pc' = "seek" /\ call' = [call EXCEPT !.pos = v]
    BY <1>1, <1>7 DEF Goto
  <2>2. v >= 3
    BY <1>3, <1>7, Numbers DEF Laid, Ascends
  <2>3. /\ call'.pos = v /\ call'.file = call.file /\ call'.have = call.have
        /\ call'.want = call.want /\ call'.cur = call.cur
    BY <1>5, <2>1 DEF Locals
  <2>4. Base' = Base /\ Count' = Count /\ File' = File
    BY <1>2, <2>3 DEF Base, Count, File
  <2>5. Chained(Base, call.have)' /\ Wrote(File, Count)' /\ (Ended <=> Ended')
    BY <1>2, <1>3, <1>4, <2>3, <2>4 DEF Growing, Chained, Wrote, Ended, Piece
  <2>6. Growing'
    BY <1>2, <1>4, <2>1, <2>2, <2>3, <2>4, <2>5 DEF Growing
  <2>7. Own'
    BY <1>3, <1>4, <2>1, <2>4, <2>6 DEF Own
  <2>8. QED
    BY <1>2, <1>3, <1>5, <2>1, <2>3, <2>4, <2>7, Moves
<1>8. QED
  BY <1>6, <1>7

LEMMA allocate_clusterLaid ==
  ASSUME FatInv, Laid, events = {}, events' = {}, allocate_cluster
  PROVE  Laid'
<1>1. PICK w \in Writes : writecluster(w)
  BY DEF allocate_cluster
<1>2. pc = "mark" /\ w.at = call.pos /\ w.value = call.pos + 1
  BY DEF allocate_cluster, Writes
<1>3. /\ fat[call.pos] = call.pos + 1 /\ phase' = "start"
      /\ UNCHANGED <<fat, data, dir, start_lookup, damaged>>
  BY <1>1, <1>2, WroteValue
<1>4. /\ Growing /\ File \in Files /\ dir[File] # Absent /\ TypeOK /\ call.want >= 1
      /\ Chained(Base, call.have) /\ Wrote(File, Count)
  BY <1>2 DEF Laid, Own, Growing, FatInv
<1>5. /\ Base \in Nat /\ Count \in Nat /\ call.have \in Nat /\ Count <= call.have
      /\ call.have <= Extent /\ call \in Locals /\ call.want \in Nat
  BY <1>4, OwnTypes, CallTypes DEF Growing
<1>6. /\ call.pos \in 3 .. Size-1 /\ \A f \in Others : call.pos \notin Of(f)
      /\ call.pos \notin Piece(Base, call.have)
  BY <1>2, <1>4 DEF Growing
<1>7. CASE call.have = 0
  <2>1. /\ entry' = [entry EXCEPT ![File].first = call.pos] /\ pc' = "walk"
        /\ call' = [call EXCEPT !.have = 1, !.cur = call.pos]
    BY <1>7 DEF allocate_cluster, Goto
  <2>2. /\ call'.have = 1 /\ call'.cur = call.pos /\ call'.file = call.file
        /\ call'.want = call.want /\ File' = File
    BY <1>5, <2>1 DEF Locals, File
  <2>3. /\ entry'[File].first = call.pos /\ entry'[File].count = 0
        /\ \A f \in Files \ {File} : entry'[f] = entry[f]
    <3>1. PICK r \in [Files -> FileEntries] : entry = r
      BY <1>4 DEF TypeOK
    <3>2. Count = 0
      BY <1>5, <1>7
    <3>3. QED
      BY <1>4, <2>1, <3>1, <3>2 DEF FileEntries, Count
  <2>4. Base' = call.pos /\ Count' = 0 /\ Extent' = 1 /\ Others' = Others
    BY <1>3, <2>2, <2>3 DEF Base, Count, Extent, Others
  <2>5. Chained(Base, call.have)'
    <3>1. \A c \in Piece(call.pos, 1) : c = call.pos
      BY <1>6 DEF Piece
    <3>2. QED
      BY <1>3, <1>6, <2>2, <2>4, <3>1, Numbers DEF Chained
  <2>6. Wrote(File, Count)'
    BY <1>6, <2>2, <2>3, <2>4 DEF Wrote, Piece
  <2>7. call'.cur \in Piece(Base, call.have)'
    BY <1>6, <2>2, <2>4 DEF Piece
  <2>8. Growing'
    BY <1>4, <1>5, <2>1, <2>2, <2>4, <2>5, <2>6, <2>7 DEF Growing
  <2>9. Own'
    BY <1>3, <1>4, <2>1, <2>2, <2>8 DEF Own
  <2>10. Ascends'
    BY <1>3 DEF Laid, Ascends
  <2>11. Named'
    <3> SUFFICES ASSUME NEW f \in Files \ damaged, dir[f] # Absent
                 PROVE  /\ entry'[f].count = dir[f].count
                        /\ dir[f].count # 0 => entry'[f] = dir[f]
      BY <1>3 DEF Named
    <3>1. entry[f].count = dir[f].count /\ (dir[f].count # 0 => entry[f] = dir[f])
      BY DEF Laid, Named
    <3>2. CASE f = File
      BY <1>5, <1>7, <2>3, <3>1, <3>2 DEF Count
    <3>3. CASE f # File
      BY <2>3, <3>1, <3>3
    <3>4. QED
      BY <3>2, <3>3
  <2>12. \A f \in Others : \A c \in Of(f) : c \notin Piece(Base', Extent')
    BY <1>6, <2>4 DEF Piece
  <2>13. \A f \in Others : entry'[f] = entry[f]
    BY <2>3 DEF Others
  <2>14. QED
    BY <1>2, <1>3, <2>1, <2>2, <2>9, <2>10, <2>11, <2>12, <2>13, Within
<1>8. CASE call.have # 0
  <2>1. /\ call.pos = Base + call.have /\ pc' = "link" /\ call' = call
        /\ UNCHANGED entry
    BY <1>8 DEF allocate_cluster, Goto, Base
  <2>2. Base' = Base /\ Count' = Count /\ Others' = Others /\ File' = File
    BY <1>3, <2>1 DEF Base, Count, Others, File
  <2>3. Chained(Base, call.have)' /\ Wrote(File, Count)' /\ (Ended <=> Ended')
    BY <1>3, <1>4, <2>1, <2>2 DEF Chained, Wrote, Ended, Piece
  <2>4. (\A f \in Others : call.pos \notin Of(f))' /\ call'.pos \notin Piece(Base, call.have)'
    BY <1>6, <2>1, <2>2 DEF Of, Piece
  <2>5. Growing'
    BY <1>2, <1>3, <1>4, <1>6, <1>8, <2>1, <2>2, <2>3, <2>4 DEF Growing
  <2>6. Own'
    BY <1>3, <1>4, <2>1, <2>2, <2>5 DEF Own
  <2>7. QED
    BY <1>2, <1>3, <1>5, <2>1, <2>2, <2>6, Moves
<1>9. QED
  BY <1>7, <1>8

LEMMA WalkLaid ==
  ASSUME FatInv, Laid, events = {}, Walk
  PROVE  Laid'
<1>1. PICK v \in 0 .. BAD :
        /\ readcluster(call.cur, v)
        /\ IF CONTINUE(v) THEN Goto("walk", [call EXCEPT !.cur = v])
                          ELSE Resize([call EXCEPT !.cur = v])
  BY DEF Walk
<1>2. pc = "walk" /\ call.cur \in Reads /\ UNCHANGED entry
  BY DEF Walk, Reads
<1>3. /\ call.cur \in Entries /\ v = fat[call.cur] /\ phase' = "start"
      /\ UNCHANGED <<fat, data, dir, start_lookup, damaged>>
  BY <1>1, <1>2, ReadValue
<1>4. /\ Growing /\ File \in Files /\ dir[File] # Absent /\ TypeOK
      /\ call.want >= 1 /\ Chained(Base, call.have) /\ Wrote(File, Count)
      /\ call.have > call.want => call.have = Count
      /\ call.have # 0
      /\ call.cur \notin Piece(Base, call.have) => ~Ended \/ call.cur = EOC
  BY <1>2 DEF Laid, Own, Growing, FatInv
<1>5. /\ Base \in Nat /\ Count \in Nat /\ call.have \in Nat /\ Count <= call.have
      /\ call.have <= Extent /\ call \in Locals /\ call.want \in Nat
  BY <1>4, OwnTypes, CallTypes DEF Growing
<1> DEFINE k == [call EXCEPT !.cur = v]
<1>6. /\ k.cur = v /\ k.file = File /\ k.have = call.have /\ k.want = call.want
      /\ k \in Locals
  BY <1>5 DEF Locals, File
<1>7. v \in {FREE, EOC, BAD} \/ (v > call.cur /\ v \in 3 .. Size)
  BY <1>3 DEF Laid, Ascends
<1>8. call.cur \in Piece(Base, call.have) =>
        v = call.cur + 1 \/ (call.cur = Base + call.have - 1 /\ v = EOC)
  BY <1>3, <1>4 DEF Chained
<1>9. CASE CONTINUE(v)
  <2>1. pc' = "walk" /\ call' = k
    BY <1>1, <1>9 DEF Goto
  <2>2. Base' = Base /\ Count' = Count /\ File' = File
    BY <1>2, <1>6, <2>1 DEF Base, Count, File
  <2>3. Chained(Base, call.have)' /\ Wrote(File, Count)' /\ (Ended <=> Ended')
    BY <1>2, <1>3, <1>4, <1>6, <2>1, <2>2 DEF Chained, Wrote, Ended, Piece
  <2>4. v \notin Piece(Base, call.have) => ~Ended \/ v = EOC
    <3> SUFFICES ASSUME v \notin Piece(Base, call.have), Ended, v # EOC PROVE FALSE
      OBVIOUS
    <3>1. call.cur \in Piece(Base, call.have) /\ v = call.cur + 1
      BY <1>3, <1>4, <1>8, Numbers
    <3>2. call.cur = Base + call.have - 1
      BY <1>5, <3>1 DEF Piece
    <3>3. fat[call.cur] = EOC
      BY <3>2 DEF Ended
    <3>4. QED
      BY <1>3, <3>3
  <2>5. Growing'
    <3>1. call'.cur \notin Piece(Base, call.have)' => ~Ended' \/ call'.cur = EOC
      BY <1>6, <2>1, <2>2, <2>3, <2>4 DEF Piece
    <3> HIDE DEF k
    <3>2. QED
      BY <1>4, <1>5, <1>6, <2>1, <2>2, <2>3, <3>1 DEF Growing
  <2>6. Own'
    BY <1>3, <1>4, <2>1, <2>2, <2>5 DEF Own
  <2>7. QED
    BY <1>2, <1>3, <1>5, <1>6, <2>1, <2>2, <2>6, Moves
<1>10. CASE ~CONTINUE(v)
  <2>1. Resize(k)
    BY <1>1, <1>10
  <2>2. v = 0
    BY <1>7, <1>10, Numbers DEF CONTINUE
  <2>3. Ended => v = EOC
    <3>1. Ended => call.cur \in Piece(Base, call.have)
      BY <1>3, <1>4, Numbers
    <3>2. QED
      BY <1>3, <1>8, <2>2, <3>1, Numbers
  <2>4. \A c \in Piece(Base, call.want) :
          c < Base + Count => c <= LastCluster /\ data[c] = File
    BY <1>4, <1>5 DEF Wrote, Piece, Base
  <2>5. \A f \in Others : \A c \in Of(f) : c \notin Piece(Base, call.have)
    <3>1. \A f \in Others : \A c \in Of(f) : c \notin Piece(Base, Extent)
      BY <1>4, FilesAssumption DEF Laid, Clear
    <3>2. Extent = call.have
      BY <1>5 DEF Extent
    <3>3. QED
      BY <3>1, <3>2
  <2>6. fat[Base + k.have - 1] = EOC => k.cur = EOC
    BY <1>6, <2>3 DEF Ended
  <2> HIDE DEF k
  <2>7. QED
    BY <1>2, <1>3, <1>4, <1>5, <1>6, <2>1, <2>2, <2>4, <2>5, <2>6, ResizeLaid
<1>11. QED
  BY <1>9, <1>10

LEMMA LinkLaid ==
  ASSUME FatInv, Laid, Link
  PROVE  Laid'
<1>1. PICK w \in Writes : writecluster(w)
  BY DEF Link
<1>2. pc = "link" /\ w.at = call.cur /\ w.value = call.pos /\ UNCHANGED entry
  BY DEF Link, Writes
<1>3. /\ call.cur \in Entries /\ fat[call.cur] = call.pos
      /\ UNCHANGED <<fat, data, dir, start_lookup, damaged>>
  BY <1>1, <1>2, WroteValue
<1>4. /\ Growing /\ File \in Files /\ dir[File] # Absent /\ TypeOK
      /\ call.want >= 1 /\ Chained(Base, call.have) /\ Wrote(File, Count)
      /\ call.have # 0 /\ (Ended => call.cur = EOC)
      /\ call.pos \in 3 .. Size-1 /\ \A f \in Others : call.pos \notin Of(f)
      /\ call.pos = Base + call.have /\ fat[call.pos] = call.pos + 1
  BY <1>2 DEF Laid, Own, Growing, FatInv
<1>5. /\ Base \in Nat /\ Count \in Nat /\ call.have \in Nat /\ Count <= call.have
      /\ call.have <= Extent /\ call \in Locals /\ call.want \in Nat
      /\ call.have < call.want
  BY <1>2, <1>4, OwnTypes, CallTypes DEF Growing, TypeOK, CallOK
<1> DEFINE k == [call EXCEPT !.cur = call.pos, !.have = call.have + 1]
<1>6. /\ k.cur = call.pos /\ k.file = File /\ k.have = call.have + 1 /\ k.want = call.want
      /\ k \in Locals
  <2>1. call.have + 1 \in 0 .. MaxClusters
    <3>1. call.want \in 0 .. MaxClusters
      BY <1>4, CallTypes
    <3>2. QED
      BY <1>5, <3>1, Numbers
  <2>2. QED
    BY <1>5, <2>1 DEF Locals, File
<1>7. Resize(k)
  BY DEF Link
<1>8. ~Ended
  BY <1>3, <1>4, Numbers
<1>9. Chained(Base, call.have + 1)
  <2> SUFFICES ASSUME NEW c \in Piece(Base, call.have + 1)
               PROVE  c \in 2 .. Size-1 /\ fat[c] = c + 1
    BY DEF Chained
  <2>1. CASE c = call.pos
    BY <1>4, <2>1, Numbers
  <2>2. CASE c # call.pos
    <3>1. c \in Piece(Base, call.have)
      BY <1>4, <1>5, <2>2 DEF Piece
    <3>2. QED
      BY <1>4, <1>8, <3>1 DEF Chained, Ended
  <2>3. QED
    BY <2>1, <2>2
<1>10. \A c \in Piece(Base, call.want) :
         c < Base + Count => c <= LastCluster /\ data[c] = File
  BY <1>4, <1>5 DEF Wrote, Piece, Base
<1>11. \A f \in Others : \A c \in Of(f) : c \notin Piece(Base, call.have + 1)
  <2>1. \A f \in Others : \A c \in Of(f) : c \notin Piece(Base, Extent)
    BY <1>4, FilesAssumption DEF Laid, Clear
  <2>2. Extent = call.have
    BY <1>5 DEF Extent
  <2>3. \A c \in Piece(Base, call.have + 1) : c \in Piece(Base, call.have) \/ c = call.pos
    BY <1>4, <1>5 DEF Piece
  <2>4. QED
    BY <1>4, <2>1, <2>2, <2>3
<1>12. /\ k.cur = Base + k.have - 1 /\ fat[Base + k.have - 1] # EOC
       /\ Count <= k.have /\ ~(k.have > k.want) /\ k.have >= 1
  <2>1. Base + k.have - 1 = call.pos
    BY <1>4, <1>5, <1>6
  <2>2. fat[Base + k.have - 1] = call.pos + 1
    BY <1>4, <2>1
  <2>3. fat[Base + k.have - 1] # EOC
    BY <1>4, <2>2, Numbers
  <2> HIDE DEF k
  <2>4. QED
    BY <1>4, <1>5, <1>6, <2>1, <2>3
<1> HIDE DEF k
<1>13. QED
  BY <1>2, <1>3, <1>4, <1>5, <1>6, <1>7, <1>9, <1>10, <1>11, <1>12, ResizeLaid

\* At a mark the walk ends, and the call where it searches or links.
LEMMA OutsideLaid ==
  ASSUME FatInv, Laid, Outside
  PROVE  Laid'
<1>1. /\ UNCHANGED <<fat, data, dir, entry, start_lookup, damaged>> /\ phase' = "start"
      /\ phase \in {"start", "labelled"} /\ Abandon
  BY DEF Outside, drive, bounds
<1>2. \/ \E c \in Reads : c > Size
      \/ \E w \in Writes : w.at > Size
  BY AccessKinds, FarAway DEF Outside, FatInv
<1>3. pc \in Stages
  BY <1>2, AccessKinds DEF FatInv
<1>4. /\ File \in Files /\ TypeOK /\ Base \in Nat /\ Count \in Nat /\ call.have \in Nat
      /\ call.i \in Nat /\ call \in Locals /\ call.want \in Nat /\ Count <= Extent
  BY <1>3, OwnTypes, CallTypes DEF Laid, Own, FatInv, Stages
<1>5. CASE pc = "walk"
  <2>1. /\ Growing /\ Resize(call) /\ call.cur > Size
    BY <1>1, <1>2, <1>5 DEF Laid, Own, Abandon, Reads, Writes
  <2>2. /\ call.want >= 1 /\ Chained(Base, call.have) /\ Wrote(File, Count)
        /\ call.have > call.want => call.have = Count
        /\ call.have # 0 /\ Count <= call.have
        /\ call.cur \notin Piece(Base, call.have) => ~Ended \/ call.cur = EOC
    BY <1>5, <2>1 DEF Growing
  <2>3. call.cur \in {EOC, BAD}
    BY <1>4, <2>1, CallTypes, Numbers
  <2>4. call.cur \notin Piece(Base, call.have)
    BY <2>1, <2>2, Numbers DEF Chained
  <2>5. \A c \in Piece(Base, call.want) :
          c < Base + Count => c <= LastCluster /\ data[c] = File
    BY <1>4, <2>2 DEF Wrote, Piece, Base
  <2>6. \A f \in Others : \A c \in Of(f) : c \notin Piece(Base, call.have)
    <3>1. \A f \in Others : \A c \in Of(f) : c \notin Piece(Base, Extent)
      BY <1>4, FilesAssumption DEF Laid, Clear
    <3>2. Extent = call.have
      BY <1>4, <2>2 DEF Extent
    <3>3. QED
      BY <3>1, <3>2
  <2>7. fat[Base + call.have - 1] = EOC => call.cur = EOC
    BY <2>2, <2>4 DEF Ended
  <2>8. QED
    BY <1>1, <1>4, <1>5, <2>1, <2>2, <2>3, <2>5, <2>6, <2>7, ResizeLaid DEF File
<1>6. CASE pc \in {"seek", "mark", "link"}
  <2>1. Growing /\ Return
    BY <1>1, <1>6 DEF Laid, Own, Abandon
  <2>2. Chained(Base, Count) /\ Wrote(File, Count)
    BY <1>4, <2>1, Prefix DEF Growing
  <2>3. QED
    BY <1>1, <1>6, <2>1, <2>2, Returns
<1>7. CASE pc \in {"skip", "next", "release", "data", "follow", "entry", "unlink", "unlinked", "erase"}
  <2>1. call.cur > Size
    BY <1>2, <1>7 DEF Reads, Writes
  <2>2. call.cur <= Size
    <3>1. CASE pc = "skip"
      BY <1>4, <3>1, Numbers DEF Laid, Own, Shrinking, Chained, Piece
    <3>2. CASE pc \in {"next", "release"}
      <4>1. /\ Shrinking /\ call.cur = Base + call.i /\ call.i < call.have
            /\ Base + call.i \in Base+call.i .. Base+call.have-1
        BY <1>4, <3>2 DEF Laid, Own, Shrinking
      <4>2. Remains(call.i)
        BY <1>1, <3>2, <4>1 DEF Shrinking, Freed
      <4>3. QED
        BY <4>1, <4>2, Numbers DEF Remains
    <3>3. CASE pc = "follow"
      BY <1>4, <3>3, Numbers DEF Laid, Own, Filling
    <3>4. CASE pc \in {"unlink", "unlinked"}
      <4>1. /\ Deleting /\ call.cur = Base + call.i /\ call.i < call.have
            /\ Base + call.i \in Base+call.i .. Base+call.have-1
        BY <1>4, <3>4 DEF Laid, Own, Deleting
      <4>2. Remains(call.i)
        BY <1>1, <3>4, <4>1 DEF Deleting, Freed
      <4>3. QED
        BY <4>1, <4>2, Numbers DEF Remains
    <3>5. CASE pc \in {"data", "entry", "erase"}
      BY <1>2, <3>5 DEF Reads, Writes
    <3>6. QED
      BY <1>7, <3>1, <3>2, <3>3, <3>4, <3>5
  <2>3. QED
    BY <2>1, <2>2, <1>4, CallTypes, Numbers
<1>8. QED
  BY <1>3, <1>5, <1>6, <1>7 DEF Stages

LEMMA SkipKeptLaid ==
  ASSUME FatInv, Laid, events = {}, SkipKept
  PROVE  Laid'
<1>1. PICK v \in 0 .. BAD :
        /\ readcluster(call.cur, v)
        /\ Goto(IF call.i + 1 < call.want THEN "skip" ELSE "next",
                [call EXCEPT !.cur = v, !.i = @ + 1])
  BY DEF SkipKept
<1>2. pc = "skip" /\ call.cur \in Reads /\ UNCHANGED entry
  BY DEF SkipKept, Reads
<1>3. /\ v = fat[call.cur] /\ phase' = "start"
      /\ UNCHANGED <<fat, data, dir, start_lookup, damaged>>
  BY <1>1, <1>2, ReadValue
<1>4. /\ Shrinking /\ File \in Files /\ dir[File] # Absent /\ TypeOK
      /\ call.have = Count /\ call.want < call.have /\ call.want >= 1
      /\ Wrote(File, call.want) /\ call.cur = Base + call.i
      /\ call.i < call.want /\ Chained(Base, call.have)
  BY <1>2 DEF Laid, Own, Shrinking, FatInv
<1>5. /\ Base \in Nat /\ Count \in Nat /\ call.have \in Nat /\ call.i \in Nat
      /\ call.have <= Extent /\ call \in Locals /\ call.want \in Nat
  BY <1>4, OwnTypes, CallTypes
<1>6. /\ call'.cur = v /\ call'.i = call.i + 1 /\ call'.have = call.have
      /\ call'.want = call.want /\ File' = File
      /\ pc' = IF call.i + 1 < call.want THEN "skip" ELSE "next"
  BY <1>1, <1>5 DEF Goto, Locals, File
<1>7. Base' = Base /\ Count' = Count
  BY <1>2, <1>6 DEF Base, Count
<1>8. v = Base + (call.i + 1)
  <2>1. call.cur \in Piece(Base, call.have) /\ call.cur # Base + call.have - 1
    BY <1>4, <1>5 DEF Piece
  <2>2. QED
    BY <1>3, <1>4, <1>5, <2>1 DEF Chained
<1>9. /\ Chained(Base, call.have)' /\ Wrote(File, call.want)'
  BY <1>2, <1>3, <1>4, <1>6, <1>7 DEF Chained, Wrote, Piece
<1>10. Chained(Base, call.want)'
  <2>1. Chained(Base, call.want)
    BY <1>4, <1>5, Prefix
  <2>2. QED
    BY <1>3, <1>6, <1>7, <2>1 DEF Chained, Piece
<1>11. pc' = "next" => Remains(call.i)'
  <2>1. ASSUME NEW c \in Base + (call.i + 1) .. Base + call.have - 1
        PROVE  /\ c \in 2 .. Size-1
               /\ fat[c] = c + 1 \/ (c = Base+call.have-1 /\ fat[c] = EOC)
    <3>1. c \in Piece(Base, call.have)
      BY <1>5 DEF Piece
    <3>2. QED
      BY <1>4, <3>1 DEF Chained
  <2>2. QED
    BY <1>3, <1>6, <1>7, <2>1 DEF Remains
<1>12. Shrinking'
  <2>1. CASE call.i + 1 < call.want
    BY <1>4, <1>5, <1>6, <1>7, <1>8, <1>9, <2>1 DEF Shrinking
  <2>2. CASE ~(call.i + 1 < call.want)
    BY <1>4, <1>5, <1>6, <1>7, <1>8, <1>9, <1>10, <1>11, <2>2 DEF Shrinking
  <2>3. QED
    BY <2>1, <2>2
<1>13. Own'
  BY <1>3, <1>4, <1>6, <1>12 DEF Own
<1>14. QED
  BY <1>2, <1>3, <1>5, <1>6, <1>13, Moves

LEMMA NextOfFreedLaid ==
  ASSUME FatInv, Laid, events = {}, NextOfFreed
  PROVE  Laid'
<1>1. PICK v \in 0 .. BAD :
        readcluster(call.cur, v) /\ Goto("release", [call EXCEPT !.next = v])
  BY DEF NextOfFreed
<1>2. pc = "next" /\ call.cur \in Reads /\ UNCHANGED entry
  BY DEF NextOfFreed, Reads
<1>3. /\ v = fat[call.cur] /\ phase' = "start"
      /\ UNCHANGED <<fat, data, dir, start_lookup, damaged>>
  BY <1>1, <1>2, ReadValue
<1>4. /\ File \in Files /\ dir[File] # Absent /\ TypeOK
      /\ call.have = Count /\ call.want < call.have /\ call.want >= 1
      /\ Wrote(File, call.want) /\ call.cur = Base + call.i
      /\ call.want <= call.i /\ call.i < call.have /\ Chained(Base, call.want)
      /\ Remains(call.i)
  BY <1>2 DEF Laid, Own, Shrinking, FatInv
<1>5. /\ Base \in Nat /\ Count \in Nat /\ call.have \in Nat /\ call.i \in Nat
      /\ call.have <= Extent /\ call \in Locals /\ call.want \in Nat
  BY <1>4, OwnTypes, CallTypes
<1>6. /\ pc' = "release" /\ call'.next = v /\ call'.cur = call.cur /\ call'.i = call.i
      /\ call'.have = call.have /\ call'.want = call.want /\ File' = File
  BY <1>1, <1>5 DEF Goto, Locals, File
<1>7. Base' = Base /\ Count' = Count /\ Freed' = call.i
  BY <1>2, <1>3, <1>6 DEF Base, Count, Freed
<1>8. call.i + 1 < call.have => v = call.cur + 1
  BY <1>3, <1>4, <1>5 DEF Remains
<1>9. Wrote(File, call.want)' /\ Chained(Base, call.want)' /\ Remains(Freed)'
  BY <1>2, <1>3, <1>4, <1>6, <1>7 DEF Chained, Wrote, Remains, Piece
<1>10. Shrinking'
  BY <1>4, <1>5, <1>6, <1>7, <1>8, <1>9 DEF Shrinking
<1>11. Own'
  BY <1>3, <1>4, <1>6, <1>10 DEF Own
<1>12. QED
  BY <1>2, <1>3, <1>5, <1>6, <1>11, Moves

LEMMA free_clusterLaid ==
  ASSUME FatInv, Laid, free_cluster
  PROVE  Laid'
<1>1. PICK w \in Writes : writecluster(w)
  BY DEF free_cluster
<1>2. pc = "release" /\ UNCHANGED entry
  BY DEF free_cluster
<1>3. phase = "written" /\ phase' = "start" /\ UNCHANGED <<fat, data, dir, start_lookup, damaged>>
  BY <1>1, WroteValue
<1>4. /\ File \in Files /\ dir[File] # Absent /\ TypeOK
      /\ call.have = Count /\ call.want < call.have /\ call.want >= 1
      /\ Wrote(File, call.want) /\ call.cur = Base + call.i
      /\ call.want <= call.i /\ call.i < call.have /\ Chained(Base, call.want)
      /\ Remains(Freed) /\ (call.i + 1 < call.have => call.next = call.cur + 1)
  BY <1>2 DEF Laid, Own, Shrinking, FatInv
<1>5. /\ Base \in Nat /\ Count \in Nat /\ call.have \in Nat /\ call.i \in Nat
      /\ call.have <= Extent /\ call \in Locals /\ call.want \in Nat /\ Freed = call.i + 1
  BY <1>3, <1>4, OwnTypes, CallTypes DEF Freed
<1> DEFINE k == [call EXCEPT !.cur = call.next, !.i = call.i + 1]
           l == [k EXCEPT !.have = k.want]
<1>6. /\ k.cur = call.next /\ k.i = call.i + 1 /\ k.have = call.have /\ k.want = call.want
      /\ k.file = File /\ k \in Locals
  <2>1. call.next \in 0 .. BAD /\ call.i + 1 \in Nat
    BY <1>4, <1>5, CallTypes
  <2>2. QED
    BY <1>5, <2>1 DEF Locals, File
<1>7. /\ l.have = call.want /\ l.want = call.want /\ l.file = File /\ l \in Locals
  BY <1>4, <1>6, CallTypes DEF Locals
<1>8. IF k.i < k.have THEN Goto("next", k) ELSE Resize(l)
  BY DEF free_cluster
<1> HIDE DEF k, l
<1>9. CASE k.i < k.have
  <2>1. pc' = "next" /\ call' = k /\ File' = File
    BY <1>6, <1>8, <1>9 DEF Goto, File
  <2>2. Base' = Base /\ Count' = Count
    BY <1>2, <2>1 DEF Base, Count
  <2>3. Wrote(File, call.want)' /\ Chained(Base, call.want)'
    BY <1>2, <1>3, <1>4, <1>6, <2>1, <2>2 DEF Chained, Wrote, Piece
  <2>4. Remains(call.i)'
    BY <1>3, <1>4, <1>5, <1>6, <2>1, <2>2 DEF Remains
  <2>5. Shrinking'
    BY <1>4, <1>5, <1>6, <1>9, <2>1, <2>2, <2>3, <2>4 DEF Shrinking
  <2>6. Own'
    BY <1>3, <1>4, <2>1, <2>5 DEF Own
  <2>7. QED
    BY <1>2, <1>3, <1>5, <1>6, <2>1, <2>6, Moves
<1>10. CASE ~(k.i < k.have)
  <2>1. \A c \in Piece(Base, call.want) :
          c < Base + Count => c <= LastCluster /\ data[c] = File
    BY <1>4 DEF Wrote, Base
  <2>2. \A f \in Others : \A c \in Of(f) : c \notin Piece(Base, call.want)
    <3>1. \A f \in Others : \A c \in Of(f) : c \notin Piece(Base, Extent)
      BY <1>4, FilesAssumption DEF Laid, Clear
    <3>2. \A c \in Piece(Base, call.want) : c \in Piece(Base, Extent)
      BY <1>4, <1>5, OwnTypes DEF Piece
    <3>3. QED
      BY <3>1, <3>2
  <2>3. QED
    BY <1>2, <1>3, <1>4, <1>7, <1>8, <1>10, <2>1, <2>2, ResizeLaid
<1>11. QED
  BY <1>9, <1>10

LEMMA write_cluster_dataLaid ==
  ASSUME FatInv, Laid, write_cluster_data
  PROVE  Laid'
<1>1. pc = "data" /\ UNCHANGED <<fat, dir, entry, start_lookup, phase, damaged>>
  BY DEF write_cluster_data, bounds
<1>2. /\ File \in Files /\ dir[File] # Absent /\ TypeOK
      /\ call.have = call.want /\ call.want >= 1 /\ Chained(Base, call.want)
      /\ call.i < call.want /\ call.cur = Base + call.i
      /\ \A c \in Piece(Base, call.want) :
           c < Base + Count \/ c < Base + call.i => c <= LastCluster /\ data[c] = File
  BY <1>1 DEF Laid, Own, Filling, FatInv
<1>3. /\ Base \in Nat /\ Count \in Nat /\ call.have \in Nat /\ call.i \in Nat
      /\ call.have <= Extent /\ call.want \in Nat /\ Extent \in Nat /\ Count <= Extent
  BY <1>2, OwnTypes
<1>4. call.cur \in Piece(Base, call.want) /\ call.cur \in 2 .. Size-1
  BY <1>2, <1>3 DEF Piece, Chained
<1>5. CASE call.cur <= LastCluster
  <2>1. data' = [data EXCEPT ![call.cur] = File] /\ pc' = "follow" /\ call' = call
    BY <1>4, <1>5, Numbers DEF write_cluster_data, Goto
  <2>2. \A c \in Entries : data'[c] = IF c = call.cur THEN File ELSE data[c]
    BY <1>2, <2>1 DEF TypeOK
  <2>3. /\ Base' = Base /\ Count' = Count /\ File' = File /\ Extent' = Extent
        /\ Others' = Others
    BY <1>1, <2>1 DEF Base, Count, File, Extent, Others
  <2>4. \A c \in Piece(Base, call.want) : c \in Entries
    BY <1>2, Numbers DEF Chained
  <2>5. Filling'
    <3>1. \A c \in Piece(Base, call.want) :
            c < Base + Count \/ c < Base + call.i => c <= LastCluster /\ data'[c] = File
      BY <1>2, <2>2, <2>4
    <3>2. data'[call.cur] = File
      BY <1>4, <2>2, <2>4
    <3>3. Chained(Base, call.want)'
      BY <1>1, <1>2, <2>1, <2>3 DEF Chained, Piece
    <3>4. QED
      BY <1>2, <1>5, <2>1, <2>3, <3>1, <3>2, <3>3 DEF Filling, Piece
  <2>6. Own'
    BY <1>1, <1>2, <2>1, <2>3, <2>5 DEF Own
  <2>7. \A f \in Others : \A c \in Of(f) : c \notin Piece(Base, Extent)
    BY <1>2, FilesAssumption DEF Laid, Clear
  <2>8. \A f \in Others : \A c \in Of(f) : fat'[c] = fat[c] /\ data'[c] = data[c]
    <3> SUFFICES ASSUME NEW f \in Others, NEW c \in Of(f) PROVE data'[c] = data[c]
      BY <1>1
    <3>1. c # call.cur
      BY <1>2, <1>3, <2>7 DEF Piece
    <3>2. c \in Entries
      BY Numbers DEF Laid, Resting, Chained, Of
    <3>3. QED
      BY <2>2, <3>1, <3>2
  <2>9. Ascends' /\ Named'
    BY <1>1 DEF Laid, Ascends, Named
  <2>10. \A f \in Others : entry'[f] = entry[f]
    BY <1>1
  <2>11. QED
    BY <1>1, <2>1, <2>3, <2>6, <2>7, <2>8, <2>9, <2>10, Within
<1>6. CASE ~(call.cur <= LastCluster)
  <2>1. Return /\ UNCHANGED data
    BY <1>6, <1>4, Numbers DEF write_cluster_data
  <2>2. Count <= call.i
    BY <1>2, <1>3, <1>4, <1>6
  <2>3. Chained(Base, Count)
    BY <1>2, <1>3, <2>2, Prefix
  <2>4. Wrote(File, Count)
    BY <1>2, <1>3, <2>2 DEF Wrote, Piece, Base
  <2>5. QED
    BY <1>1, <2>1, <2>3, <2>4, Returns
<1>7. QED
  BY <1>5, <1>6

LEMMA FollowLaid ==
  ASSUME FatInv, Laid, events = {}, Follow
  PROVE  Laid'
<1>1. PICK v \in 0 .. BAD :
        /\ readcluster(call.cur, v)
        /\ Goto(IF call.i + 1 < call.want THEN "data" ELSE "entry",
                [call EXCEPT !.cur = v, !.i = @ + 1])
  BY DEF Follow
<1>2. pc = "follow" /\ call.cur \in Reads /\ UNCHANGED entry
  BY DEF Follow, Reads
<1>3. /\ v = fat[call.cur] /\ phase' = "start"
      /\ UNCHANGED <<fat, data, dir, start_lookup, damaged>>
  BY <1>1, <1>2, ReadValue
<1>4. /\ File \in Files /\ dir[File] # Absent /\ TypeOK
      /\ call.have = call.want /\ call.want >= 1 /\ Chained(Base, call.want)
      /\ call.i < call.want /\ call.cur = Base + call.i
      /\ data[call.cur] = File /\ call.cur <= LastCluster
      /\ \A c \in Piece(Base, call.want) :
           c < Base + Count \/ c < Base + call.i => c <= LastCluster /\ data[c] = File
  BY <1>2 DEF Laid, Own, Filling, FatInv
<1>5. /\ Base \in Nat /\ Count \in Nat /\ call.have \in Nat /\ call.i \in Nat
      /\ call.have <= Extent /\ call \in Locals /\ call.want \in Nat
  BY <1>4, OwnTypes, CallTypes
<1>6. /\ call'.cur = v /\ call'.i = call.i + 1 /\ call'.have = call.have
      /\ call'.want = call.want /\ File' = File
      /\ pc' = IF call.i + 1 < call.want THEN "data" ELSE "entry"
  BY <1>1, <1>5 DEF Goto, Locals, File
<1>7. Base' = Base /\ Count' = Count
  BY <1>2, <1>6 DEF Base, Count
<1>8. call.i + 1 < call.want => v = Base + (call.i + 1)
  <2>1. call.cur \in Piece(Base, call.want)
    BY <1>4, <1>5 DEF Piece
  <2>2. QED
    BY <1>3, <1>4, <1>5, <2>1 DEF Chained
<1>9. Chained(Base, call.want)'
  BY <1>3, <1>4, <1>6, <1>7 DEF Chained, Piece
<1>10. (\A c \in Piece(Base, call.want) :
          c < Base + Count \/ c < Base + call.i => c <= LastCluster /\ data[c] = File)'
  <2>1. \A c \in Piece(Base, call.want) :
          c < Base + Count \/ c < Base + (call.i + 1) => c <= LastCluster /\ data[c] = File
    BY <1>4, <1>5 DEF Piece
  <2>2. QED
    BY <1>3, <1>6, <1>7, <2>1 DEF Piece
<1>11. Filling'
  <2>1. CASE call.i + 1 < call.want
    BY <1>4, <1>5, <1>6, <1>7, <1>8, <1>9, <1>10, <2>1 DEF Filling
  <2>2. CASE ~(call.i + 1 < call.want)
    BY <1>4, <1>5, <1>6, <1>7, <1>9, <1>10, <2>2 DEF Filling
  <2>3. QED
    BY <2>1, <2>2
<1>12. Own'
  BY <1>3, <1>4, <1>6, <1>11 DEF Own
<1>13. QED
  BY <1>2, <1>3, <1>5, <1>6, <1>12, Moves

LEMMA WriteEntryLaid ==
  ASSUME FatInv, Laid, WriteEntry
  PROVE  Laid'
<1>1. /\ pc = "entry" /\ Return /\ UNCHANGED <<fat, data, start_lookup, damaged>>
      /\ entry' = [entry EXCEPT ![File].count = call.want]
      /\ dir' = [dir EXCEPT ![File] = entry'[File]]
  BY DEF WriteEntry, bounds
<1>2. /\ File \in Files /\ dir[File] # Absent /\ TypeOK
      /\ call.have = call.want /\ Chained(Base, call.want) /\ call.i = call.want
      /\ \A c \in Piece(Base, call.want) :
           c < Base + Count \/ c < Base + call.i => c <= LastCluster /\ data[c] = File
  BY <1>1 DEF Laid, Own, Filling, FatInv
<1>3. call.want \in Nat /\ call.want <= Extent /\ Base \in Nat
  BY <1>2, OwnTypes
<1>4. /\ entry'[File].first = Base /\ entry'[File].count = call.want
      /\ \A f \in Files \ {File} : entry'[f] = entry[f]
  <2>1. PICK r \in [Files -> FileEntries] : entry = r
    BY <1>2 DEF TypeOK
  <2>2. QED
    BY <1>1, <1>2, <2>1 DEF FileEntries, Base
<1>5. dir'[File] = entry'[File] /\ \A f \in Files \ {File} : dir'[f] = dir[f]
  BY <1>1, <1>2 DEF TypeOK
<1>6. Named'
  BY <1>1, <1>4, <1>5 DEF Laid, Named
<1>7. Wrote(File, call.want)
  BY <1>2, <1>3 DEF Wrote, Piece, Base
<1>8. QED
  BY <1>1, <1>2, <1>3, <1>4, <1>5, <1>6, <1>7, Settles

LEMMA UnlinkLaid ==
  ASSUME FatInv, Laid, events = {}, Unlink
  PROVE  Laid'
<1>1. PICK v \in 0 .. BAD :
        readcluster(call.cur, v) /\ Goto("unlinked", [call EXCEPT !.next = v])
  BY DEF Unlink
<1>2. pc = "unlink" /\ call.cur \in Reads /\ UNCHANGED entry
  BY DEF Unlink, Reads
<1>3. /\ v = fat[call.cur] /\ phase' = "start"
      /\ UNCHANGED <<fat, data, dir, start_lookup, damaged>>
  BY <1>1, <1>2, ReadValue
<1>4. /\ File \in Files /\ dir[File] # Absent /\ TypeOK
      /\ call.have = Count /\ call.i < call.have /\ call.cur = Base + call.i
      /\ Remains(call.i)
  BY <1>2 DEF Laid, Own, Deleting, FatInv
<1>5. /\ Base \in Nat /\ Count \in Nat /\ call.have \in Nat /\ call.i \in Nat
      /\ call.have <= Extent /\ call \in Locals
  BY <1>4, OwnTypes, CallTypes
<1>6. /\ pc' = "unlinked" /\ call'.next = v /\ call'.cur = call.cur /\ call'.i = call.i
      /\ call'.have = call.have /\ File' = File
  BY <1>1, <1>5 DEF Goto, Locals, File
<1>7. Base' = Base /\ Count' = Count /\ Freed' = call.i
  BY <1>2, <1>3, <1>6 DEF Base, Count, Freed
<1>8. call.i + 1 < call.have => v = call.cur + 1
  BY <1>3, <1>4, <1>5 DEF Remains
<1>9. Remains(Freed)'
  BY <1>3, <1>4, <1>6, <1>7 DEF Remains
<1>10. Deleting'
  BY <1>4, <1>5, <1>6, <1>7, <1>8, <1>9 DEF Deleting
<1>11. Own'
  BY <1>3, <1>4, <1>6, <1>10 DEF Own
<1>12. QED
  BY <1>2, <1>3, <1>5, <1>6, <1>11, Moves

\* A chain that ends too early is not met.
LEMMA ChainWhole ==
  ASSUME FatInv, Laid
  PROVE  ~UnlinkBroken
<1> SUFFICES ASSUME UnlinkBroken PROVE FALSE
  OBVIOUS
<1>1. /\ File \in Files /\ TypeOK /\ call.i < call.have /\ call.cur = Base + call.i
      /\ Remains(call.i)
  BY DEF UnlinkBroken, Laid, Own, Deleting, FatInv
<1>2. call.cur \in 2 .. Size-1
  BY <1>1, OwnTypes DEF Remains
<1>3. QED
  BY <1>2, Numbers DEF UnlinkBroken, CONTINUE

LEMMA UnlinkedLaid ==
  ASSUME FatInv, Laid, Unlinked
  PROVE  Laid'
<1>1. PICK w \in Writes : writecluster(w)
  BY DEF Unlinked
<1>2. pc = "unlinked" /\ UNCHANGED entry
  BY DEF Unlinked
<1>3. phase = "written" /\ phase' = "start" /\ UNCHANGED <<fat, data, dir, start_lookup, damaged>>
  BY <1>1, WroteValue
<1>4. /\ File \in Files /\ dir[File] # Absent /\ TypeOK
      /\ call.have = Count /\ call.i < call.have /\ call.cur = Base + call.i
      /\ Remains(Freed) /\ (call.i + 1 < call.have => call.next = call.cur + 1)
  BY <1>2 DEF Laid, Own, Deleting, FatInv
<1>5. /\ Base \in Nat /\ Count \in Nat /\ call.have \in Nat /\ call.i \in Nat
      /\ call.have <= Extent /\ call \in Locals /\ Freed = call.i + 1
  BY <1>3, <1>4, OwnTypes, CallTypes DEF Freed
<1>6. /\ call'.cur = call.next /\ call'.i = call.i + 1 /\ call'.have = call.have
      /\ File' = File /\ pc' = IF call.i + 1 < call.have THEN "unlink" ELSE "erase"
  BY <1>5 DEF Unlinked, Goto, Locals, File
<1>7. Base' = Base /\ Count' = Count
  BY <1>2, <1>6 DEF Base, Count
<1>8. Remains(call.i)'
  BY <1>3, <1>4, <1>5, <1>6, <1>7 DEF Remains
<1>9. pc' = "unlink" => Deleting'
  BY <1>4, <1>5, <1>6, <1>7, <1>8 DEF Deleting
<1>10. Own'
  BY <1>3, <1>4, <1>6, <1>9 DEF Own
<1>11. QED
  BY <1>2, <1>3, <1>5, <1>6, <1>10, Moves

LEMMA EraseLaid ==
  ASSUME FatInv, Laid, Erase
  PROVE  Laid'
<1>1. /\ pc = "erase" /\ Return /\ UNCHANGED <<fat, data, entry, start_lookup, damaged>>
      /\ dir' = [dir EXCEPT ![File] = Absent]
  BY DEF Erase, bounds
<1>2. File \in Files /\ TypeOK /\ Count \in Nat
  BY <1>1, OwnTypes DEF Laid, Own, FatInv
<1>3. dir'[File] = Absent /\ \A f \in Files \ {File} : dir'[f] = dir[f]
  BY <1>1, <1>2 DEF TypeOK
<1>4. Named'
  BY <1>1, <1>3 DEF Laid, Named
<1>5. QED
  BY <1>1, <1>2, <1>3, <1>4, Settles DEF Base, Count

LEMMA OverrunLaid ==
  ASSUME FatInv, Laid, Overrun
  PROVE  Laid'
<1>1. pc' = "overrun" /\ call' = call /\ UNCHANGED <<fat, data, dir, entry, start_lookup, damaged>>
  BY DEF Overrun, Goto, drive, bounds
<1>2. pc # "idle"
  BY AccessKinds DEF Overrun, FatInv, Stages
<1>3. File \in Files /\ TypeOK /\ File' = File /\ dir[File] # Absent
  BY <1>1, <1>2 DEF Laid, Own, FatInv, File
<1>4. Own'
  BY <1>1, <1>3 DEF Own
<1>5. QED
  BY <1>1, <1>2, <1>3, <1>4, OwnTypes, Moves

-----------------------------------------------------------------------------
(* The calls, the restart, and the first state.                             *)

\* A file that is named anew by the caller: what the others are, and where.
LEMMA Begins ==
  ASSUME FatInv, Laid, pc = "idle", NEW f \in Files, dir[f] # Absent, f \notin damaged,
         UNCHANGED <<fat, data, dir, entry, start_lookup, damaged>>,
         File' = f, call'.have = entry[f].count, Own'
  PROVE  Laid'
<1>1. File = None /\ TypeOK
  BY DEF Laid, Own, FatInv
<1>2. Others = {g \in Files \ damaged : dir[g] # Absent} /\ Others' = Others \ {f}
  BY <1>1, FilesAssumption DEF Others
<1>3. Base' = entry[f].first /\ Count' = entry[f].count /\ Extent' = entry[f].count
  BY DEF Base, Count, Extent
<1>4. Clear'
  BY <1>2, <1>3 DEF Laid, Clear, Apart, Of, Piece
<1>5. Resting' /\ Apart'
  BY <1>2 DEF Laid, Resting, Apart, Chained, Wrote, Of, Piece
<1>6. Ascends' /\ Named' /\ Hint'
  BY DEF Laid, Ascends, Named, Hint
<1>7. QED
  BY <1>4, <1>5, <1>6 DEF Laid

LEMMA writefileLaid ==
  ASSUME FatInv, Laid, NEW f \in Files, NEW n \in 1 .. MaxClusters,
         fat32_writefile(f, n), f \notin damaged
  PROVE  Laid'
<1> DEFINE k == [NoCall EXCEPT !.file = f, !.want = n, !.have = entry[f].count,
                               !.cur = entry[f].first, !.pos = start_lookup]
<1>1. /\ pc = "idle" /\ dir[f] # Absent
      /\ UNCHANGED <<fat, data, dir, entry, start_lookup, phase, damaged>>
      /\ pc' = (IF entry[f].count = 0 THEN "seek" ELSE "walk") /\ call' = k
  BY DEF fat32_writefile, Goto, drive
<1>2. /\ call'.file = f /\ call'.want = n /\ call'.have = entry[f].count
      /\ call'.cur = entry[f].first /\ call'.pos = start_lookup
  BY <1>1 DEF NoCall
<1>3. File = None /\ TypeOK /\ entry[f].first \in Nat /\ entry[f].count \in Nat
  BY <1>1, EntryTypes, Numbers DEF Laid, Own, FatInv
<1>4. File' = f /\ Base' = entry[f].first /\ Count' = entry[f].count
  BY <1>1, <1>2 DEF File, Base, Count
<1>5. Chained(entry[f].first, entry[f].count) /\ Wrote(f, entry[f].count)
  <2>1. f \in Others
    BY <1>1, <1>3, FilesAssumption DEF Others
  <2>2. QED
    BY <2>1 DEF Laid, Resting
<1>6. Chained(Base, call.have)' /\ Wrote(File, Count)'
  BY <1>1, <1>2, <1>4, <1>5 DEF Chained, Wrote, Piece
<1>7. start_lookup >= 3
  BY DEF Laid, Hint
<1>8. entry[f].count # 0 => call'.cur \in Piece(Base', call'.have)
  BY <1>2, <1>3, <1>4 DEF Piece
<1>9. Growing'
  <2>1. CASE entry[f].count = 0
    BY <1>1, <1>2, <1>3, <1>4, <1>6, <1>7, <2>1 DEF Growing
  <2>2. CASE entry[f].count # 0
    BY <1>1, <1>2, <1>3, <1>4, <1>6, <1>8, <2>2 DEF Growing
  <2>3. QED
    BY <2>1, <2>2
<1>10. Own'
  BY <1>1, <1>4, <1>9 DEF Own
<1>11. QED
  BY <1>1, <1>2, <1>4, <1>10, Begins

LEMMA deletefileLaid ==
  ASSUME FatInv, Laid, NEW f \in Files, fat32_deletefile(f), f \notin damaged
  PROVE  Laid'
<1>1. /\ pc = "idle" /\ dir[f] # Absent
      /\ UNCHANGED <<fat, data, dir, entry, start_lookup, phase, damaged>>
      /\ pc' = (IF entry[f].count = 0 THEN "erase" ELSE "unlink")
      /\ call'.file = f /\ call'.have = entry[f].count
      /\ call'.cur = entry[f].first /\ call'.i = 0
  BY DEF fat32_deletefile, Goto, drive, NoCall
<1>2. File = None /\ TypeOK /\ entry[f].first \in Nat /\ entry[f].count \in Nat
  BY <1>1, EntryTypes, Numbers DEF Laid, Own, FatInv
<1>3. File' = f /\ Base' = entry[f].first /\ Count' = entry[f].count
  BY <1>1 DEF File, Base, Count
<1>4. Chained(entry[f].first, entry[f].count)
  <2>1. f \in Others
    BY <1>1, <1>2, FilesAssumption DEF Others
  <2>2. QED
    BY <2>1 DEF Laid, Resting
<1>5. Remains(call.i)'
  BY <1>1, <1>2, <1>3, <1>4 DEF Remains, Chained, Piece
<1>6. pc' = "unlink" => Deleting'
  BY <1>1, <1>2, <1>3, <1>5 DEF Deleting
<1>7. Own'
  BY <1>1, <1>3, <1>6 DEF Own
<1>8. QED
  BY <1>1, <1>3, <1>7, Begins

(* Entries stay as they are, but for files without clusters.                *)
LEMMA Renamed ==
  ASSUME FatInv, Laid, pc' = "idle", File' = None, UNCHANGED <<fat, data, start_lookup>>,
         Named',
         \A f \in Others' : \/ entry'[f].count = 0 /\ entry'[f].first \in Entries
                            \/ f \in Others /\ entry'[f] = entry[f]
  PROVE  Laid'
<1>1. \A f \in Others' : \/ f \in Others /\ entry'[f] = entry[f] /\ Of(f)' = Of(f)
                         \/ entry'[f].count = 0 /\ Of(f)' = {}
  BY Numbers DEF Of, Piece
<1>2. Resting'
  <2> SUFFICES ASSUME NEW f \in Others'
               PROVE  Chained(entry[f].first, entry[f].count)' /\ Wrote(f, entry[f].count)'
    BY DEF Resting
  <2>1. CASE f \in Others /\ entry'[f] = entry[f]
    <3>1. Chained(entry[f].first, entry[f].count) /\ Wrote(f, entry[f].count)
      BY <2>1 DEF Laid, Resting
    <3>2. QED
      BY <2>1, <3>1 DEF Chained, Wrote, Piece
  <2>2. CASE Of(f)' = {}
    BY <2>2 DEF Of, Chained, Wrote
  <2>3. QED
    BY <1>1, <2>1, <2>2
<1>3. Apart'
  <2> SUFFICES ASSUME NEW f \in Others', NEW g \in Others', f # g, NEW c \in Of(f)'
               PROVE  c \notin Of(g)'
    BY DEF Apart
  <2>1. CASE f \in Others /\ g \in Others /\ Of(f)' = Of(f) /\ Of(g)' = Of(g)
    BY <2>1 DEF Laid, Apart
  <2>2. QED
    BY <1>1, <2>1
<1>4. Clear' /\ Own'
  BY DEF Clear, Own
<1>5. Ascends' /\ Hint'
  BY DEF Laid, Ascends, Hint
<1>6. QED
  BY <1>2, <1>3, <1>4, <1>5 DEF Laid

LEMMA createfileLaid ==
  ASSUME FatInv, Laid, NEW f \in Files, fat32_createfile(f)
  PROVE  Laid'
<1>1. /\ pc = "idle" /\ UNCHANGED <<fat, data, start_lookup, pc, call, damaged>> /\ dir[f] = Absent
      /\ dir' = [dir EXCEPT ![f] = Empty] /\ entry' = [entry EXCEPT ![f] = Empty]
  BY DEF fat32_createfile
<1>2. File = None /\ TypeOK /\ File' = None
  BY <1>1 DEF Laid, Own, FatInv, File
<1>3. /\ dir'[f] = Empty /\ entry'[f] = Empty
      /\ \A g \in Files \ {f} : dir'[g] = dir[g] /\ entry'[g] = entry[g]
  BY <1>1, <1>2 DEF TypeOK
<1>4. Named'
  BY <1>1, <1>3 DEF Laid, Named
<1>5. \A g \in Others' : \/ entry'[g].count = 0 /\ entry'[g].first \in Entries
                         \/ g \in Others /\ entry'[g] = entry[g]
  BY <1>1, <1>2, <1>3, Numbers DEF Others, Empty
<1>6. QED
  BY <1>1, <1>2, <1>4, <1>5, Renamed

\* An access that fails, and leaves the cache as the drive: the call ends.
LEMMA FailLaid ==
  ASSUME FatInv, Laid, Fail, phase \notin {"labelled", "written"}
  PROVE  Laid'
<1>1. pc \notin {"walk", "follow"} /\ pc # "idle"
  <2>1. phase = "start" => Writes # {} \/ pc \in {"data", "entry", "erase"}
    BY DEF Fail
  <2>2. phase = "loaded" => Writes # {}
    BY DEF FatInv, StoreInv, BufferInv
  <2>3. QED
    BY <2>1, <2>2 DEF FatInv, TypeOK, Writes
<1>2. /\ UNCHANGED <<fat, data, dir, start_lookup>> /\ Return
      /\ damaged' = damaged \cup {File}
      /\ entry' = IF pc = "entry" THEN [entry EXCEPT ![File].count = call.want] ELSE entry
  BY <1>1 DEF Fail, Abandon, drive
<1>3. pc' = "idle" /\ File' = None /\ File \in Files /\ TypeOK
  BY <1>1, <1>2 DEF Return, Goto, NoCall, File, Laid, Own, FatInv
<1>4. Others' = Others
  BY <1>2, <1>3, FilesAssumption DEF Others
<1>5. \A f \in Files \ {File} : entry'[f] = entry[f]
  BY <1>2, <1>3 DEF TypeOK
<1>6. Named'
  BY <1>2, <1>5 DEF Laid, Named
<1>7. \A f \in Others' : f \in Others /\ entry'[f] = entry[f]
  BY <1>4, <1>5 DEF Others
<1>8. QED
  BY <1>2, <1>3, <1>6, <1>7, Renamed

\* The file of the call that was cut short is not among the others any more.
LEMMA StopLaid ==
  ASSUME FatInv, Laid, Stop
  PROVE  Laid'
<1>1. /\ UNCHANGED <<fat, data, dir, start_lookup>> /\ Return
      /\ entry' = [f \in Files |-> IF dir[f] = Absent THEN Empty ELSE dir[f]]
      /\ damaged' = IF pc = "idle" THEN damaged ELSE damaged \cup {File}
  BY DEF Stop, drive
<1>2. /\ pc' = "idle" /\ File' = None /\ (pc = "idle" => File = None) /\ TypeOK
  BY <1>1 DEF Return, Goto, NoCall, File, Laid, Own, FatInv
<1>3. Others' = Others
  BY <1>1, <1>2, FilesAssumption DEF Others
<1>4. \A f \in Others : f \in Files /\ entry'[f] = dir[f] /\ dir[f] \in FileEntries
  BY <1>1, <1>2 DEF Others, TypeOK
<1>5. Named'
  BY <1>1 DEF Named
<1>6. \A f \in Others' : \/ entry'[f].count = 0 /\ entry'[f].first \in Entries
                         \/ f \in Others /\ entry'[f] = entry[f]
  <2> SUFFICES ASSUME NEW f \in Others
               PROVE  \/ entry'[f].count = 0 /\ entry'[f].first \in Entries
                      \/ entry'[f] = entry[f]
    BY <1>3
  <2>1. dir[f].count # 0 => entry[f] = dir[f]
    BY <1>4 DEF Laid, Named, Others
  <2>2. QED
    BY <1>4, <2>1 DEF FileEntries
<1>7. QED
  BY <1>1, <1>2, <1>5, <1>6, Renamed

LEMMA InitLaid ==
  ASSUME Init
  PROVE  Laid
<1>1. PICK host \in SUBSET {CHOOSE f \in Files : TRUE}, bad \in SUBSET {6} :
        /\ fat = [c \in Entries |->
                    CASE c \in {0, 1, 2} -> EOC
                      [] c = 3 /\ host # {} -> 4
                      [] c = 4 /\ host # {} -> EOC
                      [] c \in bad -> BAD
                      [] OTHER -> FREE]
        /\ data = [c \in Entries |->
                     IF c \in {3, 4} /\ host # {} THEN CHOOSE f \in host : TRUE ELSE None]
        /\ dir = [f \in Files |-> IF f \in host THEN [first |-> 3, count |-> 2] ELSE Empty]
        /\ start_lookup = IF host # {} THEN 5 ELSE 3
  BY DEF Init
<1>2. entry = dir /\ pc = "idle" /\ File = None /\ phase = "start"
  BY DEF Init, NoCall, File
<1>3. \A f \in host : /\ host = {f} /\ f \in Files /\ (CHOOSE g \in host : TRUE) = f
  BY FilesAssumption
<1>4. ASSUME NEW f \in host
      PROVE  /\ fat[3] = 4 /\ fat[4] = EOC /\ data[3] = f /\ data[4] = f
  <2>1. host # {} /\ 3 \in Entries /\ 4 \in Entries /\ 3 \notin bad /\ 4 \notin bad
    BY <1>1, Numbers
  <2>2. QED
    BY <1>1, <1>3, <2>1
<1>5. \A f \in Files : /\ f \in host => entry[f] = [first |-> 3, count |-> 2]
                       /\ f \notin host => entry[f] = Empty
  BY <1>1, <1>2
<1>6. Ascends
  <2> SUFFICES ASSUME NEW c \in Entries
               PROVE  fat[c] \in {FREE, EOC, BAD} \/ (fat[c] > c /\ fat[c] \in 3 .. Size)
    BY DEF Ascends
  <2>1. \/ fat[c] \in {FREE, EOC, BAD}
        \/ c = 3 /\ fat[c] = 4
    BY <1>1
  <2>2. QED
    BY <2>1, Numbers
<1>7. Named /\ Hint
  BY <1>1, <1>2 DEF Named, Hint
<1>8. Resting
  <2> SUFFICES ASSUME NEW f \in Files
               PROVE  Chained(entry[f].first, entry[f].count) /\ Wrote(f, entry[f].count)
    BY DEF Resting, Others
  <2>1. CASE f \in host
    <3>1. entry[f].first = 3 /\ entry[f].count = 2
      BY <1>5, <2>1
    <3>2. Piece(3, 2) = {3, 4}
      BY DEF Piece
    <3>3. QED
      BY <1>4, <2>1, <3>1, <3>2, Numbers DEF Chained, Wrote
  <2>2. CASE f \notin host
    BY <1>5, <2>2 DEF Chained, Wrote, Piece, Empty
  <2>3. QED
    BY <2>1, <2>2
<1>9. Apart
  <2>1. \A f \in Files \ host : Of(f) = {}
    BY <1>5 DEF Of, Piece, Empty
  <2>2. QED
    BY <1>3, <2>1 DEF Apart, Others
<1>10. Clear /\ Own
  BY <1>2 DEF Clear, Own
<1>11. QED
  BY <1>6, <1>7, <1>8, <1>9, <1>10 DEF Laid

\* What a step does to the events: a stop alone takes one away.
LEMMA EventsOf ==
  ASSUME [Next]_vars
  PROVE  \/ Fail \/ Stop \/ allocate_cluster \/ UNCHANGED events
         \/ \E f \in Files : \/ \E n \in 1 .. MaxClusters : fat32_writefile(f, n)
                             \/ fat32_deletefile(f)
BY DEF Next, Step, vars, Label, Load, WriteFat, get_free_cluster, Walk, Link,
       Outside, Abandon, SkipKept, NextOfFreed, free_cluster, write_cluster_data, Follow,
       WriteEntry, Unlink, UnlinkBroken, Unlinked, Erase, Overrun, fat32_createfile

LEMMA FilesKept ==
  ASSUME FatInv, FilesInv, [Next]_vars
  PROVE  FilesInv'
<1>1. \A f \in Files, n \in 1 .. MaxClusters :
        fat32_writefile(f, n) \/ fat32_deletefile(f) => Reuses(f)
  BY DEF fat32_writefile, fat32_deletefile
<1>2. \A f \in Files : Reuses(f) => events \subseteq events' /\ events' \subseteq events \cup {"reused"}
  BY DEF Reuses
<1>3. 1 \in 1 .. MaxClusters
  BY Numbers
<1>4. "stale" \in events' => "failed" \in events'
  <2>1. CASE Fail
    BY <2>1 DEF Fail, FilesInv
  <2>2. CASE Stop
    BY <2>2 DEF Stop, FilesInv
  <2>3. CASE allocate_cluster
    BY <2>3 DEF allocate_cluster, FilesInv
  <2>4. CASE UNCHANGED events
    BY <2>4 DEF FilesInv
  <2>5. ASSUME NEW f \in Files, Reuses(f)
        PROVE  "stale" \in events' => "failed" \in events'
    BY <2>5, <1>2 DEF FilesInv
  <2>6. QED
    BY <1>1, <1>3, <2>1, <2>2, <2>3, <2>4, <2>5, EventsOf
<1>5. events' = {} => Laid'
  <2> SUFFICES ASSUME events' = {} PROVE Laid'
    OBVIOUS
  <2>1. events = {}
    <3>1. CASE Fail
      BY <3>1 DEF Fail
    <3>2. CASE Stop
      BY <3>2 DEF Stop, FilesInv
    <3>3. CASE allocate_cluster
      BY <3>3 DEF allocate_cluster
    <3>4. ASSUME NEW f \in Files, Reuses(f) PROVE events = {}
      BY <3>4, <1>2
    <3>5. QED
      BY <1>1, <1>3, <3>1, <3>2, <3>3, <3>4, EventsOf
  <2>2. Laid
    BY <2>1 DEF FilesInv
  <2>3. CASE Step
    BY <2>1, <2>2, <2>3, LoadsLaid, WriteFatLaid, get_free_clusterLaid,
       allocate_clusterLaid, WalkLaid, LinkLaid, OutsideLaid, SkipKeptLaid,
       NextOfFreedLaid, free_clusterLaid, write_cluster_dataLaid, FollowLaid,
       WriteEntryLaid, UnlinkLaid, ChainWhole, UnlinkedLaid, EraseLaid, OverrunLaid
       DEF Step
  <2>4. CASE Fail
    <3>1. phase \notin {"labelled", "written"}
      BY <2>4 DEF Fail
    <3>2. QED
      BY <2>2, <2>4, <3>1, FailLaid
  <2>5. CASE Stop
    BY <2>2, <2>5, StopLaid
  <2>6. CASE \E f \in Files : \/ \E n \in 1 .. MaxClusters : fat32_writefile(f, n)
                              \/ fat32_deletefile(f) \/ fat32_createfile(f)
    <3>1. \A f \in Files : Reuses(f) => f \notin damaged
      BY DEF Reuses
    <3>2. QED
      BY <1>1, <1>3, <2>2, <2>6, <3>1, writefileLaid, deletefileLaid, createfileLaid
  <2>7. CASE UNCHANGED vars
    BY <2>2, <2>7, LaidStays DEF vars, drive
  <2>8. QED
    BY <2>3, <2>4, <2>5, <2>6, <2>7 DEF Next
<1>6. QED
  BY <1>4, <1>5 DEF FilesInv

-----------------------------------------------------------------------------
(* Reading back: along a piece the recursive Chain counts upwards.  The     *)
(* induction is that of a least number where it would not.                  *)
LEMMA LeastNumber ==
  ASSUME NEW T \in SUBSET Nat, T # {}
  PROVE  \E m \in T : \A n \in T : m <= n
<1>1. IsWellFoundedOn({ss \in Nat \X Nat : ss[1] < ss[2]}, Nat)
  BY NatLessThanWellFounded DEF OpToRel
<1>2. PICK m \in T : \A n \in T : ~(<<n, m>> \in {ss \in Nat \X Nat : ss[1] < ss[2]})
  BY <1>1, WFMin
<1>3. ASSUME NEW n \in T PROVE m <= n
  <2>1. m \in Nat /\ n \in Nat /\ <<n, m>> \in Nat \X Nat
    OBVIOUS
  <2>2. ~(n < m)
    BY <1>2, <2>1
  <2>3. QED
    BY <2>1, <2>2
<1>4. QED
  BY <1>3

LEMMA CountsUp ==
  ASSUME NEW b \in Nat, NEW n \in Nat, Chained(b, n),
         NEW g, g = [i \in 0 .. n |-> IF i = 0 THEN b
                       ELSE IF g[i-1] \in Entries THEN fat[g[i-1]] ELSE FREE]
  PROVE  \A i \in 0 .. n-1 : g[i] = b + i
<1> DEFINE T == {i \in 0 .. n-1 : g[i] # b + i}
<1>1. SUFFICES ASSUME T # {} PROVE FALSE
  OBVIOUS
<1>2. PICK m \in T : \A i \in T : m <= i
  <2>1. T \in SUBSET Nat
    OBVIOUS
  <2>2. QED
    BY <1>1, <2>1, LeastNumber
<1>3. m # 0 /\ m \in 0 .. n-1 /\ m - 1 \in 0 .. n-1 /\ g[m] # b + m
  <2>1. m \in 0 .. n-1 /\ g[m] # b + m
    OBVIOUS
  <2>2. g[0] = b
    OBVIOUS
  <2>3. QED
    BY <2>1, <2>2
<1>4. g[m-1] = b + (m-1)
  <2>1. m - 1 \notin T
    <3> SUFFICES ASSUME m - 1 \in T PROVE FALSE
      OBVIOUS
    <3>1. m <= m - 1
      BY <1>2
    <3>2. QED
      BY <1>3, <3>1
  <2>2. QED
    BY <1>3, <2>1
<1>5. b + (m-1) \in Entries /\ fat[b + (m-1)] = b + m
  <2>1. b + (m-1) \in Piece(b, n) /\ b + (m-1) # b + n - 1
    BY <1>3, <1>4 DEF Piece
  <2>2. QED
    <3>1. b + (m-1) \in Entries /\ fat[b + (m-1)] = (b + (m-1)) + 1
      <4>1. \A c \in Piece(b, n) : c \in Entries /\ (c # b + n - 1 => fat[c] = c + 1)
        BY Numbers DEF Chained
      <4>2. QED
        BY <2>1, <4>1
    <3>2. (b + (m-1)) + 1 = b + m
      BY <1>3
    <3>3. QED
      BY <3>1, <3>2
<1>6. g[m] = fat[g[m-1]]
  BY <1>3, <1>4, <1>5
<1>7. QED
  BY <1>3, <1>4, <1>5, <1>6

LEMMA ReadsBack ==
  ASSUME NEW f, NEW b \in Nat, NEW n \in Nat, dir[f].first = b, dir[f].count = n,
         Chained(b, n)
  PROVE  \A i \in 1 .. n : Chain(f)[i] = b + i - 1
<1> DEFINE at[i \in 0 .. n] ==
             IF i = 0 THEN b ELSE IF at[i-1] \in Entries THEN fat[at[i-1]] ELSE FREE
<1>1. \E g : g = [i \in 0 .. n |-> IF i = 0 THEN b
                    ELSE IF g[i-1] \in Entries THEN fat[g[i-1]] ELSE FREE]
  <2> DEFINE g == [i \in 0 .. n |-> IF i = 0 THEN b
                     ELSE IF i < n THEN b + i
                     ELSE IF b+n-1 \in Entries THEN fat[b+n-1] ELSE FREE]
  <2>1. ASSUME NEW i \in 1 .. n
        PROVE  g[i] = IF g[i-1] \in Entries THEN fat[g[i-1]] ELSE FREE
    <3>1. g[i-1] = b + (i-1)
      OBVIOUS
    <3>2. i < n => b + (i-1) \in Entries /\ fat[b + (i-1)] = b + i
      <4>1. i < n => b + (i-1) \in Piece(b, n) /\ b + (i-1) # b + n - 1
        BY DEF Piece
      <4>2. QED
        BY <4>1, Numbers DEF Chained
    <3>3. CASE i < n
      BY <3>1, <3>2, <3>3
    <3>4. CASE i = n
      BY <3>1, <3>4
    <3>5. QED
      BY <3>3, <3>4
  <2>2. g[0] = b
    OBVIOUS
  <2>3. g = [i \in 0 .. n |-> IF i = 0 THEN b
               ELSE IF g[i-1] \in Entries THEN fat[g[i-1]] ELSE FREE]
    <3>1. \A i \in 0 .. n : g[i] = IF i = 0 THEN b
                              ELSE IF g[i-1] \in Entries THEN fat[g[i-1]] ELSE FREE
      <4> HIDE DEF g
      <4>1. QED
        BY <2>1, <2>2
    <3>2. g = [i \in 0 .. n |-> g[i]]
      OBVIOUS
    <3> HIDE DEF g
    <3>3. QED
      BY <3>1, <3>2
  <2>4. QED
    BY <2>3
<1>2. at = [i \in 0 .. n |-> IF i = 0 THEN b
              ELSE IF at[i-1] \in Entries THEN fat[at[i-1]] ELSE FREE]
  BY <1>1
<1>3. Chain(f) = [i \in 1 .. n |-> at[i-1]]
  BY DEF Chain
<1> HIDE DEF at
<1>4. \A i \in 0 .. n-1 : at[i] = b + i
  <2>1. \A g : g = [i \in 0 .. n |-> IF i = 0 THEN b
                     ELSE IF g[i-1] \in Entries THEN fat[g[i-1]] ELSE FREE]
                => \A i \in 0 .. n-1 : g[i] = b + i
    BY CountsUp
  <2>2. QED
    BY <1>2, <2>1
<1>5. QED
  BY <1>3, <1>4

LEMMA LaidReadsBack == FatInv /\ FilesInv => FilesReadBack
<1> SUFFICES ASSUME FatInv, Laid, NEW f \in Files \ ({File} \cup damaged), dir[f] # Absent
             PROVE  /\ entry[f].count = dir[f].count
                    /\ \A i \in 1 .. dir[f].count :
                         Chain(f)[i] \in Entries /\ data[Chain(f)[i]] = f
  BY DEF FilesInv, FilesReadBack
<1>1. entry[f].count = dir[f].count /\ (dir[f].count # 0 => entry[f] = dir[f])
  BY DEF Laid, Named
<1>2. /\ dir[f].first \in Nat /\ dir[f].count \in Nat /\ f \in Others
  BY Numbers DEF FatInv, TypeOK, FileEntries, Others
<1>3. CASE dir[f].count # 0
  <2>1. Chained(dir[f].first, dir[f].count) /\ entry[f] = dir[f]
    BY <1>1, <1>2, <1>3 DEF Laid, Resting
  <2>2. \A i \in 1 .. dir[f].count : Chain(f)[i] = dir[f].first + i - 1
    BY <1>2, <2>1, ReadsBack
  <2>3. \A i \in 1 .. dir[f].count : dir[f].first + i - 1 \in Piece(dir[f].first, dir[f].count)
    BY <1>2 DEF Piece
  <2>4. \A c \in Piece(dir[f].first, dir[f].count) : c \in Entries /\ data[c] = f
    BY <1>2, <2>1, Numbers DEF Laid, Resting, Wrote, Chained
  <2>5. QED
    BY <1>1, <2>2, <2>3, <2>4
<1>4. CASE dir[f].count = 0
  BY <1>1, <1>4
<1>5. QED
  BY <1>3, <1>4

(* What holds of the files that no interrupted call was about: each in one  *)
(* piece, chained and written as its entry says, apart from the others, and *)
(* what the call under way has done so far (fat32_writefile,                *)
(* fat32_deletefile).                                                       *)
THEOREM FilesCorrect == Spec => []FilesInv
<1>1. Init => FilesInv
  BY InitLaid DEF FilesInv, Init
<1>2. FatInv /\ FilesInv /\ [Next]_vars => FilesInv'
  BY FilesKept
<1>3. QED
  BY <1>1, <1>2, VolumeCorrect, PTL DEF Spec

(* A file reads back what was written to it, through every other write and  *)
(* deletion, the ones that fail or are cut short by a stop included.        *)
THEOREM FilesRead == Spec => []FilesReadBack
BY VolumeCorrect, FilesCorrect, LaidReadsBack, PTL

(* The search for a free cluster goes up and only up while nothing has gone *)
(* wrong: this is why it ends (CallEnds), for chains of any shape that only *)
(* lead upwards.                                                            *)
SearchAscends ==
  [][events = {} /\ events' = {} /\ pc = "seek" /\ pc' = "seek" /\ call' # call
       => call'.pos > call.pos]_vars

(* get_free_cluster does not go round in circles.                           *)
THEOREM SearchGoesUp == Spec => SearchAscends
<1> DEFINE Up == events = {} /\ events' = {} /\ pc = "seek" /\ pc' = "seek" /\ call' # call
                   => call'.pos > call.pos
<1>1. ASSUME FatInv, FilesInv, [Next]_vars PROVE Up
  <2> SUFFICES ASSUME events = {}, events' = {}, pc = "seek", pc' = "seek", call' # call
               PROVE  call'.pos > call.pos
    OBVIOUS
  <2>0. ~Fail /\ ~Stop /\ ~Outside
    <3>1. Abandon => pc' = "idle"
      BY DEF Abandon, Return, Goto
    <3>2. QED
      BY <3>1 DEF Fail, Outside, Stop, Return, Goto
  <2>1. get_free_cluster
    BY <1>1, <2>0
       DEF Next, Step, vars, Label, Load, WriteFat, allocate_cluster, Walk, Link,
           Outside, Abandon, SkipKept, NextOfFreed, free_cluster, write_cluster_data, Follow,
           WriteEntry, Unlink, UnlinkBroken, Unlinked, Erase, Overrun, fat32_writefile,
           fat32_deletefile, fat32_createfile, Goto
  <2>2. PICK v \in 0 .. BAD :
          /\ readcluster(call.pos, v)
          /\ IF v = FREE THEN Goto("mark", call) ELSE Goto("seek", [call EXCEPT !.pos = v])
    BY <2>1 DEF get_free_cluster
  <2>3. call.pos \in Entries /\ v = fat[call.pos]
    BY <1>1, <2>2, ReadValue DEF Reads
  <2>4. v # FREE /\ call' = [call EXCEPT !.pos = v]
    BY <2>2, Numbers DEF Goto
  <2>5. call'.pos = v
    BY <1>1, <2>4, CallTypes DEF FatInv, Locals
  <2>6. QED
    BY <1>1, <2>3, <2>4, <2>5, Numbers DEF FilesInv, Laid, Ascends
<1>2. QED
  BY <1>1, VolumeCorrect, FilesCorrect, PTL DEF Spec, SearchAscends
=============================================================================
