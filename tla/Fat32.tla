------------------------------- MODULE Fat32 --------------------------------
(***************************************************************************)
(* Clusters of files on a FAT32 volume, as the driver allocates, links and *)
(* frees them (kernel/drivers/filesystem/fat32.c): fat32_writefile,        *)
(* fat32_deletefile, fat32_createfile where the directory has room, and    *)
(* below them get_free_cluster, readcluster with its cache of one FAT      *)
(* sector, and writecluster, which writes the FAT and then its copy.       *)
(*                                                                         *)
(* Each access of the drive is a step, may fail, and may be the last one   *)
(* before the machine stops.  One call runs at a time: calls of different  *)
(* functions of the file system can overlap (see the run mutex_nested),    *)
(* and then nothing below is claimed.                                      *)
(*                                                                         *)
(* An entry is a field of 27 bits (fat32.h:78).  The marks of a bad        *)
(* cluster and of the end of a chain, 0x0FFFFFF7 .. 0x0FFFFFFF, are read as*)
(* 0x07FFFFF7 .. 0x07FFFFFF, which no test of the driver knows: they are   *)
(* numbers of clusters to it, with entries on a sector 512 MB past the     *)
(* start of the FAT.  The partitions that build.sh makes end before it, and*)
(* the access fails; on a larger one what is there is taken for entries,   *)
(* and the model ends.                                                     *)
(***************************************************************************)
EXTENDS Integers, FiniteSets

CONSTANTS Size,         \* entries of the FAT, whole sectors
          PerSector,    \* entries on one sector
          LastCluster,  \* the last cluster the volume has room for
          Files, None,
          MaxClusters,  \* bound: clusters of a file that is written
          MaxCalls,     \* bound: calls begun
          MaxFaults     \* bound: accesses that fail, and stops

ASSUME SizesAssumption ==
  /\ PerSector \in Nat \ {0} /\ Size \in Nat /\ Size % PerSector = 0
  /\ LastCluster \in 4 .. Size-1 /\ MaxClusters \in Nat /\ MaxClusters >= 2
  /\ MaxCalls \in Nat /\ MaxFaults \in Nat
ASSUME FilesAssumption == Files # {} /\ None \notin Files

(* Entries: the number of the next cluster, or one of these.  EOC and BAD   *)
(* are the marks as the driver reads them, two numbers on the sector Far.   *)
FREE == 0
EOC == Size + 1
BAD == Size + 2
CONTINUE(v) == v \notin {FREE, 1}

VARIABLES fat, backup,  \* the FAT and its copy on the drive
          data,         \* data[c]: the file that wrote cluster c last
          dir,          \* the file entries on the drive
          entry,        \* the file entries in the open handles
          cache,        \* the cached sector: its number and its entries
          start_lookup, \* fsinfo.start_lookup_cluster
          pc, call,     \* where the call is, and its local variables
          phase, buffer,\* where its access of the FAT is, and the sector read
          calls, faults,
          torn,         \* history: entries whose copy was not written
          damaged,      \* history: files whose call was cut short
          events        \* history: what else went wrong, see below

drive == <<fat, backup, data, dir>>
bounds == <<start_lookup, calls, faults>>
history == <<torn, damaged>>
vars == <<drive, entry, cache, start_lookup, pc, call, phase, buffer, calls, faults,
          history, events>>

Entries == 0 .. Size-1
Far == Size + 1                                \* past every sector of the FAT
SectorOf(c) == IF c > Size THEN Far ELSE c \div PerSector
OnSector(s) == {c \in Entries : SectorOf(c) = s}
Offset(c) == c % PerSector
Offsets == 0 .. PerSector-1
EntryAt(s, o) == s * PerSector + o
SectorAt(table, s) == [o \in Offsets |-> table[EntryAt(s, o)]]
Empty == [first |-> 0, count |-> 0]            \* an entry without a cluster
Absent == [first |-> 0, count |-> -1]          \* no entry
NoCache == [sector |-> -1, entries |-> [o \in Offsets |-> FREE]]
NoCall == [file |-> None, want |-> 0, have |-> 0, i |-> 0, pos |-> 0, cur |-> 0,
           next |-> 0]

(* A volume as another system leaves it: the root directory in cluster 2,   *)
(* perhaps a bad cluster, perhaps a file of two clusters (which file does   *)
(* not matter); the hint of fsinfo is the first cluster after them.         *)
Init ==
  /\ \E host \in SUBSET {CHOOSE f \in Files : TRUE}, bad \in SUBSET {6} :
       /\ fat = [c \in Entries |->
                   CASE c \in {0, 1, 2} -> EOC
                     [] c = 3 /\ host # {} -> 4
                     [] c = 4 /\ host # {} -> EOC
                     [] c \in bad -> BAD
                     [] OTHER -> FREE]
       /\ data = [c \in Entries |->
                    IF c \in {3, 4} /\ host # {} THEN CHOOSE f \in host : TRUE ELSE None]
       /\ dir = [f \in Files |-> IF f \in host THEN [first |-> 3, count |-> 2] ELSE Empty]
       /\ start_lookup = IF host # {} THEN 5 ELSE 3
  /\ backup = fat /\ entry = dir /\ cache = NoCache
  /\ pc = "idle" /\ call = NoCall /\ phase = "start" /\ buffer = <<>>
  /\ calls = 0 /\ faults = 0 /\ torn = {} /\ damaged = {} /\ events = {}

-----------------------------------------------------------------------------
(* readcluster, the entry v of cluster c: from the cache, or in two steps.  *)
(* The number of the cached sector is set before the sector is read.        *)
Reads ==
  CASE pc = "seek" -> {call.pos}
    [] pc \in {"walk", "skip", "next", "follow"} -> {call.cur}
    [] pc = "unlink" /\ CONTINUE(call.cur) -> {call.cur}
    [] OTHER -> {}

Label ==
  /\ phase = "start" /\ \E c \in Reads : c # Size /\ cache.sector # SectorOf(c)
  /\ cache' = [cache EXCEPT !.sector = SectorOf(CHOOSE c \in Reads : TRUE)]
  /\ phase' = "labelled"
  /\ UNCHANGED <<drive, entry, bounds, pc, call, buffer, history, events>>

readcluster(c, v) ==
  /\ c # Size
  /\ \/ phase = "start" /\ cache.sector = SectorOf(c) /\ v = cache.entries[Offset(c)]
        /\ UNCHANGED cache
     \/ phase = "labelled" /\ c < Size /\ v = fat[c]
        /\ cache' = [cache EXCEPT !.entries = SectorAt(fat, SectorOf(c))]
  /\ phase' = "start"
  /\ UNCHANGED <<drive, bounds, buffer, history>>

(* writecluster: the sector is read past the cache, changed, written to the *)
(* FAT and to the copy, and the cached entry follows if it is that sector.  *)
WritesOwn ==                                   \* fault: the mark is the cluster itself
  CASE pc = "mark" -> {[at |-> call.pos, value |-> call.pos]}
    [] pc = "link" -> {[at |-> call.cur, value |-> call.pos]}
    [] pc \in {"release", "unlinked"} -> {[at |-> call.cur, value |-> FREE]}
    [] OTHER -> {}

Writes ==
  CASE pc = "mark" -> {[at |-> call.pos, value |-> call.pos + 1]}
    [] pc = "link" -> {[at |-> call.cur, value |-> call.pos]}
    [] pc \in {"release", "unlinked"} -> {[at |-> call.cur, value |-> FREE]}
    [] OTHER -> {}

Load ==
  /\ phase = "start"
  /\ \E w \in Writes :
       /\ w.at < Size
       /\ buffer' = [x \in OnSector(SectorOf(w.at)) |-> IF x = w.at THEN w.value ELSE fat[x]]
  /\ phase' = "loaded"
  /\ UNCHANGED <<drive, entry, cache, bounds, pc, call, history, events>>

Written(table) == [x \in Entries |-> IF x \in DOMAIN buffer THEN buffer[x] ELSE table[x]]

WriteFat ==
  /\ phase = "loaded"
  /\ fat' = Written(fat)
  /\ phase' = "written"
  /\ UNCHANGED <<backup, data, dir, entry, cache, bounds, pc, call, buffer, history, events>>

WriteNoCopy(w) ==                              \* fault: the copy forgotten
  /\ phase = "written"
  /\ cache' = IF cache.sector = SectorOf(w.at)
              THEN [cache EXCEPT !.entries[Offset(w.at)] = w.value] ELSE cache
  /\ phase' = "start"
  /\ UNCHANGED <<drive, bounds, buffer, history>>

WriteNoCache(w) ==                             \* fault: the cache not updated
  /\ phase = "written"
  /\ backup' = Written(backup)
  /\ phase' = "start"
  /\ UNCHANGED <<fat, data, dir, cache, bounds, buffer, history>>

writecluster(w) ==
  /\ phase = "written"
  /\ backup' = Written(backup)
  /\ cache' = IF cache.sector = SectorOf(w.at)
              THEN [cache EXCEPT !.entries[Offset(w.at)] = w.value] ELSE cache
  /\ phase' = "start"
  /\ UNCHANGED <<fat, data, dir, bounds, buffer, history>>

-----------------------------------------------------------------------------
Goto(step, record) == pc' = step /\ call' = record
Return == Goto("idle", NoCall)
File == call.file

(* What follows once the chain has been walked, with the local variables k: *)
(* allocation, the freeing of what is too much, or the data.                *)
ResizeOneMore(k) ==                            \* fault: one cluster too many
  IF k.have <= k.want THEN Goto("seek", [k EXCEPT !.pos = start_lookup])
  ELSE Goto("skip", [k EXCEPT !.cur = entry[k.file].first, !.i = 0])

Resize(k) ==
  IF k.have < k.want THEN Goto("seek", [k EXCEPT !.pos = start_lookup])
  ELSE IF k.have > k.want
       THEN Goto("skip", [k EXCEPT !.cur = entry[k.file].first, !.i = 0])
       ELSE Goto("data", [k EXCEPT !.cur = entry[k.file].first, !.i = 0])

(* A call about a file that an earlier call left half done.                 *)
Reuses(f) == events' = IF f \in damaged THEN events \cup {"reused"} ELSE events

fat32_writefile(f, n) ==
  /\ pc = "idle" /\ calls < MaxCalls /\ dir[f] # Absent
  /\ calls' = calls + 1
  /\ LET k == [NoCall EXCEPT !.file = f, !.want = n, !.have = entry[f].count,
                             !.cur = entry[f].first, !.pos = start_lookup]
     IN  Goto(IF entry[f].count = 0 THEN "seek" ELSE "walk", k)
  /\ Reuses(f)
  /\ UNCHANGED <<drive, entry, cache, start_lookup, phase, buffer, faults, history>>

(* get_free_cluster follows the chain that begins at the hint, to the next  *)
(* cluster where one is in use: a mark is followed like any number.         *)
get_free_cluster ==
  /\ pc = "seek"
  /\ \E v \in 0 .. BAD :
       /\ readcluster(call.pos, v)
       /\ IF v = FREE THEN Goto("mark", call) ELSE Goto("seek", [call EXCEPT !.pos = v])
  /\ UNCHANGED <<entry, events>>

(* The entry of a new cluster is the number of the one after it, whatever   *)
(* that is.  The first cluster of a file goes to its handle at once.        *)
allocate_cluster ==
  /\ pc = "mark"
  /\ \E w \in Writes : writecluster(w)
  /\ IF call.have = 0
     THEN /\ entry' = [entry EXCEPT ![File].first = call.pos]
          /\ Goto("walk", [call EXCEPT !.have = 1, !.cur = call.pos])
          /\ UNCHANGED events
     ELSE /\ events' = IF call.pos = entry[File].first + call.have
                       THEN events ELSE events \cup {"scattered"}
          /\ Goto("link", call)
          /\ UNCHANGED entry

(* The walk ends on a free entry, or where an access fails, as it does at a *)
(* mark (see Outside).  What the first new cluster is linked to is not the  *)
(* last cluster but the entry with the number the walk ended on: 0 after a  *)
(* chain of this driver, the mark after one of another system.              *)
Walk ==
  /\ pc = "walk"
  /\ \E v \in 0 .. BAD :
       /\ readcluster(call.cur, v)
       /\ LET k == [call EXCEPT !.cur = v]
          IN  IF CONTINUE(v) THEN Goto("walk", k) ELSE Resize(k)
  /\ UNCHANGED <<entry, events>>

Link ==
  /\ pc = "link"
  /\ \E w \in Writes : writecluster(w)
  /\ Resize([call EXCEPT !.cur = call.pos, !.have = @ + 1])
  /\ UNCHANGED <<entry, events>>

SkipKept ==
  /\ pc = "skip"
  /\ \E v \in 0 .. BAD :
       /\ readcluster(call.cur, v)
       /\ Goto(IF call.i + 1 < call.want THEN "skip" ELSE "next",
               [call EXCEPT !.cur = v, !.i = @ + 1])
  /\ UNCHANGED <<entry, events>>

NextOfFreed ==
  /\ pc = "next"
  /\ \E v \in 0 .. BAD :
       readcluster(call.cur, v) /\ Goto("release", [call EXCEPT !.next = v])
  /\ UNCHANGED <<entry, events>>

free_cluster ==
  /\ pc = "release"
  /\ \E w \in Writes : writecluster(w)
  /\ LET k == [call EXCEPT !.cur = call.next, !.i = @ + 1]
     IN  IF k.i < k.have THEN Goto("next", k)
                         ELSE Resize([k EXCEPT !.have = k.want])
  /\ UNCHANGED <<entry, events>>

(* The data of one cluster, then the entry that leads to the next one.      *)
write_cluster_data ==
  /\ pc = "data"
  /\ IF call.cur \in 2 .. LastCluster
     THEN data' = [data EXCEPT ![call.cur] = File] /\ Goto("follow", call)
     ELSE UNCHANGED data /\ Return
  /\ UNCHANGED <<fat, backup, dir, entry, cache, bounds, phase, buffer, history, events>>

Follow ==
  /\ pc = "follow"
  /\ \E v \in 0 .. BAD :
       /\ readcluster(call.cur, v)
       /\ Goto(IF call.i + 1 < call.want THEN "data" ELSE "entry",
               [call EXCEPT !.cur = v, !.i = @ + 1])
  /\ UNCHANGED <<entry, events>>

WriteEntry ==
  /\ pc = "entry"
  /\ entry' = [entry EXCEPT ![File].count = call.want]
  /\ dir' = [dir EXCEPT ![File] = entry'[File]]
  /\ Return
  /\ UNCHANGED <<fat, backup, data, cache, bounds, phase, buffer, history, events>>

-----------------------------------------------------------------------------
fat32_deletefile(f) ==
  /\ pc = "idle" /\ calls < MaxCalls /\ dir[f] # Absent
  /\ calls' = calls + 1
  /\ Goto(IF entry[f].count = 0 THEN "erase" ELSE "unlink",
          [NoCall EXCEPT !.file = f, !.have = entry[f].count, !.cur = entry[f].first])
  /\ Reuses(f)
  /\ UNCHANGED <<drive, entry, cache, start_lookup, phase, buffer, faults, history>>

Unlink ==
  /\ pc = "unlink" /\ CONTINUE(call.cur)
  /\ \E v \in 0 .. BAD :
       readcluster(call.cur, v) /\ Goto("unlinked", [call EXCEPT !.next = v])
  /\ UNCHANGED <<entry, events>>

UnlinkBroken ==
  /\ pc = "unlink" /\ ~CONTINUE(call.cur)
  /\ Return
  /\ UNCHANGED <<drive, entry, cache, bounds, phase, buffer, history, events>>

UnlinkedOneMore ==                             \* fault: i <= fileClusters
  /\ pc = "unlinked"
  /\ \E w \in Writes : writecluster(w)
  /\ Goto(IF call.i < call.have THEN "unlink" ELSE "erase",
          [call EXCEPT !.cur = call.next, !.i = @ + 1])
  /\ UNCHANGED <<entry, events>>

Unlinked ==
  /\ pc = "unlinked"
  /\ \E w \in Writes : writecluster(w)
  /\ Goto(IF call.i + 1 < call.have THEN "unlink" ELSE "erase",
          [call EXCEPT !.cur = call.next, !.i = @ + 1])
  /\ UNCHANGED <<entry, events>>

Erase ==
  /\ pc = "erase"
  /\ dir' = [dir EXCEPT ![File] = Absent]
  /\ Return
  /\ UNCHANGED <<fat, backup, data, entry, cache, bounds, phase, buffer, history, events>>

(* fat32_createfile, and fat32_openfile of the new file.                    *)
fat32_createfile(f) ==
  /\ pc = "idle" /\ calls < MaxCalls /\ dir[f] = Absent
  /\ calls' = calls + 1
  /\ dir' = [dir EXCEPT ![f] = Empty] /\ entry' = [entry EXCEPT ![f] = Empty]
  /\ UNCHANGED <<fat, backup, data, cache, start_lookup, pc, call, phase, buffer, faults,
                 history, events>>

-----------------------------------------------------------------------------
(* After an access that failed the walk goes on from where it is, the entry *)
(* after the last data is not needed; all else ends the call.               *)
Abandon ==
  CASE pc = "walk" -> Resize(call)
    [] pc = "follow" /\ call.i + 1 = call.want -> Goto("entry", call)
    [] OTHER -> Return

(* The entry of a mark is past the partition: to read it fails when the     *)
(* cached sector has been renamed already, to link a cluster to it fails    *)
(* when that cluster has been marked, which stays so.                       *)
Outside ==
  /\ \/ phase = "labelled" /\ \E c \in Reads : SectorOf(c) = Far
     \/ phase = "start" /\ \E w \in Writes : SectorOf(w.at) = Far
  /\ Abandon
  /\ phase' = "start"
  /\ UNCHANGED <<drive, entry, cache, bounds, buffer, history, events>>

(* An access fails.  A sector that was to be cached leaves the old entries  *)
(* under its number; a copy that is not written leaves the FAT changed and  *)
(* the cached entry as it was.                                              *)
Interrupted == IF phase = "written" THEN {w.at : w \in Writes} ELSE {}

Fail ==
  /\ faults < MaxFaults /\ faults' = faults + 1
  /\ phase # "start" \/ Writes # {} \/ pc \in {"data", "entry", "erase"}
  /\ torn' = torn \cup Interrupted /\ damaged' = damaged \cup {File}
  /\ events' = IF phase \in {"labelled", "written"} THEN events \cup {"failed", "stale"}
                                                    ELSE events
  /\ entry' = IF pc = "entry" THEN [entry EXCEPT ![File].count = call.want] ELSE entry
  /\ phase' = "start"
  /\ Abandon
  /\ UNCHANGED <<drive, cache, start_lookup, buffer, calls>>

(* The machine stops, and starts with nothing but the drive.                *)
Stop ==
  /\ faults < MaxFaults /\ faults' = faults + 1
  /\ pc # "overrun" /\ (pc # "idle" \/ cache # NoCache)
  /\ cache' = NoCache /\ entry' = [f \in Files |-> IF dir[f] = Absent THEN Empty ELSE dir[f]]
  /\ torn' = torn \cup Interrupted
  /\ damaged' = IF pc = "idle" THEN damaged ELSE damaged \cup {File}
  /\ events' = events \ {"stale"}
  /\ phase' = "start" /\ Return
  /\ UNCHANGED <<drive, start_lookup, buffer, calls>>

(* The entry of the last cluster leads past the end of the FAT, where its   *)
(* copy begins, and a mark to the sector Far, where data of the volume may  *)
(* be: what is read there is not followed, the model ends here.             *)
Overrun ==
  /\ phase = "start" /\ \E c \in Reads : c >= Size
  /\ Goto("overrun", call)
  /\ UNCHANGED <<drive, entry, cache, bounds, phase, buffer, history, events>>

Step ==
  \/ Label \/ Load \/ WriteFat
  \/ get_free_cluster \/ allocate_cluster \/ Walk \/ Link \/ Outside
  \/ SkipKept \/ NextOfFreed \/ free_cluster
  \/ write_cluster_data \/ Follow \/ WriteEntry
  \/ Unlink \/ UnlinkBroken \/ Unlinked \/ Erase \/ Overrun

Next ==
  \/ Step \/ Fail \/ Stop
  \/ \E f \in Files : \/ \E n \in 1 .. MaxClusters : fat32_writefile(f, n)
                      \/ fat32_deletefile(f) \/ fat32_createfile(f)

Spec == Init /\ [][Next]_vars

(* A call that has begun goes on.                                           *)
FairSpec == Spec /\ WF_vars(Step)

-----------------------------------------------------------------------------
Stages == {"seek", "mark", "walk", "link", "skip", "next", "release", "data", "follow",
           "entry", "unlink", "unlinked", "erase"}
FileEntries == [first : Entries, count : 0 .. MaxClusters]
Locals == [file : Files \cup {None}, want : 0 .. MaxClusters, have : 0 .. MaxClusters,
           i : Nat, pos : 0 .. BAD, cur : 0 .. BAD, next : 0 .. BAD]

CacheSectors == -1 .. SectorOf(Size-1) \cup {Far}

CallOK ==
  /\ call \in Locals /\ pc \in {"idle", "overrun"} \cup Stages
  /\ pc \in Stages => call.file \in Files
  /\ pc \in {"seek", "mark", "link"} => call.have < call.want

TypeOK ==
  /\ fat \in [Entries -> 0 .. BAD] /\ backup \in [Entries -> 0 .. BAD]
  /\ data \in [Entries -> Files \cup {None}]
  /\ entry \in [Files -> FileEntries] /\ dir \in [Files -> FileEntries \cup {Absent}]
  /\ cache \in [sector : CacheSectors, entries : [Offsets -> 0 .. BAD]]
  /\ start_lookup \in 0 .. Size
  /\ CallOK
  /\ phase \in {"start", "labelled", "loaded", "written"}

(* The copy of the FAT differs from it only where a write of both was       *)
(* interrupted, and in the entry that is being written.                     *)
CopyFollows ==
  {c \in Entries : fat[c] # backup[c]} \subseteq torn \cup Interrupted

(* What is read from the cache is what is on the drive, although its number *)
(* is set before its entries and it is changed after the drive: the entries *)
(* are those of the sector of that number, and where they are not, as after *)
(* the read at a mark, the next read is not of that sector.  An access that *)
(* a fault ends undoes that until the next start.                           *)
CacheFollows ==
  "stale" \notin events =>
    /\ cache.sector \notin {-1, Far} /\ phase \notin {"labelled", "written"}
         => cache.entries = SectorAt(fat, cache.sector)
    /\ phase = "start" => \A c \in Reads : SectorOf(c) = Far => cache.sector # Far

(* Along the FAT from the first cluster of a file come clusters this file   *)
(* wrote last, as many as its size says: no other file's write or deletion  *)
(* has touched them, whether it came to its end, failed or was cut short    *)
(* when the machine stopped.  The file of a call that was cut short is      *)
(* damaged, and until a call names it all others are whole.  This needs     *)
(* files that are laid out in one piece: the driver never ends a chain, so  *)
(* that a file whose clusters are not consecutive shares the clusters in    *)
(* between.                                                                 *)
Chain(f) ==
  LET at[i \in 0 .. dir[f].count] ==
        IF i = 0 THEN dir[f].first
        ELSE IF at[i-1] \in Entries THEN fat[at[i-1]] ELSE FREE
  IN  [i \in 1 .. dir[f].count |-> at[i-1]]

FilesReadBack ==
  events = {} => \A f \in Files \ ({File} \cup damaged) :
    dir[f] # Absent => /\ entry[f].count = dir[f].count
                     /\ \A i \in 1 .. dir[f].count :
                          Chain(f)[i] \in Entries /\ data[Chain(f)[i]] = f

(* A call comes to its end: the search for a free cluster does not go round *)
(* in circles, also after a call that was cut short, unless the cache is    *)
(* stale, a file is scattered or a damaged one is written to again.         *)
CallEnds == (pc # "idle") ~> (pc \in {"idle", "overrun"} \/ events # {})
=============================================================================
