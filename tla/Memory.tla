------------------------------- MODULE Memory -------------------------------
(***************************************************************************)
(* Physical frames (kernel/mem/pmm.c), the virtual pages mapped to them    *)
(* (kernel/mem/vmm.c) and the page fault that backs lazy pages (isr14 of   *)
(* kernel/cpu/isrs.asm).                                                   *)
(*                                                                         *)
(* Free frames wait on a stack; a frame's status says whether it is free.  *)
(* Virtual space is never reused: a region starts after the last page that *)
(* was ever mapped.  The functions of vmm.c run with interrupts off under  *)
(* their locks and the fault handler starts with cli, so that operations   *)
(* do not interleave; those on several pages take one step a page here     *)
(* because each page can fail and leaves the earlier ones as they are.     *)
(* The first two table levels and the identity map of boot are left out.   *)
(***************************************************************************)
EXTENDS Integers, FiniteSets

CONSTANTS LastFrame,        \* frames 0..LastFrame; 0 is not usable
          BootFrames,       \* frames vmm_init took, from the top
          MaxPage,          \* bound: pages of virtual space
          TableSpan,        \* pages mapped by one page table
          MaxRegion,        \* bound: pages of a region
          MaxOwned          \* bound: regions owned at once

ASSUME MemoryAssumption ==
  /\ LastFrame \in Nat /\ BootFrames \in Nat /\ BootFrames < LastFrame
  /\ MaxPage \in Nat /\ TableSpan \in Nat \ {0} /\ MaxRegion \in Nat
  /\ MaxOwned \in Nat

VARIABLES status,          \* status[f] of the p_page of frame f
          pFreeEntries, freeEntryCnt, usedEntryCnt,
          pte,             \* pte[p]: the entry that maps page p
          table,           \* table[i]: the frame of page table i, or NoFrame
          last_page_va,
          regions,         \* the regions callers own: [va, count]
          op,              \* the operation in progress
          strays           \* history: pages that the fault of another one mapped

frames == <<status, pFreeEntries, freeEntryCnt, usedEntryCnt>>
vars == <<frames, pte, table, last_page_va, regions, op, strays>>

Frames == 0 .. LastFrame
Pages == 1 .. MaxPage
NoFrame == -1
Tables == 0 .. MaxPage \div TableSpan
UsableFrames == LastFrame - BootFrames      \* frames 1..UsableFrames start free

NoEntry == [frame |-> 0, present |-> FALSE, lazy |-> FALSE]
LazyEntry == [frame |-> 0, present |-> FALSE, lazy |-> TRUE]
Mapped(entry) == entry.present \/ entry.lazy         \* PTE_IS_MAPPED
PagesOf(region) == region.va .. region.va + region.count - 1

Idle == [kind |-> "idle", va |-> 0, count |-> 0, done |-> 0, lazy |-> FALSE]

Init ==
  /\ status = [f \in Frames |-> IF f = 0 THEN "reserved"
                                ELSE IF f <= UsableFrames THEN "free" ELSE "inuse"]
  /\ pFreeEntries = [i \in 0 .. UsableFrames-1 |-> i+1]
  /\ freeEntryCnt = UsableFrames
  /\ usedEntryCnt = BootFrames
  /\ pte = [p \in Pages |-> NoEntry]
  /\ table = [i \in Tables |-> NoFrame]
  /\ last_page_va = 0
  /\ regions = {}
  /\ op = Idle
  /\ strays = {}

-----------------------------------------------------------------------------
(* The k-th frame that physicalAllocPage hands out from here on.            *)
Nth(k) == pFreeEntries[freeEntryCnt - k]

(* k calls of physicalAllocPage, then physicalMapPage on the frames of the  *)
(* set mapped as well: their status becomes in use, on the stack or not.    *)
(* The top of the stack is read before the mutex of pmm.c is taken (lines   *)
(* 137 and 141, as the status at 164); that is one step here, since the     *)
(* callers modelled have interrupts off.                                    *)
TakeOffByOne(k, mapped) ==                     \* fault: used count not raised
  /\ freeEntryCnt' = freeEntryCnt - k
  /\ usedEntryCnt' = usedEntryCnt
  /\ pFreeEntries' = [i \in 0 .. freeEntryCnt-k-1 |-> pFreeEntries[i]]
  /\ status' = [f \in Frames |->
                  IF f \in mapped \/ \E j \in 1 .. k : f = Nth(j)
                  THEN "inuse" ELSE status[f]]

physicalAllocPages(k, mapped) ==
  /\ freeEntryCnt' = freeEntryCnt - k
  /\ usedEntryCnt' = usedEntryCnt + k
  /\ pFreeEntries' = [i \in 0 .. freeEntryCnt-k-1 |-> pFreeEntries[i]]
  /\ status' = [f \in Frames |->
                  IF f \in mapped \/ \E j \in 1 .. k : f = Nth(j)
                  THEN "inuse" ELSE status[f]]

(* physicalFreePage followed by the physicalUnmapPage of the unmapping: a   *)
(* frame that is free already is not pushed again.                          *)
physicalFreePage(f) ==
  IF status[f] = "free"
  THEN UNCHANGED frames
  ELSE /\ pFreeEntries' = [i \in 0 .. freeEntryCnt |->
                             IF i = freeEntryCnt THEN f ELSE pFreeEntries[i]]
       /\ freeEntryCnt' = freeEntryCnt + 1
       /\ usedEntryCnt' = usedEntryCnt - 1
       /\ status' = [status EXCEPT ![f] = "free"]

(* vmm_getPageTableEntry allocates the page table of a page it first needs. *)
TableOf(p) == p \div TableSpan
NeedsTable(p) == IF table[TableOf(p)] = NoFrame THEN 1 ELSE 0
WithTable(p, f) ==
  [table EXCEPT ![TableOf(p)] = IF @ = NoFrame THEN f ELSE @]

Higher(p) == IF p > last_page_va THEN p ELSE last_page_va

Fail == op' = Idle /\ UNCHANGED <<pte, table, last_page_va, regions, strays>>

-----------------------------------------------------------------------------
(* virtualAllocPages: the space after the last page (virtualGetSpace), then *)
(* page by page a frame, if the region is not lazy, and the mapping.  What  *)
(* was mapped before a failure stays, and the caller does not learn where.  *)
AllocAtLast(n, lazy) ==                        \* fault: starts on the last page
  /\ op.kind = "idle"
  /\ last_page_va + n < MaxPage /\ Cardinality(regions) < MaxOwned
  /\ op' = [kind |-> "alloc", va |-> last_page_va, count |-> n, done |-> 0,
            lazy |-> lazy]
  /\ UNCHANGED <<frames, pte, table, last_page_va, regions, strays>>

virtualAllocPages(n, lazy) ==
  /\ op.kind = "idle"
  /\ last_page_va + n < MaxPage /\ Cardinality(regions) < MaxOwned
  /\ op' = [kind |-> "alloc", va |-> last_page_va + 1, count |-> n, done |-> 0,
            lazy |-> lazy]
  /\ UNCHANGED <<frames, pte, table, last_page_va, regions, strays>>

Page == op.va + op.done

AllocStep ==
  LET own == IF op.lazy THEN 0 ELSE 1
      need == own + NeedsTable(Page)
  IN  /\ op.kind = "alloc" /\ op.done < op.count
      /\ IF freeEntryCnt < need
         THEN physicalAllocPages(freeEntryCnt, {}) /\ Fail
         ELSE /\ physicalAllocPages(need, {})
              /\ table' = WithTable(Page, Nth(need))
              /\ pte' = [pte EXCEPT ![Page] =
                           IF op.lazy THEN LazyEntry
                           ELSE [frame |-> Nth(1), present |-> TRUE, lazy |-> FALSE]]
              /\ last_page_va' = Higher(Page)
              /\ op' = [op EXCEPT !.done = @ + 1]
              /\ UNCHANGED <<regions, strays>>

AllocDone ==
  /\ op.kind = "alloc" /\ op.done = op.count
  /\ regions' = regions \cup {[va |-> op.va, count |-> op.count]}
  /\ op' = Idle
  /\ UNCHANGED <<frames, pte, table, last_page_va, strays>>

(* virtualFreePages of a region the caller owns.                            *)
FreeOneMore(region) ==                         \* fault: one page too many
  /\ op.kind = "idle"
  /\ op' = [kind |-> "free", va |-> region.va, count |-> region.count + 1,
            done |-> 0, lazy |-> FALSE]
  /\ regions' = regions \ {region}
  /\ UNCHANGED <<frames, pte, table, last_page_va, strays>>

virtualFreePages(region) ==
  /\ op.kind = "idle"
  /\ op' = [kind |-> "free", va |-> region.va, count |-> region.count, done |-> 0,
            lazy |-> FALSE]
  /\ regions' = regions \ {region}
  /\ UNCHANGED <<frames, pte, table, last_page_va, strays>>

(* virtualFreePage: a page with the lazy flag gives no frame back, whether  *)
(* the fault has backed it or not.                                          *)
GiveBack == IF pte[Page].lazy THEN UNCHANGED frames
                              ELSE physicalFreePage(pte[Page].frame)

FreeStep ==
  /\ op.kind = "free" /\ op.done < op.count
  /\ \/ /\ ~pte[Page].lazy /\ usedEntryCnt = 0      \* physicalFreePage fails
        /\ Fail /\ UNCHANGED frames
     \/ /\ pte[Page].lazy \/ usedEntryCnt # 0
        /\ ~Mapped(pte[Page])                         \* virtualUnmapPage fails
        /\ Fail /\ GiveBack
     \/ /\ pte[Page].lazy \/ usedEntryCnt # 0
        /\ Mapped(pte[Page])
        /\ GiveBack
        /\ pte' = [pte EXCEPT ![Page] = NoEntry]
        /\ op' = [op EXCEPT !.done = @ + 1]
        /\ UNCHANGED <<table, last_page_va, regions, strays>>

FreeDone ==
  /\ op.kind = "free" /\ op.done = op.count
  /\ op' = Idle
  /\ UNCHANGED <<frames, pte, table, last_page_va, regions, strays>>

(* isr14 on the first touch of a lazy page.  It passes the faulting address *)
(* as it is to virtualMapPage, which for an address inside a page also maps *)
(* the next page to the next frame, whatever these are used for.  Without a *)
(* free frame, for the page or for the table of the next one, it halts; in  *)
(* the second case the frame of the page is taken already.                  *)
Backed(f) == [frame |-> f, present |-> TRUE, lazy |-> TRUE]

Touched(p) ==
  /\ op.kind = "idle"
  /\ \E r \in regions : p \in PagesOf(r)
  /\ pte[p].lazy /\ ~pte[p].present

FaultAligned(p) ==
  /\ Touched(p)
  /\ freeEntryCnt > 0
  /\ physicalAllocPages(1, {})
  /\ pte' = [pte EXCEPT ![p] = Backed(Nth(1))]
  /\ UNCHANGED <<table, last_page_va, regions, op, strays>>

FaultInside(p) ==
  LET need == 1 + NeedsTable(p+1)
  IN  /\ p < MaxPage
      /\ Touched(p)
      /\ freeEntryCnt >= need
      /\ Nth(1) < LastFrame
      /\ physicalAllocPages(need, {Nth(1) + 1})
      /\ table' = WithTable(p+1, Nth(need))
      /\ pte' = [pte EXCEPT ![p] = Backed(Nth(1)), ![p+1] = Backed(Nth(1) + 1)]
      /\ last_page_va' = Higher(p+1)
      /\ strays' = strays \cup {p+1}
      /\ UNCHANGED <<regions, op>>

FaultHalt(p) ==
  /\ Touched(p)
  /\ \/ freeEntryCnt = 0 /\ UNCHANGED frames
     \/ /\ p < MaxPage /\ NeedsTable(p+1) = 1 /\ freeEntryCnt = 1
        /\ physicalAllocPages(1, {})
  /\ op' = [Idle EXCEPT !.kind = "halted"]
  /\ UNCHANGED <<pte, table, last_page_va, regions, strays>>

Fault == \E p \in Pages : FaultAligned(p) \/ FaultInside(p) \/ FaultHalt(p)

Next ==
  \/ \E n \in 1 .. MaxRegion, lazy \in BOOLEAN : virtualAllocPages(n, lazy)
  \/ AllocStep \/ AllocDone
  \/ \E region \in regions : virtualFreePages(region)
  \/ FreeStep \/ FreeDone
  \/ Fault

Spec == Init /\ [][Next]_vars

-----------------------------------------------------------------------------
OpOK ==
  /\ op \in [kind : {"idle", "alloc", "free", "halted"}, va : 0 .. MaxPage,
             count : 0 .. MaxPage, done : 0 .. MaxPage, lazy : BOOLEAN]
  /\ op.kind \in {"alloc", "free"} =>
       /\ op.va >= 1 /\ op.done <= op.count /\ op.va + op.done <= MaxPage + 1

(* Every index is one of a frame, a page or a table there is, and the stack *)
(* holds as many frames as freeEntryCnt says.                               *)
TypeOK ==
  /\ status \in [Frames -> {"reserved", "free", "inuse"}]
  /\ freeEntryCnt \in Nat /\ usedEntryCnt \in Int
  /\ pFreeEntries \in [0 .. freeEntryCnt-1 -> Frames]
  /\ pte \in [Pages -> [frame : Frames, present : BOOLEAN, lazy : BOOLEAN]]
  /\ table \in [Tables -> Frames \cup {NoFrame}]
  /\ last_page_va \in 0 .. MaxPage
  /\ regions \subseteq [va : Pages, count : 1 .. MaxPage]
  /\ OpOK
  /\ strays \subseteq Pages

(* Each frame is free or counted as used, whatever fails in the middle.     *)
Accounting == freeEntryCnt + usedEntryCnt = LastFrame

(* No frame waits twice on the stack: it never outgrows the frames there    *)
(* are, and the panic "too many free physical pages!" of pmm.c line 173 is  *)
(* not reached.                                                             *)
FreeStackDistinct ==
  /\ freeEntryCnt <= UsableFrames
  /\ \A i, j \in 0 .. freeEntryCnt-1 :
       pFreeEntries[i] = pFreeEntries[j] => i = j

OnStack(f) == \E i \in 0 .. freeEntryCnt-1 : pFreeEntries[i] = f

(* The pages of the set, and every page table, have frames of their own     *)
(* that do not wait on the stack.                                           *)
Exclusive(pages) ==
  /\ \A p, q \in pages : pte[p].frame = pte[q].frame => p = q
  /\ \A p \in pages : ~OnStack(pte[p].frame)
  /\ \A i \in Tables : table[i] # NoFrame =>
       /\ ~OnStack(table[i])
       /\ \A p \in pages : pte[p].frame # table[i]
       /\ \A j \in Tables : table[j] = table[i] => i = j

(* Two regions callers own have no page in common.                          *)
RegionsDisjoint ==
  \A r, s \in regions : r # s => PagesOf(r) \cap PagesOf(s) = {}

(* The pages of a region are mapped, to whatever frame, until it is freed.  *)
RegionsMapped ==
  \A r \in regions : \A p \in PagesOf(r) : Mapped(pte[p])
=============================================================================
