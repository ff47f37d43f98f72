---------------------------- MODULE MemoryProofs ----------------------------
(***************************************************************************)
(* Proofs about Memory with the stacks of ThreadStack, for any number of   *)
(* frames, pages, regions and stacks: frames are counted, a frame has one  *)
(* owner, regions are apart and stay mapped, and stacks keep their guards, *)
(* whichever operation fails at whichever page.                            *)
(***************************************************************************)
EXTENDS ThreadStack, FiniteSetTheorems, TLAPS

-----------------------------------------------------------------------------
(* The inductive invariant.  The types, in parts:                           *)
FramesOK ==
  /\ status \in [Frames -> {"reserved", "free", "inuse"}]
  /\ freeEntryCnt \in Nat /\ usedEntryCnt \in Int
  /\ pFreeEntries \in [0 .. freeEntryCnt-1 -> Frames]
PagesOK ==
  /\ pte \in [Pages -> [frame : Frames, present : BOOLEAN, lazy : BOOLEAN]]
  /\ table \in [Tables -> Frames \cup {NoFrame}]
  /\ last_page_va \in 0 .. MaxPage /\ strays \subseteq Pages
  /\ regions \subseteq [va : Pages, count : 1 .. MaxPage]
StageOK ==
  /\ stage \in {"none", "reserve", "guard", "commit", "undo", "destroy"}
  /\ base \in 0 .. MaxPage /\ committed \in 0 .. Commit /\ spilled \in BOOLEAN
  /\ stacks \subseteq regions /\ \A s \in stacks : s.count = StackSize
Types == FramesOK /\ PagesOK /\ OpOK /\ StageOK /\ Accounting

\* Virtual space is used from the bottom: nothing is mapped above the last
\* page, regions lie below it, and the region of an operation is apart.
Top(r) == r.va + r.count - 1
ToFree == op.va + op.done .. op.va + op.count - 1

Layout ==
  /\ \A p \in Pages : p > last_page_va => pte[p] = NoEntry
  /\ RegionsDisjoint
  /\ \A r \in regions : Top(r) <= last_page_va
  /\ op.kind = "alloc" =>
       /\ op.va + op.done = last_page_va + 1 /\ op.va + op.count <= MaxPage
       /\ op.count > 0
       /\ \A r \in regions : Top(r) < op.va
  /\ op.kind = "free" => \A r \in regions : PagesOf(r) \cap ToFree = {}
  /\ op.kind = "free" /\ stage # "undo" => op.va + op.count - 1 <= last_page_va

AllMapped ==
  /\ \A r \in regions : \A p \in PagesOf(r) : Mapped(pte[p])
  /\ op.kind = "alloc" => \A p \in op.va .. op.va + op.done - 1 : Mapped(pte[p])
  /\ op.kind = "free" /\ stage # "undo" => \A p \in ToFree : Mapped(pte[p])

\* Where thread_create and thread_destroy are.
Stages ==
  /\ stage = "reserve" =>
       op.kind = "alloc" /\ op.lazy /\ op.va = base /\ op.count = StackSize
  /\ stage \in {"reserve", "guard"} => committed = 0
  /\ stage \in {"guard", "commit"} =>
       /\ op.kind = "idle" /\ Stack(base) \in regions \ stacks
       /\ base + StackSize - 1 = last_page_va /\ last_page_va < MaxPage
  /\ stage = "undo" =>
       /\ op.kind = "free" /\ op.va = base + Guard /\ op.count = StackSize
       /\ base + StackSize - 1 = last_page_va /\ last_page_va < MaxPage
       /\ op.va + op.done <= last_page_va + 1
       /\ \A r \in regions : Top(r) < base
       /\ spilled
  /\ stage = "destroy" =>
       /\ op.kind = "free" /\ op.va = base + Guard /\ op.count = Reserve
       /\ base >= 1 /\ base + StackSize - 1 <= last_page_va
       /\ \A r \in regions : PagesOf(r) \cap PagesOf(Stack(base)) = {}

\* Until a failed thread_create has freed what is not its own, the stack of
\* free frames repeats none, and what a page owns is not on it.  A backed lazy
\* page owns its frame too, unless the fault of the page before mapped it.
Owned == {p \in Pages : pte[p].present /\ (p \in strays => ~pte[p].lazy)} \ GuardPages

Distinct == \A i, j \in 0 .. freeEntryCnt-1 : pFreeEntries[i] = pFreeEntries[j] => i = j
Isolated ==
  /\ \A i \in 0 .. freeEntryCnt-1 : pFreeEntries[i] \in 1 .. UsableFrames
  /\ Distinct
  /\ \A p \in Owned : pte[p].frame \in 1 .. UsableFrames
  /\ Exclusive(Owned)

\* The guards of live stacks, and of the one that is being made.
MustGuard(b) == LowGuard(b) \cup (HighGuard(b) \ {b+Guard+Reserve})
HasGuards(b) == \A p \in MustGuard(b) \ strays : pte[p] = GuardEntry(b, p)
Guarded ==
  /\ \A s \in stacks : /\ HasGuards(s.va)
                       /\ Commit > 1 => pte[s.va+Guard+Reserve-1].present
  /\ stage = "commit" =>
       HasGuards(base) /\ (committed > 1 => pte[base+Guard+Reserve-1].present)

StackInv ==
  /\ Types /\ Layout /\ AllMapped /\ Stages
  /\ ~spilled => Isolated
  /\ Guarded

-----------------------------------------------------------------------------
(* Constants and arithmetic.                                                *)
LEMMA Sizes ==
  /\ LastFrame \in Nat \ {0} /\ MaxPage \in Nat /\ TableSpan \in Nat \ {0}
  /\ UsableFrames \in Nat \ {0} /\ UsableFrames <= LastFrame /\ BootFrames \in Nat
  /\ LastFrame = UsableFrames + BootFrames
  /\ Guard \in Nat \ {0} /\ Reserve \in Nat \ {0} /\ Guard <= LastFrame
  /\ Commit \in 1 .. Reserve+1
  /\ StackSize = 2*Guard + Reserve /\ StackSize \in Nat \ {0}
BY MemoryAssumption, StackAssumption DEF UsableFrames, StackSize

-----------------------------------------------------------------------------
(* Taking and giving back frames.                                           *)
LEMMA PopOK ==
  ASSUME FramesOK, Accounting, NEW k \in 0 .. 2, k <= freeEntryCnt, NEW S,
         physicalAllocPages(k, S)
  PROVE  FramesOK' /\ Accounting'
<1>1. freeEntryCnt' = freeEntryCnt - k /\ usedEntryCnt' = usedEntryCnt + k
  BY DEF physicalAllocPages
<1>2. pFreeEntries' \in [0 .. freeEntryCnt'-1 -> Frames]
  BY <1>1 DEF FramesOK, physicalAllocPages
<1>3. status' \in [Frames -> {"reserved", "free", "inuse"}]
  BY DEF FramesOK, physicalAllocPages
<1>4. QED
  BY <1>1, <1>2, <1>3, Sizes DEF FramesOK, Accounting

LEMMA NthOK ==
  ASSUME FramesOK, NEW k \in Nat \ {0}, k <= freeEntryCnt
  PROVE  Nth(k) \in Frames /\ freeEntryCnt - k \in 0 .. freeEntryCnt-1
BY DEF FramesOK, Nth

LEMMA PushOK ==
  ASSUME FramesOK, Accounting, NEW f \in Frames, physicalFreePage(f)
  PROVE  FramesOK' /\ Accounting'
<1>1. CASE status[f] = "free"
  BY <1>1 DEF physicalFreePage, frames, FramesOK, Accounting
<1>2. CASE status[f] # "free"
  <2>1. freeEntryCnt' = freeEntryCnt + 1 /\ usedEntryCnt' = usedEntryCnt - 1
    BY <1>2 DEF physicalFreePage
  <2>2. pFreeEntries' \in [0 .. freeEntryCnt'-1 -> Frames]
    BY <1>2, <2>1 DEF physicalFreePage, FramesOK
  <2>3. status' \in [Frames -> {"reserved", "free", "inuse"}]
    BY <1>2 DEF physicalFreePage, FramesOK
  <2>4. QED
    BY <2>1, <2>2, <2>3, Sizes DEF FramesOK, Accounting
<1>3. QED
  BY <1>1, <1>2

LEMMA GiveBackOK ==
  ASSUME Types, Page \in Pages, GiveBack
  PROVE  FramesOK' /\ Accounting'
<1>1. PICK e \in [frame : Frames, present : BOOLEAN, lazy : BOOLEAN] : e = pte[Page]
  BY DEF Types, PagesOK
<1>2. CASE e.lazy
  BY <1>1, <1>2 DEF GiveBack, frames, Types, FramesOK, Accounting
<1>3. CASE ~e.lazy
  BY <1>1, <1>3, PushOK DEF GiveBack, Types
<1>4. QED
  BY <1>2, <1>3

\* A page belongs to one table.
LEMMA TableInside == ASSUME NEW p \in Pages PROVE TableOf(p) \in Tables
BY Sizes, SMT DEF TableOf, Tables, Pages

(* Nobody owns a frame that is handed out.                                  *)
LEMMA TakeIsolated ==
  ASSUME FramesOK, PagesOK, Isolated, NEW k \in 0 .. 2, k <= freeEntryCnt, NEW S,
         physicalAllocPages(k, S),
         NEW P \in SUBSET Pages, Owned' \subseteq Owned \cup P,
         \A p \in Owned' \ P : pte'[p] = pte[p],
         \A p, q \in P : p = q,
         \A p \in P : k > 0 /\ pte'[p].frame = Nth(1),
         NEW t \in Tables,
         \/ table' = table
         \/ /\ table[t] = NoFrame /\ k > 0 /\ table' = [table EXCEPT ![t] = Nth(k)]
            /\ P # {} => k = 2
  PROVE  Isolated'
<1>1. /\ freeEntryCnt' = freeEntryCnt - k /\ freeEntryCnt \in Nat
      /\ \A i \in 0 .. freeEntryCnt'-1 :
           i \in 0 .. freeEntryCnt-1 /\ pFreeEntries'[i] = pFreeEntries[i]
  BY DEF physicalAllocPages, FramesOK
<1> DEFINE Still(f) == \E i \in 0 .. freeEntryCnt'-1 : pFreeEntries'[i] = f
<1>2. \A f : Still(f) => OnStack(f)
  BY <1>1 DEF OnStack
<1>3. ASSUME NEW j \in 1 .. k
      PROVE  Nth(j) \in 1 .. UsableFrames /\ OnStack(Nth(j)) /\ ~Still(Nth(j))
  <2>1. PICK m \in 0 .. freeEntryCnt-1 : m = freeEntryCnt - j
    BY <1>1
  <2>2. \A i \in 0 .. freeEntryCnt'-1 : i # m
    BY <1>1, <2>1
  <2>3. Nth(j) = pFreeEntries[m]
    BY <2>1 DEF Nth
  <2>4. ~Still(pFreeEntries[m])
    BY <1>1, <2>2 DEF Isolated, Distinct
  <2>5. QED
    BY <2>3, <2>4 DEF Isolated, OnStack
<1>4. k = 2 => Nth(1) # Nth(2)
  BY <1>1 DEF Isolated, Distinct, Nth
<1>5. PICK f1 : f1 = Nth(1)
  OBVIOUS
<1>6. PICK fk : fk = Nth(k)
  OBVIOUS
<1>7. /\ P # {} => k > 0 /\ f1 \in 1 .. UsableFrames /\ OnStack(f1) /\ ~Still(f1)
      /\ k > 0 => OnStack(fk) /\ ~Still(fk)
      /\ k = 2 => f1 # fk
  BY <1>3, <1>4, <1>5, <1>6
<1>8. \A p \in Owned' : \/ p \in P /\ pte'[p].frame = f1
                        \/ p \in Owned \ P /\ pte'[p].frame = pte[p].frame
  BY <1>5
<1>9. \A i \in Tables : table'[i] # NoFrame =>
        \/ table[i] = table'[i] /\ ~(i = t /\ table' # table)
        \/ /\ i = t /\ table'[i] = fk /\ k > 0 /\ (P # {} => k = 2)
           /\ table[t] = NoFrame /\ table' # table
  BY <1>6 DEF PagesOK
<1>10. \A i \in 0 .. freeEntryCnt'-1 : pFreeEntries'[i] \in 1 .. UsableFrames
  BY <1>1 DEF Isolated
<1>11. Distinct'
  BY <1>1 DEF Isolated, Distinct
<1>12. \A p \in Owned' : pte'[p].frame \in 1 .. UsableFrames
  BY <1>7, <1>8 DEF Isolated
<1>13. \A p, q \in Owned' : pte'[p].frame = pte'[q].frame => p = q
  BY <1>7, <1>8 DEF Isolated, Exclusive
<1>14. \A p \in Owned' : ~Still(pte'[p].frame)
  BY <1>2, <1>7, <1>8 DEF Isolated, Exclusive
<1>15. ASSUME NEW i \in Tables, table'[i] # NoFrame
       PROVE  /\ ~Still(table'[i])
              /\ \A p \in Owned' : pte'[p].frame # table'[i]
              /\ \A j \in Tables : table'[j] = table'[i] => i = j
  BY <1>2, <1>7, <1>8, <1>9, <1>15 DEF Isolated, Exclusive
<1>16. Exclusive(Owned)'
  BY <1>13, <1>14, <1>15 DEF Exclusive, OnStack, Owned
<1>17. QED
  BY <1>10, <1>11, <1>12, <1>16 DEF Isolated

LEMMA StillIsolated ==
  ASSUME Isolated, UNCHANGED <<freeEntryCnt, pFreeEntries, table>>,
         Owned' \subseteq Owned, \A p \in Owned' : pte'[p] = pte[p]
  PROVE  Isolated'
<1>1. Distinct' /\ \A i \in 0 .. freeEntryCnt'-1 : pFreeEntries'[i] \in 1 .. UsableFrames
  BY DEF Isolated, Distinct
<1>2. \A p \in Owned' : pte'[p].frame \in 1 .. UsableFrames
  BY DEF Isolated
<1>3. Exclusive(Owned)'
  BY DEF Isolated, Exclusive, OnStack
<1>4. QED
  BY <1>1, <1>2, <1>3 DEF Isolated

\* A page gives back a frame that is its own.
LEMMA PushIsolated ==
  ASSUME FramesOK, Isolated, NEW o \in Owned, physicalFreePage(pte[o].frame),
         UNCHANGED table, Owned' \subseteq Owned \ {o},
         \A p \in Owned' : pte'[p] = pte[p]
  PROVE  Isolated'
<1> DEFINE f == pte[o].frame
<1>1. CASE status[f] = "free"
  BY <1>1, StillIsolated DEF physicalFreePage, frames
<1>2. CASE status[f] # "free"
  <2>1. /\ freeEntryCnt' = freeEntryCnt + 1 /\ freeEntryCnt \in Nat
        /\ pFreeEntries'[freeEntryCnt] = f
        /\ \A i \in 0 .. freeEntryCnt-1 : pFreeEntries'[i] = pFreeEntries[i]
        /\ \A i \in 0 .. freeEntryCnt'-1 : i = freeEntryCnt \/ i \in 0 .. freeEntryCnt-1
    BY <1>2 DEF physicalFreePage, FramesOK
  <2>2. f \in 1 .. UsableFrames /\ ~OnStack(f)
    BY DEF Isolated, Exclusive
  <2>3. \A i \in 0 .. freeEntryCnt'-1 : pFreeEntries'[i] \in 1 .. UsableFrames
    BY <2>1, <2>2 DEF Isolated
  <2>4. Distinct'
    BY <2>1, <2>2 DEF Isolated, Distinct, OnStack
  <2>5. \A p \in Owned' : pte'[p].frame \in 1 .. UsableFrames /\ pte'[p].frame # f
    BY DEF Isolated, Exclusive
  <2> DEFINE Later(g) == \E i \in 0 .. freeEntryCnt'-1 : pFreeEntries'[i] = g
  <2>6. \A g : Later(g) => OnStack(g) \/ g = f
    BY <2>1 DEF OnStack
  <2>7. \A i \in Tables : table[i] # NoFrame => table[i] # f
    BY DEF Isolated, Exclusive
  <2>8. \A p \in Owned' : ~Later(pte'[p].frame)
    BY <2>5, <2>6 DEF Isolated, Exclusive
  <2>9. \A i \in Tables : table'[i] # NoFrame => ~Later(table'[i])
    BY <2>6, <2>7 DEF Isolated, Exclusive
  <2>10. Exclusive(Owned)'
    BY <2>8, <2>9 DEF Isolated, Exclusive, OnStack
  <2>11. QED
    BY <2>3, <2>4, <2>5, <2>10 DEF Isolated
<1>3. QED
  BY <1>1, <1>2

\* A stack of free frames that repeats none is no larger than the memory, and
\* not full as long as a page owns a frame.
LEMMA Interval == \A n \in Nat : IsFiniteSet(1 .. n) /\ Cardinality(1 .. n) = n
<1>1. ASSUME NEW n \in Nat
      PROVE  /\ IsFiniteSet(1 .. n)
             /\ Cardinality(1 .. n) = IF 1 > n THEN 0 ELSE n-1+1
  <2>1. 1 \in Int /\ n \in Int
    OBVIOUS
  <2>2. QED
    BY <2>1, FS_Interval, Zenon
<1>2. QED
  BY <1>1

LEMMA StackFits ==
  ASSUME FramesOK, Isolated
  PROVE  /\ freeEntryCnt <= UsableFrames
         /\ Owned # {} => freeEntryCnt < UsableFrames
<1> DEFINE n == freeEntryCnt
           g == [i \in 1 .. n |-> pFreeEntries[i-1]]
<1>1. n \in Nat /\ UsableFrames \in Nat
  BY Sizes DEF FramesOK
<1>2. /\ g \in [1 .. n -> 1 .. UsableFrames]
      /\ \A i, j \in 1 .. n : g[i] = g[j] => i = j
  <2>1. \A i \in 1 .. n : i-1 \in 0 .. n-1
    BY <1>1
  <2>2. QED
    BY <1>1, <2>1 DEF Isolated, Distinct
<1>3. /\ IsFiniteSet(1 .. n) /\ Cardinality(1 .. n) = n
      /\ IsFiniteSet(1 .. UsableFrames) /\ Cardinality(1 .. UsableFrames) = UsableFrames
  BY <1>1, Interval
<1>4. n <= UsableFrames
  <2> SUFFICES ASSUME n > UsableFrames PROVE FALSE
    BY <1>1
  <2>1. \E x, y \in 1 .. n : x # y /\ g[x] = g[y]
    <3>1. Cardinality(1 .. UsableFrames) < Cardinality(1 .. n)
      BY <1>1, <1>3
    <3> HIDE DEF n, g
    <3>2. QED
      BY <1>2, <1>3, <3>1, FS_PigeonHole
  <2>2. QED
    BY <1>2, <2>1
<1>5. ASSUME NEW p \in Owned, n = UsableFrames PROVE FALSE
  <2>1. PICK f \in 1 .. UsableFrames : f = pte[p].frame /\ ~OnStack(f)
    BY DEF Isolated, Exclusive
  <2>2. \A i \in 1 .. n : g[i] # f
    <3>1. ASSUME NEW i \in 1 .. n PROVE g[i] # f
      <4>1. i-1 \in 0 .. n-1
        BY <1>1
      <4>2. QED
        BY <2>1, <4>1 DEF OnStack
    <3>2. QED
      BY <3>1
  <2>3. g \in [1 .. n -> (1 .. UsableFrames) \ {f}]
    BY <1>2, <2>2
  <2>4. /\ IsFiniteSet((1 .. UsableFrames) \ {f})
        /\ Cardinality((1 .. UsableFrames) \ {f}) = UsableFrames - 1
    BY <1>3, FS_RemoveElement
  <2>5. \E x, y \in 1 .. n : x # y /\ g[x] = g[y]
    <3> DEFINE T == (1 .. UsableFrames) \ {f}
    <3>1. Cardinality(T) < Cardinality(1 .. n)
      BY <1>1, <1>3, <1>5, <2>4
    <3>2. g \in [1 .. n -> T] /\ IsFiniteSet(T)
      BY <2>3, <2>4
    <3> HIDE DEF n, g, T
    <3>3. QED
      BY <1>3, <3>1, <3>2, FS_PigeonHole
  <2>6. QED
    BY <1>2, <2>5
<1>6. QED
  BY <1>1, <1>4, <1>5

LEMMA UsedSome ==
  ASSUME FramesOK, Accounting, Isolated, Owned # {}
  PROVE  usedEntryCnt # 0
BY StackFits, Sizes DEF FramesOK, Accounting

-----------------------------------------------------------------------------
(* Where guards are.                                                        *)
LEMMA GuardRange ==
  ASSUME NEW b \in Nat
  PROVE  /\ PagesOf(Stack(b)) = b .. b+StackSize-1
         /\ Guards(b) \subseteq PagesOf(Stack(b)) /\ MustGuard(b) \subseteq Guards(b)
         /\ \A p \in b+Guard .. b+Guard+Reserve : p \notin MustGuard(b)
         /\ \A p \in b+Guard .. b+Guard+Reserve-1 : p \notin Guards(b)
BY Sizes DEF PagesOf, Stack, Guards, MustGuard, LowGuard, HighGuard

LEMMA RegionRange ==
  ASSUME Types, NEW r \in regions
  PROVE  /\ r \in [va : Pages, count : 1 .. MaxPage] /\ r.va \in Nat /\ r.count \in Nat
         /\ PagesOf(r) = r.va .. Top(r) /\ Top(r) \in Int /\ r.va \in Pages
BY Sizes DEF Types, PagesOK, PagesOf, Top, Pages

LEMMA StackAlive ==
  ASSUME Types, NEW s \in stacks
  PROVE  s \in regions /\ s = Stack(s.va) /\ s.va \in Nat
<1>1. s \in regions /\ s.count = StackSize
  BY DEF Types, StageOK
<1>2. s \in [va : Pages, count : 1 .. MaxPage] /\ s.va \in Nat
  BY <1>1, RegionRange
<1>3. QED
  BY <1>1, <1>2 DEF Stack

LEMMA BaseAlive ==
  ASSUME Types, NEW b \in Bases
  PROVE  b \in Nat /\ (Stack(b) \in stacks \/ (stage \notin {"none", "reserve"} /\ b = base))
<1>1. (\E s \in stacks : b = s.va) \/ (stage \notin {"none", "reserve"} /\ b = base)
  BY DEF Bases
<1>2. base \in Nat
  BY Sizes DEF Types, StageOK
<1>3. QED
  BY <1>1, <1>2, StackAlive

\* What is freed, but after a failed thread_create, is no guard.
LEMMA NoGuardFreed ==
  ASSUME Types, Layout, Stages, op.kind = "free", stage # "undo",
         NEW p \in ToFree, NEW b \in Bases
  PROVE  p \notin Guards(b)
<1>1. b \in Nat /\ (Stack(b) \in stacks \/ (stage \notin {"none", "reserve"} /\ b = base))
  BY BaseAlive
<1>2. CASE Stack(b) \in stacks
  <2>1. Stack(b) \in regions
    BY <1>2 DEF Types, StageOK
  <2>2. p \notin PagesOf(Stack(b))
    BY <2>1 DEF Layout
  <2>3. QED
    BY <1>1, <2>2, GuardRange
<1>3. CASE b = base /\ stage = "destroy"
  <2>1. /\ op.va = base + Guard /\ op.count = Reserve /\ op.done \in Nat
    BY <1>3, Sizes DEF Stages, Types, OpOK
  <2>2. p \in base+Guard .. base+Guard+Reserve-1
    BY <1>1, <1>3, <2>1, Sizes DEF ToFree
  <2>3. QED
    BY <1>1, <1>3, <2>2, GuardRange
<1>4. stage \notin {"guard", "commit"}
  BY DEF Stages
<1>5. QED
  BY <1>1, <1>2, <1>3, <1>4 DEF Types, StageOK

\* Only the pages whose entries change become somebody's.
LEMMA OwnedStep ==
  ASSUME NEW P, Bases \subseteq Bases', strays \subseteq strays',
         \A p \in Pages \ P : pte'[p] = pte[p]
  PROVE  Owned' \subseteq Owned \cup P /\ \A p \in Owned' \ P : pte'[p] = pte[p]
<1>1. ASSUME NEW p \in Owned', p \notin P PROVE p \in Owned /\ pte'[p] = pte[p]
  <2>1. pte'[p] = pte[p] /\ p \in Pages
    BY <1>1 DEF Owned
  <2>2. p \in GuardPages => p \in GuardPages'
    BY <2>1 DEF GuardPages, GuardEntry
  <2>3. QED
    BY <1>1, <2>1, <2>2 DEF Owned
<1>2. QED
  BY <1>1

(* The operation goes on to its next page, or ends.                         *)
LEMMA OpStep ==
  ASSUME OpOK, op' = [op EXCEPT !.done = @ + 1], op.done < op.count,
         op.kind \in {"alloc", "free"}, Page \in Pages
  PROVE  /\ OpOK' /\ op'.kind = op.kind /\ op'.va = op.va /\ op'.count = op.count
         /\ op'.lazy = op.lazy /\ op'.done = op.done + 1
<1>1. PICK o \in [kind : {"idle", "alloc", "free", "halted"}, va : 0 .. MaxPage,
                  count : 0 .. MaxPage, done : 0 .. MaxPage, lazy : BOOLEAN] : o = op
  BY DEF OpOK
<1>2. op' = [o EXCEPT !.done = o.done + 1]
  BY <1>1
<1>3. o.done + 1 \in 0 .. MaxPage
  BY <1>1, Sizes
<1>4. op' \in [kind : {"idle", "alloc", "free", "halted"}, va : 0 .. MaxPage,
               count : 0 .. MaxPage, done : 0 .. MaxPage, lazy : BOOLEAN]
  BY <1>2, <1>3
<1>5. /\ op'.kind = op.kind /\ op'.va = op.va /\ op'.count = op.count
      /\ op'.lazy = op.lazy /\ op'.done = op.done + 1
  BY <1>1, <1>2
<1>6. op.va >= 1 /\ op.va + op.done <= MaxPage
  BY Sizes DEF OpOK, Page, Pages
<1>7. QED
  BY <1>1, <1>3, <1>4, <1>5, <1>6, Sizes DEF OpOK

LEMMA OpIdle == ASSUME op' = Idle PROVE OpOK' /\ op'.kind = "idle"
BY Sizes DEF OpOK, Idle

-----------------------------------------------------------------------------
(* Allocation.                                                              *)
LEMMA InitInv == StackInit => StackInv
<1> SUFFICES ASSUME StackInit PROVE StackInv
  OBVIOUS
<1>1. Types
  <2>1. FramesOK
    BY Sizes DEF StackInit, Init, FramesOK, Frames
  <2>2. PagesOK
    <3>1. NoEntry \in [frame : Frames, present : BOOLEAN, lazy : BOOLEAN]
      BY Sizes DEF NoEntry, Frames
    <3>2. table \in [Tables -> Frames \cup {NoFrame}]
      BY DEF StackInit, Init
    <3>3. pte \in [Pages -> [frame : Frames, present : BOOLEAN, lazy : BOOLEAN]]
      BY <3>1 DEF StackInit, Init
    <3>4. strays \subseteq Pages
      BY DEF StackInit, Init
    <3>5. last_page_va \in 0 .. MaxPage /\ regions \subseteq [va : Pages, count : 1 .. MaxPage]
      BY Sizes DEF StackInit, Init
    <3>6. QED
      BY <3>2, <3>3, <3>4, <3>5 DEF PagesOK
  <2>3. OpOK /\ StageOK /\ Accounting
    <3>1. OpOK
      BY Sizes DEF StackInit, Init, OpOK, Idle
    <3>2. spilled \in BOOLEAN
      BY DEF StackInit
    <3>3. StageOK
      BY <3>2, Sizes DEF StackInit, Init, StageOK
    <3>4. Accounting
      BY Sizes DEF StackInit, Init, Accounting
    <3>5. QED
      BY <3>1, <3>3, <3>4
  <2>4. QED
    BY <2>1, <2>2, <2>3 DEF Types
<1>2. Layout /\ AllMapped /\ Stages
  BY Sizes DEF StackInit, Init, Idle, Layout, RegionsDisjoint, AllMapped, Stages
<1>3. Isolated
  <2>1. Owned = {} /\ \A i \in Tables : table[i] = NoFrame
    BY DEF StackInit, Init, Owned, NoEntry
  <2>2. \A i \in 0 .. freeEntryCnt-1 : pFreeEntries[i] = i+1
    BY DEF StackInit, Init
  <2>3. freeEntryCnt = UsableFrames
    BY DEF StackInit, Init
  <2>4. QED
    BY <2>1, <2>2, <2>3, Sizes DEF Isolated, Distinct, Exclusive
<1>4. Guarded
  BY DEF StackInit, Guarded
<1>5. QED
  BY <1>1, <1>2, <1>3, <1>4 DEF StackInv

LEMMA StartKeeps ==
  ASSUME StackInv, NEW n \in 1 .. MaxPage, NEW lazy \in BOOLEAN, stage = "none",
         virtualAllocPages(n, lazy),
         \/ UNCHANGED stackVars
         \/ /\ stage' = "reserve" /\ base' = last_page_va + 1 /\ n = StackSize /\ lazy
            /\ committed' = 0 /\ UNCHANGED <<stacks, spilled>>
  PROVE  StackInv'
<1>1. /\ op' = [kind |-> "alloc", va |-> last_page_va + 1, count |-> n, done |-> 0, lazy |-> lazy]
      /\ UNCHANGED <<frames, pte, table, last_page_va, regions, strays>>
      /\ last_page_va + n < MaxPage /\ op.kind = "idle"
  BY DEF virtualAllocPages
<1>2. last_page_va \in Nat /\ n \in Nat \ {0} /\ n <= MaxPage
  BY Sizes DEF StackInv, Types, PagesOK
<1>3. OpOK' /\ op'.kind = "alloc" /\ op'.va = last_page_va + 1 /\ op'.count = n
      /\ op'.done = 0 /\ op'.lazy = lazy
  BY <1>1, <1>2, Sizes DEF OpOK
<1>4. Types'
  <2>1. FramesOK' /\ PagesOK' /\ Accounting'
    BY <1>1 DEF StackInv, Types, FramesOK, PagesOK, Accounting, frames
  <2>2. StageOK'
    BY <1>1, <1>2, Sizes DEF StackInv, Types, StageOK, stackVars
  <2>3. QED
    BY <1>3, <2>1, <2>2 DEF Types
<1>5. Layout'
  <2>1. \A r \in regions : Top(r) \in Int /\ Top(r) <= last_page_va
    BY RegionRange DEF StackInv, Layout
  <2>2. /\ op'.va + op'.done = last_page_va' + 1 /\ op'.va + op'.count <= MaxPage
        /\ op'.count > 0
        /\ \A r \in regions' : Top(r) < op'.va
    <3>1. \A r \in regions' : Top(r) < last_page_va + 1
      BY <1>1, <1>2, <2>1
    <3>2. op'.va + op'.done = last_page_va' + 1 /\ op'.va + op'.count <= MaxPage
      BY <1>1, <1>2, <1>3, Sizes
    <3>3. QED
      BY <1>2, <1>3, <3>1, <3>2
  <2>3. RegionsDisjoint' /\ UNCHANGED <<pte, regions, last_page_va>>
    BY <1>1 DEF StackInv, Layout, RegionsDisjoint
  <2>4. QED
    BY <1>3, <2>2, <2>3 DEF StackInv, Layout
<1>6. AllMapped'
  BY <1>1, <1>2, <1>3 DEF StackInv, AllMapped
<1>7. Stages'
  BY <1>3 DEF StackInv, Stages, stackVars
<1>8. ~spilled' => Isolated'
  <2>1. Bases' = Bases /\ spilled' = spilled
    BY DEF Bases, stackVars
  <2>2. Owned' \subseteq Owned /\ \A p \in Owned' : pte'[p] = pte[p]
    <3>1. \A p \in Pages \ {} : pte'[p] = pte[p]
      BY <1>1
    <3>2. Owned' \subseteq Owned \cup {} /\ \A p \in Owned' \ {} : pte'[p] = pte[p]
      BY <1>1, <2>1, <3>1, OwnedStep
    <3>3. QED
      BY <3>2
  <2>3. UNCHANGED <<freeEntryCnt, pFreeEntries, table>>
    BY <1>1 DEF frames
  <2>4. QED
    BY <2>1, <2>2, <2>3, StillIsolated DEF StackInv
<1>9. Guarded'
  BY <1>1 DEF StackInv, Guarded, HasGuards, stackVars
<1>10. QED
  BY <1>4, <1>5, <1>6, <1>7, <1>8, <1>9 DEF StackInv

LEMMA AllocStepKeeps ==
  ASSUME StackInv, AllocStep, stage \in {"none", "reserve"},
         stage' = (IF stage = "reserve" /\ op'.kind = "alloc" THEN "reserve" ELSE "none"),
         UNCHANGED <<stacks, base, committed, spilled>>
  PROVE  StackInv'
<1> USE DEF StackInv
<1> DEFINE own == IF op.lazy THEN 0 ELSE 1
           need == own + NeedsTable(Page)
<1>1. op.kind = "alloc" /\ op.done < op.count
  BY DEF AllocStep
<1>2. /\ own \in 0 .. 1 /\ need \in own .. own+1 /\ need \in 0 .. 2
      /\ freeEntryCnt \in Nat
  BY DEF Types, FramesOK, NeedsTable
<1>3. /\ Page = last_page_va + 1 /\ Page \in Pages /\ Page \in Nat
      /\ \A r \in regions : Page > Top(r)
      /\ last_page_va \in Nat /\ op.va \in Nat /\ op.done \in Nat /\ op.count \in Nat
  <2>1. /\ op.va + op.done = last_page_va + 1 /\ op.va + op.count <= MaxPage
        /\ \A r \in regions : Top(r) < op.va
    BY <1>1 DEF Layout
  <2>2. op.va \in Nat /\ op.done \in Nat /\ op.count \in Nat /\ last_page_va \in Nat
    BY Sizes DEF Types, OpOK, PagesOK
  <2>3. \A r \in regions : Top(r) \in Int
    BY RegionRange
  <2>4. QED
    BY <1>1, <2>1, <2>2, <2>3, Sizes DEF Page, Pages
<1>4. Bases' = Bases /\ stage' \in {"none", "reserve"}
  BY DEF Bases
<1>5. CASE freeEntryCnt < need
  <2>1. /\ physicalAllocPages(freeEntryCnt, {}) /\ op' = Idle
        /\ UNCHANGED <<pte, table, last_page_va, regions, strays>>
    BY <1>5 DEF AllocStep, Fail
  <2>2. OpOK' /\ op'.kind = "idle" /\ stage' = "none"
    BY <2>1, OpIdle
  <2>3. Types'
    <3>1. freeEntryCnt \in 0 .. 2
      BY <1>2, <1>5
    <3>2. FramesOK' /\ Accounting'
      BY <2>1, <3>1, PopOK DEF Types
    <3>3. PagesOK' /\ StageOK'
      BY <2>1, <2>2 DEF Types, PagesOK, StageOK
    <3>4. QED
      BY <2>2, <3>2, <3>3 DEF Types
  <2>4. Layout' /\ AllMapped' /\ Stages'
    BY <2>1, <2>2 DEF Layout, RegionsDisjoint, AllMapped, Stages
  <2>5. ~spilled' => Isolated'
    <3>1. Owned' \subseteq Owned \cup {} /\ \A p \in Owned' \ {} : pte'[p] = pte[p]
      <4>1. \A p \in Pages \ {} : pte'[p] = pte[p]
        BY <2>1
      <4>2. QED
        BY <1>4, <2>1, <4>1, OwnedStep
    <3>2. freeEntryCnt \in 0 .. 2 /\ TableOf(Page) \in Tables
      BY <1>2, <1>3, <1>5, TableInside
    <3>3. /\ {} \in SUBSET Pages /\ \A p, q \in {} : p = q
          /\ \A p \in {} : freeEntryCnt > 0 /\ pte'[p].frame = Nth(1)
          /\ freeEntryCnt <= freeEntryCnt /\ table' = table
      BY <1>2, <2>1
    <3>4. QED
      BY <2>1, <3>1, <3>2, <3>3, TakeIsolated DEF Types
  <2>6. Guarded'
    BY <2>1, <2>2 DEF Guarded, HasGuards
  <2>7. QED
    BY <2>3, <2>4, <2>5, <2>6
<1>6. CASE ~(freeEntryCnt < need)
  <2>1. /\ physicalAllocPages(need, {})
        /\ table' = WithTable(Page, Nth(need))
        /\ pte' = [pte EXCEPT ![Page] =
                     IF op.lazy THEN LazyEntry
                     ELSE [frame |-> Nth(1), present |-> TRUE, lazy |-> FALSE]]
        /\ last_page_va' = Higher(Page)
        /\ op' = [op EXCEPT !.done = @ + 1]
        /\ UNCHANGED <<regions, strays>>
    BY <1>6 DEF AllocStep
  <2>2. /\ OpOK' /\ op'.kind = op.kind /\ op'.va = op.va /\ op'.count = op.count
        /\ op'.lazy = op.lazy /\ op'.done = op.done + 1
    BY <1>1, <1>3, <2>1, OpStep DEF Types
  <2>3. stage' = stage /\ last_page_va' = Page
    BY <1>1, <1>3, <2>1, <2>2 DEF Higher
  <2>4. need >= 1 => Nth(need) \in Frames
    BY <1>2, <1>6, NthOK DEF Types
  <2>5. \A p \in Pages \ {Page} : pte'[p] = pte[p]
    BY <2>1 DEF Types, PagesOK
  <2>6. /\ Mapped(pte'[Page])
        /\ pte'[Page] \in [frame : Frames, present : BOOLEAN, lazy : BOOLEAN]
        /\ ~op.lazy => pte'[Page].frame = Nth(1) /\ need > 0
        /\ op.lazy => ~pte'[Page].present
    <3>1. pte'[Page] = IF op.lazy THEN LazyEntry
                       ELSE [frame |-> Nth(1), present |-> TRUE, lazy |-> FALSE]
      BY <1>3, <2>1 DEF Types, PagesOK
    <3>2. ~op.lazy => Nth(1) \in Frames /\ need > 0
      BY <1>2, <1>6, NthOK DEF Types
    <3>3. op.lazy \in BOOLEAN /\ 0 \in Frames
      BY Sizes DEF Types, OpOK, Frames
    <3>4. QED
      BY <3>1, <3>2, <3>3 DEF LazyEntry, Mapped
  <2>7. \/ table' = table
        \/ /\ table[TableOf(Page)] = NoFrame /\ need > 0
           /\ table' = [table EXCEPT ![TableOf(Page)] = Nth(need)]
           /\ ~op.lazy => need = 2
    <3>1. PICK f : f = Nth(need)
      OBVIOUS
    <3>2. PICK t \in Tables : t = TableOf(Page)
      BY <1>3, TableInside
    <3>3. table' = [table EXCEPT ![t] = IF table[t] = NoFrame THEN f ELSE table[t]]
      BY <2>1, <3>1, <3>2 DEF WithTable
    <3>4. CASE table[t] = NoFrame
      BY <1>2, <3>1, <3>2, <3>3, <3>4 DEF NeedsTable
    <3>5. CASE table[t] # NoFrame
      BY <3>3, <3>5 DEF Types, PagesOK
    <3>6. QED
      BY <3>4, <3>5
  <2>8. Types'
    <3>1. FramesOK' /\ Accounting'
      BY <1>2, <1>6, <2>1, PopOK DEF Types
    <3>2. PagesOK'
      <4>1. pte' \in [Pages -> [frame : Frames, present : BOOLEAN, lazy : BOOLEAN]]
        BY <1>3, <2>1, <2>5, <2>6 DEF Types, PagesOK
      <4>2. table' \in [Tables -> Frames \cup {NoFrame}]
        <5>1. PICK f : f = Nth(need)
          OBVIOUS
        <5>2. PICK t : t = TableOf(Page)
          OBVIOUS
        <5>3. table' = table \/ (f \in Frames /\ table' = [table EXCEPT ![t] = f])
          BY <1>2, <2>4, <2>7, <5>1, <5>2
        <5>4. QED
          BY <5>3 DEF Types, PagesOK
      <4>3. QED
        BY <1>3, <2>1, <2>3, <4>1, <4>2 DEF Types, PagesOK, Pages
    <3>3. StageOK'
      BY <2>1, <2>3 DEF Types, StageOK
    <3>4. QED
      BY <2>2, <3>1, <3>2, <3>3 DEF Types
  <2>9. Layout'
    <3>1. \A p \in Pages : p > Page => pte'[p] = NoEntry
      BY <1>3, <2>5 DEF Layout, Pages
    <3>2. \A r \in regions : Top(r) <= Page
      BY <1>3, RegionRange
    <3>3. QED
      BY <1>1, <1>3, <2>1, <2>2, <2>3, <3>1, <3>2
         DEF Layout, RegionsDisjoint, Top, PagesOf
  <2>10. AllMapped'
    <3>1. \A r \in regions : \A p \in PagesOf(r) : p \in Pages /\ p # Page
      BY <1>3, RegionRange, Sizes DEF Types, PagesOK, Layout, Pages
    <3>2. \A p \in op.va .. op.va + op.done : p = Page \/ p \in op.va .. op.va + op.done - 1
      BY <1>3 DEF Page
    <3>3. \A p \in op.va .. op.va + op.done - 1 : p \in Pages /\ p # Page
      BY <1>1, <1>3, Sizes DEF Page, Pages, Types, OpOK
    <3>4. \A p \in op.va .. op.va + op.done : Mapped(pte'[p])
      BY <1>1, <2>5, <2>6, <3>2, <3>3 DEF AllMapped
    <3>5. \A r \in regions : \A p \in PagesOf(r) : Mapped(pte'[p])
      BY <2>5, <3>1 DEF AllMapped
    <3>6. op'.va + op'.done - 1 = op.va + op.done
      BY <1>3, <2>2
    <3>7. QED
      BY <1>1, <2>1, <2>2, <3>4, <3>5, <3>6 DEF AllMapped
  <2>11. Stages'
    BY <2>2, <2>3, <1>4 DEF Stages
  <2>12. ~spilled' => Isolated'
    <3> DEFINE P == IF op.lazy THEN {} ELSE {Page}
    <3>1. Owned' \subseteq Owned \cup {Page} /\ \A p \in Owned' \ {Page} : pte'[p] = pte[p]
      BY <1>4, <2>1, <2>5, OwnedStep
    <3>2. op.lazy => Page \notin Owned'
      BY <2>6 DEF Owned
    <3>3. Owned' \subseteq Owned \cup P /\ \A p \in Owned' \ P : pte'[p] = pte[p]
      BY <3>1, <3>2
    <3>4. /\ P \in SUBSET Pages /\ \A p, q \in P : p = q
          /\ \A p \in P : need > 0 /\ pte'[p].frame = Nth(1)
          /\ P # {} => ~op.lazy
      BY <1>3, <2>6
    <3>5. need <= freeEntryCnt /\ TableOf(Page) \in Tables
      BY <1>2, <1>3, <1>6, TableInside
    <3>6. need \in 0 .. 2 /\ physicalAllocPages(need, {})
      BY <1>2, <2>1
    <3>7. PICK t \in Tables :
            \/ table' = table
            \/ /\ table[t] = NoFrame /\ need > 0 /\ table' = [table EXCEPT ![t] = Nth(need)]
               /\ P # {} => need = 2
      BY <2>7, <3>4, <3>5
    <3> HIDE DEF P, need
    <3>8. QED
      BY <3>3, <3>4, <3>5, <3>6, <3>7, TakeIsolated DEF Types
  <2>13. Guarded'
    <3>1. ASSUME NEW s \in stacks, NEW p \in PagesOf(s) PROVE p \in Pages \ {Page}
      <4>1. s \in regions
        BY StackAlive
      <4>2. QED
        BY <1>3, <4>1, RegionRange, <3>1, Sizes DEF Types, PagesOK, Layout, Pages
    <3>2. ASSUME NEW s \in stacks
          PROVE  /\ MustGuard(s.va) \subseteq PagesOf(s)
                 /\ s.va+Guard+Reserve-1 \in PagesOf(s)
      <4>1. s.va \in Nat /\ PagesOf(s) = PagesOf(Stack(s.va))
        BY StackAlive
      <4>2. /\ PagesOf(Stack(s.va)) = s.va .. s.va+StackSize-1
            /\ MustGuard(s.va) \subseteq PagesOf(Stack(s.va))
        BY <4>1, GuardRange
      <4>3. QED
        BY <4>1, <4>2, Sizes
    <3>3. QED
      BY <1>4, <2>1, <2>5, <3>1, <3>2 DEF Guarded, HasGuards
  <2>14. QED
    BY <2>8, <2>9, <2>10, <2>11, <2>12, <2>13
<1>7. QED
  BY <1>5, <1>6

\* The pages of a region, and those of a stack.
LEMMA RegionPages ==
  ASSUME Types, Layout, NEW r \in regions
  PROVE  /\ PagesOf(r) \subseteq Pages /\ Top(r) \in PagesOf(r)
         /\ \A p \in PagesOf(r) : p <= last_page_va
<1>1. /\ r.va \in Pages /\ r.count \in 1 .. MaxPage /\ PagesOf(r) = r.va .. Top(r)
      /\ Top(r) \in Int
  BY RegionRange
<1>2. Top(r) <= last_page_va /\ last_page_va \in 0 .. MaxPage
  BY DEF Layout, Types, PagesOK
<1>3. Top(r) = r.va + r.count - 1
  BY DEF Top
<1>4. QED
  BY <1>1, <1>2, <1>3, Sizes DEF Pages

LEMMA StackPages ==
  ASSUME Types, Layout, NEW s \in stacks
  PROVE  /\ MustGuard(s.va) \subseteq PagesOf(s) /\ PagesOf(s) \subseteq Pages
         /\ s.va+Guard+Reserve-1 \in PagesOf(s) /\ s \in regions
         /\ Guards(s.va) \subseteq PagesOf(s)
<1>1. s \in regions /\ s.va \in Nat /\ PagesOf(s) = PagesOf(Stack(s.va))
  BY StackAlive
<1>2. /\ PagesOf(Stack(s.va)) = s.va .. s.va+StackSize-1
      /\ MustGuard(s.va) \subseteq PagesOf(Stack(s.va))
      /\ Guards(s.va) \subseteq PagesOf(Stack(s.va))
  BY <1>1, GuardRange
<1>3. s.va+Guard+Reserve-1 \in PagesOf(s)
  BY <1>1, <1>2, Sizes
<1>4. QED
  BY <1>1, <1>2, <1>3, RegionPages

\* Stacks keep their guards when only pages of others change.
LEMMA GuardsStay ==
  ASSUME Types, Layout, Guarded, stacks' \subseteq stacks, stage' # "commit",
         strays' = strays, NEW D, \A s \in stacks' : PagesOf(s) \cap D = {},
         \A p \in Pages \ D : pte'[p] = pte[p]
  PROVE  Guarded'
<1>1. ASSUME NEW s \in stacks'
      PROVE  /\ \A p \in MustGuard(s.va) \ strays' : pte'[p] = GuardEntry(s.va, p)
             /\ Commit > 1 => pte'[s.va+Guard+Reserve-1].present
  <2>1. /\ MustGuard(s.va) \subseteq PagesOf(s) /\ PagesOf(s) \subseteq Pages
        /\ s.va+Guard+Reserve-1 \in PagesOf(s)
    BY StackPages
  <2>2. \A p \in PagesOf(s) : pte'[p] = pte[p]
    BY <2>1
  <2>3. QED
    BY <2>1, <2>2 DEF Guarded, HasGuards
<1>2. QED
  BY <1>1 DEF Guarded, HasGuards

LEMMA AllocDoneKeeps ==
  ASSUME StackInv, AllocDone, UNCHANGED <<stacks, base, committed, spilled>>,
         \/ stage = "none" /\ stage' = "none"
         \/ stage = "reserve" /\ stage' = "guard"
  PROVE  StackInv'
<1> USE DEF StackInv
<1> DEFINE R == [va |-> op.va, count |-> op.count]
<1>1. /\ op.kind = "alloc" /\ op.done = op.count /\ op' = Idle
      /\ regions' = regions \cup {R}
      /\ UNCHANGED <<frames, pte, table, last_page_va, strays>>
  BY DEF AllocDone
<1>2. OpOK' /\ op'.kind = "idle"
  BY <1>1, OpIdle
<1>3. /\ op.va \in Nat /\ op.count \in Nat /\ last_page_va \in Nat /\ op.va >= 1
      /\ op.count > 0 /\ op.va + op.count = last_page_va + 1 /\ last_page_va < MaxPage
      /\ \A r \in regions : Top(r) < op.va
  BY <1>1, Sizes DEF Types, OpOK, PagesOK, Layout
<1>4. /\ R \in [va : Pages, count : 1 .. MaxPage] /\ R.va = op.va /\ Top(R) = last_page_va
      /\ PagesOf(R) = op.va .. op.va + op.done - 1 /\ PagesOf(R) = op.va .. last_page_va
  BY <1>1, <1>3, Sizes DEF Pages, Top, PagesOf
<1>5. R \notin regions /\ \A r \in regions : PagesOf(r) \cap PagesOf(R) = {}
  <2>1. \A r \in regions : PagesOf(r) = r.va .. Top(r) /\ Top(r) \in Int /\ r.va \in Nat
    BY RegionRange
  <2>2. Top(R) >= op.va
    BY <1>3, <1>4
  <2> HIDE DEF R
  <2>3. \A r \in regions : PagesOf(r) \cap PagesOf(R) = {}
    BY <1>3, <1>4, <2>1
  <2>4. R \notin regions
    BY <1>3, <1>4, <2>1, <2>2
  <2>5. QED
    BY <2>3, <2>4
<1> HIDE DEF R
<1>6. Types'
  <2>1. FramesOK' /\ Accounting'
    BY <1>1 DEF Types, FramesOK, Accounting, frames
  <2>2. PagesOK'
    BY <1>1, <1>4 DEF Types, PagesOK
  <2>3. StageOK'
    BY <1>1 DEF Types, StageOK
  <2>4. QED
    BY <1>2, <2>1, <2>2, <2>3 DEF Types
<1>7. Layout'
  <2>1. RegionsDisjoint'
    BY <1>1, <1>5 DEF Layout, RegionsDisjoint
  <2>2. \A r \in regions' : Top(r) <= last_page_va'
    BY <1>1, <1>3, <1>4 DEF Layout
  <2>3. \A p \in Pages : p > last_page_va' => pte'[p] = NoEntry
    BY <1>1 DEF Layout
  <2>4. QED
    BY <1>2, <2>1, <2>2, <2>3 DEF Layout
<1>8. AllMapped'
  BY <1>1, <1>2, <1>4 DEF AllMapped
<1>9. Stages'
  <2>1. CASE stage = "none"
    BY <2>1 DEF Stages
  <2>2. CASE stage = "reserve"
    <3>1. R = Stack(base) /\ committed = 0 /\ op.va = base /\ op.count = StackSize
      BY <2>2 DEF Stages, R, Stack
    <3>2. Stack(base) \in regions' \ stacks'
      BY <1>1, <1>5, <3>1 DEF Types, StageOK
    <3>3. base + StackSize - 1 = last_page_va' /\ last_page_va' < MaxPage
      BY <1>1, <1>3, <3>1
    <3>4. stage' = "guard" /\ base' = base /\ committed' = 0
      BY <2>2, <3>1
    <3>5. QED
      BY <1>2, <3>2, <3>3, <3>4 DEF Stages
  <2>3. QED
    BY <2>1, <2>2
<1>10. ~spilled' => Isolated'
  <2>1. Bases \subseteq Bases'
    BY DEF Bases
  <2>2. \A p \in Pages \ {} : pte'[p] = pte[p]
    BY <1>1
  <2>3. Owned' \subseteq Owned \cup {} /\ \A p \in Owned' \ {} : pte'[p] = pte[p]
    BY <1>1, <2>1, <2>2, OwnedStep
  <2>4. Owned' \subseteq Owned /\ \A p \in Owned' : pte'[p] = pte[p]
    BY <2>3
  <2>5. UNCHANGED <<freeEntryCnt, pFreeEntries, table>>
    BY <1>1 DEF frames
  <2>6. QED
    BY <2>4, <2>5, StillIsolated
<1>11. Guarded'
  BY <1>1 DEF Guarded, HasGuards
<1>12. QED
  BY <1>6, <1>7, <1>8, <1>9, <1>10, <1>11

LEMMA IsolatedStays ==
  ASSUME Isolated, UNCHANGED <<freeEntryCnt, pFreeEntries, table, strays>>,
         NEW P, P \cap Owned' = {}, Bases \subseteq Bases',
         \A p \in Pages \ P : pte'[p] = pte[p]
  PROVE  Isolated'
<1>1. Owned' \subseteq Owned \cup P /\ \A p \in Owned' \ P : pte'[p] = pte[p]
  BY OwnedStep
<1>2. Owned' \subseteq Owned /\ \A p \in Owned' : pte'[p] = pte[p]
  BY <1>1
<1>3. QED
  BY <1>2, StillIsolated

-----------------------------------------------------------------------------
(* Freeing.                                                                 *)
LEMMA FreeStartKeeps ==
  ASSUME StackInv, stage = "none", NEW r \in regions \ stacks, virtualFreePages(r),
         UNCHANGED stackVars
  PROVE  StackInv'
<1> USE DEF StackInv
<1>1. /\ op.kind = "idle" /\ regions' = regions \ {r}
      /\ op' = [kind |-> "free", va |-> r.va, count |-> r.count, done |-> 0, lazy |-> FALSE]
      /\ UNCHANGED <<frames, pte, table, last_page_va, strays>>
      /\ UNCHANGED <<stacks, stage, base, committed, spilled>>
  BY DEF virtualFreePages, stackVars
<1>2. /\ op'.kind = "free" /\ op'.va = r.va /\ op'.count = r.count /\ op'.done = 0
  BY <1>1
<1>3. /\ r.va \in Pages /\ r.count \in 1 .. MaxPage /\ PagesOf(r) = r.va .. Top(r)
      /\ Top(r) = r.va + r.count - 1 /\ Top(r) <= last_page_va
      /\ last_page_va \in 0 .. MaxPage
  BY RegionRange DEF Top, Layout, Types, PagesOK
<1>4. OpOK'
  BY <1>1, <1>3, Sizes DEF OpOK, Pages
<1>5. ToFree' = PagesOf(r)
  BY <1>2, <1>3, Sizes DEF ToFree, Pages
<1>6. Types'
  <2>1. FramesOK' /\ Accounting'
    BY <1>1 DEF Types, FramesOK, Accounting, frames
  <2>2. PagesOK' /\ StageOK'
    BY <1>1 DEF Types, PagesOK, StageOK
  <2>3. QED
    BY <1>4, <2>1, <2>2 DEF Types
<1>7. Layout'
  <2>1. RegionsDisjoint' /\ \A q \in regions' : PagesOf(q) \cap ToFree' = {}
    BY <1>1, <1>5 DEF Layout, RegionsDisjoint
  <2>2. op'.va + op'.count - 1 <= last_page_va'
    BY <1>1, <1>2, <1>3
  <2>3. QED
    BY <1>1, <1>2, <2>1, <2>2 DEF Layout
<1>8. AllMapped'
  BY <1>1, <1>2, <1>5 DEF AllMapped
<1>9. Stages'
  BY <1>1 DEF Stages
<1>10. ~spilled' => Isolated'
  <2>1. Bases' = Bases /\ \A p \in Pages \ {} : pte'[p] = pte[p]
    BY <1>1 DEF Bases
  <2>2. UNCHANGED <<freeEntryCnt, pFreeEntries, table, strays>>
    BY <1>1 DEF frames
  <2>3. {} \cap Owned' = {} /\ spilled' = spilled
    BY <1>1
  <2>4. QED
    BY <2>1, <2>2, <2>3, IsolatedStays
<1>11. Guarded'
  BY <1>1 DEF Guarded, HasGuards
<1>12. QED
  BY <1>6, <1>7, <1>8, <1>9, <1>10, <1>11

\* Where a page to be freed is.
LEMMA FreePage ==
  ASSUME Types, op.kind = "free", op.done < op.count, Page \in Pages
  PROVE  /\ Page \in ToFree /\ ToFree \ {Page} = Page + 1 .. op.va + op.count - 1
         /\ op.va \in Nat /\ op.count \in Nat /\ op.done \in Nat
BY Sizes DEF Types, OpOK, Page, ToFree, Pages

\* The freeing ends early.
LEMMA FailKeeps ==
  ASSUME Types, Layout, AllMapped, Guarded, Fail, stage' = "none",
         FramesOK', Accounting', UNCHANGED <<stacks, base, committed, spilled>>
  PROVE  Types' /\ Layout' /\ AllMapped' /\ Stages' /\ Guarded'
<1>1. op' = Idle /\ UNCHANGED <<pte, table, last_page_va, regions, strays>>
  BY DEF Fail
<1>2. OpOK' /\ op'.kind = "idle"
  BY <1>1, OpIdle
<1>3. PagesOK' /\ StageOK'
  BY <1>1 DEF Types, PagesOK, StageOK
<1>4. Types'
  BY <1>2, <1>3 DEF Types
<1>5. Layout' /\ AllMapped' /\ Stages'
  BY <1>1, <1>2 DEF Layout, RegionsDisjoint, AllMapped, Stages
<1>6. Guarded'
  BY <1>1 DEF Guarded, HasGuards
<1>7. QED
  BY <1>4, <1>5, <1>6

\* One page of a region the caller owned, or of a destroyed stack.
LEMMA FreeStepKeeps ==
  ASSUME StackInv, FreeStep, stage \in {"none", "destroy"},
         stage' = (IF stage = "destroy" /\ op'.kind = "free" THEN "destroy" ELSE "none"),
         UNCHANGED <<stacks, base, committed, spilled>>
  PROVE  StackInv'
<1> USE DEF StackInv
<1>1. op.kind = "free" /\ op.done < op.count
  BY DEF FreeStep
<1>2. Page \in Pages
  <2>1. /\ op.va \in Nat /\ op.done \in Nat /\ op.count \in Nat /\ op.va >= 1
        /\ op.va + op.count - 1 <= last_page_va /\ last_page_va \in 0 .. MaxPage
    BY <1>1, Sizes DEF Types, OpOK, PagesOK, Layout
  <2>2. QED
    BY <1>1, <2>1, Sizes DEF Page, Pages
<1>3. /\ Page \in ToFree /\ ToFree \ {Page} = Page + 1 .. op.va + op.count - 1
      /\ op.va \in Nat /\ op.count \in Nat /\ op.done \in Nat
  BY <1>1, <1>2, FreePage
<1>4. Mapped(pte[Page])
  BY <1>1, <1>3 DEF AllMapped
<1>5. PICK e \in [frame : Frames, present : BOOLEAN, lazy : BOOLEAN] : e = pte[Page]
  BY <1>2 DEF Types, PagesOK
<1>6. Page \notin GuardPages
  BY <1>1, <1>3, NoGuardFreed DEF GuardPages
<1>7. ~e.lazy => Page \in Owned
  BY <1>2, <1>4, <1>5, <1>6 DEF Owned, Mapped
<1>8. CASE ~pte[Page].lazy /\ usedEntryCnt = 0 /\ Fail /\ UNCHANGED frames
  <2>1. FramesOK' /\ Accounting'
    BY <1>8 DEF Types, FramesOK, Accounting, frames
  <2>2. stage' = "none"
    BY <1>8 DEF Fail, Idle
  <2>3. spilled
    BY <1>5, <1>7, <1>8, UsedSome DEF Types
  <2>4. QED
    BY <1>8, <2>1, <2>2, <2>3, FailKeeps
<1>9. CASE /\ Mapped(pte[Page]) /\ GiveBack
           /\ pte' = [pte EXCEPT ![Page] = NoEntry]
           /\ op' = [op EXCEPT !.done = @ + 1]
           /\ UNCHANGED <<table, last_page_va, regions, strays>>
  <2>1. /\ OpOK' /\ op'.kind = op.kind /\ op'.va = op.va /\ op'.count = op.count
        /\ op'.done = op.done + 1
    BY <1>1, <1>2, <1>9, OpStep DEF Types
  <2>2. stage' = stage /\ Bases' = Bases
    BY <1>1, <2>1 DEF Bases
  <2>3. /\ \A p \in Pages \ {Page} : pte'[p] = pte[p]
        /\ pte'[Page] = NoEntry
    BY <1>2, <1>9 DEF Types, PagesOK
  <2>4. ToFree' = ToFree \ {Page}
    BY <1>3, <2>1 DEF ToFree, Page
  <2>5. Types'
    <3>1. FramesOK' /\ Accounting'
      BY <1>2, <1>9, GiveBackOK
    <3>2. NoEntry \in [frame : Frames, present : BOOLEAN, lazy : BOOLEAN]
      BY Sizes DEF NoEntry, Frames
    <3>3. PagesOK'
      BY <1>9, <3>2 DEF Types, PagesOK
    <3>4. StageOK'
      BY <1>9, <2>2 DEF Types, StageOK
    <3>5. QED
      BY <2>1, <3>1, <3>3, <3>4 DEF Types
  <2>6. Layout'
    <3>1. \A p \in Pages : p > last_page_va => pte'[p] = NoEntry
      BY <2>3 DEF Layout
    <3>2. \A r \in regions : PagesOf(r) \cap ToFree' = {}
      BY <1>1, <2>4 DEF Layout
    <3>3. QED
      BY <1>1, <1>9, <2>1, <2>2, <3>1, <3>2 DEF Layout, RegionsDisjoint
  <2>7. AllMapped'
    <3>1. \A r \in regions : \A p \in PagesOf(r) : p \in Pages \ {Page}
      BY <1>1, <1>3, RegionPages DEF Layout
    <3>2. \A r \in regions : \A p \in PagesOf(r) : Mapped(pte'[p])
      BY <2>3, <3>1 DEF AllMapped
    <3>3. \A p \in ToFree' : p \in Pages \ {Page}
      <4>1. /\ op.va + op.count - 1 <= last_page_va /\ last_page_va \in 0 .. MaxPage
        BY <1>1, Sizes DEF Types, PagesOK, Layout
      <4>2. QED
        BY <1>2, <1>3, <2>4, <4>1, Sizes DEF Pages
    <3>4. \A p \in ToFree' : Mapped(pte'[p])
      BY <1>1, <2>3, <2>4, <3>3 DEF AllMapped
    <3>5. QED
      BY <1>1, <1>9, <2>1, <2>2, <3>2, <3>4 DEF AllMapped
  <2>8. Stages'
    BY <1>9, <2>1, <2>2 DEF Stages
  <2>9. ~spilled' => Isolated'
    <3> SUFFICES ASSUME Isolated PROVE Isolated'
      OBVIOUS
    <3>1. Page \notin Owned'
      BY <2>3 DEF Owned, NoEntry
    <3>2. CASE e.lazy
      <4>1. UNCHANGED <<freeEntryCnt, pFreeEntries, table, strays>>
        BY <1>5, <1>9, <3>2 DEF GiveBack, frames
      <4>2. {Page} \cap Owned' = {}
        BY <3>1
      <4>3. QED
        BY <2>2, <2>3, <4>1, <4>2, IsolatedStays
    <3>3. CASE ~e.lazy
      <4>1. physicalFreePage(pte[Page].frame)
        BY <1>5, <1>9, <3>3 DEF GiveBack
      <4>2. Owned' \subseteq Owned \cup {Page} /\ \A p \in Owned' \ {Page} : pte'[p] = pte[p]
        BY <1>9, <2>2, <2>3, OwnedStep
      <4>3. Owned' \subseteq Owned \ {Page} /\ \A p \in Owned' : pte'[p] = pte[p]
        BY <3>1, <4>2
      <4>4. QED
        BY <1>7, <1>9, <3>3, <4>1, <4>3, PushIsolated DEF Types
    <3>4. QED
      BY <3>2, <3>3
  <2>10. Guarded'
    <3>1. \A s \in stacks' : PagesOf(s) \cap {Page} = {}
      BY <1>1, <1>3, StackPages DEF Layout
    <3>2. QED
      BY <1>9, <2>2, <2>3, <3>1, GuardsStay
  <2>11. QED
    BY <2>5, <2>6, <2>7, <2>8, <2>9, <2>10
<1>10. QED
  BY <1>4, <1>8, <1>9 DEF FreeStep

LEMMA FreeDoneKeeps ==
  ASSUME StackInv, FreeDone, stage = "none", UNCHANGED stackVars
  PROVE  StackInv'
<1> USE DEF StackInv
<1>1. /\ op' = Idle /\ UNCHANGED <<frames, pte, table, last_page_va, regions, strays>>
      /\ UNCHANGED <<stacks, stage, base, committed, spilled>>
  BY DEF FreeDone, stackVars
<1>2. Fail /\ stage' = "none" /\ UNCHANGED <<status, freeEntryCnt, usedEntryCnt, pFreeEntries>>
  BY <1>1 DEF Fail, frames
<1>3. FramesOK' /\ Accounting'
  BY <1>2 DEF Types, FramesOK, Accounting
<1>4. Types' /\ Layout' /\ AllMapped' /\ Stages' /\ Guarded'
  BY <1>1, <1>2, <1>3, FailKeeps
<1>5. ~spilled' => Isolated'
  <2>1. Bases' = Bases /\ \A p \in Pages \ {} : pte'[p] = pte[p]
    BY <1>1 DEF Bases
  <2>2. {} \cap Owned' = {} /\ spilled' = spilled
    BY <1>1
  <2>3. UNCHANGED <<freeEntryCnt, pFreeEntries, table, strays>>
    BY <1>1, <1>2
  <2>4. QED
    BY <2>1, <2>2, <2>3, IsolatedStays
<1>6. QED
  BY <1>4, <1>5

-----------------------------------------------------------------------------
(* The page fault.                                                          *)
LEMMA TouchedPage ==
  ASSUME Types, Layout, Guarded, NEW p, Touched(p)
  PROVE  /\ p \in Pages /\ p <= last_page_va /\ op.kind = "idle"
         /\ \A s \in stacks : p \in MustGuard(s.va) => p \in strays
<1>1. PICK r \in regions : p \in PagesOf(r)
  BY DEF Touched
<1>2. p \in Pages /\ p <= last_page_va
  BY <1>1, RegionPages
<1>3. ~pte[p].present /\ op.kind = "idle"
  BY DEF Touched
<1>4. ASSUME NEW s \in stacks, p \in MustGuard(s.va), p \notin strays PROVE FALSE
  <2>1. pte[p] = GuardEntry(s.va, p)
    BY <1>4 DEF Guarded, HasGuards
  <2>2. QED
    BY <1>3, <2>1 DEF GuardEntry
<1>5. QED
  BY <1>2, <1>3, <1>4

LEMMA FaultAlignedKeeps ==
  ASSUME StackInv, stage = "none", NEW p, FaultAligned(p), UNCHANGED stackVars
  PROVE  StackInv'
<1> USE DEF StackInv
<1>1. /\ freeEntryCnt > 0 /\ physicalAllocPages(1, {})
      /\ pte' = [pte EXCEPT ![p] = Backed(Nth(1))]
      /\ UNCHANGED <<table, last_page_va, regions, op, strays>>
      /\ UNCHANGED <<stacks, stage, base, committed, spilled>>
  BY DEF FaultAligned, stackVars
<1>2. /\ p \in Pages /\ p <= last_page_va /\ op.kind = "idle"
      /\ \A s \in stacks : p \in MustGuard(s.va) => p \in strays
  BY TouchedPage DEF FaultAligned
<1>3. freeEntryCnt \in Nat /\ 1 <= freeEntryCnt /\ Nth(1) \in Frames
  BY <1>1, NthOK DEF Types, FramesOK
<1>4. PICK f \in Frames : f = Nth(1)
  BY <1>3
<1>5. /\ \A q \in Pages \ {p} : pte'[q] = pte[q]
      /\ pte'[p] = Backed(f) /\ Backed(f) \in [frame : Frames, present : BOOLEAN, lazy : BOOLEAN]
      /\ pte'[p].present /\ pte'[p].frame = f /\ Mapped(pte'[p])
  BY <1>1, <1>2, <1>4 DEF Types, PagesOK, Backed, Mapped
<1>6. Types'
  <2>1. FramesOK' /\ Accounting'
    BY <1>1, <1>3, PopOK DEF Types
  <2>2. PagesOK'
    BY <1>1, <1>4, <1>5 DEF Types, PagesOK
  <2>3. OpOK' /\ StageOK'
    BY <1>1 DEF Types, OpOK, StageOK
  <2>4. QED
    BY <2>1, <2>2, <2>3 DEF Types
<1>7. Layout'
  <2>1. \A q \in Pages : q > last_page_va => pte'[q] = NoEntry
    BY <1>2, <1>5 DEF Layout, Pages, Types, PagesOK
  <2>2. QED
    BY <1>1, <1>2, <2>1 DEF Layout, RegionsDisjoint
<1>8. AllMapped'
  <2>1. \A r \in regions : PagesOf(r) \subseteq Pages
    BY RegionPages
  <2>2. QED
    BY <1>1, <1>2, <1>5, <2>1 DEF AllMapped
<1>9. Stages'
  BY <1>1 DEF Stages
<1>10. ~spilled' => Isolated'
  <2>1. Bases' = Bases
    BY <1>1 DEF Bases
  <2>2. Owned' \subseteq Owned \cup {p} /\ \A q \in Owned' \ {p} : pte'[q] = pte[q]
    BY <1>1, <1>5, <2>1, OwnedStep
  <2>3. /\ 1 \in 0 .. 2 /\ TableOf(p) \in Tables /\ {p} \in SUBSET Pages
        /\ \A q, t \in {p} : q = t
        /\ \A q \in {p} : 1 > 0 /\ pte'[q].frame = Nth(1)
    BY <1>2, <1>4, <1>5, TableInside
  <2>4. QED
    BY <1>1, <1>3, <2>2, <2>3, TakeIsolated DEF Types
<1>11. Guarded'
  <2>1. \A s \in stacks : /\ MustGuard(s.va) \subseteq PagesOf(s) /\ PagesOf(s) \subseteq Pages
                          /\ s.va+Guard+Reserve-1 \in PagesOf(s)
    BY StackPages
  <2>2. ASSUME NEW s \in stacks PROVE HasGuards(s.va)'
    BY <1>1, <1>2, <1>5, <2>1 DEF Guarded, HasGuards
  <2>3. ASSUME NEW s \in stacks, Commit > 1 PROVE pte'[s.va+Guard+Reserve-1].present
    BY <1>5, <2>1, <2>3 DEF Guarded
  <2>4. QED
    BY <1>1, <2>2, <2>3 DEF Guarded, HasGuards
<1>12. QED
  BY <1>6, <1>7, <1>8, <1>9, <1>10, <1>11

LEMMA FaultInsideKeeps ==
  ASSUME StackInv, stage = "none", NEW p, FaultInside(p), UNCHANGED stackVars
  PROVE  StackInv'
<1> USE DEF StackInv
<1> DEFINE need == 1 + NeedsTable(p+1)
<1>1. /\ p < MaxPage /\ Touched(p) /\ freeEntryCnt >= need /\ Nth(1) < LastFrame
      /\ physicalAllocPages(need, {Nth(1) + 1})
      /\ table' = WithTable(p+1, Nth(need))
      /\ pte' = [pte EXCEPT ![p] = Backed(Nth(1)), ![p+1] = Backed(Nth(1) + 1)]
      /\ last_page_va' = Higher(p+1)
      /\ strays' = strays \cup {p+1} /\ UNCHANGED <<regions, op>>
      /\ UNCHANGED <<stacks, stage, base, committed, spilled>>
  BY DEF FaultInside, stackVars
<1>2. /\ p \in Pages /\ p <= last_page_va /\ op.kind = "idle" /\ last_page_va \in 0 .. MaxPage
  BY <1>1, TouchedPage DEF Types, PagesOK
<1>3. p+1 \in Pages /\ p+1 # p /\ p+1 \in Nat
  BY <1>1, <1>2, Sizes DEF Pages
<1>4. freeEntryCnt \in Nat /\ need \in 1 .. 2 /\ need <= freeEntryCnt
  BY <1>1 DEF Types, FramesOK, NeedsTable
<1>5. Nth(1) \in Frames /\ Nth(need) \in Frames
  BY <1>4, NthOK DEF Types
<1>6. PICK f \in Frames : f = Nth(1) /\ f + 1 \in Frames
  BY <1>1, <1>5, Sizes DEF Frames
<1>7. PICK k \in Frames : k = Nth(need)
  BY <1>5
<1>8. /\ \A q \in Pages \ {p, p+1} : pte'[q] = pte[q]
      /\ pte'[p] = Backed(f) /\ pte'[p+1] = Backed(f+1)
  BY <1>1, <1>2, <1>3, <1>6 DEF Types, PagesOK
<1>9. \A g \in Frames : /\ Backed(g) \in [frame : Frames, present : BOOLEAN, lazy : BOOLEAN]
                        /\ Backed(g).lazy /\ Mapped(Backed(g))
  BY DEF Backed, Mapped
<1>10. /\ last_page_va' \in 0 .. MaxPage /\ last_page_va' >= last_page_va
       /\ last_page_va' >= p+1
  BY <1>1, <1>2, <1>3, Sizes DEF Higher, Pages
<1>11. PICK t \in Tables : t = TableOf(p+1)
  BY <1>3, TableInside
<1>12. \/ table' = table
       \/ table[t] = NoFrame /\ table' = [table EXCEPT ![t] = k]
  <2>1. table' = [table EXCEPT ![t] = IF table[t] = NoFrame THEN k ELSE table[t]]
    BY <1>1, <1>7, <1>11 DEF WithTable
  <2>2. CASE table[t] = NoFrame
    BY <2>1, <2>2
  <2>3. CASE table[t] # NoFrame
    BY <2>1, <2>3 DEF Types, PagesOK
  <2>4. QED
    BY <2>2, <2>3
<1> HIDE DEF need
<1>13. Types'
  <2>1. FramesOK' /\ Accounting'
    BY <1>1, <1>4, PopOK DEF Types
  <2>2. pte' \in [Pages -> [frame : Frames, present : BOOLEAN, lazy : BOOLEAN]]
    BY <1>1, <1>6, <1>8, <1>9 DEF Types, PagesOK
  <2>3. table' \in [Tables -> Frames \cup {NoFrame}]
    BY <1>12 DEF Types, PagesOK
  <2>4. PagesOK'
    BY <1>1, <1>10, <2>2, <2>3 DEF Types, PagesOK
  <2>5. OpOK' /\ StageOK'
    BY <1>1 DEF Types, OpOK, StageOK
  <2>6. QED
    BY <2>1, <2>4, <2>5 DEF Types
<1>14. Layout'
  <2>1. \A q \in Pages : q > last_page_va' => q > last_page_va /\ q \notin {p, p+1}
    BY <1>2, <1>3, <1>10 DEF Pages
  <2>2. \A q \in Pages : q > last_page_va' => pte'[q] = NoEntry
    BY <1>8, <2>1 DEF Layout
  <2>3. \A r \in regions : Top(r) <= last_page_va'
    BY <1>2, <1>10, RegionRange DEF Layout
  <2>4. QED
    BY <1>1, <1>2, <2>2, <2>3 DEF Layout, RegionsDisjoint
<1>15. AllMapped'
  <2>1. \A r \in regions : PagesOf(r) \subseteq Pages
    BY RegionPages
  <2>2. \A q \in Pages : Mapped(pte[q]) => Mapped(pte'[q])
    BY <1>6, <1>8, <1>9
  <2>3. QED
    BY <1>1, <1>2, <2>1, <2>2 DEF AllMapped
<1>16. Stages'
  BY <1>1 DEF Stages
<1>17. ~spilled' => Isolated'
  <2>1. ASSUME NEW q \in Owned', q # p PROVE q \in Owned /\ pte'[q] = pte[q]
    <3>1. /\ q \in Pages /\ pte'[q].present /\ q \notin GuardPages'
          /\ q \in strays' => ~pte'[q].lazy
      BY DEF Owned
    <3>2. q # p+1
      BY <1>1, <1>6, <1>8, <1>9, <3>1
    <3>3. pte'[q] = pte[q]
      BY <1>8, <2>1, <3>1, <3>2
    <3>4. q \notin GuardPages
      BY <1>1, <3>1, <3>3 DEF GuardPages, GuardEntry, Bases
    <3>5. QED
      BY <1>1, <3>1, <3>3, <3>4 DEF Owned
  <2>2. /\ need \in 0 .. 2 /\ {p} \in SUBSET Pages /\ \A q, s \in {p} : q = s
        /\ \A q \in {p} : need > 0 /\ pte'[q].frame = Nth(1)
        /\ Owned' \subseteq Owned \cup {p} /\ \A q \in Owned' \ {p} : pte'[q] = pte[q]
    <3>1. pte'[p].frame = Nth(1)
      BY <1>6, <1>8 DEF Backed
    <3>2. QED
      BY <1>2, <1>4, <2>1, <3>1
  <2>3. \/ table' = table
        \/ /\ table[t] = NoFrame /\ need > 0 /\ table' = [table EXCEPT ![t] = Nth(need)]
           /\ {p} # {} => need = 2
    <3>1. need = 2 \/ table' = table
      BY <1>1, <1>4, <1>11, <1>12 DEF need, NeedsTable
    <3>2. QED
      BY <1>4, <1>7, <1>12, <3>1
  <2>4. /\ FramesOK /\ PagesOK /\ (~spilled' => Isolated)
        /\ need <= freeEntryCnt /\ physicalAllocPages(need, {Nth(1) + 1})
    BY <1>1, <1>4 DEF Types
  <2>5. \A q, s \in {p} : q = s
    OBVIOUS
  <2>6. {p} \in SUBSET Pages /\ need \in 0 .. 2
    BY <2>2
  <2>7. QED
    BY <2>2, <2>3, <2>4, <2>5, <2>6, TakeIsolated
<1>18. Guarded'
  <2>1. \A s \in stacks : /\ MustGuard(s.va) \subseteq PagesOf(s) /\ PagesOf(s) \subseteq Pages
                          /\ s.va+Guard+Reserve-1 \in PagesOf(s)
    BY StackPages
  <2>2. ASSUME NEW s \in stacks, NEW q \in MustGuard(s.va) \ strays'
        PROVE  pte'[q] = GuardEntry(s.va, q)
    <3>1. q \in Pages /\ q \notin strays /\ q # p+1 /\ q # p
      BY <1>1, <2>1, <2>2, TouchedPage
    <3>2. QED
      BY <1>8, <2>2, <3>1 DEF Guarded, HasGuards
  <2>3. ASSUME NEW s \in stacks, Commit > 1 PROVE pte'[s.va+Guard+Reserve-1].present
    <3>1. s.va+Guard+Reserve-1 \in Pages /\ pte[s.va+Guard+Reserve-1].present
      BY <2>1, <2>3 DEF Guarded
    <3>2. pte'[p].present /\ pte'[p+1].present
      BY <1>6, <1>8 DEF Backed
    <3>3. QED
      BY <1>8, <3>1, <3>2
  <2>4. QED
    BY <1>1, <2>2, <2>3 DEF Guarded, HasGuards
<1>19. QED
  BY <1>1, <1>13, <1>14, <1>15, <1>16, <1>17, <1>18

LEMMA FaultHaltKeeps ==
  ASSUME StackInv, stage = "none", NEW p, FaultHalt(p), UNCHANGED stackVars
  PROVE  StackInv'
<1> USE DEF StackInv
<1>1. /\ op' = [Idle EXCEPT !.kind = "halted"]
      /\ UNCHANGED <<pte, table, last_page_va, regions, strays>>
      /\ UNCHANGED <<stacks, stage, base, committed, spilled>>
  BY DEF FaultHalt, stackVars
<1>2. UNCHANGED frames \/ (freeEntryCnt = 1 /\ physicalAllocPages(1, {}))
  BY DEF FaultHalt
<1>3. OpOK' /\ op'.kind = "halted"
  <2>1. op' = [kind |-> "halted", va |-> 0, count |-> 0, done |-> 0, lazy |-> FALSE]
    BY <1>1 DEF Idle
  <2>2. QED
    BY <2>1, Sizes DEF OpOK
<1>4. Types'
  <2>1. FramesOK' /\ Accounting'
    <3>1. CASE UNCHANGED frames
      BY <3>1 DEF Types, FramesOK, Accounting, frames
    <3>2. CASE freeEntryCnt = 1 /\ physicalAllocPages(1, {})
      BY <3>2, PopOK DEF Types
    <3>3. QED
      BY <1>2, <3>1, <3>2
  <2>2. PagesOK' /\ StageOK'
    BY <1>1 DEF Types, PagesOK, StageOK
  <2>3. QED
    BY <1>3, <2>1, <2>2 DEF Types
<1>5. Layout' /\ AllMapped' /\ Stages'
  BY <1>1, <1>3 DEF Layout, RegionsDisjoint, AllMapped, Stages
<1>6. ~spilled' => Isolated'
  <2>1. Bases' = Bases /\ \A q \in Pages \ {} : pte'[q] = pte[q]
    BY <1>1 DEF Bases
  <2>2. CASE UNCHANGED frames
    <3>1. {} \cap Owned' = {} /\ Bases \subseteq Bases'
      BY <2>1
    <3>2. UNCHANGED <<freeEntryCnt, pFreeEntries, table, strays, spilled>>
      BY <1>1, <2>2 DEF frames
    <3>3. QED
      BY <2>1, <3>1, <3>2, IsolatedStays
  <2>3. CASE freeEntryCnt = 1 /\ physicalAllocPages(1, {})
    <3>1. Owned' \subseteq Owned \cup {} /\ \A q \in Owned' \ {} : pte'[q] = pte[q]
      BY <1>1, <2>1, OwnedStep
    <3>2. /\ {} \in SUBSET Pages /\ \A q, s \in {} : q = s /\ 1 \in 0 .. 2
          /\ \A q \in {} : 1 > 0 /\ pte'[q].frame = Nth(1)
      OBVIOUS
    <3>3. 1 <= freeEntryCnt /\ table' = table /\ spilled' = spilled
      BY <1>1, <2>3
    <3>4. PICK i \in Tables : TRUE
      BY Sizes DEF Tables
    <3>5. QED
      BY <2>3, <3>1, <3>2, <3>3, <3>4, TakeIsolated DEF Types
  <2>4. QED
    BY <1>2, <2>2, <2>3
<1>7. Guarded'
  BY <1>1 DEF Guarded, HasGuards
<1>8. QED
  BY <1>4, <1>5, <1>6, <1>7

-----------------------------------------------------------------------------
(* thread_create.                                                           *)
\* The region of the stack that is being made is apart from the others.
LEMMA BaseApart ==
  ASSUME Types, Layout, Stages, stage \in {"guard", "commit"}
  PROVE  /\ op.kind = "idle" /\ Stack(base) \in regions \ stacks /\ base \in Pages
         /\ base \in Nat /\ base + StackSize - 1 = last_page_va /\ last_page_va < MaxPage
         /\ last_page_va \in Nat
         /\ PagesOf(Stack(base)) = base .. last_page_va
         /\ Guards(base) \subseteq PagesOf(Stack(base))
         /\ PagesOf(Stack(base)) \subseteq Pages
         /\ \A r \in regions \ {Stack(base)} : PagesOf(r) \cap PagesOf(Stack(base)) = {}
         /\ \A s \in stacks : PagesOf(s) \cap PagesOf(Stack(base)) = {}
         /\ base \in Bases
<1>1. /\ op.kind = "idle" /\ Stack(base) \in regions \ stacks
      /\ base + StackSize - 1 = last_page_va /\ last_page_va < MaxPage
  BY DEF Stages
<1>2. base \in Nat /\ last_page_va \in Nat
  BY Sizes DEF Types, StageOK, PagesOK
<1>3. /\ PagesOf(Stack(base)) = base .. last_page_va
      /\ Guards(base) \subseteq PagesOf(Stack(base))
  BY <1>1, <1>2, GuardRange
<1>4. PagesOf(Stack(base)) \subseteq Pages /\ base \in Pages
  <2>1. Stack(base).va = base
    BY DEF Stack
  <2>2. QED
    BY <1>1, <2>1, RegionPages, RegionRange
<1>5. \A r \in regions \ {Stack(base)} : PagesOf(r) \cap PagesOf(Stack(base)) = {}
  BY <1>1 DEF Layout, RegionsDisjoint
<1>6. \A s \in stacks : s \in regions \ {Stack(base)}
  BY <1>1 DEF Types, StageOK
<1>7. base \in Bases
  BY DEF Bases
<1>8. QED
  BY <1>1, <1>2, <1>3, <1>4, <1>5, <1>6, <1>7

LEMMA MapGuardsKeeps == ASSUME StackInv, MapGuards PROVE StackInv'
<1> USE DEF StackInv
<1>1. /\ stage = "guard" /\ stage' = "commit"
      /\ pte' = [p \in Pages |-> IF p \in Guards(base) THEN GuardEntry(base, p) ELSE pte[p]]
      /\ status' = [f \in Frames |-> IF f < Guard THEN "inuse" ELSE status[f]]
      /\ UNCHANGED <<pFreeEntries, freeEntryCnt, usedEntryCnt, table, last_page_va>>
      /\ UNCHANGED <<regions, op, strays, stacks, base, committed, spilled>>
  BY DEF MapGuards
<1>2. /\ op.kind = "idle" /\ Stack(base) \in regions \ stacks /\ base \in Nat
      /\ Guards(base) \subseteq PagesOf(Stack(base)) /\ PagesOf(Stack(base)) \subseteq Pages
      /\ PagesOf(Stack(base)) = base .. last_page_va /\ last_page_va \in Nat
      /\ \A s \in stacks : PagesOf(s) \cap PagesOf(Stack(base)) = {}
      /\ base \in Bases
      /\ base + StackSize - 1 = last_page_va /\ last_page_va < MaxPage
  BY <1>1, BaseApart
<1>3. committed = 0
  BY <1>1 DEF Stages
<1>4. ASSUME NEW p \in Guards(base)
      PROVE  /\ GuardEntry(base, p) \in [frame : Frames, present : BOOLEAN, lazy : BOOLEAN]
             /\ GuardEntry(base, p).present
  <2>1. p \in LowGuard(base) => p - base \in Frames
    BY <1>2, Sizes DEF LowGuard, Frames
  <2>2. p \notin LowGuard(base) => p - (base+Guard+Reserve) \in Frames
    BY <1>2, Sizes DEF Guards, HighGuard, Frames, StackSize
  <2>3. QED
    BY <2>1, <2>2 DEF GuardEntry
<1>5. /\ \A p \in Pages \ Guards(base) : pte'[p] = pte[p]
      /\ \A p \in Guards(base) : p \in Pages /\ pte'[p] = GuardEntry(base, p)
  BY <1>1, <1>2
<1>6. Types'
  <2>1. FramesOK' /\ Accounting'
    BY <1>1 DEF Types, FramesOK, Accounting
  <2>2. pte' \in [Pages -> [frame : Frames, present : BOOLEAN, lazy : BOOLEAN]]
    BY <1>1, <1>4 DEF Types, PagesOK
  <2>3. PagesOK'
    BY <1>1, <2>2 DEF Types, PagesOK
  <2>4. OpOK' /\ StageOK'
    BY <1>1 DEF Types, OpOK, StageOK
  <2>5. QED
    BY <2>1, <2>3, <2>4 DEF Types
<1>7. Layout'
  <2>1. \A p \in Pages : p > last_page_va => p \notin Guards(base)
    BY <1>2
  <2>2. \A p \in Pages : p > last_page_va => pte'[p] = NoEntry
    BY <1>5, <2>1 DEF Layout
  <2>3. QED
    BY <1>1, <1>2, <2>2 DEF Layout, RegionsDisjoint
<1>8. AllMapped'
  <2>1. \A r \in regions : PagesOf(r) \subseteq Pages
    BY RegionPages
  <2>2. \A p \in Pages : Mapped(pte[p]) => Mapped(pte'[p])
    BY <1>4, <1>5 DEF Mapped
  <2>3. QED
    BY <1>1, <1>2, <2>1, <2>2 DEF AllMapped
<1>9. Stages'
  BY <1>1, <1>2 DEF Stages
<1>10. ~spilled' => Isolated'
  <2>1. Bases' = Bases
    BY <1>1 DEF Bases
  <2>2. ASSUME NEW p \in Guards(base) PROVE p \notin Owned'
    <3>1. p \in Pages /\ pte'[p] = GuardEntry(base, p) /\ base' = base
      BY <1>1, <1>5
    <3>2. base \in Bases'
      BY <1>2, <2>1
    <3>3. p \in GuardPages'
      BY <3>1, <3>2, <1>1 DEF GuardPages, GuardEntry, Guards, LowGuard, HighGuard
    <3>4. QED
      BY <3>3 DEF Owned
  <2>3. UNCHANGED <<freeEntryCnt, pFreeEntries, table, strays>> /\ spilled' = spilled
    BY <1>1
  <2>4. Guards(base) \cap Owned' = {}
    BY <2>2
  <2>5. QED
    BY <1>5, <2>1, <2>3, <2>4, IsolatedStays
<1>11. Guarded'
  <2>1. ASSUME NEW s \in stacks
        PROVE  /\ \A p \in MustGuard(s.va) \ strays : pte'[p] = GuardEntry(s.va, p)
               /\ Commit > 1 => pte'[s.va+Guard+Reserve-1].present
    <3>1. /\ MustGuard(s.va) \subseteq PagesOf(s) /\ PagesOf(s) \subseteq Pages
          /\ s.va+Guard+Reserve-1 \in PagesOf(s)
      BY StackPages
    <3>2. \A p \in PagesOf(s) : pte'[p] = pte[p]
      BY <1>2, <1>5, <3>1
    <3>3. QED
      BY <3>1, <3>2 DEF Guarded, HasGuards
  <2>2. \A p \in MustGuard(base) : pte'[p] = GuardEntry(base, p)
    BY <1>2, <1>5, GuardRange
  <2>3. ~(committed > 1)
    BY <1>3
  <2>4. QED
    BY <1>1, <2>1, <2>2, <2>3 DEF Guarded, HasGuards
<1>12. QED
  BY <1>6, <1>7, <1>8, <1>9, <1>10, <1>11

LEMMA CommitKeeps == ASSUME StackInv, CommitStep PROVE StackInv'
<1> USE DEF StackInv
<1> DEFINE p == CommitPage(committed)
<1>1. /\ stage = "commit" /\ committed < Commit /\ freeEntryCnt > 0
      /\ physicalAllocPages(1, {})
      /\ pte' = [pte EXCEPT ![p] = [frame |-> Nth(1), present |-> TRUE, lazy |-> FALSE]]
      /\ committed' = committed + 1
      /\ UNCHANGED <<table, last_page_va, regions, op, strays>>
      /\ UNCHANGED <<stacks, stage, base, spilled>>
  BY DEF CommitStep
<1>2. /\ op.kind = "idle" /\ Stack(base) \in regions \ stacks /\ base \in Nat
      /\ PagesOf(Stack(base)) \subseteq Pages
      /\ PagesOf(Stack(base)) = base .. last_page_va /\ last_page_va \in Nat
      /\ \A s \in stacks : PagesOf(s) \cap PagesOf(Stack(base)) = {}
      /\ base + StackSize - 1 = last_page_va
  BY <1>1, BaseApart
<1>3. committed \in 0 .. Reserve /\ committed' \in 0 .. Commit
  BY <1>1, Sizes DEF Types, StageOK
<1>4. /\ p \in base+Guard .. base+Guard+Reserve /\ p = base+Guard+Reserve-committed
      /\ p \in PagesOf(Stack(base))
  BY <1>2, <1>3, Sizes DEF CommitPage
<1>5. p \in Pages /\ p \notin MustGuard(base)
  BY <1>2, <1>4, GuardRange
<1> HIDE DEF p
<1>6. freeEntryCnt \in Nat /\ 1 <= freeEntryCnt /\ Nth(1) \in Frames
  BY <1>1, NthOK DEF Types, FramesOK
<1>7. PICK f \in Frames : f = Nth(1)
  BY <1>6
<1>8. /\ \A q \in Pages \ {p} : pte'[q] = pte[q]
      /\ pte'[p] = [frame |-> f, present |-> TRUE, lazy |-> FALSE]
      /\ pte'[p].present /\ pte'[p].frame = f /\ Mapped(pte'[p])
  BY <1>1, <1>5, <1>7 DEF Types, PagesOK, Mapped
<1>9. Types'
  <2>1. FramesOK' /\ Accounting'
    BY <1>1, <1>6, PopOK DEF Types
  <2>2. PagesOK'
    BY <1>1, <1>7 DEF Types, PagesOK
  <2>3. OpOK' /\ StageOK'
    BY <1>1, <1>3 DEF Types, OpOK, StageOK
  <2>4. QED
    BY <2>1, <2>2, <2>3 DEF Types
<1>10. Layout'
  <2>1. \A q \in Pages : q > last_page_va => pte'[q] = NoEntry
    BY <1>2, <1>4, <1>8 DEF Layout
  <2>2. QED
    BY <1>1, <1>2, <2>1 DEF Layout, RegionsDisjoint
<1>11. AllMapped'
  <2>1. \A r \in regions : PagesOf(r) \subseteq Pages
    BY RegionPages
  <2>2. \A q \in Pages : Mapped(pte[q]) => Mapped(pte'[q])
    BY <1>8
  <2>3. QED
    BY <1>1, <1>2, <2>1, <2>2 DEF AllMapped
<1>12. Stages'
  BY <1>1 DEF Stages
<1>13. ~spilled' => Isolated'
  <2>1. Bases' = Bases
    BY <1>1 DEF Bases
  <2>2. Owned' \subseteq Owned \cup {p} /\ \A q \in Owned' \ {p} : pte'[q] = pte[q]
    BY <1>1, <1>8, <2>1, OwnedStep
  <2>3. /\ 1 \in 0 .. 2 /\ TableOf(p) \in Tables /\ {p} \in SUBSET Pages
        /\ \A q, t \in {p} : q = t
        /\ \A q \in {p} : 1 > 0 /\ pte'[q].frame = Nth(1)
    BY <1>5, <1>7, <1>8, TableInside
  <2>4. QED
    BY <1>1, <1>6, <2>2, <2>3, TakeIsolated DEF Types
<1>14. Guarded'
  <2>1. ASSUME NEW s \in stacks
        PROVE  /\ \A q \in MustGuard(s.va) \ strays : pte'[q] = GuardEntry(s.va, q)
               /\ Commit > 1 => pte'[s.va+Guard+Reserve-1].present
    <3>1. /\ MustGuard(s.va) \subseteq PagesOf(s) /\ PagesOf(s) \subseteq Pages
          /\ s.va+Guard+Reserve-1 \in PagesOf(s)
      BY StackPages
    <3>2. \A q \in PagesOf(s) : pte'[q] = pte[q]
      BY <1>2, <1>4, <1>8, <3>1
    <3>3. QED
      BY <3>1, <3>2 DEF Guarded, HasGuards
  <2>2. \A q \in MustGuard(base) \ strays : pte'[q] = GuardEntry(base, q)
    <3>1. MustGuard(base) \subseteq Pages
      BY <1>2, GuardRange
    <3>2. QED
      BY <1>1, <1>5, <1>8, <3>1 DEF Guarded, HasGuards
  <2>3. committed' > 1 => pte'[base+Guard+Reserve-1].present
    <3>1. CASE committed = 1
      BY <1>2, <1>4, <1>8, <3>1, Sizes
    <3>2. CASE committed > 1
      <4>1. pte[base+Guard+Reserve-1].present
        BY <1>1, <3>2 DEF Guarded
      <4>2. base+Guard+Reserve-1 \in Pages
        BY <1>2, Sizes
      <4>3. QED
        BY <1>8, <4>1, <4>2
    <3>3. QED
      BY <1>1, <1>3, <3>1, <3>2
  <2>4. QED
    BY <1>1, <2>1, <2>2, <2>3 DEF Guarded, HasGuards
<1>15. QED
  BY <1>9, <1>10, <1>11, <1>12, <1>13, <1>14

LEMMA CreateDoneKeeps == ASSUME StackInv, CreateDone PROVE StackInv'
<1> USE DEF StackInv
<1>1. /\ stage = "commit" /\ committed = Commit /\ stage' = "none"
      /\ stacks' = stacks \cup {Stack(base)}
      /\ UNCHANGED <<base, committed, spilled>>
      /\ UNCHANGED <<pte, table, last_page_va, regions, op, strays>>
      /\ UNCHANGED <<status, pFreeEntries, freeEntryCnt, usedEntryCnt>>
  BY DEF CreateDone, vars, frames
<1>2. op.kind = "idle" /\ Stack(base) \in regions
  BY <1>1, BaseApart
<1>3. Stack(base).va = base /\ Stack(base).count = StackSize
  BY DEF Stack
<1>4. Types'
  <2>1. FramesOK' /\ Accounting'
    BY <1>1 DEF Types, FramesOK, Accounting
  <2>2. PagesOK' /\ OpOK'
    BY <1>1 DEF Types, PagesOK, OpOK
  <2>3. StageOK'
    BY <1>1, <1>2, <1>3 DEF Types, StageOK
  <2>4. QED
    BY <2>1, <2>2, <2>3 DEF Types
<1>5. Layout' /\ AllMapped' /\ Stages'
  BY <1>1, <1>2 DEF Layout, RegionsDisjoint, AllMapped, Stages
<1>6. ~spilled' => Isolated'
  <2>1. Bases \subseteq Bases' /\ \A p \in Pages \ {} : pte'[p] = pte[p]
    BY <1>1, <1>3 DEF Bases
  <2>2. {} \cap Owned' = {} /\ spilled' = spilled
    BY <1>1
  <2>3. UNCHANGED <<freeEntryCnt, pFreeEntries, table, strays>>
    BY <1>1
  <2>4. QED
    BY <2>1, <2>2, <2>3, IsolatedStays
<1>7. Guarded'
  BY <1>1, <1>3 DEF Guarded, HasGuards
<1>8. QED
  BY <1>4, <1>5, <1>6, <1>7

LEMMA CreateFailKeeps == ASSUME StackInv, CreateFail PROVE StackInv'
<1> USE DEF StackInv
<1>1. /\ stage = "commit" /\ stage' = "undo" /\ spilled'
      /\ op' = [kind |-> "free", va |-> base + Guard, count |-> StackSize, done |-> 0,
                lazy |-> FALSE]
      /\ regions' = regions \ {Stack(base)}
      /\ UNCHANGED <<status, pFreeEntries, freeEntryCnt, usedEntryCnt>>
      /\ UNCHANGED <<pte, table, last_page_va, strays, stacks, base, committed>>
      /\ spilled' = TRUE
  BY DEF CreateFail, frames
<1>2. /\ Stack(base) \in regions \ stacks /\ base \in Nat /\ base \in Pages
      /\ PagesOf(Stack(base)) = base .. last_page_va /\ last_page_va \in Nat
      /\ \A r \in regions \ {Stack(base)} : PagesOf(r) \cap PagesOf(Stack(base)) = {}
      /\ base + StackSize - 1 = last_page_va /\ last_page_va < MaxPage
  BY <1>1, BaseApart
<1>3. /\ op'.kind = "free" /\ op'.va = base + Guard /\ op'.count = StackSize
      /\ op'.done = 0
  BY <1>1
<1>4. \A r \in regions' : Top(r) < base /\ PagesOf(r) = r.va .. Top(r) /\ Top(r) \in Int
  <2>1. ASSUME NEW r \in regions' PROVE Top(r) < base
    <3>1. r \in regions \ {Stack(base)}
      BY <1>1
    <3>2. Top(r) \in PagesOf(r) /\ Top(r) \in Int /\ Top(r) <= last_page_va
      BY <3>1, RegionPages, RegionRange DEF Layout
    <3>3. Top(r) \notin base .. last_page_va
      BY <1>2, <3>1, <3>2
    <3>4. QED
      BY <1>2, <3>2, <3>3
  <2>2. QED
    BY <1>1, <2>1, RegionRange
<1>5. OpOK'
  <2>1. op' \in [kind : {"idle", "alloc", "free", "halted"}, va : 0 .. MaxPage,
                 count : 0 .. MaxPage, done : 0 .. MaxPage, lazy : BOOLEAN]
    BY <1>1, <1>2, Sizes DEF Pages
  <2>2. QED
    BY <1>2, <1>3, <2>1, Sizes DEF OpOK, Pages
<1>6. Types'
  <2>1. FramesOK' /\ Accounting'
    BY <1>1 DEF Types, FramesOK, Accounting
  <2>2. PagesOK' /\ StageOK'
    BY <1>1, <1>2 DEF Types, PagesOK, StageOK
  <2>3. QED
    BY <1>5, <2>1, <2>2 DEF Types
<1>7. Layout'
  <2>1. \A r \in regions' : PagesOf(r) \cap ToFree' = {}
    <3>1. \A p \in ToFree' : p \in Int /\ p >= base
      BY <1>2, <1>3, Sizes DEF ToFree
    <3>2. \A r \in regions' : \A p \in PagesOf(r) : p < base
      BY <1>1, <1>2, <1>4, RegionRange
    <3>3. QED
      BY <1>2, <3>1, <3>2
  <2>2. QED
    BY <1>1, <1>3, <2>1 DEF Layout, RegionsDisjoint
<1>8. AllMapped'
  BY <1>1, <1>3 DEF AllMapped
<1>9. Stages'
  <2>1. op'.va + op'.done <= last_page_va' + 1
    BY <1>1, <1>2, <1>3, Sizes
  <2>2. QED
    BY <1>1, <1>2, <1>3, <1>4, <2>1 DEF Stages
<1>10. Guarded'
  BY <1>1 DEF Guarded, HasGuards
<1>11. QED
  BY <1>1, <1>6, <1>7, <1>8, <1>9, <1>10

\* The freeing after a failed thread_create passes the end of the stack.
LEMMA UndoKeeps == ASSUME StackInv, Undo PROVE StackInv'
<1> USE DEF StackInv
<1>1. /\ stage = "undo" /\ FreeStep /\ op.kind = "free" /\ op.done < op.count
      /\ stage' = (IF op'.kind = "free" THEN "undo" ELSE "none")
      /\ UNCHANGED <<stacks, base, committed, spilled>>
  BY DEF Undo, FreeStep
<1>2. /\ op.va = base + Guard /\ op.count = StackSize /\ base + StackSize - 1 = last_page_va
      /\ last_page_va < MaxPage /\ op.va + op.done <= last_page_va + 1
      /\ \A r \in regions : Top(r) < base
      /\ spilled /\ base \in Nat /\ op.done \in Nat /\ op.va \in Nat /\ last_page_va \in Nat
  BY <1>1, Sizes DEF Stages, Types, StageOK, OpOK, PagesOK
<1>3. Page \in Pages /\ Page >= base /\ Page \in Nat
  BY <1>2, Sizes DEF Page, Pages
<1>4. \A r \in regions : PagesOf(r) \subseteq Pages /\ Page \notin PagesOf(r)
  <2>1. \A r \in regions : /\ PagesOf(r) = r.va .. Top(r) /\ Top(r) \in Int
                           /\ r.va \in Nat
    BY RegionRange
  <2>2. \A r \in regions : Page \notin PagesOf(r)
    BY <1>2, <1>3, <2>1 DEF Pages
  <2>3. QED
    BY <2>2, RegionPages
<1>5. CASE Fail /\ (UNCHANGED frames \/ GiveBack)
  <2>1. FramesOK' /\ Accounting'
    <3>1. CASE UNCHANGED frames
      BY <3>1 DEF Types, FramesOK, Accounting, frames
    <3>2. CASE GiveBack
      BY <1>3, <3>2, GiveBackOK
    <3>3. QED
      BY <1>5, <3>1, <3>2
  <2>2. stage' = "none"
    BY <1>1, <1>5 DEF Fail, Idle
  <2>3. QED
    BY <1>1, <1>2, <1>5, <2>1, <2>2, FailKeeps
<1>6. CASE /\ Mapped(pte[Page]) /\ GiveBack
           /\ pte' = [pte EXCEPT ![Page] = NoEntry]
           /\ op' = [op EXCEPT !.done = @ + 1]
           /\ UNCHANGED <<table, last_page_va, regions, strays>>
  <2>1. /\ OpOK' /\ op'.kind = op.kind /\ op'.va = op.va /\ op'.count = op.count
        /\ op'.done = op.done + 1
    BY <1>1, <1>3, <1>6, OpStep DEF Types
  <2>2. stage' = stage
    BY <1>1, <2>1
  <2>3. /\ \A p \in Pages \ {Page} : pte'[p] = pte[p]
        /\ pte'[Page] = NoEntry
    BY <1>3, <1>6 DEF Types, PagesOK
  <2>4. Page <= last_page_va
    <3>1. pte[Page] # NoEntry
      BY <1>6 DEF Mapped, NoEntry
    <3>2. QED
      BY <1>2, <1>3, <3>1 DEF Layout, Pages
  <2>5. Types'
    <3>1. FramesOK' /\ Accounting'
      BY <1>3, <1>6, GiveBackOK
    <3>2. NoEntry \in [frame : Frames, present : BOOLEAN, lazy : BOOLEAN]
      BY Sizes DEF NoEntry, Frames
    <3>3. PagesOK'
      BY <1>6, <3>2 DEF Types, PagesOK
    <3>4. StageOK'
      BY <1>1, <1>6, <2>2 DEF Types, StageOK
    <3>5. QED
      BY <2>1, <3>1, <3>3, <3>4 DEF Types
  <2>6. Layout'
    <3>1. \A p \in Pages : p > last_page_va => pte'[p] = NoEntry
      BY <2>3 DEF Layout
    <3>2. ToFree' \subseteq ToFree
      BY <1>2, <2>1, Sizes DEF ToFree
    <3>3. QED
      BY <1>1, <1>6, <2>1, <2>2, <3>1, <3>2 DEF Layout, RegionsDisjoint
  <2>7. AllMapped'
    BY <1>1, <1>4, <1>6, <2>1, <2>2, <2>3 DEF AllMapped
  <2>8. Stages'
    <3>1. op'.va + op'.done <= last_page_va' + 1
      BY <1>2, <1>6, <2>1, <2>4 DEF Page
    <3>2. QED
      BY <1>1, <1>2, <1>6, <2>1, <2>2, <3>1 DEF Stages
  <2>9. Guarded'
    <3>1. \A s \in stacks' : PagesOf(s) \cap {Page} = {}
      BY <1>1, <1>4, StackPages
    <3>2. QED
      BY <1>1, <1>6, <2>2, <2>3, <3>1, GuardsStay
  <2>10. QED
    BY <1>1, <1>2, <2>5, <2>6, <2>7, <2>8, <2>9
<1>7. QED
  BY <1>1, <1>5, <1>6 DEF FreeStep

-----------------------------------------------------------------------------
(* thread_destroy.                                                          *)
LEMMA DestroyKeeps == ASSUME StackInv, NEW s \in stacks, Destroy(s) PROVE StackInv'
<1> USE DEF StackInv
<1>1. /\ stage = "none" /\ op.kind = "idle" /\ stage' = "destroy"
      /\ op' = [kind |-> "free", va |-> s.va + Guard, count |-> Reserve, done |-> 0,
                lazy |-> FALSE]
      /\ regions' = regions \ {s} /\ stacks' = stacks \ {s} /\ base' = s.va
      /\ UNCHANGED <<status, pFreeEntries, freeEntryCnt, usedEntryCnt>>
      /\ UNCHANGED <<pte, table, last_page_va, strays, committed, spilled>>
  BY DEF Destroy, frames
<1>2. /\ s \in regions /\ s = Stack(s.va) /\ s.va \in Nat
      /\ PagesOf(s) = s.va .. s.va+StackSize-1 /\ PagesOf(s) \subseteq Pages
      /\ \A p \in PagesOf(s) : p <= last_page_va
      /\ last_page_va \in 0 .. MaxPage
  <2>1. s \in regions /\ s = Stack(s.va) /\ s.va \in Nat
    BY StackAlive
  <2>2. PagesOf(Stack(s.va)) = s.va .. s.va+StackSize-1
    BY <2>1, GuardRange
  <2>3. PagesOf(s) \subseteq Pages /\ \A p \in PagesOf(s) : p <= last_page_va
    BY <2>1, RegionPages
  <2>4. QED
    BY <2>1, <2>2, <2>3 DEF Types, PagesOK
<1>3. s.va >= 1 /\ s.va + StackSize - 1 <= last_page_va
  <2>1. s.va \in Pages /\ s.va + StackSize - 1 \in PagesOf(s)
    BY <1>2, Sizes
  <2>2. QED
    BY <1>2, <2>1 DEF Pages
<1>4. /\ op'.kind = "free" /\ op'.va = s.va + Guard /\ op'.count = Reserve /\ op'.done = 0
  BY <1>1
<1>5. OpOK'
  <2>1. s.va + Guard \in 0 .. MaxPage /\ Reserve \in 0 .. MaxPage /\ 0 \in 0 .. MaxPage
    BY <1>2, <1>3, Sizes
  <2>2. op' \in [kind : {"idle", "alloc", "free", "halted"}, va : 0 .. MaxPage,
                 count : 0 .. MaxPage, done : 0 .. MaxPage, lazy : BOOLEAN]
    BY <1>1, <2>1
  <2>3. QED
    BY <1>2, <1>4, <2>1, <2>2, Sizes DEF OpOK
<1>6. ToFree' \subseteq PagesOf(s)
  BY <1>2, <1>4, Sizes DEF ToFree
<1>7. Types'
  <2>1. FramesOK' /\ Accounting'
    BY <1>1 DEF Types, FramesOK, Accounting
  <2>2. PagesOK'
    BY <1>1 DEF Types, PagesOK
  <2>3. StageOK'
    <3>1. base' \in 0 .. MaxPage
      BY <1>1, <1>2, <1>3, Sizes
    <3>2. QED
      BY <1>1, <3>1 DEF Types, StageOK
  <2>4. QED
    BY <1>5, <2>1, <2>2, <2>3 DEF Types
<1>8. \A r \in regions' : PagesOf(r) \cap PagesOf(s) = {}
  BY <1>1, <1>2 DEF Layout, RegionsDisjoint
<1>9. Layout'
  <2>1. \A r \in regions' : PagesOf(r) \cap ToFree' = {}
    BY <1>6, <1>8
  <2>2. op'.va + op'.count - 1 <= last_page_va'
    BY <1>1, <1>2, <1>3, <1>4, Sizes
  <2>3. QED
    BY <1>1, <1>4, <2>1, <2>2 DEF Layout, RegionsDisjoint
<1>10. AllMapped'
  BY <1>1, <1>2, <1>4, <1>6 DEF AllMapped
<1>11. Stages'
  BY <1>1, <1>2, <1>3, <1>4, <1>8 DEF Stages
<1>12. ~spilled' => Isolated'
  <2>1. Bases \subseteq Bases' /\ \A p \in Pages \ {} : pte'[p] = pte[p]
    BY <1>1 DEF Bases
  <2>2. {} \cap Owned' = {} /\ spilled' = spilled
    BY <1>1
  <2>3. UNCHANGED <<freeEntryCnt, pFreeEntries, table, strays>>
    BY <1>1
  <2>4. QED
    BY <2>1, <2>2, <2>3, IsolatedStays
<1>13. Guarded'
  BY <1>1 DEF Guarded, HasGuards
<1>14. QED
  BY <1>7, <1>9, <1>10, <1>11, <1>12, <1>13

LEMMA DestroyUnmapKeeps == ASSUME StackInv, DestroyUnmap PROVE StackInv'
<1> USE DEF StackInv
<1>1. /\ stage = "destroy" /\ stage' = "none" /\ op' = Idle
      /\ status' = [f \in Frames |->
                      IF \E p \in Guards(base) : ~pte[p].lazy /\ pte[p].frame = f
                      THEN "free" ELSE status[f]]
      /\ pte' = [p \in Pages |-> IF p \in Guards(base) THEN NoEntry ELSE pte[p]]
      /\ UNCHANGED <<pFreeEntries, freeEntryCnt, usedEntryCnt, table, last_page_va>>
      /\ UNCHANGED <<regions, strays, stacks, base, committed, spilled>>
  BY DEF DestroyUnmap
<1>2. base \in Nat /\ \A r \in regions : PagesOf(r) \cap PagesOf(Stack(base)) = {}
  BY <1>1, Sizes DEF Stages, Types, StageOK
<1>3. Guards(base) \subseteq PagesOf(Stack(base))
  BY <1>2, GuardRange
<1>4. OpOK' /\ op'.kind = "idle"
  BY <1>1, OpIdle
<1>5. \A p \in Pages : pte'[p] = IF p \in Guards(base) THEN NoEntry ELSE pte[p]
  BY <1>1
<1>6. \A r \in regions : \A p \in PagesOf(r) : p \in Pages \ Guards(base)
  BY <1>2, <1>3, RegionPages
<1>7. Types'
  <2>1. FramesOK' /\ Accounting'
    BY <1>1 DEF Types, FramesOK, Accounting
  <2>2. NoEntry \in [frame : Frames, present : BOOLEAN, lazy : BOOLEAN]
    BY Sizes DEF NoEntry, Frames
  <2>3. PagesOK'
    BY <1>1, <2>2 DEF Types, PagesOK
  <2>4. StageOK'
    BY <1>1 DEF Types, StageOK
  <2>5. QED
    BY <1>4, <2>1, <2>3, <2>4 DEF Types
<1>8. Layout' /\ Stages'
  BY <1>1, <1>4, <1>5 DEF Layout, RegionsDisjoint, Stages
<1>9. AllMapped'
  BY <1>1, <1>4, <1>5, <1>6 DEF AllMapped
<1>10. ~spilled' => Isolated'
  <2>1. ASSUME NEW p \in Owned' PROVE p \in Owned /\ pte'[p] = pte[p]
    <3>1. p \in Pages /\ pte'[p].present /\ p \notin GuardPages'
      BY DEF Owned
    <3>2. p \notin Guards(base) /\ pte'[p] = pte[p]
      BY <1>5, <3>1 DEF NoEntry
    <3>3. \A b \in Bases : b = base \/ b \in Bases'
      BY <1>1 DEF Bases
    <3>4. p \notin GuardPages
      BY <3>1, <3>2, <3>3 DEF GuardPages, GuardEntry
    <3>5. QED
      BY <1>1, <3>1, <3>2, <3>4 DEF Owned
  <2>2. Owned' \subseteq Owned /\ \A p \in Owned' : pte'[p] = pte[p]
    BY <2>1
  <2>3. UNCHANGED <<freeEntryCnt, pFreeEntries, table>> /\ spilled' = spilled
    BY <1>1
  <2>4. QED
    BY <2>2, <2>3, StillIsolated
<1>11. Guarded'
  <2>1. \A s \in stacks' : PagesOf(s) \cap Guards(base) = {}
    BY <1>1, <1>6, StackPages
  <2>2. \A p \in Pages \ Guards(base) : pte'[p] = pte[p]
    BY <1>5
  <2>3. QED
    BY <1>1, <2>1, <2>2, GuardsStay
<1>12. QED
  BY <1>7, <1>8, <1>9, <1>10, <1>11

-----------------------------------------------------------------------------
(* All steps.                                                               *)
LEMMA OtherKeeps ==
  ASSUME StackInv, Other
  PROVE  StackInv'
<1>1. stage = "none" /\ UNCHANGED stackVars
  BY DEF Other
<1>2. stage' = "none" /\ UNCHANGED <<stacks, base, committed, spilled>>
  BY <1>1 DEF stackVars
<1>3. ASSUME NEW n \in 1 .. MaxRegion, NEW lazy \in BOOLEAN, virtualAllocPages(n, lazy)
      PROVE  StackInv'
  <2>1. n \in 1 .. MaxPage
    <3>1. last_page_va + n < MaxPage /\ last_page_va \in 0 .. MaxPage /\ n \in Nat
      BY <1>3, MemoryAssumption DEF virtualAllocPages, StackInv, Types, PagesOK
    <3>2. QED
      BY <3>1, Sizes
  <2>2. QED
    BY <1>1, <1>3, <2>1, StartKeeps
<1>4. CASE AllocStep
  BY <1>1, <1>2, <1>4, AllocStepKeeps
<1>5. CASE AllocDone
  BY <1>1, <1>2, <1>5, AllocDoneKeeps
<1>6. CASE \E r \in regions \ stacks : virtualFreePages(r)
  BY <1>1, <1>6, FreeStartKeeps
<1>7. CASE FreeStep
  BY <1>1, <1>2, <1>7, FreeStepKeeps
<1>8. CASE FreeDone
  BY <1>1, <1>8, FreeDoneKeeps
<1>9. CASE Fault
  BY <1>1, <1>9, FaultAlignedKeeps, FaultInsideKeeps, FaultHaltKeeps DEF Fault
<1>10. QED
  BY <1>3, <1>4, <1>5, <1>6, <1>7, <1>8, <1>9 DEF Other

LEMMA NextInv == StackInv /\ [StackNext]_allVars => StackInv'
<1> SUFFICES ASSUME StackInv, [StackNext]_allVars PROVE StackInv'
  OBVIOUS
<1>1. CASE Other
  BY <1>1, OtherKeeps
<1>2. CASE CreateReserve
  <2>1. /\ stage = "none" /\ virtualAllocPages(StackSize, TRUE)
        /\ stage' = "reserve" /\ base' = last_page_va + 1 /\ committed' = 0
        /\ UNCHANGED <<stacks, spilled>> /\ last_page_va + StackSize < MaxPage
    BY <1>2 DEF CreateReserve
  <2>2. StackSize \in 1 .. MaxPage
    BY <2>1, Sizes DEF StackInv, Types, PagesOK
  <2>3. QED
    BY <2>1, <2>2, StartKeeps
<1>3. CASE CreateReserveStep
  BY <1>3, AllocStepKeeps DEF CreateReserveStep
<1>4. CASE CreateReserved
  BY <1>4, AllocDoneKeeps DEF CreateReserved
<1>5. CASE MapGuards
  BY <1>5, MapGuardsKeeps
<1>6. CASE CommitStep
  BY <1>6, CommitKeeps
<1>7. CASE CreateDone
  BY <1>7, CreateDoneKeeps
<1>8. CASE CreateFail
  BY <1>8, CreateFailKeeps
<1>9. CASE Undo
  BY <1>9, UndoKeeps
<1>10. CASE \E s \in stacks : Destroy(s)
  BY <1>10, DestroyKeeps
<1>11. CASE DestroyFree
  BY <1>11, FreeStepKeeps DEF DestroyFree
<1>12. CASE DestroyUnmap
  BY <1>12, DestroyUnmapKeeps
<1>13. CASE UNCHANGED allVars
  <2>1. /\ UNCHANGED <<status, pFreeEntries, freeEntryCnt, usedEntryCnt>>
        /\ UNCHANGED <<pte, table, last_page_va, regions, op, strays>>
        /\ UNCHANGED <<stacks, stage, base, committed, spilled>>
    BY <1>13 DEF allVars, vars, frames, stackVars
  <2>2. Types'
    <3>1. FramesOK' /\ Accounting' /\ OpOK'
      BY <2>1 DEF StackInv, Types, FramesOK, Accounting, OpOK
    <3>2. PagesOK' /\ StageOK'
      BY <2>1 DEF StackInv, Types, PagesOK, StageOK
    <3>3. QED
      BY <3>1, <3>2 DEF Types
  <2>3. Layout' /\ AllMapped'
    BY <2>1 DEF StackInv, Layout, RegionsDisjoint, AllMapped, ToFree
  <2>4. Stages'
    BY <2>1 DEF StackInv, Stages
  <2>5. ~spilled' => Isolated'
    <3>1. Bases' = Bases /\ \A p \in Pages \ {} : pte'[p] = pte[p]
      BY <2>1 DEF Bases
    <3>2. {} \cap Owned' = {} /\ spilled' = spilled
      BY <2>1
    <3>3. UNCHANGED <<freeEntryCnt, pFreeEntries, table, strays>>
      BY <2>1
    <3>4. QED
      BY <3>1, <3>2, <3>3, IsolatedStays DEF StackInv
  <2>6. Guarded'
    BY <2>1 DEF StackInv, Guarded, HasGuards
  <2>7. QED
    BY <2>2, <2>3, <2>4, <2>5, <2>6 DEF StackInv
<1>14. QED
  BY <1>1, <1>2, <1>3, <1>4, <1>5, <1>6, <1>7, <1>8, <1>9, <1>10, <1>11, <1>12, <1>13
     DEF StackNext

-----------------------------------------------------------------------------
(* The theorems.                                                            *)
\* The invariant holds in every reachable state.
THEOREM StackCorrect == StackSpec => []StackInv
BY InitInv, NextInv, PTL DEF StackSpec

\* TypeOK: indices are of frames, pages and tables there are, and the stack of
\* free frames is as long as freeEntryCnt of pmm.c says.
THEOREM TypeCorrect == StackSpec => []TypeOK
<1>1. StackInv => TypeOK
  BY DEF StackInv, Types, FramesOK, PagesOK, TypeOK
<1>2. QED
  BY <1>1, StackCorrect, PTL

\* FramesCounted: a frame is free or counted as used, and the stack never
\* outgrows the memory (the panic of pmm.c) until a failed thread_create has
\* freed frames that are not its own.
THEOREM CountCorrect == StackSpec => []FramesCounted
<1>1. StackInv => FramesCounted
  <2> SUFFICES ASSUME StackInv PROVE FramesCounted
    OBVIOUS
  <2>1. ~spilled => FreeStackDistinct
    BY StackFits DEF StackInv, Types, Isolated, Distinct, FreeStackDistinct
  <2>2. QED
    BY <2>1 DEF StackInv, Types, FramesCounted
<1>2. QED
  BY <1>1, StackCorrect, PTL

LEMMA ExclusiveSome ==
  ASSUME Exclusive(Owned), NEW S, S \subseteq Owned
  PROVE  Exclusive(S)
BY DEF Exclusive

\* FramesIsolated: no two mapped pages and no page tables share a frame, nor
\* have one that is still free, but for the pages that the fault of another
\* one mapped (vmm.c line 146) and the guards.
THEOREM IsolationCorrect == StackSpec => []FramesIsolated
<1>1. StackInv => FramesIsolated
  <2>1. {p \in Pages : pte[p].present} \ (GuardPages \cup strays) \subseteq Owned
    BY DEF Owned
  <2>2. QED
    BY <2>1, ExclusiveSome DEF StackInv, Isolated, FramesIsolated
<1>2. QED
  BY <1>1, StackCorrect, PTL

\* RegionsSound: the regions virtualAllocPages has returned are apart, and
\* mapped until they are freed.
THEOREM RegionCorrect == StackSpec => []RegionsSound
<1>1. StackInv => RegionsSound
  BY DEF StackInv, Layout, AllMapped, RegionsSound, RegionsMapped
<1>2. QED
  BY <1>1, StackCorrect, PTL

\* StackGuarded: a live thread has the guards thread_create gave its stack,
\* and its first page a frame.
THEOREM GuardCorrect == StackSpec => []StackGuarded
<1>1. StackInv => StackGuarded
  <2> SUFFICES ASSUME StackInv, NEW s \in stacks
               PROVE  /\ LowGuard(s.va) \cup (HighGuard(s.va) \ {s.va+Guard+Reserve})
                           \subseteq GuardPages \cup strays
                      /\ Commit > 1 => pte[s.va+Guard+Reserve-1].present
    BY DEF StackGuarded
  <2>1. /\ MustGuard(s.va) \subseteq PagesOf(s) /\ PagesOf(s) \subseteq Pages
        /\ Guards(s.va) \subseteq PagesOf(s)
    BY StackPages DEF StackInv
  <2>2. HasGuards(s.va) /\ (Commit > 1 => pte[s.va+Guard+Reserve-1].present)
    BY DEF StackInv, Guarded
  <2>3. MustGuard(s.va) \subseteq GuardPages \cup strays
    BY <2>1, <2>2 DEF HasGuards, GuardPages, Bases, MustGuard, Guards
  <2>4. QED
    BY <2>2, <2>3 DEF MustGuard
<1>2. QED
  BY <1>1, StackCorrect, PTL
=============================================================================
