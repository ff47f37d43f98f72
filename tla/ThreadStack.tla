----------------------------- MODULE ThreadStack -----------------------------
(***************************************************************************)
(* The memory of thread stacks: what thread_create and thread_destroy      *)
(* (kernel/cpu/thread.c) do with the frames and pages of Memory.           *)
(*                                                                         *)
(* A stack is a lazy region with a guard at each end.  The guards are      *)
(* mapped read-only to the physical frames from 0 on, which other pages    *)
(* may have; the pages at the top of the stack get frames at once.         *)
(* Interrupts are off from one end of these functions to the other.        *)
(***************************************************************************)
EXTENDS Memory

CONSTANTS Guard,     \* pages of a guard
          Reserve,   \* pages between the guards
          Commit     \* pages that get frames in thread_create

ASSUME StackAssumption ==
  /\ Guard \in Nat \ {0} /\ Reserve \in Nat \ {0} /\ Guard <= LastFrame
  /\ Commit \in 1 .. Reserve+1

VARIABLES stacks,    \* the regions of live threads
          stage,     \* where thread_create or thread_destroy is
          base,      \* the first page of the stack it is about
          committed, \* pages that have got their frame
          spilled    \* history: a thread_create failed after the guards

stackVars == <<stacks, stage, base, committed, spilled>>
allVars == <<vars, stackVars>>

StackSize == 2*Guard + Reserve
Stack(b) == [va |-> b, count |-> StackSize]
LowGuard(b) == b .. b+Guard-1
HighGuard(b) == b+Guard+Reserve .. b+StackSize-1
Guards(b) == LowGuard(b) \cup HighGuard(b)

GuardEntry(b, p) ==
  [frame |-> IF p \in LowGuard(b) THEN p - b ELSE p - (b+Guard+Reserve),
   present |-> TRUE, lazy |-> FALSE]

StackInit ==
  /\ Init
  /\ stacks = {} /\ stage = "none" /\ base = 0 /\ committed = 0
  /\ spilled = FALSE

-----------------------------------------------------------------------------
(* thread_create: the lazy region first.  Room is kept for the page past    *)
(* its end, where the freeing of a failure below stops.                     *)
CreateReserve ==
  /\ stage = "none"
  /\ last_page_va + StackSize < MaxPage
  /\ virtualAllocPages(StackSize, TRUE)
  /\ base' = last_page_va + 1
  /\ stage' = "reserve" /\ committed' = 0
  /\ UNCHANGED <<stacks, spilled>>

CreateReserveStep ==
  /\ stage = "reserve"
  /\ AllocStep
  /\ stage' = IF op'.kind = "alloc" THEN "reserve" ELSE "none"
  /\ UNCHANGED <<stacks, base, committed, spilled>>

CreateReserved ==
  /\ stage = "reserve"
  /\ AllocDone
  /\ stage' = "guard"
  /\ UNCHANGED <<stacks, base, committed, spilled>>

(* Both guards are mapped without the lazy flag to the frames from 0 on:    *)
(* present entries, and physicalMapPage sets the status of those frames.    *)
MapGuards ==
  /\ stage = "guard"
  /\ pte' = [p \in Pages |-> IF p \in Guards(base) THEN GuardEntry(base, p) ELSE pte[p]]
  /\ status' = [f \in Frames |-> IF f < Guard THEN "inuse" ELSE status[f]]
  /\ stage' = "commit"
  /\ UNCHANGED <<pFreeEntries, freeEntryCnt, usedEntryCnt, table, last_page_va,
                 regions, op, strays, stacks, base, committed, spilled>>

(* The pages are counted down from one past the end of the stack: the first *)
(* of them is in the upper guard.                                           *)
CommitPageUp(i) == base + Guard + Reserve + i   \* fault: counted up
CommitPage(i) == base + Guard + Reserve - i

CommitStep ==
  /\ stage = "commit" /\ committed < Commit
  /\ freeEntryCnt > 0
  /\ physicalAllocPages(1, {})
  /\ pte' = [pte EXCEPT ![CommitPage(committed)] =
               [frame |-> Nth(1), present |-> TRUE, lazy |-> FALSE]]
  /\ committed' = committed + 1
  /\ UNCHANGED <<table, last_page_va, regions, op, strays, stacks, stage, base,
                 spilled>>

CreateDone ==
  /\ stage = "commit" /\ committed = Commit
  /\ stacks' = stacks \cup {Stack(base)}
  /\ stage' = "none"
  /\ UNCHANGED <<vars, base, committed, spilled>>

(* No frame for a page, or no memory or identifier for the thread: pStack   *)
(* has been moved past the lower guard by now, and the whole size is freed  *)
(* from there, the upper guard's frames included, until a page that is not  *)
(* mapped.                                                                  *)
CreateFail ==
  /\ stage = "commit"
  /\ committed < Commit => freeEntryCnt = 0
  /\ op' = [kind |-> "free", va |-> base + Guard, count |-> StackSize, done |-> 0,
            lazy |-> FALSE]
  /\ regions' = regions \ {Stack(base)}
  /\ stage' = "undo" /\ spilled' = TRUE
  /\ UNCHANGED <<frames, pte, table, last_page_va, strays, stacks, base, committed>>

Undo ==
  /\ stage = "undo"
  /\ FreeStep
  /\ stage' = IF op'.kind = "free" THEN "undo" ELSE "none"
  /\ UNCHANGED <<stacks, base, committed, spilled>>

-----------------------------------------------------------------------------
(* thread_destroy frees the pages between the guards and unmaps the guards. *)
(* The unmapping sets the status of the frames behind them to free without  *)
(* putting them on the stack.                                               *)
DestroyWhole(s) ==                             \* fault: the guards freed too
  /\ stage = "none" /\ op.kind = "idle"
  /\ op' = [kind |-> "free", va |-> s.va, count |-> StackSize, done |-> 0,
            lazy |-> FALSE]
  /\ regions' = regions \ {s} /\ stacks' = stacks \ {s}
  /\ base' = s.va /\ stage' = "destroy"
  /\ UNCHANGED <<frames, pte, table, last_page_va, strays, committed, spilled>>

Destroy(s) ==
  /\ stage = "none" /\ op.kind = "idle"
  /\ op' = [kind |-> "free", va |-> s.va + Guard, count |-> Reserve, done |-> 0,
            lazy |-> FALSE]
  /\ regions' = regions \ {s} /\ stacks' = stacks \ {s}
  /\ base' = s.va /\ stage' = "destroy"
  /\ UNCHANGED <<frames, pte, table, last_page_va, strays, committed, spilled>>

DestroyFree ==
  /\ stage = "destroy"
  /\ FreeStep
  /\ stage' = IF op'.kind = "free" THEN "destroy" ELSE "none"
  /\ UNCHANGED <<stacks, base, committed, spilled>>

DestroyUnmap ==
  /\ stage = "destroy" /\ op.done = op.count
  /\ op' = Idle
  /\ status' = [f \in Frames |->
                  IF \E p \in Guards(base) : ~pte[p].lazy /\ pte[p].frame = f
                  THEN "free" ELSE status[f]]
  /\ pte' = [p \in Pages |-> IF p \in Guards(base) THEN NoEntry ELSE pte[p]]
  /\ stage' = "none"
  /\ UNCHANGED <<pFreeEntries, freeEntryCnt, usedEntryCnt, table, last_page_va,
                 regions, strays, stacks, base, committed, spilled>>

(* Everything else Memory does, while no such function runs.  Threads touch *)
(* the lazy pages of their stacks as any others.                            *)
Other ==
  /\ stage = "none"
  /\ \/ \E n \in 1 .. MaxRegion, lazy \in BOOLEAN : virtualAllocPages(n, lazy)
     \/ AllocStep \/ AllocDone
     \/ \E region \in regions \ stacks : virtualFreePages(region)
     \/ FreeStep \/ FreeDone
     \/ Fault
  /\ UNCHANGED stackVars

StackNext ==
  \/ Other
  \/ CreateReserve \/ CreateReserveStep \/ CreateReserved
  \/ MapGuards \/ CommitStep \/ CreateDone
  \/ CreateFail \/ Undo
  \/ \E s \in stacks : Destroy(s)
  \/ DestroyFree \/ DestroyUnmap

StackSpec == StackInit /\ [][StackNext]_allVars

-----------------------------------------------------------------------------
(* The pages that hold a guard's mapping.                                   *)
Bases == {s.va : s \in stacks} \cup (IF stage \in {"none", "reserve"} THEN {} ELSE {base})
GuardPages == {p \in Pages : \E b \in Bases : p \in Guards(b) /\ pte[p] = GuardEntry(b, p)}

(* Frames are counted once and wait once whatever fails, except that a      *)
(* thread_create which fails after its guards are mapped frees frames that  *)
(* are not its own.                                                         *)
FramesCounted == Accounting /\ (~spilled => FreeStackDistinct)

(* A frame given to a page, at once or on its first touch, or to a page     *)
(* table is that page's or table's: no other page has it and it is not on   *)
(* the stack.  The guards of stacks, which are not for use, are one         *)
(* exception; the others are the pages that the fault of the page before    *)
(* them mapped to a frame it did not take (vmm.c line 146), which may be    *)
(* anybody's.  They are all the harm such a fault does: every other pair of *)
(* pages is apart after it too.                                             *)
FramesIsolated ==
  ~spilled => Exclusive({p \in Pages : pte[p].present} \ (GuardPages \cup strays))

RegionsSound == RegionsDisjoint /\ RegionsMapped

(* A running thread has its guards: the lower one whole, where an overflow  *)
(* goes, and the upper one but for its first page, which the commit took;   *)
(* a page that the fault of the page before it has mapped is no guard.      *)
(* Its first page on the stack has a frame when more than one was asked     *)
(* for.                                                                     *)
StackGuarded ==
  \A s \in stacks :
    /\ LowGuard(s.va) \cup (HighGuard(s.va) \ {s.va+Guard+Reserve})
         \subseteq GuardPages \cup strays
    /\ Commit > 1 => pte[s.va+Guard+Reserve-1].present
=============================================================================
