----------------------------- MODULE Subsystem ------------------------------
(***************************************************************************)
(* The identifier table every subsystem of the kernel is built on          *)
(* (kernel/subsystem/subsystem.c): threads, drives, drivers, mounts, file  *)
(* handles, kernel extensions and GPU objects all take their identifiers   *)
(* from one.                                                               *)
(*                                                                         *)
(* The table reserves Reserve entries of address space and commits them in *)
(* batches.  Committed entries that are not in use wait on a stack.  Each  *)
(* operation runs with interrupts off under a mutex, so it is one step.    *)
(* A caller frees only an identifier it registered and has not freed yet:  *)
(* the code relies on it, subsystem_free_entry does not check.             *)
(***************************************************************************)
EXTENDS Integers

CONSTANTS Reserve,      \* entryReserveCount: entries of reserved space
          PageEntries,  \* PAGE_SIZE/sizeof(uint64_t): entries on one page
          InitCommit,   \* entries committed by subsystem_init
          GrowCommit,   \* entries committed when the stack is empty
          Objs,         \* the objects callers register
          Null          \* the null pointer

ASSUME SizesAssumption ==
  /\ Reserve \in Nat /\ PageEntries \in Nat \ {0}
  /\ InitCommit \in Nat \ {0} /\ GrowCommit \in Nat \ {0}
  /\ InitCommit < Reserve
ASSUME NullAssumption == Null \notin Objs

VARIABLES pEntries,          \* pEntries[i]: object of identifier i+1, or Null
          pFreeEntries,      \* the stack: positions 0..freeEntryCount-1
          freeEntryCount,
          entryCommitCount,
          lastEntry          \* the highest entry ever allocated

vars == <<pEntries, pFreeEntries, freeEntryCount, entryCommitCount, lastEntry>>

Slots == 0 .. Reserve-1
Top == pFreeEntries[freeEntryCount-1]

-----------------------------------------------------------------------------
(* subsystem_commit_entries: refused when it would use the last reserved   *)
(* entry; otherwise it frees the new entries from the highest to the       *)
(* lowest, so that the lowest one is on top, and clears each of them.      *)
CommitUnchecked(committed, n) == TRUE          \* fault: the bound forgotten
CanCommit(committed, n) == committed + n < Reserve

Committed(stack, height, committed, n) ==
  [i \in 0 .. height+n-1 |->
     IF i < height THEN stack[i] ELSE committed + n - 1 - (i - height)]

Cleared(entries, committed, n) ==
  [s \in Slots |-> IF s \in committed .. committed+n-1 THEN Null ELSE entries[s]]

(* subsystem_init on lazily backed memory: what the entries hold before     *)
(* they are committed is whatever the physical pages held.                  *)
Init ==
  /\ \E garbage \in [Slots -> Objs \cup {Null}] :
       pEntries = Cleared(garbage, 0, InitCommit)
  /\ pFreeEntries = Committed(<<>>, 0, 0, InitCommit)
  /\ freeEntryCount = InitCommit
  /\ entryCommitCount = InitCommit
  /\ lastEntry = 0

(* The store of subsystem_alloc_entry: the first allocation of an entry at  *)
(* the start of a page clears the whole page first.                         *)
StoredClearing(entries, id, obj) ==            \* fault: lastEntry ignored
  [s \in Slots |->
     IF s = id THEN obj
     ELSE IF id % PageEntries = 0 /\ s \in id .. id+PageEntries-1
          THEN Null
          ELSE entries[s]]

Stored(entries, id, obj) ==
  [s \in Slots |->
     IF s = id THEN obj
     ELSE IF id > lastEntry /\ id % PageEntries = 0
               /\ s \in id .. id+PageEntries-1
          THEN Null
          ELSE entries[s]]

TakeTop(entries, stack, height, obj) ==
  LET id == stack[height-1]
  IN  /\ pEntries' = Stored(entries, id, obj)
      /\ pFreeEntries' = [i \in 0 .. height-2 |-> stack[i]]
      /\ freeEntryCount' = height-1
      /\ lastEntry' = IF id > lastEntry THEN id ELSE lastEntry

AllocFree(obj) ==
  /\ freeEntryCount > 0
  /\ Top < entryCommitCount
  /\ TakeTop(pEntries, pFreeEntries, freeEntryCount, obj)
  /\ UNCHANGED entryCommitCount

AllocGrow(obj) ==
  /\ freeEntryCount = 0
  /\ CanCommit(entryCommitCount, GrowCommit)
  /\ entryCommitCount' = entryCommitCount + GrowCommit
  /\ TakeTop(Cleared(pEntries, entryCommitCount, GrowCommit),
             Committed(pFreeEntries, 0, entryCommitCount, GrowCommit),
             GrowCommit, obj)

(* The two failing returns change nothing: the table is exhausted, or the   *)
(* top of the stack lies outside the committed entries.                     *)
AllocFail ==
  /\ IF freeEntryCount = 0 THEN ~CanCommit(entryCommitCount, GrowCommit)
                           ELSE Top >= entryCommitCount
  /\ UNCHANGED vars

subsystem_alloc_entry(obj) == AllocFree(obj) \/ AllocGrow(obj) \/ AllocFail

Push(id) == [i \in 0 .. freeEntryCount |->
               IF i = freeEntryCount THEN id-1 ELSE pFreeEntries[i]]

FreeTwice(id) ==                               \* fault: freed when not in use
  /\ freeEntryCount < Reserve
  /\ pFreeEntries' = Push(id)
  /\ pEntries' = [pEntries EXCEPT ![id-1] = Null]
  /\ freeEntryCount' = freeEntryCount + 1
  /\ UNCHANGED <<entryCommitCount, lastEntry>>

FreeKeepsEntry(id) ==                          \* fault: the entry not cleared
  /\ pEntries[id-1] # Null
  /\ freeEntryCount < Reserve
  /\ pFreeEntries' = Push(id)
  /\ freeEntryCount' = freeEntryCount + 1
  /\ UNCHANGED <<pEntries, entryCommitCount, lastEntry>>

subsystem_free_entry(id) ==
  /\ pEntries[id-1] # Null             \* what the callers owe
  /\ freeEntryCount < Reserve
  /\ pFreeEntries' = Push(id)
  /\ pEntries' = [pEntries EXCEPT ![id-1] = Null]
  /\ freeEntryCount' = freeEntryCount + 1
  /\ UNCHANGED <<entryCommitCount, lastEntry>>

Next ==
  \/ \E obj \in Objs : subsystem_alloc_entry(obj)
  \/ \E id \in 1 .. entryCommitCount : subsystem_free_entry(id)

Spec == Init /\ [][Next]_vars

-----------------------------------------------------------------------------
TypeOK ==
  /\ pEntries \in [Slots -> Objs \cup {Null}]
  /\ freeEntryCount \in Nat
  /\ pFreeEntries \in [0 .. freeEntryCount-1 -> Slots]
  /\ entryCommitCount \in 1 .. Reserve-1
  /\ lastEntry \in Slots

(* No identifier waits twice on the stack, so two registrations never get   *)
(* the same one (the stack of subsystem.c line 87).                         *)
FreeStackDistinct ==
  \A i, j \in 0 .. freeEntryCount-1 :
     pFreeEntries[i] = pFreeEntries[j] => i = j

(* The stack and the table agree: a committed entry is empty exactly when   *)
(* it is on the stack, and the stack holds committed entries only, so the   *)
(* test of line 60 of subsystem.c never fails.                              *)
FreeXorNamed ==
  /\ \A i \in 0 .. freeEntryCount-1 : pFreeEntries[i] < entryCommitCount
  /\ \A s \in 0 .. entryCommitCount-1 :
       (pEntries[s] = Null) <=> (\E i \in 0 .. freeEntryCount-1 : pFreeEntries[i] = s)

(* lastEntry bounds the entries in use, which is what makes clearing a page *)
(* ahead of it (line 67) harmless.                                          *)
InUseUpToLast ==
  \A s \in 0 .. entryCommitCount-1 : pEntries[s] # Null => s <= lastEntry

(* The inductive invariant.                                                 *)
TableInv == TypeOK /\ FreeStackDistinct /\ FreeXorNamed /\ InUseUpToLast

(* The table is an identifier pool: entries that are not committed yet name *)
(* nothing, whatever the memory under them holds.                           *)
Names == [id \in 1 .. Reserve |->
            IF id-1 < entryCommitCount THEN pEntries[id-1] ELSE Null]

Pool == INSTANCE IdPool WITH Ids <- 1 .. Reserve, names <- Names

ImplementsIdPool == Pool!Spec
=============================================================================
