-------------------------- MODULE SubsystemProofs ---------------------------
(***************************************************************************)
(* The identifier table keeps its invariant and implements the identifier  *)
(* pool, for every size of the table and every set of objects.             *)
(***************************************************************************)
EXTENDS Subsystem, TLAPS

(* The result of an allocation that takes the top of a stack which agrees   *)
(* with the entries: what both branches of subsystem_alloc_entry rest on.   *)
Agree(entries, stack, height, committed) ==
  /\ entries \in [Slots -> Objs \cup {Null}]
  /\ height \in Nat /\ committed \in 1 .. Reserve-1
  /\ stack \in [0 .. height-1 -> Slots]
  /\ \A i, j \in 0 .. height-1 : stack[i] = stack[j] => i = j
  /\ \A i \in 0 .. height-1 : stack[i] < committed
  /\ \A s \in 0 .. committed-1 :
       (entries[s] = Null) <=> (\E i \in 0 .. height-1 : stack[i] = s)
  /\ \A s \in 0 .. committed-1 : entries[s] # Null => s <= lastEntry

(* Arithmetic the provers want on a rigid name rather than a primed one.     *)
LEMMA InRange ==
  ASSUME NEW R \in Nat, NEW m \in 1 .. R-1
  PROVE  \A s \in 0 .. m-1 : s \in 0 .. R-1
OBVIOUS

LEMMA InitTable == Init => TableInv
<1> SUFFICES ASSUME Init PROVE TableInv
  OBVIOUS
<1> USE SizesAssumption
<1>1. PICK garbage \in [Slots -> Objs \cup {Null}] :
        pEntries = Cleared(garbage, 0, InitCommit)
  BY DEF Init
<1>2. /\ freeEntryCount = InitCommit /\ entryCommitCount = InitCommit
      /\ lastEntry = 0
      /\ pFreeEntries = [i \in 0 .. InitCommit-1 |-> InitCommit - 1 - i]
  BY DEF Init, Committed
<1>3. \A s \in 0 .. InitCommit-1 : pEntries[s] = Null
  BY <1>1 DEF Cleared, Slots
<1>4. TypeOK
  BY <1>1, <1>2 DEF TypeOK, Cleared, Slots
<1>5. FreeStackDistinct
  BY <1>2 DEF FreeStackDistinct
<1>6. FreeXorNamed
  <2>1. \A s \in 0 .. InitCommit-1 : pFreeEntries[InitCommit-1-s] = s
    BY <1>2
  <2>2. \A s \in 0 .. InitCommit-1 :
           \E i \in 0 .. freeEntryCount-1 : pFreeEntries[i] = s
    <3> TAKE s \in 0 .. InitCommit-1
    <3>1. InitCommit-1-s \in 0 .. freeEntryCount-1
      BY <1>2
    <3> QED BY <2>1, <3>1
  <2> QED BY <1>2, <1>3, <2>2 DEF FreeXorNamed
<1>7. InUseUpToLast
  BY <1>2, <1>3 DEF InUseUpToLast
<1> QED BY <1>4, <1>5, <1>6, <1>7 DEF TableInv

(* The entry taken from the stack was empty, and no other committed entry  *)
(* changes: clearing a page ahead of lastEntry meets empty entries only.    *)
LEMMA TakeTopStores ==
  ASSUME NEW STATE entries, NEW STATE stack, NEW STATE height, NEW obj \in Objs,
         lastEntry \in Slots,
         Agree(entries, stack, height, entryCommitCount'), height > 0,
         TakeTop(entries, stack, height, obj)
  PROVE  LET id == stack[height-1]
         IN  /\ id \in 0 .. entryCommitCount'-1
             /\ entries[id] = Null
             /\ pEntries' \in [Slots -> Objs \cup {Null}]
             /\ pEntries'[id] = obj
             /\ \A s \in 0 .. entryCommitCount'-1 :
                  s # id => pEntries'[s] = entries[s]
<1> DEFINE id == stack[height-1]
<1> USE SizesAssumption, NullAssumption
<1>0. /\ height \in Nat /\ height > 0 /\ Reserve \in Nat
      /\ entryCommitCount' \in 1 .. Reserve-1 /\ lastEntry \in 0 .. Reserve-1
      /\ stack \in [0 .. height-1 -> 0 .. Reserve-1]
      /\ entries \in [0 .. Reserve-1 -> Objs \cup {Null}]
  BY DEF Agree, Slots
<1>1. id \in 0 .. Reserve-1 /\ id < entryCommitCount' /\ height-1 \in 0 .. height-1
  BY <1>0 DEF Agree
<1>2. id \in 0 .. entryCommitCount'-1
  BY <1>0, <1>1
<1>3. entries[id] = Null
  <2>1. \E i \in 0 .. height-1 : stack[i] = id
    BY <1>1
  <2> QED BY <1>2, <2>1 DEF Agree
<1>4. /\ pEntries' \in [Slots -> Objs \cup {Null}]
      /\ pEntries'[id] = obj
      /\ \A s \in Slots : s # id => pEntries'[s] = entries[s] \/
                          (pEntries'[s] = Null /\ s > lastEntry)
  <2>1. pEntries' = Stored(entries, id, obj)
    BY DEF TakeTop
  <2> QED BY <1>0, <1>1, <2>1 DEF Stored, Slots
<1>5. \A s \in 0 .. entryCommitCount'-1 : s # id => pEntries'[s] = entries[s]
  <2>1. \A s \in 0 .. entryCommitCount'-1 : s \in Slots
    BY <1>0, InRange DEF Slots
  <2>2. \A s \in 0 .. entryCommitCount'-1 : s > lastEntry => entries[s] = Null
    <3>1. \A s \in 0 .. entryCommitCount'-1 : entries[s] # Null => s <= lastEntry
      BY DEF Agree
    <3>2. \A s \in 0 .. entryCommitCount'-1 : s > lastEntry => ~(s <= lastEntry)
      BY <1>0
    <3> QED BY <3>1, <3>2
  <2> QED BY <1>4, <2>1, <2>2
<1> QED BY <1>2, <1>3, <1>4, <1>5

LEMMA TakeTopKeepsTable ==
  ASSUME NEW STATE entries, NEW STATE stack, NEW STATE height, NEW obj \in Objs,
         lastEntry \in Slots,
         Agree(entries, stack, height, entryCommitCount'), height > 0,
         TakeTop(entries, stack, height, obj)
  PROVE  TableInv'
<1> DEFINE id == stack[height-1]
<1> USE SizesAssumption, NullAssumption
<1>0. /\ height \in Nat /\ height > 0 /\ Reserve \in Nat
      /\ entryCommitCount' \in 1 .. Reserve-1 /\ lastEntry \in 0 .. Reserve-1
      /\ stack \in [0 .. height-1 -> 0 .. Reserve-1]
  BY DEF Agree, Slots
<1>1. id \in 0 .. Reserve-1 /\ id < entryCommitCount' /\ height-1 \in 0 .. height-1
  BY <1>0 DEF Agree
<1>3. /\ pFreeEntries' = [i \in 0 .. height-2 |-> stack[i]]
      /\ freeEntryCount' = height-1
      /\ lastEntry' = IF id > lastEntry THEN id ELSE lastEntry
  BY DEF TakeTop
<1>4. /\ pEntries' \in [Slots -> Objs \cup {Null}]
      /\ pEntries'[id] = obj
      /\ \A s \in 0 .. entryCommitCount'-1 : s # id => pEntries'[s] = entries[s]
  BY TakeTopStores
<1>6. TypeOK'
  <2>1. lastEntry' \in Slots
    BY <1>0, <1>1, <1>3 DEF Slots
  <2>2. /\ freeEntryCount' \in Nat
        /\ pFreeEntries' \in [0 .. freeEntryCount'-1 -> Slots]
    BY <1>3 DEF Agree
  <2> QED BY <1>4, <2>1, <2>2 DEF TypeOK, Agree
<1>7. FreeStackDistinct'
  BY <1>3 DEF FreeStackDistinct, Agree
<1>8. FreeXorNamed'
  <2>1. \A i \in 0 .. height-2 : pFreeEntries'[i] = stack[i] /\ stack[i] # id
    BY <1>1, <1>3 DEF Agree
  <2>2. \A i \in 0 .. freeEntryCount'-1 : pFreeEntries'[i] < entryCommitCount'
    BY <1>3, <2>1 DEF Agree
  <2>3. ASSUME NEW s \in 0 .. entryCommitCount'-1
        PROVE  pEntries'[s] = Null
                 <=> \E i \in 0 .. freeEntryCount'-1 : pFreeEntries'[i] = s
    <3>1. CASE s = id
      <4>1. pEntries'[s] # Null
        BY <1>4, <3>1
      <4>2. \A i \in 0 .. freeEntryCount'-1 : pFreeEntries'[i] # s
        BY <1>0, <1>3, <2>1, <3>1
      <4> QED BY <4>1, <4>2
    <3>2. CASE s # id
      <4>1. entries[s] = Null <=> \E i \in 0 .. height-1 : stack[i] = s
        BY DEF Agree
      <4>2. ASSUME NEW i \in 0 .. height-1, stack[i] = s
            PROVE  i \in 0 .. height-2
        BY <1>0, <3>2, <4>2
      <4>3. (\E i \in 0 .. height-1 : stack[i] = s)
              <=> \E i \in 0 .. height-2 : stack[i] = s
        BY <1>0, <4>2
      <4>4. (\E i \in 0 .. height-2 : stack[i] = s)
              <=> \E i \in 0 .. freeEntryCount'-1 : pFreeEntries'[i] = s
        BY <1>0, <1>3
      <4> QED BY <1>4, <3>2, <4>1, <4>3, <4>4
    <3> QED BY <3>1, <3>2
  <2> QED BY <2>2, <2>3 DEF FreeXorNamed
<1>9. InUseUpToLast'
  <2> SUFFICES ASSUME NEW s \in 0 .. entryCommitCount'-1, pEntries'[s] # Null
               PROVE  s <= lastEntry'
    BY DEF InUseUpToLast
  <2>1. CASE s = id
    BY <1>0, <1>1, <1>3, <2>1
  <2>2. CASE s # id
    <3>1. s <= lastEntry
      BY <1>4, <2>2 DEF Agree
    <3> QED BY <1>0, <1>1, <1>3, <3>1
  <2> QED BY <2>1, <2>2
<1> QED BY <1>6, <1>7, <1>8, <1>9 DEF TableInv

LEMMA CommitAgrees ==
  ASSUME TableInv, freeEntryCount = 0,
         CanCommit(entryCommitCount, GrowCommit)
  PROVE  Agree(Cleared(pEntries, entryCommitCount, GrowCommit),
               Committed(pFreeEntries, 0, entryCommitCount, GrowCommit),
               GrowCommit, entryCommitCount + GrowCommit)
<1> USE SizesAssumption
<1> DEFINE c == entryCommitCount
           g == GrowCommit
           entries == Cleared(pEntries, c, g)
           stack == Committed(pFreeEntries, 0, c, g)
<1>1. /\ stack = [i \in 0 .. g-1 |-> c + g - 1 - i]
      /\ c \in 1 .. Reserve-1 /\ c + g \in 1 .. Reserve-1
  BY DEF Committed, TableInv, TypeOK, CanCommit
<1>2. /\ entries \in [Slots -> Objs \cup {Null}]
      /\ \A s \in c .. c+g-1 : entries[s] = Null
      /\ \A s \in 0 .. c-1 : entries[s] = pEntries[s]
  <2>1. /\ pEntries \in [0 .. Reserve-1 -> Objs \cup {Null}]
        /\ c \in Int /\ g \in Int /\ Reserve \in Int
    BY <1>1 DEF TableInv, TypeOK, Slots
  <2>2. entries = [s \in 0 .. Reserve-1 |->
                     IF s \in c .. c+g-1 THEN Null ELSE pEntries[s]]
    BY DEF Cleared, Slots
  <2>3. /\ c >= 1 /\ g >= 1 /\ c + g < Reserve
    BY <1>1
  <2>4. entries \in [Slots -> Objs \cup {Null}]
    BY <2>1, <2>2 DEF Slots
  <2>5. ASSUME NEW s \in c .. c+g-1 PROVE entries[s] = Null
    BY <2>1, <2>2, <2>3
  <2>6. ASSUME NEW s \in 0 .. c-1 PROVE entries[s] = pEntries[s]
    BY <2>1, <2>2, <2>3
  <2> HIDE DEF c, g, entries
  <2> QED BY <2>4, <2>5, <2>6
<1>3. \A s \in 0 .. c-1 : pEntries[s] # Null /\ s <= lastEntry
  BY DEF TableInv, FreeXorNamed, InUseUpToLast
<1>4. ASSUME NEW s \in 0 .. c+g-1
      PROVE  (entries[s] = Null) <=> (\E i \in 0 .. g-1 : stack[i] = s)
  <2>1. CASE s < c
    BY <1>1, <1>2, <1>3, <2>1
  <2>2. CASE s >= c
    <3>1. c+g-1-s \in 0 .. g-1 /\ stack[c+g-1-s] = s
      BY <1>1, <2>2
    <3> QED BY <1>2, <2>2, <3>1
  <2> QED BY <1>1, <2>1, <2>2
<1>5. \A s \in 0 .. c+g-1 : entries[s] # Null => s <= lastEntry
  BY <1>1, <1>2, <1>3
<1>6. stack \in [0 .. g-1 -> Slots]
  BY <1>1 DEF Slots
<1>7. /\ \A i, j \in 0 .. g-1 : stack[i] = stack[j] => i = j
      /\ \A i \in 0 .. g-1 : stack[i] < c+g
  BY <1>1
<1> QED BY <1>1, <1>2, <1>4, <1>5, <1>6, <1>7 DEF Agree

LEMMA FreeKeepsTable ==
  ASSUME TableInv, NEW n \in 1 .. entryCommitCount, subsystem_free_entry(n)
  PROVE  TableInv'
<1> USE SizesAssumption
<1> DEFINE id == n-1
<1>1. /\ pEntries[id] # Null
      /\ pFreeEntries' = [i \in 0 .. freeEntryCount |->
                            IF i = freeEntryCount THEN id ELSE pFreeEntries[i]]
      /\ pEntries' = [pEntries EXCEPT ![id] = Null]
      /\ freeEntryCount' = freeEntryCount + 1
      /\ entryCommitCount' = entryCommitCount /\ lastEntry' = lastEntry
  BY DEF subsystem_free_entry, Push
<1>2. /\ TypeOK /\ FreeStackDistinct /\ FreeXorNamed /\ InUseUpToLast
      /\ id \in 0 .. entryCommitCount-1 /\ id \in Slots
  BY DEF TableInv, TypeOK, Slots
<1>3. \A i \in 0 .. freeEntryCount-1 : pFreeEntries[i] # id
  BY <1>1, <1>2 DEF FreeXorNamed
<1>4. TypeOK'
  BY <1>1, <1>2 DEF TypeOK
<1>5. FreeStackDistinct'
  BY <1>1, <1>2, <1>3 DEF FreeStackDistinct, TypeOK
<1>6. FreeXorNamed'
  <2>1. \A i \in 0 .. freeEntryCount'-1 : pFreeEntries'[i] < entryCommitCount'
    BY <1>1, <1>2 DEF FreeXorNamed, TypeOK
  <2>2. ASSUME NEW s \in 0 .. entryCommitCount'-1
        PROVE  pEntries'[s] = Null
                 <=> \E i \in 0 .. freeEntryCount'-1 : pFreeEntries'[i] = s
    <3>1. CASE s = id
      <4>1. freeEntryCount \in 0 .. freeEntryCount'-1
             /\ pFreeEntries'[freeEntryCount] = s
        BY <1>1, <1>2, <3>1 DEF TypeOK
      <4> QED BY <1>1, <1>2, <3>1, <4>1 DEF TypeOK
    <3>2. CASE s # id
      <4>1. pEntries'[s] = pEntries[s]
        BY <1>1, <1>2, <3>2 DEF TypeOK, Slots
      <4>2. pEntries[s] = Null <=> \E i \in 0 .. freeEntryCount-1 : pFreeEntries[i] = s
        BY <1>1, <1>2 DEF FreeXorNamed
      <4>3. (\E i \in 0 .. freeEntryCount-1 : pFreeEntries[i] = s)
              <=> \E i \in 0 .. freeEntryCount'-1 : pFreeEntries'[i] = s
        BY <1>1, <1>2, <3>2 DEF TypeOK
      <4> QED BY <4>1, <4>2, <4>3
    <3> QED BY <3>1, <3>2
  <2> QED BY <2>1, <2>2 DEF FreeXorNamed
<1>7. InUseUpToLast'
  BY <1>1, <1>2 DEF InUseUpToLast, TypeOK, Slots
<1> QED BY <1>4, <1>5, <1>6, <1>7 DEF TableInv

LEMMA NextKeepsTable == TableInv /\ [Next]_vars => TableInv'
<1> SUFFICES ASSUME TableInv, [Next]_vars PROVE TableInv'
  OBVIOUS
<1>0. lastEntry \in Slots
  BY DEF TableInv, TypeOK
<1>1. ASSUME NEW obj \in Objs, AllocFree(obj) PROVE TableInv'
  <2>1. Agree(pEntries, pFreeEntries, freeEntryCount, entryCommitCount')
    BY <1>1 DEF Agree, AllocFree, TableInv, TypeOK, FreeStackDistinct,
                FreeXorNamed, InUseUpToLast
  <2> QED BY <1>0, <1>1, <2>1, TakeTopKeepsTable DEF AllocFree
<1>2. ASSUME NEW obj \in Objs, AllocGrow(obj) PROVE TableInv'
  <2>1. Agree(Cleared(pEntries, entryCommitCount, GrowCommit),
              Committed(pFreeEntries, 0, entryCommitCount, GrowCommit),
              GrowCommit, entryCommitCount')
    BY <1>2, CommitAgrees DEF AllocGrow
  <2>2. GrowCommit > 0
    BY SizesAssumption
  <2> QED BY <1>0, <1>2, <2>1, <2>2, TakeTopKeepsTable DEF AllocGrow
<1>3. ASSUME UNCHANGED vars PROVE TableInv'
  BY <1>3 DEF vars, TableInv, TypeOK, FreeStackDistinct, FreeXorNamed,
              InUseUpToLast
<1>4. ASSUME NEW n \in 1 .. entryCommitCount, subsystem_free_entry(n)
      PROVE  TableInv'
  BY <1>4, FreeKeepsTable
<1> QED
  BY <1>1, <1>2, <1>3, <1>4 DEF Next, subsystem_alloc_entry, AllocFail

(* In every reachable state the free stack and the table agree: no          *)
(* identifier is free twice, free while it names an object, or lost         *)
(* (subsystem_alloc_entry, subsystem_free_entry, subsystem_commit_entries). *)
THEOREM TableCorrect == Spec => []TableInv
<1>1. Init => TableInv
  BY InitTable
<1>2. TableInv /\ [Next]_vars => TableInv'
  BY NextKeepsTable
<1> QED BY <1>1, <1>2, PTL DEF Spec

(* The single invariants of the runs, from the table's invariant.           *)
THEOREM TypeCorrect == Spec => []TypeOK
BY TableCorrect, PTL DEF TableInv

THEOREM NoIdFreeTwice == Spec => []FreeStackDistinct
BY TableCorrect, PTL DEF TableInv

THEOREM FreeOrNamed == Spec => []FreeXorNamed
BY TableCorrect, PTL DEF TableInv
-----------------------------------------------------------------------------
(* An allocation that takes the top of a stack acquires an identifier of    *)
(* the pool, when the entries it stores into are what the identifiers name. *)
LEMMA TakeTopAcquires ==
  ASSUME NEW STATE entries, NEW STATE stack, NEW STATE height, NEW obj \in Objs,
         lastEntry \in Slots,
         Agree(entries, stack, height, entryCommitCount'), height > 0,
         TakeTop(entries, stack, height, obj),
         entryCommitCount \in 1 .. Reserve-1,
         entryCommitCount <= entryCommitCount',
         \A s \in 0 .. entryCommitCount'-1 :
           entries[s] = IF s < entryCommitCount THEN pEntries[s] ELSE Null
  PROVE  Pool!Next
<1> DEFINE id == stack[height-1]
<1> USE SizesAssumption
<1>1. /\ id \in 0 .. entryCommitCount'-1
      /\ entries[id] = Null
      /\ pEntries'[id] = obj
      /\ \A s \in 0 .. entryCommitCount'-1 : s # id => pEntries'[s] = entries[s]
  BY TakeTopStores
<1>2. entryCommitCount' \in 1 .. Reserve-1
  BY DEF Agree
<1>3. \A s \in 0 .. Reserve-1 :
         s < entryCommitCount' => s \in 0 .. entryCommitCount'-1
  BY <1>2
<1> HIDE DEF id
<1>4. id+1 \in 1 .. Reserve /\ id+1-1 = id /\ id < entryCommitCount' /\ id \in Int
  BY <1>1, <1>2
<1>5. Names[id+1] = Null
  BY <1>1, <1>4 DEF Names
<1>6. Names' = [Names EXCEPT ![id+1] = obj]
  <2>1. ASSUME NEW n \in 1 .. Reserve
        PROVE  Names'[n] = [Names EXCEPT ![id+1] = obj][n]
    <3>0. n-1 \in 0 .. Reserve-1 /\ n \in Int
      OBVIOUS
    <3>1. Names'[n] = IF n-1 < entryCommitCount' THEN pEntries'[n-1] ELSE Null
      BY DEF Names
    <3>2. Names[n] = IF n-1 < entryCommitCount THEN pEntries[n-1] ELSE Null
      BY DEF Names
    <3>3. CASE n = id+1
      <4>1. Names'[n] = obj
        BY <1>1, <1>4, <3>1, <3>3
      <4> QED BY <3>3, <4>1 DEF Names
    <3>4. CASE n # id+1
      <4>1. n-1 # id
        BY <1>4, <3>0, <3>4
      <4>2. CASE n-1 < entryCommitCount'
        <5>1. n-1 \in 0 .. entryCommitCount'-1
          BY <1>3, <3>0, <4>2
        <5>2. pEntries'[n-1] = Names[n]
          BY <1>1, <3>2, <4>1, <5>1
        <5> QED BY <3>1, <3>4, <4>2, <5>2 DEF Names
      <4>3. CASE ~(n-1 < entryCommitCount')
        <5>1. ~(n-1 < entryCommitCount)
          BY <1>2, <3>0, <4>3
        <5> QED BY <3>1, <3>2, <3>4, <4>3, <5>1 DEF Names
      <4> QED BY <4>2, <4>3
    <3> QED BY <3>3, <3>4
  <2>2. /\ Names' = [n \in 1 .. Reserve |-> Names'[n]]
        /\ [Names EXCEPT ![id+1] = obj]
             = [n \in 1 .. Reserve |-> [Names EXCEPT ![id+1] = obj][n]]
    BY DEF Names
  <2> QED BY <2>1, <2>2
<1>7. Pool!Acquire(id+1, obj)
  BY <1>5, <1>6 DEF Pool!Acquire
<1> QED BY <1>4, <1>7 DEF Pool!Next

LEMMA InitIsPool == Init => Pool!Init
<1> SUFFICES ASSUME Init PROVE Pool!Init
  OBVIOUS
<1> USE SizesAssumption
<1>1. PICK garbage \in [Slots -> Objs \cup {Null}] :
        pEntries = Cleared(garbage, 0, InitCommit)
  BY DEF Init
<1>2. entryCommitCount = InitCommit
  BY DEF Init
<1>3. \A s \in 0 .. InitCommit-1 : pEntries[s] = Null
  BY <1>1 DEF Cleared, Slots
<1> QED BY <1>2, <1>3 DEF Pool!Init, Names

LEMMA FreeReleases ==
  ASSUME TableInv, NEW n \in 1 .. entryCommitCount, subsystem_free_entry(n)
  PROVE  Pool!Next
<1> USE SizesAssumption
<1>1. /\ pEntries \in [Slots -> Objs \cup {Null}]
      /\ entryCommitCount \in 1 .. Reserve-1
      /\ pEntries[n-1] # Null
      /\ pEntries' = [pEntries EXCEPT ![n-1] = Null]
      /\ entryCommitCount' = entryCommitCount
  BY DEF subsystem_free_entry, TableInv, TypeOK
<1>2. n \in 1 .. Reserve /\ n-1 < entryCommitCount /\ n-1 \in Slots
  BY <1>1 DEF Slots
<1>3. Names[n] # Null
  BY <1>1, <1>2 DEF Names
<1>4. Names' = [Names EXCEPT ![n] = Null]
  <2>1. ASSUME NEW m \in 1 .. Reserve
        PROVE  Names'[m] = [Names EXCEPT ![n] = Null][m]
    <3>1. m-1 \in Slots /\ (m-1 = n-1 <=> m = n)
      BY <1>2 DEF Slots
    <3>2. pEntries'[m-1] = IF m = n THEN Null ELSE pEntries[m-1]
      BY <1>1, <1>2, <3>1
    <3>3. Names'[m] = IF m-1 < entryCommitCount THEN pEntries'[m-1] ELSE Null
      BY <1>1 DEF Names
    <3> QED BY <1>2, <3>2, <3>3 DEF Names
  <2>2. /\ Names' = [m \in 1 .. Reserve |-> Names'[m]]
        /\ [Names EXCEPT ![n] = Null]
             = [m \in 1 .. Reserve |-> [Names EXCEPT ![n] = Null][m]]
    BY DEF Names
  <2> QED BY <2>1, <2>2
<1>5. Pool!Release(n)
  BY <1>3, <1>4 DEF Pool!Release
<1> QED BY <1>2, <1>5 DEF Pool!Next

LEMMA StepIsPool == TableInv /\ [Next]_vars => [Pool!Next]_Names
<1> SUFFICES ASSUME TableInv, [Next]_vars PROVE [Pool!Next]_Names
  OBVIOUS
<1>0. lastEntry \in Slots /\ entryCommitCount \in 1 .. Reserve-1
  BY DEF TableInv, TypeOK
<1>1. ASSUME NEW obj \in Objs, AllocFree(obj) PROVE Pool!Next
  <2>1. Agree(pEntries, pFreeEntries, freeEntryCount, entryCommitCount')
    BY <1>1 DEF Agree, AllocFree, TableInv, TypeOK, FreeStackDistinct,
                FreeXorNamed, InUseUpToLast
  <2>2. /\ entryCommitCount' = entryCommitCount
        /\ freeEntryCount > 0
        /\ TakeTop(pEntries, pFreeEntries, freeEntryCount, obj)
    BY <1>1 DEF AllocFree
  <2>3. /\ entryCommitCount <= entryCommitCount'
        /\ \A s \in 0 .. entryCommitCount'-1 : s < entryCommitCount
    BY <1>0, <2>2
  <2> QED BY <1>0, <2>1, <2>2, <2>3, TakeTopAcquires
<1>2. ASSUME NEW obj \in Objs, AllocGrow(obj) PROVE Pool!Next
  <2> DEFINE entries == Cleared(pEntries, entryCommitCount, GrowCommit)
             stack == Committed(pFreeEntries, 0, entryCommitCount, GrowCommit)
  <2>1. /\ entryCommitCount' = entryCommitCount + GrowCommit
        /\ Agree(entries, stack, GrowCommit, entryCommitCount')
        /\ TakeTop(entries, stack, GrowCommit, obj)
        /\ entryCommitCount + GrowCommit < Reserve
    BY <1>2, CommitAgrees DEF AllocGrow, CanCommit
  <2>2. GrowCommit \in Nat /\ GrowCommit > 0 /\ Reserve \in Nat
    BY SizesAssumption
  <2>3. entryCommitCount <= entryCommitCount'
    BY <1>0, <2>1, <2>2
  <2>4. \A s \in 0 .. (entryCommitCount+GrowCommit)-1 :
           entries[s] = IF s < entryCommitCount THEN pEntries[s] ELSE Null
    BY <1>0, <2>1, <2>2 DEF Cleared, Slots
  <2>5. \A s \in 0 .. entryCommitCount'-1 :
           entries[s] = IF s < entryCommitCount THEN pEntries[s] ELSE Null
    BY <2>1, <2>4
  <2> HIDE DEF entries, stack
  <2> QED BY <1>0, <2>1, <2>2, <2>3, <2>5, TakeTopAcquires
<1>3. ASSUME UNCHANGED vars PROVE UNCHANGED Names
  BY <1>3 DEF vars, Names
<1>4. ASSUME NEW n \in 1 .. entryCommitCount, subsystem_free_entry(n)
      PROVE  Pool!Next
  BY <1>4, FreeReleases
<1> QED
  BY <1>1, <1>2, <1>3, <1>4 DEF Next, subsystem_alloc_entry, AllocFail

(* The table implements the identifier pool: what a caller registers under  *)
(* an identifier stays there until that identifier is unregistered, however *)
(* the stack, the batches and the page clearing of subsystem.c move.        *)
THEOREM TableIsPool == Spec => ImplementsIdPool
<1>1. Spec => []TableInv
  BY TableCorrect
<1>2. Init => Pool!Init
  BY InitIsPool
<1>3. TableInv /\ [Next]_vars => [Pool!Next]_Names
  BY StepIsPool
<1> QED BY <1>1, <1>2, <1>3, PTL DEF Spec, ImplementsIdPool, Pool!Spec
=============================================================================
