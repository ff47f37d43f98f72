-------------------------------- MODULE Heap --------------------------------
(***************************************************************************)
(* The kernel heap (kernel/mem/heap.c).  A request up to                   *)
(* HEAP_MAX_BLOCK_SIZE takes a block of its size class from a stack of     *)
(* free blocks that lives on one page, the node; the first request of a    *)
(* class fills the node.  A larger request takes whole pages.              *)
(*                                                                         *)
(* kmalloc and kfree hold two different mutexes and change the same node,  *)
(* kmalloc in two steps: it reads the top of the stack (heap_get_block)    *)
(* and lowers the count later (heap_pop_block).  What keeps them apart is  *)
(* that mutex_lock turns interrupts off, so that no other thread runs      *)
(* until mutex_unlock: the model keeps the steps separate and states it.   *)
(* The memory below is a number of free pages (module Memory).             *)
(***************************************************************************)
EXTENDS Integers, Sequences, FiniteSets

CONSTANTS Threads,
          Classes,        \* the block lists, one per block size
          BlocksPerNode,  \* HEAP_BLOCK_PER_NODE
          DataPages,      \* pages the blocks of one fill take
          Pages,          \* free pages when heap_init has run
          RegionSizes,    \* page counts of the requests above the limit
          None            \* no thread; no block

ASSUME HeapAssumption ==
  /\ BlocksPerNode \in Nat \ {0} /\ DataPages \in Nat \ {0} /\ Pages \in Nat
  /\ RegionSizes \subseteq Nat \ {0}
  /\ None \notin Threads

VARIABLES pNodes,   \* pNodes[c]: the chain of nodes, each a stack of blocks
          fills,    \* fills[c]: how often blocks of class c were carved
          held,     \* the blocks callers hold
          regions,  \* page counts of the page allocations callers hold
          freePages,
          pc, va, list,   \* the operation each thread is in and its locals
          holder,   \* the two static mutexes
          running   \* the thread that runs with interrupts off, or None

memory == <<pNodes, fills, held, regions, freePages>>
vars == <<memory, pc, va, list, holder, running>>

Functions == {"kmalloc", "kfree"}
\* The blocks of class c, by the fill that carved them and their position.
Carved(c) == {<<c, f, i>> : f \in 1 .. fills[c], i \in 1 .. BlocksPerNode}
Blocks == UNION {Carved(c) : c \in Classes}
Top(s) == s[Len(s)]
Popped(s) == SubSeq(s, 1, Len(s)-1)
BlocksOn(s) == {s[i] : i \in 1 .. Len(s)}
SomeNode(c) == pNodes[c] # <<>>        \* pLastNode is not null

Init ==
  /\ pNodes = [c \in Classes |-> <<>>]
  /\ fills = [c \in Classes |-> 0]
  /\ held = {}
  /\ regions = [n \in RegionSizes |-> 0]
  /\ freePages = Pages
  /\ pc = [t \in Threads |-> "idle"]
  /\ va = [t \in Threads |-> <<>>]
  /\ list \in [Threads -> Classes]
  /\ holder = [f \in Functions |-> None]
  /\ running = None

-----------------------------------------------------------------------------
\* A thread runs unless another one has turned interrupts off.
Scheduled(t) == running \in {None, t}

LockInterruptsOn(t, f) ==            \* fault: the mutex without the cli
  /\ holder[f] = None
  /\ holder' = [holder EXCEPT ![f] = t]
  /\ UNCHANGED running

mutex_lock(t, f) ==
  /\ holder[f] = None
  /\ holder' = [holder EXCEPT ![f] = t]
  /\ running' = t

mutex_unlock(f) ==
  /\ holder' = [holder EXCEPT ![f] = None]
  /\ running' = None

\* virtualAllocPages: a request it cannot satisfy keeps the pages it took.
AffordAny(n) == TRUE                 \* fault: the failure is not noticed
Afford(n) == n <= freePages
Spend(n) == IF Afford(n) THEN freePages - n ELSE 0

-----------------------------------------------------------------------------
(* kmalloc *)
kmalloc(t, c) ==
  /\ Scheduled(t) /\ pc[t] = "idle"
  /\ mutex_lock(t, "kmalloc")
  /\ pc' = [pc EXCEPT ![t] = "get"]
  /\ list' = [list EXCEPT ![t] = c]
  /\ UNCHANGED <<memory, va>>

Fill(c) == [i \in 1 .. BlocksPerNode |-> <<c, fills[c]+1, i>>]

Fail(t) ==
  /\ mutex_unlock("kmalloc")
  /\ pc' = [pc EXCEPT ![t] = "idle"]
  /\ UNCHANGED <<held, regions, list>>

\* heap_get_block on a list without a node: the data pages, then the node.
FillBlockList(t) ==
  LET c == list[t] IN
  /\ Scheduled(t) /\ pc[t] = "get" /\ ~SomeNode(c)
  /\ freePages' = Spend(DataPages + 1)
  /\ \/ /\ Afford(DataPages + 1)
        /\ pNodes' = [pNodes EXCEPT ![c] = Append(@, Fill(c))]
        /\ fills' = [fills EXCEPT ![c] = @ + 1]
        /\ va' = [va EXCEPT ![t] = Top(Fill(c))]
        /\ pc' = [pc EXCEPT ![t] = "pop"]
        /\ UNCHANGED <<held, regions, list, holder, running>>
     \/ /\ ~Afford(DataPages + 1)
        /\ Fail(t)
        /\ UNCHANGED <<pNodes, fills, va>>

\* heap_get_block on a node: an empty one is never filled again.
GetBlock(t) ==
  LET c == list[t] IN
  /\ Scheduled(t) /\ pc[t] = "get" /\ SomeNode(c)
  /\ UNCHANGED <<pNodes, fills, freePages>>
  /\ \/ /\ Top(pNodes[c]) # <<>>
        /\ va' = [va EXCEPT ![t] = Top(Top(pNodes[c]))]
        /\ pc' = [pc EXCEPT ![t] = "pop"]
        /\ UNCHANGED <<held, regions, list, holder, running>>
     \/ /\ Top(pNodes[c]) = <<>>
        /\ Fail(t)
        /\ UNCHANGED va

WithTop(nodes, stack) == [nodes EXCEPT ![Len(nodes)] = stack]

PopNothing(stack) == stack          \* fault: the count is not lowered
PopBlock(stack) == Popped(stack)

\* heap_pop_block, and the block that was read goes to the caller.
heap_pop_block(t) ==
  LET c == list[t] IN
  /\ Scheduled(t) /\ pc[t] = "pop"
  /\ UNCHANGED <<fills, regions, freePages, list, va>>
  /\ mutex_unlock("kmalloc")
  /\ pc' = [pc EXCEPT ![t] = "idle"]
  /\ \/ /\ SomeNode(c) /\ Top(pNodes[c]) # <<>>
        /\ pNodes' = [pNodes EXCEPT ![c] = WithTop(@, PopBlock(Top(@)))]
        /\ held' = held \cup {va[t]}
     \/ /\ ~SomeNode(c) \/ Top(pNodes[c]) = <<>>
        /\ UNCHANGED <<pNodes, held>>

\* kmalloc above HEAP_MAX_BLOCK_SIZE: whole pages, under the same mutex.
kmalloc_pages(t, n) ==
  /\ Scheduled(t) /\ pc[t] = "idle" /\ holder["kmalloc"] = None
  /\ freePages' = Spend(n)
  /\ regions' = IF Afford(n) THEN [regions EXCEPT ![n] = @ + 1] ELSE regions
  /\ UNCHANGED <<pNodes, fills, held, pc, va, list, holder, running>>

-----------------------------------------------------------------------------
(* kfree: of something a caller holds.                                      *)
kfree(t, b) ==
  /\ Scheduled(t) /\ pc[t] = "idle" /\ b \in held
  /\ mutex_lock(t, "kfree")
  /\ held' = held \ {b}
  /\ pc' = [pc EXCEPT ![t] = "push"]
  /\ va' = [va EXCEPT ![t] = b]
  /\ list' = [list EXCEPT ![t] = b[1]]
  /\ UNCHANGED <<pNodes, fills, regions, freePages>>

\* heap_push_block: a node that outgrows its page is given back.
Push(nodes, b) ==
  LET s == Append(Top(nodes), b) IN
  IF Len(s) > BlocksPerNode THEN Popped(nodes) ELSE WithTop(nodes, s)

heap_push_block(t) ==
  LET c == list[t] IN
  /\ Scheduled(t) /\ pc[t] = "push"
  /\ mutex_unlock("kfree")
  /\ pc' = [pc EXCEPT ![t] = "idle"]
  /\ UNCHANGED <<fills, held, regions, va, list>>
  /\ \/ /\ SomeNode(c)
        /\ pNodes' = [pNodes EXCEPT ![c] = Push(@, va[t])]
        /\ freePages' = IF Len(Top(pNodes[c])) = BlocksPerNode
                        THEN freePages + 1 ELSE freePages
     \/ /\ ~SomeNode(c) /\ Afford(1)
        /\ pNodes' = [pNodes EXCEPT ![c] = Push(<<(<<>>)>>, va[t])]
        /\ freePages' = freePages - 1
     \/ /\ ~SomeNode(c) /\ ~Afford(1)      \* the block is lost
        /\ UNCHANGED <<pNodes, freePages>>

\* kfree of pages: the header says how many; they go back after the unlock.
kfree_pages(t, n) ==
  /\ Scheduled(t) /\ pc[t] = "idle" /\ holder["kfree"] = None
  /\ regions[n] > 0
  /\ regions' = [regions EXCEPT ![n] = @ - 1]
  /\ freePages' = freePages + n
  /\ UNCHANGED <<pNodes, fills, held, pc, va, list, holder, running>>

Next ==
  \/ \E t \in Threads, c \in Classes : kmalloc(t, c)
  \/ \E t \in Threads : FillBlockList(t) \/ GetBlock(t) \/ heap_pop_block(t)
                        \/ heap_push_block(t)
  \/ \E t \in Threads, b \in held : kfree(t, b)
  \/ \E t \in Threads, n \in RegionSizes : kmalloc_pages(t, n) \/ kfree_pages(t, n)

Spec == Init /\ [][Next]_vars

-----------------------------------------------------------------------------
Freeing == {t \in Threads : pc[t] = "push"}
FreeBlocks(c) == UNION {BlocksOn(pNodes[c][k]) : k \in 1 .. Len(pNodes[c])}

\* TypeOK: the chains hold blocks that were carved, and every local is a
\* value its variable may have.
TypeOK ==
  /\ \A c \in Classes : \A k \in 1 .. Len(pNodes[c]) :
       BlocksOn(pNodes[c][k]) \subseteq Carved(c)
  /\ fills \in [Classes -> Nat]
  /\ held \subseteq Blocks
  /\ regions \in [RegionSizes -> Nat]
  /\ freePages \in Nat
  /\ pc \in [Threads -> {"idle", "get", "pop", "push"}]
  /\ va \in [Threads -> Blocks \cup {<<>>}]
  /\ list \in [Threads -> Classes]
  /\ holder \in [Functions -> Threads \cup {None}]
  /\ running \in Threads \cup {None}

\* BlocksConserved: although kmalloc reads the top of a stack in one step and
\* lowers the count in another while kfree holds a different mutex, a block
\* that was carved is in exactly one place: once in a free stack, held, or on
\* its way back in a kfree.  None is free twice, and none is dropped.
BlocksConserved ==
  \A c \in Classes :
    /\ \A k \in 1 .. Len(pNodes[c]) : \A i, j \in 1 .. Len(pNodes[c][k]) :
         pNodes[c][k][i] = pNodes[c][k][j] => i = j
    /\ FreeBlocks(c) \cap held = {}
    /\ \A t \in Freeing : va[t] \notin FreeBlocks(c) \cup held
    /\ Carved(c) \subseteq FreeBlocks(c) \cup held \cup {va[t] : t \in Freeing}

\* NodeKept: the count of a node never passes BlocksPerNode, so that
\* heap_push_block never keeps a block past the end of the node's page and
\* gives the node back: a class is filled once and keeps the one node it got.
NodeKept ==
  \A c \in Classes : fills[c] <= 1 /\ Len(pNodes[c]) = fills[c]
=============================================================================
