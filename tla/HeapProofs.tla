----------------------------- MODULE HeapProofs -----------------------------
(***************************************************************************)
(* Proofs about Heap: the types, that every block carved is in exactly one *)
(* place, and that a class keeps the one node it was given, for any number *)
(* of threads, classes, blocks and pages.                                  *)
(***************************************************************************)
EXTENDS Heap, FiniteSetTheorems, SequenceTheorems, TLAPS

-----------------------------------------------------------------------------
(* The inductive invariant.                                                 *)

\* The blocks of a class that was filled once.
ClassBlocks(c) == {<<c, 1, i>> : i \in 1 .. BlocksPerNode}
LiveBlocks == UNION {ClassBlocks(c) : c \in {d \in Classes : fills[d] = 1}}
\* The free blocks of class c, when it has a node.
Stack(c) == pNodes[c][1]
Distinct(s) == \A i, j \in 1 .. Len(s) : s[i] = s[j] => i = j

Counts ==
  /\ fills \in [Classes -> {0, 1}]
  /\ regions \in [RegionSizes -> Nat]
  /\ freePages \in Nat

Locals ==
  /\ pc \in [Threads -> {"idle", "get", "pop", "push"}]
  /\ va \in [Threads -> LiveBlocks \cup {<<>>}]
  /\ list \in [Threads -> Classes]
  /\ holder \in [Functions -> Threads \cup {None}]
  /\ running \in Threads \cup {None}

\* A class that was filled has one node, the other classes have none.
Chained ==
  /\ pNodes = [c \in Classes |-> pNodes[c]]
  /\ \A c \in Classes :
       \/ fills[c] = 0 /\ pNodes[c] = <<>>
       \/ /\ fills[c] = 1 /\ pNodes[c] = <<Stack(c)>>
          /\ Stack(c) \in Seq(ClassBlocks(c))
          /\ Distinct(Stack(c))

\* Only the thread that turned interrupts off is inside an operation.
Alone == \A t \in Threads : pc[t] # "idle" => running = t

\* The block kmalloc has read is still the top of its stack.
Popping ==
  \A t \in Threads : pc[t] = "pop" =>
    /\ fills[list[t]] = 1 /\ Stack(list[t]) # <<>>
    /\ va[t] = Top(Stack(list[t]))

Pushing ==
  \A t \in Threads : pc[t] = "push" =>
    /\ fills[list[t]] = 1 /\ va[t] \in ClassBlocks(list[t])
    /\ va[t] \notin BlocksOn(Stack(list[t])) /\ va[t] \notin held

\* A block of a filled class is free, held or on its way back, and one only.
Placed ==
  /\ held \subseteq LiveBlocks
  /\ \A c \in Classes : fills[c] = 1 =>
       /\ BlocksOn(Stack(c)) \cap held = {}
       /\ ClassBlocks(c) \subseteq
            BlocksOn(Stack(c)) \cup held \cup {va[t] : t \in Freeing}

HeapInv == Counts /\ Locals /\ Chained /\ Alone /\ Popping /\ Pushing /\ Placed

-----------------------------------------------------------------------------
(* Sequences without repetition.                                            *)
LEMMA PoppedFacts ==
  ASSUME NEW S, NEW s \in Seq(S), s # <<>>
  PROVE  /\ Popped(s) \in Seq(S) /\ Len(Popped(s)) = Len(s) - 1
         /\ \A i \in 1 .. Len(s)-1 : Popped(s)[i] = s[i]
         /\ Top(s) \in S /\ Len(s) \in 1 .. Len(s)
<1>1. Len(s) \in Nat /\ Len(s) # 0
  OBVIOUS
<1>2. Len(s) \in 1 .. Len(s) /\ Len(s) - 1 \in Nat
  BY <1>1
<1>3. Top(s) \in S
  BY <1>2 DEF Top
<1>4. /\ Popped(s) \in Seq(S) /\ Len(Popped(s)) = Len(s) - 1
      /\ \A i \in 1 .. Len(s)-1 : Popped(s)[i] = s[i]
  <2>1. \A i \in 1 .. Len(s)-1 : s[i] \in S /\ 1 + i - 1 = i
    BY <1>1
  <2>2. /\ SubSeq(s, 1, Len(s)-1) \in Seq(S)
        /\ Len(SubSeq(s, 1, Len(s)-1)) = IF 1 <= Len(s)-1 THEN Len(s)-1-1+1 ELSE 0
        /\ \A i \in 1 .. Len(s)-1-1+1 : SubSeq(s, 1, Len(s)-1)[i] = s[1+i-1]
    BY <1>2, <2>1, SubSeqProperties
  <2>3. Len(s)-1-1+1 = Len(s)-1
    BY <1>2
  <2>4. (IF 1 <= Len(s)-1 THEN Len(s)-1-1+1 ELSE 0) = Len(s)-1
    <3>1. ASSUME NEW n \in Nat
          PROVE  (IF 1 <= n THEN n-1+1 ELSE 0) = n
      OBVIOUS
    <3>2. QED
      BY <1>2, <3>1, Zenon
  <2>5. QED
    BY <2>1, <2>2, <2>3, <2>4, Zenon DEF Popped
<1>5. QED
  BY <1>2, <1>3, <1>4

LEMMA BlocksOnPopped ==
  ASSUME NEW S, NEW s \in Seq(S), s # <<>>, Distinct(s)
  PROVE  /\ Distinct(Popped(s))
         /\ BlocksOn(Popped(s)) = BlocksOn(s) \ {Top(s)}
         /\ Top(s) \in BlocksOn(s)
<1>1. /\ Len(Popped(s)) = Len(s) - 1 /\ Len(s) \in 1 .. Len(s)
      /\ \A i \in 1 .. Len(s)-1 : Popped(s)[i] = s[i]
  BY PoppedFacts
<1>2. Len(s) \in Nat
  OBVIOUS
<1> DEFINE p == Popped(s)
<1> HIDE DEF p
<1>3. Distinct(p)
  BY <1>1, <1>2 DEF Distinct, p
<1>4. ASSUME NEW b \in BlocksOn(p)
      PROVE  b \in BlocksOn(s) \ {Top(s)}
  <2>1. PICK i \in 1 .. Len(p) : b = p[i]
    BY DEF BlocksOn
  <2>2. i \in 1 .. Len(s)-1 /\ b = s[i]
    BY <2>1, <1>1 DEF p
  <2>3. i \in 1 .. Len(s) /\ i # Len(s)
    BY <2>2, <1>2
  <2>4. QED
    BY <2>2, <2>3, <1>1 DEF BlocksOn, Top, Distinct
<1>5. ASSUME NEW b \in BlocksOn(s) \ {Top(s)}
      PROVE  b \in BlocksOn(p)
  <2>1. PICK i \in 1 .. Len(s) : b = s[i]
    BY DEF BlocksOn
  <2>2. i \in 1 .. Len(s)-1
    BY <2>1, <1>2 DEF Top
  <2>3. i \in 1 .. Len(p) /\ b = p[i]
    BY <2>1, <2>2, <1>1 DEF p
  <2>4. QED
    BY <2>3 DEF BlocksOn
<1>6. Top(s) \in BlocksOn(s)
  BY <1>1 DEF Top, BlocksOn
<1>7. QED
  BY <1>3, <1>4, <1>5, <1>6 DEF p

LEMMA BlocksOnAppended ==
  ASSUME NEW S, NEW s \in Seq(S), NEW b \in S, Distinct(s), b \notin BlocksOn(s)
  PROVE  /\ Append(s, b) \in Seq(S) /\ Len(Append(s, b)) = Len(s) + 1
         /\ Distinct(Append(s, b))
         /\ BlocksOn(Append(s, b)) = BlocksOn(s) \cup {b}
<1> DEFINE a == Append(s, b)
<1>1. /\ a \in Seq(S) /\ Len(a) = Len(s) + 1 /\ Len(s) \in Nat
      /\ \A i \in 1 .. Len(s) : a[i] = s[i]
      /\ a[Len(s)+1] = b
  OBVIOUS
<1> HIDE DEF a
<1>2. \A i \in 1 .. Len(a) : i \in 1 .. Len(s) \/ i = Len(s) + 1
  BY <1>1
<1>3. \A i \in 1 .. Len(s) : i \in 1 .. Len(a)
  BY <1>1
<1>4. \A i \in 1 .. Len(s) : s[i] # b
  BY DEF BlocksOn
<1>5. Distinct(a)
  BY <1>1, <1>2, <1>4 DEF Distinct
<1>6. Len(s) + 1 \in 1 .. Len(a)
  BY <1>1
<1>7. BlocksOn(a) = BlocksOn(s) \cup {b}
  <2>1. ASSUME NEW x \in BlocksOn(a) PROVE x \in BlocksOn(s) \cup {b}
    <3>1. PICK i \in 1 .. Len(a) : x = a[i]
      BY DEF BlocksOn
    <3>2. QED
      BY <1>1, <1>2, <3>1 DEF BlocksOn
  <2>2. ASSUME NEW x \in BlocksOn(s) \cup {b} PROVE x \in BlocksOn(a)
    <3>1. CASE x = b
      BY <1>1, <1>6, <3>1 DEF BlocksOn
    <3>2. CASE x \in BlocksOn(s)
      <4>1. PICK i \in 1 .. Len(s) : x = s[i]
        BY <3>2 DEF BlocksOn
      <4>2. i \in 1 .. Len(a) /\ x = a[i]
        BY <1>1, <1>3, <4>1
      <4>3. QED
        BY <4>2 DEF BlocksOn
    <3>3. QED
      BY <3>1, <3>2
  <2>3. QED
    BY <2>1, <2>2
<1>8. QED
  BY <1>1, <1>5, <1>7 DEF a

\* A stack without repetition holds at most the blocks of one node.
LEMMA StackBound ==
  ASSUME NEW c, NEW s \in Seq(ClassBlocks(c)), Distinct(s)
  PROVE  Len(s) <= BlocksPerNode
<1> USE HeapAssumption
<1> DEFINE f == [i \in 1 .. Len(s) |-> s[i][3]]
<1>1. Len(s) \in Nat /\ BlocksPerNode \in Nat
  OBVIOUS
<1>2. \A i \in 1 .. Len(s) :
        \E k \in 1 .. BlocksPerNode : s[i] = <<c, 1, k>>
  BY DEF ClassBlocks
<1>3. \A i \in 1 .. Len(s) :
        s[i][3] \in 1 .. BlocksPerNode /\ s[i] = <<c, 1, s[i][3]>>
  BY <1>2
<1>4. f \in [1 .. Len(s) -> 1 .. BlocksPerNode]
  BY <1>3
<1>5. /\ IsFiniteSet(1 .. Len(s)) /\ Cardinality(1 .. Len(s)) = Len(s)
      /\ IsFiniteSet(1 .. BlocksPerNode)
      /\ Cardinality(1 .. BlocksPerNode) = BlocksPerNode
  <2>1. \A n \in Nat : IsFiniteSet(1 .. n) /\ Cardinality(1 .. n) = n
    <3>1. ASSUME NEW n \in Nat
          PROVE  /\ IsFiniteSet(1 .. n)
                 /\ Cardinality(1 .. n) = IF 1 > n THEN 0 ELSE n-1+1
      <4>1. 1 \in Int /\ n \in Int
        OBVIOUS
      <4>2. QED
        BY <4>1, FS_Interval, Zenon
    <3>2. QED
      BY <3>1
  <2>2. QED
    BY <1>1, <2>1
<1>6. ASSUME BlocksPerNode < Len(s)
      PROVE  FALSE
  <2>1. \E x, y \in 1 .. Len(s) : x # y /\ f[x] = f[y]
    <3>1. Cardinality(1 .. BlocksPerNode) < Cardinality(1 .. Len(s))
      BY <1>5, <1>6
    <3> HIDE DEF f
    <3>2. QED
      BY <1>4, <1>5, <3>1, FS_PigeonHole
  <2>2. PICK x, y \in 1 .. Len(s) : x # y /\ s[x][3] = s[y][3]
    BY <2>1
  <2>3. s[x] = s[y]
    BY <2>2, <1>3
  <2>4. QED
    BY <2>2, <2>3 DEF Distinct
<1>7. QED
  BY <1>1, <1>6

-----------------------------------------------------------------------------
(* What the invariant says of the definitions of Heap.                      *)
LEMMA CarvedBlocks ==
  ASSUME NEW c \in Classes, fills[c] \in {0, 1}
  PROVE  Carved(c) = IF fills[c] = 1 THEN ClassBlocks(c) ELSE {}
<1>1. CASE fills[c] = 0
  BY <1>1 DEF Carved
<1>2. CASE fills[c] = 1
  BY <1>2 DEF Carved, ClassBlocks
<1>3. QED
  BY <1>1, <1>2

LEMMA BlockFacts ==
  ASSUME Counts
  PROVE  Blocks = LiveBlocks
<1>1. \A c \in Classes : fills[c] \in {0, 1}
  BY DEF Counts
<1>2. \A c \in Classes : Carved(c) = IF fills[c] = 1 THEN ClassBlocks(c) ELSE {}
  BY <1>1, CarvedBlocks
<1>3. QED
  BY <1>2 DEF Blocks, LiveBlocks

LEMMA ChainFacts ==
  ASSUME Counts, Chained, NEW c \in Classes
  PROVE  /\ SomeNode(c) <=> fills[c] = 1
         /\ fills[c] = 1 => Top(pNodes[c]) = Stack(c) /\ Len(pNodes[c]) = 1
         /\ FreeBlocks(c) = IF fills[c] = 1 THEN BlocksOn(Stack(c)) ELSE {}
<1>1. CASE fills[c] = 0 /\ pNodes[c] = <<>>
  BY <1>1 DEF SomeNode, FreeBlocks
<1>2. CASE fills[c] = 1 /\ pNodes[c] = <<Stack(c)>>
  <2>1. Len(pNodes[c]) = 1 /\ pNodes[c] # <<>>
    BY <1>2
  <2>2. FreeBlocks(c) = UNION {BlocksOn(pNodes[c][k]) : k \in {1}}
    <3>1. 1 .. Len(pNodes[c]) = {1}
      BY <2>1
    <3>2. QED
      BY <3>1, Zenon DEF FreeBlocks
  <2>3. FreeBlocks(c) = BlocksOn(Stack(c))
    BY <2>2 DEF Stack
  <2>4. QED
    BY <1>2, <2>1, <2>3 DEF SomeNode, Top, Stack
<1>3. QED
  BY <1>1, <1>2 DEF Chained

\* Blocks of two classes differ.
LEMMA ClassOfBlock ==
  ASSUME NEW c, NEW d, NEW b, b \in ClassBlocks(c), b \in ClassBlocks(d)
  PROVE  c = d
BY DEF ClassBlocks

LEMMA OnlyOne ==
  ASSUME Locals, Alone, NEW t \in Threads, Scheduled(t)
  PROVE  \A u \in Threads : u # t => pc[u] = "idle"
BY HeapAssumption DEF Locals, Alone, Scheduled

LEMMA InvImpliesType == HeapInv => TypeOK
<1> SUFFICES ASSUME HeapInv PROVE TypeOK
  OBVIOUS
<1> USE DEF HeapInv
<1>1. \A c \in Classes : fills[c] \in {0, 1}
  BY DEF Counts
<1>2. ASSUME NEW c \in Classes, NEW k \in 1 .. Len(pNodes[c])
      PROVE  BlocksOn(pNodes[c][k]) \subseteq Carved(c)
  <2>1. CASE fills[c] = 0 /\ pNodes[c] = <<>>
    BY <2>1
  <2>2. CASE fills[c] = 1 /\ pNodes[c] = <<Stack(c)>> /\ Stack(c) \in Seq(ClassBlocks(c))
    <3>1. k = 1 /\ Carved(c) = ClassBlocks(c)
      BY <2>2, <1>1, CarvedBlocks
    <3>2. QED
      BY <2>2, <3>1 DEF BlocksOn, Stack
  <2>3. QED
    BY <2>1, <2>2 DEF Chained
<1>3. fills \in [Classes -> Nat]
  BY DEF Counts
<1>4. va \in [Threads -> Blocks \cup {<<>>}]
  BY BlockFacts DEF Locals
<1>5. \A c \in Classes : \A k \in 1 .. Len(pNodes[c]) :
        BlocksOn(pNodes[c][k]) \subseteq Carved(c)
  BY <1>2
<1>6. regions \in [RegionSizes -> Nat] /\ freePages \in Nat
  BY DEF Counts
<1>7. /\ pc \in [Threads -> {"idle", "get", "pop", "push"}]
      /\ list \in [Threads -> Classes]
      /\ holder \in [Functions -> Threads \cup {None}]
      /\ running \in Threads \cup {None}
  BY DEF Locals
<1>8. held \subseteq Blocks
  BY BlockFacts DEF Placed
<1>9. QED
  BY <1>3, <1>4, <1>5, <1>6, <1>7, <1>8, Zenon DEF TypeOK

LEMMA InvImpliesConserved == HeapInv => BlocksConserved
<1> SUFFICES ASSUME HeapInv, NEW c \in Classes
             PROVE  /\ \A k \in 1 .. Len(pNodes[c]) : Distinct(pNodes[c][k])
                    /\ FreeBlocks(c) \cap held = {}
                    /\ \A t \in Freeing : va[t] \notin FreeBlocks(c) \cup held
                    /\ Carved(c) \subseteq
                         FreeBlocks(c) \cup held \cup {va[t] : t \in Freeing}
  BY DEF BlocksConserved, Distinct
<1> USE DEF HeapInv
<1>1. CASE fills[c] = 0 /\ pNodes[c] = <<>>
  <2>1. FreeBlocks(c) = {} /\ Carved(c) = {}
    BY <1>1, ChainFacts, CarvedBlocks
  <2>2. QED
    BY <1>1, <2>1 DEF Pushing, Freeing
<1>2. CASE /\ fills[c] = 1 /\ pNodes[c] = <<Stack(c)>> /\ Distinct(Stack(c))
           /\ Stack(c) \in Seq(ClassBlocks(c))
  <2>1. FreeBlocks(c) = BlocksOn(Stack(c)) /\ Carved(c) = ClassBlocks(c)
    BY <1>2, ChainFacts, CarvedBlocks
  <2>2. \A k \in 1 .. Len(pNodes[c]) : Distinct(pNodes[c][k])
    <3>1. \A k \in 1 .. Len(pNodes[c]) : k = 1
      BY <1>2
    <3>2. QED
      BY <1>2, <3>1 DEF Stack
  <2>3. ASSUME NEW t \in Freeing PROVE va[t] \notin FreeBlocks(c) \cup held
    <3>1. /\ t \in Threads /\ va[t] \in ClassBlocks(list[t]) /\ va[t] \notin held
          /\ va[t] \notin BlocksOn(Stack(list[t]))
      BY DEF Freeing, Pushing
    <3>2. ASSUME va[t] \in BlocksOn(Stack(c)) PROVE FALSE
      <4>1. va[t] \in ClassBlocks(c)
        BY <3>2, <1>2 DEF BlocksOn
      <4>2. c = list[t]
        BY <3>1, <4>1, ClassOfBlock
      <4>3. QED
        BY <3>1, <3>2, <4>2
    <3>3. QED
      BY <2>1, <3>1, <3>2
  <2>4. QED
    BY <1>2, <2>1, <2>2, <2>3 DEF Placed
<1>3. QED
  BY <1>1, <1>2 DEF Chained

LEMMA InvImpliesNodeKept == HeapInv => NodeKept
<1> SUFFICES ASSUME HeapInv, NEW c \in Classes
             PROVE  fills[c] <= 1 /\ Len(pNodes[c]) = fills[c]
  BY DEF NodeKept
<1>1. CASE fills[c] = 0 /\ pNodes[c] = <<>>
  BY <1>1
<1>2. CASE fills[c] = 1 /\ pNodes[c] = <<Stack(c)>>
  BY <1>2
<1>3. QED
  BY <1>1, <1>2 DEF HeapInv, Chained
-----------------------------------------------------------------------------
(* The initial states.                                                      *)
LEMMA InitInv == Init => HeapInv
<1> SUFFICES ASSUME Init PROVE HeapInv
  OBVIOUS
<1> USE HeapAssumption DEF Init
<1>1. Counts
  BY DEF Counts
<1>2. Locals
  BY DEF Locals
<1>3. Chained
  BY DEF Chained
<1>4. \A t \in Threads : pc[t] = "idle"
  OBVIOUS
<1>5. Alone /\ Popping /\ Pushing
  BY <1>4 DEF Alone, Popping, Pushing
<1>6. Placed
  BY DEF Placed
<1>7. QED
  BY <1>1, <1>2, <1>3, <1>5, <1>6 DEF HeapInv

-----------------------------------------------------------------------------
(* The steps.                                                               *)

\* At most the running thread is giving a block back.
LEMMA WayBack ==
  ASSUME NEW p, NEW v, NEW t \in Threads,
         \A u \in Threads : u # t => p[u] = "idle"
  PROVE  {v[u] : u \in {w \in Threads : p[w] = "push"}}
           = IF p[t] = "push" THEN {v[t]} ELSE {}
OBVIOUS

\* A step of the running thread that moves no block.
LEMMA NothingMoves ==
  ASSUME HeapInv, NEW t \in Threads, Scheduled(t),
         UNCHANGED <<pNodes, fills, held>>,
         pc[t] # "push", NEW x \in {"idle", "get", "pop"},
         pc' = [pc EXCEPT ![t] = x]
  PROVE  Chained' /\ Pushing' /\ Placed'
<1> USE DEF HeapInv
<1>1. \A u \in Threads : u # t => pc[u] = "idle"
  BY OnlyOne
<1>2. \A u \in Threads : (u # t => pc'[u] = "idle") /\ pc'[u] # "push"
  BY <1>1 DEF Locals
<1>3. Chained'
  BY DEF Chained, Stack
<1>4. Pushing'
  BY <1>2 DEF Pushing
<1>5. {va[u] : u \in Freeing} = {}
  BY <1>1 DEF Freeing
<1>6. Placed'
  BY <1>5 DEF Placed, LiveBlocks, Stack
<1>7. QED
  BY <1>3, <1>4, <1>6

LEMMA KmallocKeeps ==
  ASSUME HeapInv, NEW t \in Threads, NEW c \in Classes, kmalloc(t, c)
  PROVE  HeapInv'
<1> USE DEF HeapInv, kmalloc, mutex_lock, memory
<1>1. Counts'
  BY DEF Counts
<1>2. Locals'
  BY DEF Locals, LiveBlocks, Functions
<1>3. Chained' /\ Pushing' /\ Placed'
  BY NothingMoves
<1>4. \A u \in Threads : pc'[u] # "idle" => u = t
  BY OnlyOne DEF Locals
<1>5. pc'[t] = "get"
  BY DEF Locals
<1>6. Alone' /\ Popping'
  BY <1>4, <1>5 DEF Alone, Popping
<1>7. QED
  BY <1>1, <1>2, <1>3, <1>6

LEMMA FailKeeps ==
  ASSUME HeapInv, NEW t \in Threads, Scheduled(t), pc[t] = "get", Fail(t),
         UNCHANGED <<pNodes, fills, va>>, freePages' \in Nat
  PROVE  HeapInv'
<1> USE DEF HeapInv, Fail, mutex_unlock
<1>1. Counts'
  BY DEF Counts
<1>2. Locals'
  BY DEF Locals, LiveBlocks, Functions
<1>3. Chained' /\ Pushing' /\ Placed'
  BY NothingMoves
<1>4. \A u \in Threads : pc'[u] = "idle"
  BY OnlyOne DEF Locals
<1>5. Alone' /\ Popping'
  BY <1>4 DEF Alone, Popping
<1>6. QED
  BY <1>1, <1>2, <1>3, <1>5

LEMMA GetBlockKeeps ==
  ASSUME HeapInv, NEW t \in Threads, GetBlock(t)
  PROVE  HeapInv'
<1> USE DEF HeapInv, GetBlock
<1> DEFINE c == list[t]
<1>1. c \in Classes /\ freePages' \in Nat
  BY DEF Locals, Counts
<1>2. CASE Top(pNodes[c]) = <<>>
  BY <1>1, <1>2, FailKeeps
<1>3. CASE Top(pNodes[c]) # <<>>
  <2>1. fills[c] = 1 /\ Top(pNodes[c]) = Stack(c)
    BY <1>1, ChainFacts
  <2>2. Stack(c) \in Seq(ClassBlocks(c)) /\ Stack(c) # <<>>
    BY <1>1, <1>3, <2>1 DEF Chained
  <2>3. va' = [va EXCEPT ![t] = Top(Stack(c))] /\ Top(Stack(c)) \in ClassBlocks(c)
    BY <1>3, <2>1, <2>2, PoppedFacts
  <2>4. pc' = [pc EXCEPT ![t] = "pop"] /\ UNCHANGED <<held, regions, list, holder, running>>
    BY <1>3
  <2>5. Counts'
    BY <2>4 DEF Counts
  <2>6. Locals'
    BY <1>1, <2>1, <2>3, <2>4 DEF Locals, LiveBlocks
  <2>7. Chained' /\ Pushing' /\ Placed'
    BY <2>4, NothingMoves
  <2>8. \A u \in Threads : pc'[u] # "idle" => u = t
    BY <2>4, OnlyOne DEF Locals
  <2>9. Alone'
    BY <2>4, <2>8 DEF Alone
  <2>10. Popping'
    <3>1. va'[t] = Top(Stack(c)) /\ list'[t] = c /\ Stack(c)' = Stack(c)
      BY <2>3, <2>4 DEF Locals, Stack
    <3>2. QED
      BY <2>1, <2>2, <2>4, <2>8, <3>1 DEF Popping, Stack
  <2>11. QED
    BY <2>5, <2>6, <2>7, <2>9, <2>10
<1>4. QED
  BY <1>2, <1>3

LEMMA PagesKeep ==
  ASSUME HeapInv, NEW t \in Threads, NEW n \in RegionSizes,
         kmalloc_pages(t, n) \/ kfree_pages(t, n)
  PROVE  HeapInv'
<1> USE DEF HeapInv, kmalloc_pages, kfree_pages
<1>1. UNCHANGED <<pNodes, fills, held, pc, va, list, holder, running>>
  OBVIOUS
<1>2. n \in Nat
  BY HeapAssumption
<1>3. Counts'
  <2>1. CASE kmalloc_pages(t, n)
    BY <1>2, <2>1 DEF Counts, Spend, Afford
  <2>2. CASE kfree_pages(t, n)
    BY <1>2, <2>2 DEF Counts
  <2>3. QED
    BY <2>1, <2>2
<1>4. Locals' /\ Chained' /\ Alone'
  BY <1>1 DEF Locals, LiveBlocks, Chained, Stack, Alone
<1>5. Popping' /\ Pushing'
  BY <1>1 DEF Popping, Pushing, Stack
<1>6. Placed'
  BY <1>1 DEF Placed, LiveBlocks, Stack, Freeing
<1>7. QED
  BY <1>3, <1>4, <1>5, <1>6

\* A new node holds each block of its class once.
LEMMA FillFacts ==
  ASSUME NEW c \in Classes, fills[c] = 0
  PROVE  /\ Fill(c) \in Seq(ClassBlocks(c)) /\ Fill(c) # <<>>
         /\ Distinct(Fill(c)) /\ BlocksOn(Fill(c)) = ClassBlocks(c)
<1> USE HeapAssumption
<1>1. Fill(c) = [i \in 1 .. BlocksPerNode |-> <<c, 1, i>>]
  BY DEF Fill
<1>2. \A i \in 1 .. BlocksPerNode : <<c, 1, i>> \in ClassBlocks(c)
  BY DEF ClassBlocks
<1>3. Fill(c) \in Seq(ClassBlocks(c)) /\ Len(Fill(c)) = BlocksPerNode
  <2>1. Fill(c) \in [1 .. BlocksPerNode -> ClassBlocks(c)]
    BY <1>1, <1>2
  <2>2. QED
    BY <2>1
<1>4. \A i \in 1 .. BlocksPerNode : Fill(c)[i] = <<c, 1, i>>
  BY <1>1
<1>5. Distinct(Fill(c))
  BY <1>3, <1>4 DEF Distinct
<1>6. BlocksOn(Fill(c)) = ClassBlocks(c)
  BY <1>3, <1>4 DEF BlocksOn, ClassBlocks
<1>7. Fill(c) # <<>>
  BY <1>3
<1>8. QED
  BY <1>3, <1>5, <1>6, <1>7

LEMMA FillBlockListKeeps ==
  ASSUME HeapInv, NEW t \in Threads, FillBlockList(t)
  PROVE  HeapInv'
<1> USE DEF HeapInv, FillBlockList
<1>1. PICK c \in Classes : c = list[t]
  BY DEF Locals
<1>10. Scheduled(t) /\ pc[t] = "get"
  OBVIOUS
<1>11. freePages' \in Nat
  BY HeapAssumption DEF Counts, Spend, Afford
<1> DEFINE s == Fill(c)
<1>2. CASE ~Afford(DataPages + 1)
  BY <1>11, <1>2, FailKeeps
<1>3. CASE Afford(DataPages + 1)
  <2>1. fills[c] = 0 /\ pNodes[c] = <<>>
    <3>1. fills[c] # 1
      BY <1>1, ChainFacts
    <3>2. QED
      BY <3>1 DEF Chained
  <2>2. /\ s \in Seq(ClassBlocks(c)) /\ s # <<>>
        /\ Distinct(s) /\ BlocksOn(s) = ClassBlocks(c)
    BY <1>1, <2>1, FillFacts
  <2>3. Top(s) \in ClassBlocks(c)
    BY <2>2, PoppedFacts
  <2>4. /\ pNodes' = [pNodes EXCEPT ![c] = Append(@, s)]
        /\ fills' = [fills EXCEPT ![c] = @ + 1]
        /\ va' = [va EXCEPT ![t] = Top(s)]
        /\ pc' = [pc EXCEPT ![t] = "pop"]
        /\ UNCHANGED <<held, regions, list, holder, running>>
    BY <1>1, <1>3
  <2> HIDE DEF s, FillBlockList
  <2>5. /\ pNodes'[c] = <<s>> /\ Stack(c)' = s /\ fills'[c] = 1
        /\ \A d \in Classes : d # c => pNodes'[d] = pNodes[d] /\ fills'[d] = fills[d]
        /\ pNodes' = [d \in Classes |-> pNodes'[d]]
    <3>1. pNodes'[c] = Append(<<>>, s)
      BY <1>1, <2>1, <2>4 DEF Chained
    <3>2. pNodes'[c] = <<s>>
      BY <3>1
    <3>3. Stack(c)' = s
      BY <3>2 DEF Stack
    <3>4. fills'[c] = 1
      BY <1>1, <2>1, <2>4 DEF Counts
    <3>5. \A d \in Classes : d # c => pNodes'[d] = pNodes[d] /\ fills'[d] = fills[d]
      BY <2>4 DEF Chained, Counts
    <3>6. pNodes' = [d \in Classes |-> pNodes'[d]]
      BY <2>4 DEF Chained
    <3>7. QED
      BY <3>2, <3>3, <3>4, <3>5, <3>6
  <2>6. Counts'
    BY <1>11, <2>1, <2>4 DEF Counts
  <2>7. \A b : b \in LiveBlocks' <=> b \in LiveBlocks \/ b \in ClassBlocks(c)
    BY <1>1, <2>1, <2>5 DEF LiveBlocks
  <2>8. Locals'
    BY <2>3, <2>4, <2>7 DEF Locals
  <2>9. Chained'
    <3>1. ASSUME NEW d \in Classes
          PROVE  (\/ fills[d] = 0 /\ pNodes[d] = <<>>
                  \/ /\ fills[d] = 1 /\ pNodes[d] = <<Stack(d)>>
                     /\ Stack(d) \in Seq(ClassBlocks(d))
                     /\ Distinct(Stack(d)))'
      <4>1. CASE d = c
        BY <2>2, <2>5, <4>1
      <4>2. CASE d # c
        <5>1. Stack(d)' = Stack(d)
          BY <2>5, <4>2 DEF Stack
        <5>2. QED
          BY <2>5, <4>2, <5>1 DEF Chained
      <4>3. QED
        BY <4>1, <4>2
    <3>2. QED
      BY <2>5, <3>1 DEF Chained
  <2>10. \A u \in Threads : u # t => pc[u] = "idle" /\ pc'[u] = "idle"
    BY <1>10, <2>4, OnlyOne DEF Locals
  <2>11. pc'[t] = "pop"
    BY <2>4 DEF Locals
  <2>12. Alone' /\ Pushing'
    BY <1>10, <2>4, <2>10, <2>11 DEF Alone, Pushing
  <2>13. Popping'
    <3>1. va'[t] = Top(s) /\ list'[t] = c
      BY <1>1, <2>4 DEF Locals
    <3>2. QED
      BY <2>2, <2>5, <2>10, <3>1 DEF Popping
  <2>14. Placed'
    <3>1. held' \subseteq LiveBlocks'
      BY <2>4, <2>7 DEF Placed
    <3>2. ClassBlocks(c) \cap held = {}
      BY <2>1, ClassOfBlock DEF Placed, LiveBlocks
    <3>3. Freeing = {} /\ Freeing' = {}
      BY <1>10, <2>10, <2>11 DEF Freeing
    <3>4. ASSUME NEW d \in Classes, fills'[d] = 1
          PROVE  /\ BlocksOn(Stack(d)') \cap held' = {}
                 /\ ClassBlocks(d) \subseteq
                      BlocksOn(Stack(d)') \cup held' \cup {va'[u] : u \in Freeing'}
      <4>1. CASE d = c
        BY <2>2, <2>4, <2>5, <3>2, <4>1
      <4>2. CASE d # c
        <5>1. Stack(d)' = Stack(d) /\ fills[d] = 1
          BY <2>5, <3>4, <4>2 DEF Stack
        <5>2. QED
          BY <2>4, <3>3, <5>1 DEF Placed
      <4>3. QED
        BY <4>1, <4>2
    <3>5. QED
      BY <3>1, <3>4 DEF Placed
  <2>15. QED
    BY <2>6, <2>8, <2>9, <2>12, <2>13, <2>14
<1>4. QED
  BY <1>2, <1>3

LEMMA PopKeeps ==
  ASSUME HeapInv, NEW t \in Threads, heap_pop_block(t)
  PROVE  HeapInv'
<1> USE DEF HeapInv
<1>1. PICK c \in Classes : c = list[t]
  BY DEF Locals
<1>2. /\ Scheduled(t) /\ pc[t] = "pop"
      /\ UNCHANGED <<fills, regions, freePages, list, va>>
      /\ holder' = [holder EXCEPT !["kmalloc"] = None] /\ running' = None
      /\ pc' = [pc EXCEPT ![t] = "idle"]
  BY DEF heap_pop_block, mutex_unlock
<1> DEFINE s == Stack(c)
<1>3. fills[c] = 1 /\ s # <<>> /\ va[t] = Top(s)
  BY <1>1, <1>2 DEF Popping
<1>4. pNodes[c] = <<s>> /\ s \in Seq(ClassBlocks(c)) /\ Distinct(s)
  BY <1>3 DEF Chained
<1>5. /\ pNodes' = [pNodes EXCEPT ![c] = WithTop(@, PopBlock(Top(@)))]
      /\ held' = held \cup {va[t]}
  <2>1. SomeNode(c) /\ Top(pNodes[c]) = s
    BY <1>3, ChainFacts
  <2>2. QED
    BY <1>1, <1>3, <2>1 DEF heap_pop_block
<1>6. /\ Popped(s) \in Seq(ClassBlocks(c)) /\ Distinct(Popped(s))
      /\ BlocksOn(Popped(s)) = BlocksOn(s) \ {va[t]}
      /\ va[t] \in BlocksOn(s) /\ va[t] \in ClassBlocks(c)
  BY <1>3, <1>4, PoppedFacts, BlocksOnPopped
<1>7. /\ pNodes'[c] = <<Popped(s)>> /\ Stack(c)' = Popped(s)
      /\ \A d \in Classes : d # c => pNodes'[d] = pNodes[d]
      /\ pNodes' = [d \in Classes |-> pNodes'[d]]
  <2> HIDE DEF s
  <2>1. WithTop(<<s>>, PopBlock(Top(<<s>>))) = <<Popped(s)>>
    BY DEF WithTop, PopBlock, Top
  <2>2. pNodes'[c] = <<Popped(s)>>
    BY <1>4, <1>5, <2>1 DEF Chained
  <2>3. Stack(c)' = Popped(s)
    BY <2>2 DEF Stack
  <2>4. /\ \A d \in Classes : d # c => pNodes'[d] = pNodes[d]
        /\ pNodes' = [d \in Classes |-> pNodes'[d]]
    BY <1>5 DEF Chained
  <2>5. QED
    BY <2>2, <2>3, <2>4
<1> HIDE DEF s
<1>8. Counts'
  BY <1>2 DEF Counts
<1>9. Locals'
  BY <1>2 DEF Locals, LiveBlocks, Functions
<1>10. Chained'
  <2>1. ASSUME NEW d \in Classes, d # c
        PROVE  (\/ fills[d] = 0 /\ pNodes[d] = <<>>
                \/ /\ fills[d] = 1 /\ pNodes[d] = <<Stack(d)>>
                   /\ Stack(d) \in Seq(ClassBlocks(d))
                   /\ Distinct(Stack(d)))'
    <3>1. Stack(d)' = Stack(d)
      BY <1>7, <2>1 DEF Stack
    <3>2. QED
      BY <1>2, <1>7, <2>1, <3>1 DEF Chained
  <2>2. fills'[c] = 1 /\ pNodes'[c] = <<Stack(c)'>>
    BY <1>2, <1>3, <1>7
  <2>3. Stack(c)' \in Seq(ClassBlocks(c)) /\ Distinct(Stack(c)')
    BY <1>6, <1>7
  <2>4. QED
    BY <1>7, <2>1, <2>2, <2>3 DEF Chained
<1>11. \A u \in Threads : pc'[u] = "idle"
  BY <1>2, OnlyOne DEF Locals
<1>12. Alone' /\ Popping' /\ Pushing'
  BY <1>11 DEF Alone, Popping, Pushing
<1>13. Placed'
  <2>1. held' \subseteq LiveBlocks'
    BY <1>2, <1>3, <1>5, <1>6 DEF Placed, LiveBlocks
  <2>2. Freeing = {}
    BY <1>2, OnlyOne DEF Freeing
  <2>3. ASSUME NEW d \in Classes, fills'[d] = 1
        PROVE  /\ BlocksOn(Stack(d)') \cap held' = {}
               /\ ClassBlocks(d) \subseteq
                    BlocksOn(Stack(d)') \cup held' \cup {va'[u] : u \in Freeing'}
    <3>1. CASE d = c
      <4>1. BlocksOn(s) \cap held = {} /\ ClassBlocks(c) \subseteq BlocksOn(s) \cup held
        BY <1>3, <2>2 DEF Placed, s
      <4>2. QED
        BY <1>5, <1>6, <1>7, <3>1, <4>1
    <3>2. CASE d # c
      <4>1. Stack(d)' = Stack(d) /\ fills[d] = 1
        BY <1>2, <1>7, <2>3, <3>2 DEF Stack
      <4>2. BlocksOn(Stack(d)) \subseteq ClassBlocks(d)
        BY <4>1 DEF Chained, BlocksOn
      <4>3. va[t] \notin BlocksOn(Stack(d))
        BY <1>6, <3>2, <4>2, ClassOfBlock
      <4>4. QED
        BY <1>5, <2>2, <4>1, <4>3 DEF Placed
    <3>3. QED
      BY <3>1, <3>2
  <2>4. QED
    BY <2>1, <2>3 DEF Placed
<1>14. QED
  BY <1>8, <1>9, <1>10, <1>12, <1>13

LEMMA KfreeKeeps ==
  ASSUME HeapInv, NEW t \in Threads, NEW b \in held, kfree(t, b)
  PROVE  HeapInv'
<1> USE DEF HeapInv
<1>1. /\ Scheduled(t) /\ pc[t] = "idle" /\ held' = held \ {b}
      /\ holder' = [holder EXCEPT !["kfree"] = t] /\ running' = t
      /\ pc' = [pc EXCEPT ![t] = "push"] /\ va' = [va EXCEPT ![t] = b]
      /\ list' = [list EXCEPT ![t] = b[1]]
      /\ UNCHANGED <<pNodes, fills, regions, freePages>>
  BY DEF kfree, mutex_lock
<1>2. PICK c \in Classes : fills[c] = 1 /\ b \in ClassBlocks(c)
  BY DEF Placed, LiveBlocks
<1>3. b[1] = c
  BY <1>2 DEF ClassBlocks
<1>4. b \notin BlocksOn(Stack(c))
  BY <1>2 DEF Placed
<1>5. Counts'
  BY <1>1 DEF Counts
<1>6. Locals'
  <2>1. va' \in [Threads -> LiveBlocks' \cup {<<>>}]
    BY <1>1, <1>2 DEF Locals, LiveBlocks
  <2>2. QED
    BY <1>1, <1>2, <1>3, <2>1 DEF Locals, Functions
<1>7. Chained'
  BY <1>1 DEF Chained, Stack
<1>8. /\ \A u \in Threads : u # t => pc[u] = "idle" /\ pc'[u] = "idle"
      /\ pc'[t] = "push" /\ va'[t] = b /\ list'[t] = c
  BY <1>1, <1>3, OnlyOne DEF Locals
<1>9. Alone' /\ Popping'
  BY <1>1, <1>8 DEF Alone, Popping
<1>10. Pushing'
  <2>1. Stack(c)' = Stack(c) /\ fills' = fills /\ b \notin held'
    BY <1>1 DEF Stack
  <2>2. QED
    BY <1>2, <1>4, <1>8, <2>1 DEF Pushing, Stack
<1>11. Placed'
  <2>1. Freeing = {} /\ Freeing' = {t}
    BY <1>1, <1>8 DEF Freeing
  <2>2. {va'[u] : u \in Freeing'} = {b}
    BY <1>8, <2>1
  <2>3. QED
    BY <1>1, <2>1, <2>2 DEF Placed, LiveBlocks, Stack
<1>12. QED
  BY <1>5, <1>6, <1>7, <1>9, <1>10, <1>11

LEMMA PushKeeps ==
  ASSUME HeapInv, NEW t \in Threads, heap_push_block(t)
  PROVE  HeapInv'
<1> USE DEF HeapInv
<1>1. PICK c \in Classes : c = list[t]
  BY DEF Locals
<1>2. /\ Scheduled(t) /\ pc[t] = "push"
      /\ UNCHANGED <<fills, held, regions, va, list>>
      /\ holder' = [holder EXCEPT !["kfree"] = None] /\ running' = None
      /\ pc' = [pc EXCEPT ![t] = "idle"]
  BY DEF heap_push_block, mutex_unlock
<1> DEFINE s == Stack(c)
           a == Append(s, va[t])
<1>3. /\ fills[c] = 1 /\ va[t] \in ClassBlocks(c)
      /\ va[t] \notin BlocksOn(s) /\ va[t] \notin held
  BY <1>1, <1>2 DEF Pushing
<1>4. pNodes[c] = <<s>> /\ s \in Seq(ClassBlocks(c)) /\ Distinct(s)
  BY <1>3 DEF Chained
<1>5. SomeNode(c) /\ Top(pNodes[c]) = s
  BY <1>3, ChainFacts
<1>6. /\ a \in Seq(ClassBlocks(c)) /\ Distinct(a) /\ Len(a) = Len(s) + 1
      /\ BlocksOn(a) = BlocksOn(s) \cup {va[t]}
  BY <1>3, <1>4, BlocksOnAppended
<1>7. Len(a) <= BlocksPerNode /\ Len(s) \in Nat /\ BlocksPerNode \in Nat
  <2>1. Len(s) \in Nat /\ BlocksPerNode \in Nat
    BY <1>4, HeapAssumption
  <2> HIDE DEF a
  <2>2. Len(a) <= BlocksPerNode
    BY <1>6, StackBound
  <2>3. QED
    BY <2>1, <2>2
<1>8. /\ pNodes' = [pNodes EXCEPT ![c] = Push(@, va[t])]
      /\ freePages' = freePages
  <2>1. Len(s) # BlocksPerNode
    BY <1>6, <1>7
  <2>2. QED
    BY <1>1, <1>5, <2>1 DEF heap_push_block
<1>9. /\ pNodes'[c] = <<a>> /\ Stack(c)' = a
      /\ \A d \in Classes : d # c => pNodes'[d] = pNodes[d]
      /\ pNodes' = [d \in Classes |-> pNodes'[d]]
  <2>1. ~(Len(a) > BlocksPerNode)
    BY <1>6, <1>7
  <2> HIDE DEF s
  <2>2. Top(<<s>>) = s
    BY DEF Top
  <2>3. Push(<<s>>, va[t]) = WithTop(<<s>>, a)
    BY <2>1, <2>2 DEF Push
  <2> HIDE DEF a
  <2>4. WithTop(<<s>>, a) = <<a>>
    BY DEF WithTop
  <2>5. pNodes'[c] = <<a>>
    BY <1>4, <1>8, <2>3, <2>4 DEF Chained
  <2>6. Stack(c)' = a
    BY <2>5 DEF Stack
  <2>7. /\ \A d \in Classes : d # c => pNodes'[d] = pNodes[d]
        /\ pNodes' = [d \in Classes |-> pNodes'[d]]
    BY <1>8 DEF Chained
  <2>8. QED
    BY <2>5, <2>6, <2>7
<1> HIDE DEF s, a
<1>10. Counts'
  BY <1>2, <1>8 DEF Counts
<1>11. Locals'
  BY <1>2 DEF Locals, LiveBlocks, Functions
<1>12. Chained'
  <2>1. ASSUME NEW d \in Classes, d # c
        PROVE  (\/ fills[d] = 0 /\ pNodes[d] = <<>>
                \/ /\ fills[d] = 1 /\ pNodes[d] = <<Stack(d)>>
                   /\ Stack(d) \in Seq(ClassBlocks(d))
                   /\ Distinct(Stack(d)))'
    <3>1. Stack(d)' = Stack(d)
      BY <1>9, <2>1 DEF Stack
    <3>2. QED
      BY <1>2, <1>9, <2>1, <3>1 DEF Chained
  <2>2. fills'[c] = 1 /\ pNodes'[c] = <<Stack(c)'>>
    BY <1>2, <1>3, <1>9
  <2>3. Stack(c)' \in Seq(ClassBlocks(c)) /\ Distinct(Stack(c)')
    BY <1>6, <1>9
  <2>4. QED
    BY <1>9, <2>1, <2>2, <2>3 DEF Chained
<1>13. \A u \in Threads : pc'[u] = "idle" /\ (u # t => pc[u] = "idle")
  BY <1>2, OnlyOne DEF Locals
<1>14. Alone' /\ Popping' /\ Pushing'
  BY <1>13 DEF Alone, Popping, Pushing
<1>15. Placed'
  <2>1. held' \subseteq LiveBlocks'
    BY <1>2 DEF Placed, LiveBlocks
  <2>2. {va[u] : u \in Freeing} = {va[t]}
    BY <1>2, <1>13 DEF Freeing
  <2>3. ASSUME NEW d \in Classes, fills'[d] = 1
        PROVE  /\ BlocksOn(Stack(d)') \cap held' = {}
               /\ ClassBlocks(d) \subseteq
                    BlocksOn(Stack(d)') \cup held' \cup {va'[u] : u \in Freeing'}
    <3>1. CASE d = c
      <4>1. /\ BlocksOn(s) \cap held = {}
            /\ ClassBlocks(c) \subseteq BlocksOn(s) \cup held \cup {va[t]}
        BY <1>3, <2>2 DEF Placed, s
      <4>2. QED
        BY <1>2, <1>3, <1>6, <1>9, <3>1, <4>1
    <3>2. CASE d # c
      <4>1. Stack(d)' = Stack(d) /\ fills[d] = 1
        BY <1>2, <1>9, <2>3, <3>2 DEF Stack
      <4>2. /\ BlocksOn(Stack(d)) \cap held = {}
            /\ ClassBlocks(d) \subseteq BlocksOn(Stack(d)) \cup held \cup {va[t]}
        BY <2>2, <4>1 DEF Placed
      <4>3. va[t] \notin ClassBlocks(d)
        BY <1>3, <3>2, ClassOfBlock
      <4>4. QED
        BY <1>2, <4>1, <4>2, <4>3
    <3>3. QED
      BY <3>1, <3>2
  <2>4. QED
    BY <2>1, <2>3 DEF Placed
<1>16. QED
  BY <1>10, <1>11, <1>12, <1>14, <1>15

-----------------------------------------------------------------------------
LEMMA NextInv == HeapInv /\ [Next]_vars => HeapInv'
<1> SUFFICES ASSUME HeapInv, [Next]_vars PROVE HeapInv'
  OBVIOUS
<1>1. ASSUME NEW t \in Threads, NEW c \in Classes, kmalloc(t, c) PROVE HeapInv'
  BY <1>1, KmallocKeeps
<1>2. ASSUME NEW t \in Threads, FillBlockList(t) PROVE HeapInv'
  BY <1>2, FillBlockListKeeps
<1>3. ASSUME NEW t \in Threads, GetBlock(t) PROVE HeapInv'
  BY <1>3, GetBlockKeeps
<1>4. ASSUME NEW t \in Threads, heap_pop_block(t) PROVE HeapInv'
  BY <1>4, PopKeeps
<1>5. ASSUME NEW t \in Threads, heap_push_block(t) PROVE HeapInv'
  BY <1>5, PushKeeps
<1>6. ASSUME NEW t \in Threads, NEW b \in held, kfree(t, b) PROVE HeapInv'
  BY <1>6, KfreeKeeps
<1>7. ASSUME NEW t \in Threads, NEW n \in RegionSizes,
             kmalloc_pages(t, n) \/ kfree_pages(t, n)
      PROVE  HeapInv'
  BY <1>7, PagesKeep
<1>8. CASE UNCHANGED vars
  <2>1. UNCHANGED <<pNodes, fills, held, regions, freePages, pc, va, list, holder, running>>
    BY <1>8 DEF vars, memory
  <2>2. Counts' /\ Locals' /\ Chained' /\ Alone'
    BY <2>1 DEF HeapInv, Counts, Locals, LiveBlocks, Chained, Stack, Alone
  <2>3. Popping' /\ Pushing'
    BY <2>1 DEF HeapInv, Popping, Pushing, Stack
  <2>4. Placed'
    BY <2>1 DEF HeapInv, Placed, LiveBlocks, Stack, Freeing
  <2>5. QED
    BY <2>2, <2>3, <2>4 DEF HeapInv
<1>9. QED
  BY <1>1, <1>2, <1>3, <1>4, <1>5, <1>6, <1>7, <1>8 DEF Next

(* Every reachable state has the values its variables may have.             *)
THEOREM TypeCorrect == Spec => []TypeOK
BY InitInv, NextInv, InvImpliesType, PTL DEF Spec

(* kmalloc and kfree interrupt each other nowhere, and a block that was     *)
(* carved is in exactly one place, for any number of threads and classes.   *)
THEOREM BlocksCorrect == Spec => []BlocksConserved
BY InitInv, NextInv, InvImpliesConserved, PTL DEF Spec

(* No node outgrows its page, so that none is given back and a class keeps  *)
(* the one it was filled with.                                              *)
THEOREM NodeCorrect == Spec => []NodeKept
BY InitInv, NextInv, InvImpliesNodeKept, PTL DEF Spec

-----------------------------------------------------------------------------
(* What callers see.                                                        *)

\* GivesUnheld: the block whose address kmalloc read some steps ago is the one
\* it takes off the stack, and nobody holds it; between the two no other call
\* gives, takes or carves a block.
PopTakesItsBlock ==
  \A t \in Threads :
    pc[t] = "pop" /\ (pc[t] # pc'[t] \/ held # held' \/ pNodes # pNodes') =>
      /\ va[t] \notin held /\ held' = held \cup {va[t]}
      /\ va[t] \in FreeBlocks(list[t]) /\ va[t] \notin FreeBlocks(list[t])'

GivesUnheld == [][PopTakesItsBlock]_vars

LEMMA OneNode ==
  ASSUME NEW nodes, NEW s, nodes = <<s>>
  PROVE  UNION {BlocksOn(nodes[k]) : k \in 1 .. Len(nodes)} = BlocksOn(s)
<1>1. 1 .. Len(nodes) = {1} /\ nodes[1] = s
  OBVIOUS
<1>2. QED
  BY <1>1, Zenon

\* While kmalloc is between its two steps, the only step that changes the heap
\* is its own second one.
LEMMA OnlyThePop ==
  ASSUME HeapInv, [Next]_vars, NEW t \in Threads, pc[t] = "pop",
         pc[t] # pc'[t] \/ held # held' \/ pNodes # pNodes'
  PROVE  heap_pop_block(t)
<1>1. \A u \in Threads : Scheduled(u) => u = t
  BY HeapAssumption DEF HeapInv, Alone, Scheduled
<1>2. ~UNCHANGED vars
  BY DEF vars, memory
<1>3. ASSUME NEW u \in Threads, NEW c \in Classes, kmalloc(u, c) PROVE FALSE
  BY <1>1, <1>3 DEF kmalloc
<1>4. ASSUME NEW u \in Threads, FillBlockList(u) \/ GetBlock(u) \/ heap_push_block(u)
      PROVE  FALSE
  BY <1>1, <1>4 DEF FillBlockList, GetBlock, heap_push_block
<1>5. ASSUME NEW u \in Threads, NEW b \in held, kfree(u, b) PROVE FALSE
  BY <1>1, <1>5 DEF kfree
<1>6. ASSUME NEW u \in Threads, NEW n \in RegionSizes,
             kmalloc_pages(u, n) \/ kfree_pages(u, n)
      PROVE  FALSE
  BY <1>1, <1>6 DEF kmalloc_pages, kfree_pages
<1>7. ASSUME NEW u \in Threads, heap_pop_block(u) PROVE u = t
  BY <1>1, <1>7 DEF heap_pop_block
<1>8. QED
  BY <1>2, <1>3, <1>4, <1>5, <1>6, <1>7 DEF Next

LEMMA PopGives ==
  ASSUME HeapInv, NEW t \in Threads, heap_pop_block(t)
  PROVE  /\ va[t] \notin held /\ held' = held \cup {va[t]}
         /\ va[t] \in FreeBlocks(list[t]) /\ va[t] \notin FreeBlocks(list[t])'
<1> USE DEF HeapInv
<1>1. PICK c \in Classes : c = list[t]
  BY DEF Locals
<1>2. pc[t] = "pop" /\ list' = list
  BY DEF heap_pop_block
<1> DEFINE s == Stack(c)
<1>3. fills[c] = 1 /\ s # <<>> /\ va[t] = Top(s)
  BY <1>1, <1>2 DEF Popping
<1>4. pNodes[c] = <<s>> /\ s \in Seq(ClassBlocks(c)) /\ Distinct(s)
  BY <1>3 DEF Chained
<1>5. /\ pNodes' = [pNodes EXCEPT ![c] = WithTop(@, PopBlock(Top(@)))]
      /\ held' = held \cup {va[t]}
  <2>1. SomeNode(c) /\ Top(pNodes[c]) = s
    BY <1>3, ChainFacts
  <2>2. QED
    BY <1>1, <1>3, <2>1 DEF heap_pop_block
<1>6. BlocksOn(Popped(s)) = BlocksOn(s) \ {va[t]} /\ va[t] \in BlocksOn(s)
  BY <1>3, <1>4, BlocksOnPopped
<1>7. FreeBlocks(c) = BlocksOn(s) /\ va[t] \notin held
  BY <1>3, <1>6, ChainFacts DEF Placed
<1> HIDE DEF s
<1>8. pNodes'[c] = <<Popped(s)>>
  <2>1. WithTop(<<s>>, PopBlock(Top(<<s>>))) = <<Popped(s)>>
    BY DEF WithTop, PopBlock, Top
  <2>2. QED
    BY <1>4, <1>5, <2>1 DEF Chained
<1>9. FreeBlocks(list[t])' = BlocksOn(Popped(s))
  BY <1>1, <1>2, <1>8, OneNode DEF FreeBlocks
<1>10. QED
  BY <1>1, <1>5, <1>6, <1>7, <1>9

(* A block is given to one caller only: between reading an address and      *)
(* taking it off the stack nothing gets in, for any number of threads.      *)
THEOREM BlocksGivenOnce == Spec => GivesUnheld
<1>1. HeapInv /\ [Next]_vars => [PopTakesItsBlock]_vars
  <2>1. SUFFICES ASSUME HeapInv, [Next]_vars, NEW t \in Threads, pc[t] = "pop",
                        pc[t] # pc'[t] \/ held # held' \/ pNodes # pNodes'
                 PROVE  /\ va[t] \notin held /\ held' = held \cup {va[t]}
                        /\ va[t] \in FreeBlocks(list[t])
                        /\ va[t] \notin FreeBlocks(list[t])'
    BY DEF PopTakesItsBlock
  <2>2. heap_pop_block(t)
    BY <2>1, OnlyThePop
  <2>3. QED
    BY <2>1, <2>2, PopGives
<1>2. QED
  BY <1>1, InitInv, NextInv, PTL DEF Spec, GivesUnheld
=============================================================================
