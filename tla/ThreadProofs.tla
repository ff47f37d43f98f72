---------------------------- MODULE ThreadProofs ----------------------------
(***************************************************************************)
(* Proofs about Thread, for any number of blocks and creations: the list   *)
(* of threads stays an order of those the identifier table names, the      *)
(* switch goes to a thread that is complete, and a thread that destroys    *)
(* itself keeps the processor while it is on the safe stack.               *)
(***************************************************************************)
EXTENDS Thread, FiniteSetTheorems, TLAPS

-----------------------------------------------------------------------------
(* The inductive invariant.  Up to a destruction that fails half way:       *)
Alone == {"switch", "safe", "free", "unregister", "kfree"}
HasLock == {"switch", "free", "unregister", "kfree"}

\* The block that is in the list and not yet filled in.
Linked == IF pc[me] = "fill" THEN {target[me]} ELSE {}

\* The thread that runs has left the list.
Left == pc[me] = "gone" \/ (pc[me] = "kfree" /\ target[me] = me)

\* The thread that runs is in the list, or is the one that has just left it
\* and still follows its link; a tick comes only where it may be switched.
Runner ==
  /\ me = Boot => pc[me] \in {"run", "register", "fill"}
  /\ me = Boot \/ me \in registered \/ Left
  /\ Left => me \notin registered /\ pFlink[me] \in registered \cup {Null}
  /\ iflag => pc[me] = "run" \/ (pc[me] = "lock" /\ exited)

\* The thread its call is about.
Subject ==
  /\ pc[me] = "register" =>
       target[me] \in live \ registered /\ pFlink[target[me]] = Null
  /\ pc[me] = "fill" => target[me] \in registered
  /\ pc[me] \in {"lock", "switch", "safe", "free", "unregister"} /\ ~exited
       => target[me] \in registered
  /\ pc[me] \in {"switch", "safe"} => target[me] = me
  /\ pc[me] = "kfree" => target[me] \notin registered
  /\ registered \ filled \subseteq Linked

\* The others are outside these functions, or wait for the lock for ever.
Others ==
  \A b \in registered \ {me} :
    b \notin Linked => pc[b] = "run" \/ (pc[b] = "lock" /\ exited)

Lock ==
  /\ pc[me] = "switch" => ~old_rflags.destroy
  /\ ~exited => (value = 1 <=> pc[me] \in HasLock)
  /\ exited => pc[me] \notin Alone
  /\ exited => value = 1 \/ pc[me] = "panic"
  /\ pc[me] \in {"gone", "panic"} => exited

SafeStack ==
  /\ onSafeStack \subseteq {me}
  /\ onSafeStack # {} => pc[me] \in Alone \cup {"lock"} /\ ~exited /\ target[me] = me

Sound == Runner /\ Subject /\ Others /\ Lock /\ SafeStack

ThreadInv ==
  /\ TypeOK /\ ListSound
  /\ broken => pc[me] = "run" /\ ~exited
  /\ ~broken => Sound

-----------------------------------------------------------------------------
(* The list.                                                                *)
LEMMA FiniteNames ==
  ASSUME registered \subseteq Blocks
  PROVE  /\ IsFiniteSet(registered) /\ Cardinality(registered) \in Nat
         /\ Cardinality(registered) = 0 <=> registered = {}
BY FS_Subset, FS_CardinalityType, FS_EmptySet, BlocksAssumption

\* What the links of a thread in the list lead to.
LEMMA Links ==
  ASSUME TypeOK, ListSound
  PROVE  /\ pFirstThread = Null <=> registered = {}
         /\ pFirstThread \in registered \cup {Null}
         /\ \A b \in registered :
              /\ pFlink[b] \in (registered \ {b}) \cup {Null}
              /\ pBlink[b] \in (registered \ {b}) \cup {Null}
<1>1. PICK order \in [Order -> registered] : InOrder(order)
  BY DEF ListSound
<1>2. Cardinality(registered) \in Nat /\ (Cardinality(registered) = 0 <=> registered = {})
  BY FiniteNames DEF TypeOK
<1>3. Null \notin registered
  BY BlocksAssumption DEF TypeOK
<1>4. ASSUME registered # {} PROVE 1 \in Order
  BY <1>2, <1>4 DEF Order
<1>5. /\ pFirstThread = Null <=> registered = {}
      /\ pFirstThread \in registered \cup {Null}
  BY <1>1, <1>3, <1>4 DEF InOrder
<1>6. ASSUME NEW b \in registered
      PROVE  /\ pFlink[b] \in (registered \ {b}) \cup {Null}
             /\ pBlink[b] \in (registered \ {b}) \cup {Null}
  <2>1. PICK i \in Order : order[i] = b
    BY <1>1 DEF InOrder
  <2>2. i \in Int
    BY <2>1 DEF Order
  <2>3. pFlink[b] \in (registered \ {b}) \cup {Null}
    <3>1. CASE i + 1 \in Order
      BY <1>1, <2>1, <2>2, <3>1 DEF InOrder
    <3>2. CASE i + 1 \notin Order
      BY <1>1, <2>1, <3>2 DEF InOrder
    <3>3. QED
      BY <3>1, <3>2
  <2>4. pBlink[b] \in (registered \ {b}) \cup {Null}
    <3>1. CASE i - 1 \in Order
      BY <1>1, <2>1, <2>2, <3>1 DEF InOrder
    <3>2. CASE i - 1 \notin Order
      BY <1>1, <2>1, <3>2 DEF InOrder
    <3>3. QED
      BY <3>1, <3>2
  <2>5. QED
    BY <2>3, <2>4
<1>7. QED
  BY <1>5, <1>6

\* Nothing changes for the threads in the list.
LEMMA ListFrame ==
  ASSUME ListSound, UNCHANGED <<registered, pFirstThread, pLastThread>>,
         \A b \in registered : pFlink'[b] = pFlink[b] /\ pBlink'[b] = pBlink[b]
  PROVE  ListSound'
<1>1. PICK order \in [Order -> registered] : InOrder(order)
  BY DEF ListSound
<1>2. Order' = Order
  BY DEF Order
<1>3. InOrder(order)'
  BY <1>1, <1>2 DEF InOrder
<1>4. QED
  BY <1>1, <1>2, <1>3 DEF ListSound

\* A thread joins at the end.
LEMMA ListAppend ==
  ASSUME TypeOK, ListSound, NEW b \in Blocks \ registered,
         registered' = registered \cup {b}, pLastThread' = b,
         pFirstThread' = IF pFirstThread = Null THEN b ELSE pFirstThread,
         pFlink' = [x \in Blocks |-> IF x = pLastThread THEN b ELSE pFlink[x]],
         pBlink' = [pBlink EXCEPT ![b] = pLastThread], pFlink[b] = Null
  PROVE  ListSound'
<1>1. PICK order \in [Order -> registered] : InOrder(order)
  BY DEF ListSound
<1> DEFINE n == Cardinality(registered)
<1>2. n \in Nat /\ (n = 0 <=> registered = {}) /\ IsFiniteSet(registered)
  BY FiniteNames DEF TypeOK
<1>3. Cardinality(registered)' = n + 1
  BY <1>2, FS_AddElement
<1>4. Order = 1 .. n /\ Order' = 1 .. n+1
  BY <1>3 DEF Order
<1> HIDE DEF n
<1>5. PICK new \in [Order' -> registered'] :
        new[n+1] = b /\ \A i \in Order : new[i] = order[i]
  <2> DEFINE f == [i \in 1 .. n+1 |-> IF i = n+1 THEN b ELSE order[i]]
  <2>1. /\ f \in [Order' -> registered']
        /\ f[n+1] = b /\ \A i \in Order : f[i] = order[i]
    BY <1>1, <1>2, <1>4
  <2> HIDE DEF f
  <2>2. QED
    BY <2>1
<1>6. /\ \A x \in registered' : \E i \in Order' : new[i] = x
      /\ \A i, j \in Order' : new[i] = new[j] => i = j
  <2>1. ASSUME NEW x \in registered' PROVE \E i \in Order' : new[i] = x
    <3>1. CASE x = b
      BY <1>2, <1>4, <1>5, <3>1
    <3>2. CASE x # b
      <4>1. PICK i \in Order : order[i] = x
        BY <1>1, <3>2 DEF InOrder
      <4>2. i \in Order'
        BY <1>2, <1>4
      <4>3. QED
        BY <1>5, <4>1, <4>2
    <3>3. QED
      BY <3>1, <3>2
  <2>2. ASSUME NEW i \in Order', NEW j \in Order', new[i] = new[j] PROVE i = j
    <3>1. \A m \in Order : new[m] \in registered /\ new[m] = order[m]
      BY <1>1, <1>5
    <3>2. (i \in Order \/ i = n+1) /\ (j \in Order \/ j = n+1)
      BY <1>2, <1>4
    <3>3. QED
      BY <1>1, <1>5, <2>2, <3>1, <3>2 DEF InOrder
  <2>3. QED
    BY <2>1, <2>2
<1>7. Null \notin registered /\ registered \subseteq Blocks /\ b # Null
  BY BlocksAssumption DEF TypeOK
<1>8. pFirstThread' = new[1]
  <2>1. CASE registered = {}
    BY <1>1, <1>2, <1>5, <2>1 DEF InOrder
  <2>2. CASE registered # {}
    <3>1. 1 \in Order
      BY <1>2, <1>4, <2>2
    <3>2. pFirstThread = order[1] /\ order[1] # Null
      BY <1>1, <1>7, <2>2, <3>1 DEF InOrder
    <3>3. QED
      BY <1>5, <3>1, <3>2
  <2>3. QED
    BY <2>1, <2>2
<1>9. pLastThread = IF n = 0 THEN Null ELSE order[n]
  BY <1>1, <1>2 DEF InOrder, n
<1>10. ASSUME NEW i \in Order'
       PROVE  /\ pFlink'[new[i]] = IF i + 1 \in Order' THEN new[i+1] ELSE Null
              /\ pBlink'[new[i]] = IF i - 1 \in Order' THEN new[i-1] ELSE Null
  <2>1. CASE i = n + 1
    <3>1. new[i] = b /\ i + 1 \notin Order'
      BY <1>2, <1>4, <1>5, <2>1
    <3>2. b # pLastThread
      BY <1>1, <1>2, <1>4, <1>7, <1>9
    <3>3. pFlink'[b] = Null
      BY <3>2
    <3>4. pBlink'[b] = pLastThread
      BY DEF TypeOK
    <3>5. pLastThread = IF i - 1 \in Order' THEN new[i-1] ELSE Null
      BY <1>2, <1>4, <1>5, <1>9, <2>1
    <3>6. QED
      BY <3>1, <3>3, <3>4, <3>5
  <2>2. CASE i # n + 1
    <3>1. i \in Order /\ new[i] = order[i] /\ order[i] \in registered
      BY <1>1, <1>2, <1>4, <1>5, <2>2
    <3>2. pFlink[order[i]] = IF i + 1 \in Order THEN order[i+1] ELSE Null
      BY <1>1, <3>1 DEF InOrder
    <3>3. pBlink[order[i]] = IF i - 1 \in Order THEN order[i-1] ELSE Null
      BY <1>1, <3>1 DEF InOrder
    <3>4. pBlink'[order[i]] = pBlink[order[i]]
      BY <1>7, <3>1 DEF TypeOK
    <3>5. pBlink'[order[i]] = IF i - 1 \in Order' THEN new[i-1] ELSE Null
      BY <1>2, <1>4, <1>5, <2>2, <3>1, <3>3, <3>4
    <3>6. pFlink'[order[i]] = IF i + 1 \in Order' THEN new[i+1] ELSE Null
      <4>1. CASE i = n
        BY <1>2, <1>4, <1>5, <1>7, <1>9, <3>1, <4>1
      <4>2. CASE i # n
        <5>1. i + 1 \in Order /\ n \in Order /\ i + 1 \in Order'
          BY <1>2, <1>4, <3>1, <4>2
        <5>2. order[i] # pLastThread
          BY <1>1, <1>2, <1>4, <1>9, <3>1, <4>2, <5>1 DEF InOrder
        <5>3. pFlink'[order[i]] = pFlink[order[i]]
          BY <1>7, <3>1, <5>2
        <5>4. QED
          BY <1>5, <3>2, <5>1, <5>3
      <4>3. QED
        BY <4>1, <4>2
    <3>7. QED
      BY <3>1, <3>5, <3>6
  <2>3. QED
    BY <2>1, <2>2
<1>11. registered' # {} /\ pLastThread' = new[Cardinality(registered')]
  BY <1>3, <1>5
<1>12. InOrder(new)'
  BY <1>6, <1>8, <1>10, <1>11 DEF InOrder
<1>13. QED
  BY <1>5, <1>12 DEF ListSound

\* A thread leaves from any place.
LEMMA ListUnlink ==
  ASSUME TypeOK, ListSound, NEW b \in registered,
         registered' = registered \ {b},
         pLastThread' = IF b = pLastThread THEN pBlink[b] ELSE pLastThread,
         pFirstThread' = IF b = pFirstThread THEN pFlink[b] ELSE pFirstThread,
         pFlink' = [x \in Blocks |-> IF x = pBlink[b] THEN pFlink[b] ELSE pFlink[x]],
         pBlink' = [x \in Blocks |-> IF x = pFlink[b] THEN pBlink[b] ELSE pBlink[x]]
  PROVE  ListSound'
<1>1. PICK order \in [Order -> registered] : InOrder(order)
  BY DEF ListSound
<1>2. PICK k \in Order : order[k] = b
  BY <1>1 DEF InOrder
<1> DEFINE n == Cardinality(registered)
<1>3. n \in Nat /\ IsFiniteSet(registered)
  BY FiniteNames DEF TypeOK
<1>4. Cardinality(registered)' = n - 1
  BY <1>3, FS_RemoveElement
<1>5. /\ Order = 1 .. n /\ Order' = 1 .. n-1 /\ k \in 1 .. n
      /\ n - 1 \in Nat /\ n = Cardinality(registered)
  BY <1>2, <1>3, <1>4 DEF Order
<1>6. registered' = {} <=> n - 1 = 0
  <2>1. IsFiniteSet(registered')
    BY <1>3, FS_RemoveElement
  <2>2. QED
    BY <1>4, <2>1, FS_EmptySet
<1> HIDE DEF n
<1> DEFINE Old(i) == IF i < k THEN i ELSE i + 1
<1>7. /\ \A i \in 1 .. n-1 : Old(i) \in (1 .. n) \ {k}
      /\ \A i, j \in 1 .. n-1 : Old(i) = Old(j) => i = j
      /\ \A p \in (1 .. n) \ {k} : \E i \in 1 .. n-1 : Old(i) = p
  <2>1. ASSUME NEW p \in (1 .. n) \ {k} PROVE \E i \in 1 .. n-1 : Old(i) = p
    <3>1. CASE p < k
      BY <1>3, <1>5, <2>1, <3>1
    <3>2. CASE p > k
      <4>1. p - 1 \in 1 .. n-1 /\ Old(p - 1) = p
        BY <1>3, <1>5, <2>1, <3>2
      <4>2. QED
        BY <4>1
    <3>3. QED
      BY <1>5, <2>1, <3>1, <3>2
  <2>2. QED
    BY <1>3, <1>5, <2>1
<1>8. \A i, j \in 1 .. n : order[i] = order[j] => i = j
  BY <1>1, <1>5 DEF InOrder
<1>9. PICK new \in [Order' -> registered'] : \A i \in 1 .. n-1 : new[i] = order[Old(i)]
  <2> DEFINE f == [i \in 1 .. n-1 |-> order[Old(i)]]
  <2>1. f \in [Order' -> registered'] /\ \A i \in 1 .. n-1 : f[i] = order[Old(i)]
    <3>1. ASSUME NEW i \in 1 .. n-1 PROVE order[Old(i)] \in registered'
      <4>1. Old(i) \in (1 .. n) \ {k}
        BY <1>7
      <4> HIDE DEF Old
      <4>2. QED
        BY <1>1, <1>2, <1>5, <1>8, <4>1
    <3> HIDE DEF Old
    <3>2. QED
      BY <1>5, <3>1
  <2> HIDE DEF f, Old
  <2>2. QED
    BY <2>1
<1>10. /\ \A x \in registered' : \E i \in Order' : new[i] = x
       /\ \A i, j \in Order' : new[i] = new[j] => i = j
  <2> HIDE DEF Old
  <2>1. ASSUME NEW x \in registered' PROVE \E i \in Order' : new[i] = x
    <3>1. PICK p \in 1 .. n : order[p] = x
      BY <1>1, <1>5 DEF InOrder
    <3>2. PICK i \in 1 .. n-1 : Old(i) = p
      BY <1>2, <1>7, <3>1
    <3>3. QED
      BY <1>5, <1>9, <3>1, <3>2
  <2>2. \A i, j \in Order' : new[i] = new[j] => i = j
    BY <1>5, <1>7, <1>8, <1>9
  <2>3. QED
    BY <2>1, <2>2
<1>11. Null \notin registered /\ registered \subseteq Blocks
  BY BlocksAssumption DEF TypeOK
<1>12. /\ pFlink[b] = IF k < n THEN order[k+1] ELSE Null
       /\ pBlink[b] = IF k > 1 THEN order[k-1] ELSE Null
  BY <1>1, <1>2, <1>3, <1>5 DEF InOrder
<1>13. pFirstThread = order[1] /\ pLastThread = order[n]
  BY <1>1, <1>5 DEF InOrder
<1>14. n - 1 # 0 => pFirstThread' = new[1]
  BY <1>2, <1>3, <1>5, <1>8, <1>9, <1>12, <1>13
<1>15. n - 1 # 0 => pLastThread' = new[n-1]
  BY <1>2, <1>3, <1>5, <1>8, <1>9, <1>12, <1>13
<1>16. n - 1 = 0 => pFirstThread' = Null /\ pLastThread' = Null
  BY <1>2, <1>3, <1>5, <1>12, <1>13
<1>17. ASSUME NEW i \in Order'
       PROVE  /\ pFlink'[new[i]] = IF i + 1 \in Order' THEN new[i+1] ELSE Null
              /\ pBlink'[new[i]] = IF i - 1 \in Order' THEN new[i-1] ELSE Null
  <2>1. PICK p \in (1 .. n) \ {k} : p = Old(i) /\ new[i] = order[p]
    BY <1>5, <1>7, <1>9
  <2>2. order[p] \in registered /\ order[p] \in Blocks
    BY <1>1, <1>5, <1>11, <2>1
  <2>3. /\ pFlink[order[p]] = IF p < n THEN order[p+1] ELSE Null
        /\ pBlink[order[p]] = IF p > 1 THEN order[p-1] ELSE Null
    BY <1>1, <1>3, <1>5, <2>1 DEF InOrder
  <2>4. pFlink'[order[p]] = IF i + 1 \in Order' THEN new[i+1] ELSE Null
    <3>1. CASE p = k - 1
      <4>1. pFlink'[order[p]] = pFlink[b]
        <5>1. k > 1
          BY <1>3, <1>5, <2>1, <3>1
        <5>2. order[p] = pBlink[b]
          BY <1>12, <3>1, <5>1
        <5>3. QED
          BY <2>2, <5>2
      <4>2. i = k - 1 /\ (i + 1 \in Order' <=> k < n)
        BY <1>3, <1>5, <2>1, <3>1
      <4>3. i + 1 \in Order' => new[i+1] = order[k+1]
        BY <1>5, <1>9, <4>2
      <4>4. QED
        BY <1>12, <4>1, <4>2, <4>3
    <3>2. CASE p # k - 1
      <4>1. order[p] # pBlink[b]
        <5>1. k > 1 => k - 1 \in 1 .. n
          BY <1>3, <1>5
        <5>2. k > 1 => order[p] # order[k-1]
          BY <1>8, <2>1, <3>2, <5>1
        <5>3. QED
          BY <1>11, <1>12, <2>2, <5>2
      <4>2. pFlink'[order[p]] = pFlink[order[p]]
        BY <2>2, <4>1
      <4>3. (i + 1 \in Order' <=> p < n) /\ (i + 1 \in Order' => Old(i+1) = p + 1)
        BY <1>3, <1>5, <2>1, <3>2
      <4>4. i + 1 \in Order' => new[i+1] = order[p+1]
        BY <1>5, <1>9, <4>3
      <4>5. QED
        BY <2>3, <4>2, <4>3, <4>4
    <3>3. QED
      BY <3>1, <3>2
  <2>5. pBlink'[order[p]] = IF i - 1 \in Order' THEN new[i-1] ELSE Null
    <3>1. CASE p = k + 1
      <4>1. pBlink'[order[p]] = pBlink[b]
        <5>1. k < n
          BY <1>3, <1>5, <2>1, <3>1
        <5>2. order[p] = pFlink[b]
          BY <1>12, <3>1, <5>1
        <5>3. QED
          BY <2>2, <5>2
      <4>2. i = k /\ (i - 1 \in Order' <=> k > 1)
        BY <1>3, <1>5, <2>1, <3>1
      <4>3. i - 1 \in Order' => new[i-1] = order[k-1]
        BY <1>5, <1>9, <4>2
      <4>4. QED
        BY <1>12, <4>1, <4>2, <4>3
    <3>2. CASE p # k + 1
      <4>1. order[p] # pFlink[b]
        <5>1. k < n => k + 1 \in 1 .. n
          BY <1>3, <1>5
        <5>2. k < n => order[p] # order[k+1]
          BY <1>8, <2>1, <3>2, <5>1
        <5>3. QED
          BY <1>11, <1>12, <2>2, <5>2
      <4>2. pBlink'[order[p]] = pBlink[order[p]]
        BY <2>2, <4>1
      <4>3. (i - 1 \in Order' <=> p > 1) /\ (i - 1 \in Order' => Old(i-1) = p - 1)
        BY <1>3, <1>5, <2>1, <3>2
      <4>4. i - 1 \in Order' => new[i-1] = order[p-1]
        BY <1>5, <1>9, <4>3
      <4>5. QED
        BY <2>3, <4>2, <4>3, <4>4
    <3>3. QED
      BY <3>1, <3>2
  <2>6. QED
    BY <2>1, <2>4, <2>5
<1>18. InOrder(new)'
  BY <1>4, <1>6, <1>10, <1>14, <1>15, <1>16, <1>17 DEF InOrder
<1>19. QED
  BY <1>9, <1>18 DEF ListSound

-----------------------------------------------------------------------------
(* The steps.                                                               *)
LEMMA WhoRuns ==
  ASSUME TypeOK
  PROVE  /\ me \in Actors /\ (me # Boot => me \in Blocks)
         /\ me = Boot <=> pCurrentThread = Null
         /\ me # Boot => pCurrentThread = me
         /\ registered \subseteq Blocks /\ Boot \notin registered
BY BlocksAssumption DEF TypeOK, me, Actors

LEMMA InitInv == Init => ThreadInv
<1> SUFFICES ASSUME Init PROVE ThreadInv
  OBVIOUS
<1>1. TypeOK
  <2>1. /\ rflags \in [Blocks -> BOOLEAN] /\ iflag \in BOOLEAN
        /\ old_rflags \in [create : BOOLEAN, destroy : BOOLEAN]
        /\ threadDestroySafe \in BOOLEAN /\ exited \in BOOLEAN /\ broken \in BOOLEAN
    BY DEF Init
  <2>2. created \in 0 .. MaxCreates
    BY MaxCreatesAssumption DEF Init
  <2>3. QED
    BY <2>1, <2>2 DEF Init, TypeOK, Actors
<1>2. ListSound
  <2>1. Order = {}
    BY FS_EmptySet DEF Init, Order
  <2>2. PICK order \in [Order -> registered] : TRUE
    <3>1. [i \in {} |-> Null] \in [Order -> registered]
      BY <2>1
    <3>2. QED
      BY <3>1
  <2>3. InOrder(order)
    BY <2>1, <2>2 DEF Init, InOrder
  <2>4. QED
    BY <2>2, <2>3 DEF ListSound
<1>3. Sound
  BY DEF Init, Sound, Runner, Subject, Others, Lock, SafeStack, Linked, Left, me,
         Actors, Alone, HasLock
<1>4. QED
  BY <1>1, <1>2, <1>3 DEF ThreadInv, Init

\* The thread that runs goes on running, and the list stays as it is.
LEMMA ListStays ==
  ASSUME ListSound, UNCHANGED list
  PROVE  ListSound'
BY ListFrame DEF list

-----------------------------------------------------------------------------
(* Each step keeps the invariant: the types, the list, and each part of     *)
(* what is said of the calls.                                               *)
LEMMA CreateKeeps ==
  ASSUME ThreadInv, NEW b \in Blocks, thread_create(b)
  PROVE  ThreadInv'
<1>1. TypeOK /\ ListSound /\ ~broken /\ Sound
  BY DEF ThreadInv, thread_create, At
<1>2. /\ me' = me /\ me \in Actors /\ (me # Boot => me \in Blocks)
      /\ registered \subseteq Blocks /\ Boot \notin registered
  BY <1>1, WhoRuns DEF me, thread_create, cpu
<1>3. TypeOK'
  <2>1. /\ pFlink' \in [Blocks -> Blocks \cup {Null}]
        /\ pBlink' \in [Blocks -> Blocks \cup {Null}]
    BY <1>1 DEF TypeOK, thread_create
  <2>2. /\ old_rflags' \in [create : BOOLEAN, destroy : BOOLEAN] /\ iflag' \in BOOLEAN
        /\ rflags' \in [Blocks -> BOOLEAN]
    <3>1. PICK r \in [create : BOOLEAN, destroy : BOOLEAN] : r = old_rflags
      BY <1>1 DEF TypeOK
    <3>2. old_rflags' = [r EXCEPT !.create = iflag] /\ iflag \in BOOLEAN
      BY <1>1, <3>1 DEF TypeOK, thread_create
    <3>3. QED
      BY <1>1, <3>2 DEF TypeOK, thread_create, cpu
  <2>3. /\ pc' = [pc EXCEPT ![me] = "register"] /\ target' = [target EXCEPT ![me] = b]
    BY DEF thread_create, Goto
  <2>4. created' \in 0 .. MaxCreates
    BY <1>1, MaxCreatesAssumption DEF TypeOK, thread_create
  <2>5. QED
    BY <1>1, <1>2, <2>1, <2>2, <2>3, <2>4 DEF TypeOK, thread_create, cpu
<1>4. ListSound'
  <2>1. \A x \in registered : x # b
    BY <1>1 DEF TypeOK, thread_create
  <2>2. QED
    BY <1>1, <1>2, <2>1, ListFrame DEF thread_create, TypeOK
<1>5. Sound'
  <2>1. Runner'
    BY <1>1, <1>2 DEF Runner, Sound, Left, thread_create, At, Goto
  <2>2. Subject'
    BY <1>1, <1>2 DEF Subject, TypeOK, Sound, Linked, thread_create, At, Goto
  <2>3. Others'
    BY <1>1, <1>2 DEF Others, Sound, Linked, thread_create, At, Goto
  <2>4. Lock'
    BY <1>1, <1>2 DEF Lock, Sound, Alone, HasLock, thread_create, At, Goto
  <2>5. SafeStack'
    BY <1>1 DEF SafeStack, Sound, Alone, thread_create, At
  <2>6. QED
    BY <2>1, <2>2, <2>3, <2>4, <2>5 DEF Sound
<1>6. QED
  BY <1>1, <1>3, <1>4, <1>5 DEF ThreadInv, thread_create, history

LEMMA RegisterKeeps ==
  ASSUME ThreadInv, thread_register
  PROVE  ThreadInv'
<1>1. TypeOK /\ ListSound /\ ~broken /\ Sound
  BY DEF ThreadInv, thread_register, At
<1>2. /\ me' = me /\ me \in Actors /\ (me # Boot => me \in Blocks)
      /\ registered \subseteq Blocks /\ Boot \notin registered
  BY <1>1, WhoRuns DEF me, thread_register, cpu
<1>3. TypeOK'
  BY <1>1
     DEF TypeOK, Sound, Subject, thread_register, At, Goto, blocks, cpu, lock, history
<1>4. ListSound'
  <2>1. target[me] \in Blocks \ registered /\ pFlink[target[me]] = Null
    BY <1>1, <1>2 DEF Sound, Subject, TypeOK, thread_register, At
  <2>2. PICK b \in Blocks \ registered : b = target[me] /\ pFlink[b] = Null
    BY <2>1
  <2>3. QED
    BY <1>1, <2>2, ListAppend DEF thread_register
<1>5. Sound'
  <2>1. Runner'
    BY <1>1, <1>2 DEF Runner, Sound, Left, thread_register, At, Goto, cpu
  <2>2. Subject'
    BY <1>1, <1>2 DEF Subject, TypeOK, Sound, Linked, thread_register, Goto, blocks
  <2>3. Others'
    BY <1>1, <1>2 DEF Others, TypeOK, Sound, Linked, thread_register, Goto, history
  <2>4. Lock'
    BY <1>1, <1>2
       DEF Lock, Sound, Alone, HasLock, thread_register, At, Goto, lock, history
  <2>5. SafeStack'
    BY <1>1 DEF SafeStack, Sound, Alone, thread_register, At
  <2>6. QED
    BY <2>1, <2>2, <2>3, <2>4, <2>5 DEF Sound
<1>6. QED
  BY <1>1, <1>3, <1>4, <1>5 DEF ThreadInv, thread_register, history

LEMMA RegisterFailKeeps ==
  ASSUME ThreadInv, RegisterFail
  PROVE  ThreadInv'
<1>1. TypeOK /\ ListSound /\ ~broken /\ Sound
  BY DEF ThreadInv, RegisterFail, At
<1>2. /\ me' = me /\ me \in Actors /\ (me # Boot => me \in Blocks)
      /\ registered \subseteq Blocks /\ Boot \notin registered
  BY <1>1, WhoRuns DEF me, RegisterFail, cpu
<1>3. TypeOK'
  BY <1>1 DEF TypeOK, Sound, Subject, RegisterFail, At, Goto, lock, list, history
<1>4. ListSound'
  BY <1>1, ListStays DEF RegisterFail, list
<1>5. Sound'
  <2>1. Runner'
    BY <1>1, <1>2 DEF Runner, TypeOK, Sound, Left, RegisterFail, At, Goto, list
  <2>2. Subject'
    BY <1>1, <1>2 DEF Subject, TypeOK, Sound, Linked, RegisterFail, At, Goto, list
  <2>3. Others'
    BY <1>1, <1>2 DEF Others, Sound, Linked, RegisterFail, At, Goto, list, history
  <2>4. Lock'
    BY <1>1, <1>2
       DEF Lock, Sound, Alone, HasLock, RegisterFail, At, Goto, lock, history
  <2>5. SafeStack'
    BY <1>1 DEF SafeStack, Sound, Alone, RegisterFail, At
  <2>6. QED
    BY <2>1, <2>2, <2>3, <2>4, <2>5 DEF Sound
<1>6. QED
  BY <1>1, <1>3, <1>4, <1>5 DEF ThreadInv, RegisterFail, history

LEMMA FillKeeps ==
  ASSUME ThreadInv, CreateFill
  PROVE  ThreadInv'
<1>1. TypeOK /\ ListSound /\ ~broken /\ Sound
  BY DEF ThreadInv, CreateFill, At
<1>2. /\ me' = me /\ me \in Actors /\ (me # Boot => me \in Blocks)
      /\ registered \subseteq Blocks /\ Boot \notin registered
  BY <1>1, WhoRuns DEF me, CreateFill, cpu
<1>3. TypeOK'
  BY <1>1, <1>2 DEF TypeOK, CreateFill, At, lock, list, history
<1>4. ListSound'
  BY <1>1, ListStays DEF CreateFill, list
<1>5. Sound'
  <2>1. Runner'
    BY <1>1, <1>2 DEF Runner, TypeOK, Sound, Left, CreateFill, At, list
  <2>2. Subject'
    BY <1>1, <1>2 DEF Subject, TypeOK, Sound, Linked, CreateFill, list
  <2>3. Others'
    BY <1>1 DEF Others, TypeOK, Sound, Linked, Actors, CreateFill, list, history
  <2>4. Lock'
    BY <1>1, <1>2
       DEF Lock, TypeOK, Sound, Alone, HasLock, CreateFill, At, lock, history
  <2>5. SafeStack'
    BY <1>1 DEF SafeStack, Sound, Alone, CreateFill, At
  <2>6. QED
    BY <2>1, <2>2, <2>3, <2>4, <2>5 DEF Sound
<1>6. QED
  BY <1>1, <1>3, <1>4, <1>5 DEF ThreadInv, CreateFill, history

LEMMA DestroyKeeps ==
  ASSUME ThreadInv, NEW b \in Blocks, thread_destroy(b)
  PROVE  ThreadInv'
<1>1. TypeOK /\ ListSound /\ ~broken /\ Sound
  BY DEF ThreadInv, thread_destroy, At
<1>2. /\ me' = me /\ me \in Actors /\ (me # Boot => me \in Blocks)
      /\ registered \subseteq Blocks /\ Boot \notin registered
  BY <1>1, WhoRuns DEF me, thread_destroy, cpu
<1>3. TypeOK'
  BY <1>1 DEF TypeOK, thread_destroy, Goto, blocks, lock, list, history
<1>4. ListSound'
  BY <1>1, ListStays DEF thread_destroy, list
<1>5. Sound'
  <2>1. Runner'
    BY <1>1, <1>2 DEF Runner, Sound, Left, thread_destroy, At, Goto, list
  <2>2. Subject'
    BY <1>1, <1>2
       DEF Subject, TypeOK, Sound, Linked, thread_destroy, At, Goto, blocks, list
  <2>3. Others'
    BY <1>1, <1>2 DEF Others, Sound, Linked, thread_destroy, At, Goto, list, history
  <2>4. Lock'
    BY <1>1, <1>2
       DEF Lock, Sound, Alone, HasLock, thread_destroy, At, Goto, lock, history
  <2>5. SafeStack'
    BY <1>1 DEF SafeStack, Sound, Alone, thread_destroy, At
  <2>6. QED
    BY <2>1, <2>2, <2>3, <2>4, <2>5 DEF Sound
<1>6. QED
  BY <1>1, <1>3, <1>4, <1>5 DEF ThreadInv, thread_destroy, history

LEMMA PanicKeeps ==
  ASSUME ThreadInv, Panic
  PROVE  ThreadInv'
<1>1. TypeOK /\ ListSound /\ ~broken /\ Sound
  BY DEF ThreadInv, Panic, At
<1>2. /\ me' = me /\ me \in Actors /\ (me # Boot => me \in Blocks)
      /\ registered \subseteq Blocks /\ Boot \notin registered
  BY <1>1, WhoRuns DEF me, Panic, cpu
<1>3. TypeOK'
  BY <1>1 DEF TypeOK, Panic, At, Goto, blocks, list, history
<1>4. ListSound'
  BY <1>1, ListStays DEF Panic, list
<1>5. Sound'
  <2>1. Runner'
    BY <1>1, <1>2 DEF Runner, Sound, Left, Panic, At, Goto, list
  <2>2. Subject'
    BY <1>1, <1>2 DEF Subject, TypeOK, Sound, Linked, Panic, At, Goto, blocks, list
  <2>3. Others'
    BY <1>1, <1>2 DEF Others, Sound, Linked, Panic, At, Goto, list, history
  <2>4. Lock'
    BY <1>1, <1>2 DEF Lock, TypeOK, Sound, Alone, HasLock, Panic, At, Goto, history
  <2>5. SafeStack'
    BY <1>1 DEF SafeStack, Sound, Lock, HasLock, Panic, At
  <2>6. QED
    BY <2>1, <2>2, <2>3, <2>4, <2>5 DEF Sound
<1>6. QED
  BY <1>1, <1>3, <1>4, <1>5 DEF ThreadInv, Panic, history

LEMMA LockKeeps ==
  ASSUME ThreadInv, DestroyLock
  PROVE  ThreadInv'
<1>1. TypeOK /\ ListSound /\ ~broken /\ Sound
  BY DEF ThreadInv, DestroyLock, At
<1>2. /\ me' = me /\ me \in Actors /\ (me # Boot => me \in Blocks)
      /\ registered \subseteq Blocks /\ Boot \notin registered
  BY <1>1, WhoRuns DEF me, DestroyLock, cpu
<1>3. TypeOK'
  BY <1>1 DEF TypeOK, DestroyLock, At, Goto, blocks, list, history
<1>4. ListSound'
  BY <1>1, ListStays DEF DestroyLock, list
<1>5. Sound'
  <2>1. Runner'
    BY <1>1, <1>2 DEF Runner, TypeOK, Sound, Left, DestroyLock, At, Goto, list
  <2>2. Subject'
    BY <1>1, <1>2
       DEF Subject, TypeOK, Sound, Linked, DestroyLock, At, Goto, blocks, list,
           history
  <2>3. Others'
    BY <1>1, <1>2
       DEF Others, TypeOK, Sound, Linked, Actors, DestroyLock, At, Goto, list, history
  <2>4. Lock'
    BY <1>1, <1>2
       DEF Lock, TypeOK, Sound, Runner, HasLock, DestroyLock, At, Goto, history
  <2>5. SafeStack'
    BY <1>1, <1>2 DEF SafeStack, TypeOK, Sound, Alone, DestroyLock, Goto, history
  <2>6. QED
    BY <2>1, <2>2, <2>3, <2>4, <2>5 DEF Sound
<1>6. QED
  BY <1>1, <1>3, <1>4, <1>5 DEF ThreadInv, DestroyLock, history

LEMMA SwitchStackKeeps ==
  ASSUME ThreadInv, SwitchStack
  PROVE  ThreadInv'
<1>1. TypeOK /\ ListSound /\ ~broken /\ Sound
  BY DEF ThreadInv, SwitchStack, At
<1>2. /\ me' = me /\ me \in Actors /\ (me # Boot => me \in Blocks)
      /\ registered \subseteq Blocks /\ Boot \notin registered
  BY <1>1, WhoRuns DEF me, SwitchStack, cpu
<1>3. TypeOK'
  BY <1>1, <1>2
     DEF TypeOK, Sound, Subject, SwitchStack, At, Goto, blocks, list, history
<1>4. ListSound'
  BY <1>1, ListStays DEF SwitchStack, list
<1>5. Sound'
  <2>1. Runner'
    BY <1>1, <1>2 DEF Runner, Sound, Lock, Left, SwitchStack, At, Goto, list
  <2>2. Subject'
    BY <1>1, <1>2
       DEF Subject, Sound, Linked, SwitchStack, At, Goto, blocks, list, history
  <2>3. Others'
    BY <1>1, <1>2 DEF Others, Sound, Linked, SwitchStack, At, Goto, list, history
  <2>4. Lock'
    BY <1>1, <1>2
       DEF Lock, TypeOK, Sound, Alone, HasLock, SwitchStack, At, Goto, history
  <2>5. SafeStack'
    BY <1>1, <1>2
       DEF SafeStack, Sound, Subject, Lock, Alone, SwitchStack, At, Goto, history
  <2>6. QED
    BY <2>1, <2>2, <2>3, <2>4, <2>5 DEF Sound
<1>6. QED
  BY <1>1, <1>3, <1>4, <1>5 DEF ThreadInv, SwitchStack, history

LEMMA AgainKeeps ==
  ASSUME ThreadInv, DestroyAgain
  PROVE  ThreadInv'
<1>1. TypeOK /\ ListSound /\ ~broken /\ Sound
  BY DEF ThreadInv, DestroyAgain, At
<1>2. /\ me' = me /\ me \in Actors /\ (me # Boot => me \in Blocks)
      /\ registered \subseteq Blocks /\ Boot \notin registered
  BY <1>1, WhoRuns DEF me, DestroyAgain, cpu
<1>3. TypeOK'
  BY <1>1 DEF TypeOK, DestroyAgain, At, Goto, blocks, lock, list, history
<1>4. ListSound'
  BY <1>1, ListStays DEF DestroyAgain, list
<1>5. Sound'
  <2>1. Runner'
    BY <1>1, <1>2 DEF Runner, Sound, Left, DestroyAgain, At, Goto, list
  <2>2. Subject'
    BY <1>1, <1>2
       DEF Subject, Sound, Linked, DestroyAgain, At, Goto, blocks, list, history
  <2>3. Others'
    BY <1>1, <1>2 DEF Others, Sound, Linked, DestroyAgain, At, Goto, list, history
  <2>4. Lock'
    BY <1>1, <1>2
       DEF Lock, Sound, Alone, HasLock, DestroyAgain, At, Goto, lock, history
  <2>5. SafeStack'
    BY <1>1, <1>2 DEF SafeStack, Sound, DestroyAgain, Goto, history
  <2>6. QED
    BY <2>1, <2>2, <2>3, <2>4, <2>5 DEF Sound
<1>6. QED
  BY <1>1, <1>3, <1>4, <1>5 DEF ThreadInv, DestroyAgain, history

LEMMA FreeStackKeeps ==
  ASSUME ThreadInv, FreeStack
  PROVE  ThreadInv'
<1>1. TypeOK /\ ListSound /\ ~broken /\ Sound
  BY DEF ThreadInv, FreeStack, At
<1>2. /\ me' = me /\ me \in Actors /\ (me # Boot => me \in Blocks)
      /\ registered \subseteq Blocks /\ Boot \notin registered
  BY <1>1, WhoRuns DEF me, FreeStack, cpu
<1>3. TypeOK'
  BY <1>1 DEF TypeOK, FreeStack, At, Goto, blocks, cpu, lock, list, history
<1>4. ListSound'
  BY <1>1, ListStays DEF FreeStack, list
<1>5. Sound'
  <2>1. Runner'
    BY <1>1, <1>2 DEF Runner, Sound, Left, FreeStack, At, Goto, cpu, list
  <2>2. Subject'
    BY <1>1, <1>2
       DEF Subject, Sound, Linked, FreeStack, At, Goto, blocks, list, history
  <2>3. Others'
    BY <1>1, <1>2 DEF Others, Sound, Linked, FreeStack, At, Goto, list, history
  <2>4. Lock'
    BY <1>1, <1>2 DEF Lock, Sound, Alone, HasLock, FreeStack, At, Goto, lock, history
  <2>5. SafeStack'
    BY <1>1, <1>2 DEF SafeStack, Sound, Alone, FreeStack, Goto, history
  <2>6. QED
    BY <2>1, <2>2, <2>3, <2>4, <2>5 DEF Sound
<1>6. QED
  BY <1>1, <1>3, <1>4, <1>5 DEF ThreadInv, FreeStack, history

LEMMA FreeStackFailKeeps ==
  ASSUME ThreadInv, FreeStackFail
  PROVE  ThreadInv'
<1>1. TypeOK /\ ListSound /\ ~broken /\ Sound
  BY DEF ThreadInv, FreeStackFail, At
<1>2. /\ me' = me /\ me \in Actors /\ (me # Boot => me \in Blocks)
      /\ registered \subseteq Blocks /\ Boot \notin registered
  BY <1>1, WhoRuns DEF me, FreeStackFail, cpu
<1>3. TypeOK'
  BY <1>1 DEF TypeOK, FreeStackFail, Goto, list
<1>4. ListSound'
  BY <1>1, ListStays DEF FreeStackFail, list
<1>5. broken' /\ pc[me]' = "run" /\ ~exited'
  BY <1>1, <1>2 DEF TypeOK, Sound, Lock, Alone, FreeStackFail, At, Goto
<1>6. QED
  BY <1>3, <1>4, <1>5 DEF ThreadInv

LEMMA UnregisterKeeps ==
  ASSUME ThreadInv, thread_unregister
  PROVE  ThreadInv'
<1>1. TypeOK /\ ListSound /\ ~broken /\ Sound
  BY DEF ThreadInv, thread_unregister, At
<1>2. /\ me' = me /\ me \in Actors /\ (me # Boot => me \in Blocks)
      /\ registered \subseteq Blocks /\ Boot \notin registered
  BY <1>1, WhoRuns DEF me, thread_unregister, cpu
<1>3. TypeOK'
  BY <1>1, <1>2 DEF TypeOK, thread_unregister, At, Goto, blocks, cpu, lock, history
<1>4. ListSound'
  <2>1. target[me] \in registered
    BY <1>1 DEF Sound, Subject, Lock, Alone, thread_unregister, At
  <2>2. PICK b \in registered : b = target[me]
    BY <2>1
  <2>3. QED
    BY <1>1, <2>2, ListUnlink DEF thread_unregister
<1>5. Sound'
  <2>1. Runner'
    <3>1. PICK b \in registered : b = target[me]
      BY <1>1 DEF Sound, Subject, Lock, Alone, thread_unregister, At
    <3>2. /\ pFlink[b] \in (registered \ {b}) \cup {Null}
          /\ pBlink[b] # b
      BY <1>1, <1>2, Links, BlocksAssumption
    <3>3. pc[me] = "unregister" /\ ~exited /\ me \in registered
      BY <1>1 DEF Sound, Lock, Runner, Left, Alone, thread_unregister, At
    <3>4. /\ pc[me]' = "kfree" /\ me # Boot /\ ~iflag
      BY <1>1, <1>2, <3>3 DEF Sound, Runner, thread_unregister, Goto, TypeOK
    <3>5. me = b => pFlink'[me] \in registered' \cup {Null}
      BY <1>2, <3>1, <3>2 DEF thread_unregister
    <3>6. QED
      BY <1>2, <3>1, <3>3, <3>4, <3>5 DEF Runner, Left, thread_unregister, cpu
  <2>2. Subject'
    BY <1>1, <1>2 DEF Subject, TypeOK, Sound, Linked, thread_unregister, Goto, blocks
  <2>3. Others'
    BY <1>1, <1>2 DEF Others, Sound, Linked, thread_unregister, Goto, history
  <2>4. Lock'
    BY <1>1, <1>2
       DEF Lock, Sound, Alone, HasLock, thread_unregister, At, Goto, lock, history
  <2>5. SafeStack'
    BY <1>1, <1>2 DEF SafeStack, Sound, Alone, thread_unregister, Goto, history
  <2>6. QED
    BY <2>1, <2>2, <2>3, <2>4, <2>5 DEF Sound
<1>6. QED
  BY <1>1, <1>3, <1>4, <1>5 DEF ThreadInv, thread_unregister, history

LEMMA DoneKeeps ==
  ASSUME ThreadInv, DestroyDone
  PROVE  ThreadInv'
<1>1. TypeOK /\ ListSound /\ ~broken /\ Sound
  BY DEF ThreadInv, DestroyDone, At
<1>2. /\ me' = me /\ me \in Actors /\ (me # Boot => me \in Blocks)
      /\ registered \subseteq Blocks /\ Boot \notin registered
  BY <1>1, WhoRuns DEF me, DestroyDone, cpu
<1>3. TypeOK'
  BY <1>1 DEF TypeOK, Sound, Subject, DestroyDone, At, Goto, list
<1>4. ListSound'
  BY <1>1, ListStays DEF DestroyDone, list
<1>5. Sound'
  <2>1. Runner'
    BY <1>1, <1>2 DEF Runner, TypeOK, Sound, Left, DestroyDone, At, Goto, list
  <2>2. Subject'
    BY <1>1, <1>2 DEF Subject, TypeOK, Sound, Linked, DestroyDone, At, Goto, list
  <2>3. Others'
    BY <1>1, <1>2
       DEF Others, TypeOK, Sound, Linked, Actors, DestroyDone, At, Goto, list
  <2>4. Lock'
    BY <1>1, <1>2 DEF Lock, TypeOK, Sound, Alone, HasLock, DestroyDone, At, Goto
  <2>5. SafeStack'
    BY <1>1 DEF SafeStack, Sound, DestroyDone
  <2>6. QED
    BY <2>1, <2>2, <2>3, <2>4, <2>5 DEF Sound
<1>6. QED
  BY <1>1, <1>3, <1>4, <1>5 DEF ThreadInv, DestroyDone, history

\* The switch goes to a thread of the list whose context is filled in.
LEMMA SwitchGoesTo ==
  ASSUME ThreadInv, ~broken, Switching, pFirstThread # Null,
         pc[me] = "run" \/ (pc[me] = "lock" /\ exited) \/ pc[me] = "gone"
  PROVE  /\ pCurrentThread' = Following /\ Following \in registered
         /\ registered \subseteq live \cap filled
<1>1. TypeOK /\ ListSound /\ Sound
  BY DEF ThreadInv
<1>2. registered \subseteq live \cap filled
  BY <1>1 DEF Sound, Subject, Linked, TypeOK
<1>3. pFirstThread \in registered
  BY <1>1, Links
<1>4. Following \in registered
  <2>1. CASE pCurrentThread = Null \/ pFlink[pCurrentThread] = Null
    BY <1>3, <2>1 DEF Following
  <2>2. CASE pCurrentThread # Null /\ pFlink[pCurrentThread] # Null
    <3>1. me # Boot /\ me = pCurrentThread
      BY <1>1, <2>2, WhoRuns
    <3>2. CASE me \in registered
      BY <1>1, <2>2, <3>1, <3>2, Links DEF Following
    <3>3. CASE me \notin registered
      BY <1>1, <2>2, <3>1, <3>3 DEF Sound, Runner, Following
    <3>4. QED
      BY <3>2, <3>3
  <2>3. QED
    BY <2>1, <2>2
<1>5. QED
  BY <1>2, <1>4 DEF Switching, ctx_switch

LEMMA SwitchKeeps ==
  ASSUME ThreadInv, ~broken, Switching,
         pc[me] = "run" \/ (pc[me] = "lock" /\ exited)
           \/ (pc[me] = "gone" /\ pFirstThread # Null)
  PROVE  ThreadInv'
<1>1. TypeOK /\ ListSound /\ Sound
  BY DEF ThreadInv
<1>2. /\ me \in Actors /\ (me # Boot => me \in Blocks)
      /\ registered \subseteq Blocks /\ Boot \notin registered
  BY <1>1, WhoRuns
<1>3. UNCHANGED <<list, blocks, lock, threadDestroySafe, pc, target, onSafeStack, history>>
  BY DEF Switching
<1>4. ListSound'
  BY <1>1, <1>3, ListStays
<1>5. CASE pFirstThread = Null
  <2>1. UNCHANGED <<pCurrentThread, rflags>> /\ iflag' = TRUE
    BY <1>5 DEF Switching, ctx_switch
  <2>2. TypeOK' /\ me' = me
    BY <1>1, <1>3, <2>1 DEF TypeOK, me, list, blocks, lock, history
  <2>3. Sound'
    BY <1>1, <1>3, <1>5, <2>1, <2>2
       DEF Sound, Runner, Subject, Others, Lock, SafeStack,
       Linked, Left, Alone, HasLock, list, blocks, lock, history
  <2>4. QED
    BY <1>3, <1>4, <2>2, <2>3 DEF ThreadInv, history
<1>6. CASE pFirstThread # Null
  <2>1. /\ pCurrentThread' = Following /\ Following \in registered
        /\ registered \subseteq live \cap filled
    BY <1>6, SwitchGoesTo
  <2>2. PICK c \in registered : c = Following /\ pCurrentThread' = c
    BY <2>1
  <2>3. me' = c /\ c # Boot
    BY <1>1, <1>2, <2>2, BlocksAssumption DEF me
  <2>4. TypeOK'
    <3>1. rflags' \in [Blocks -> BOOLEAN] /\ iflag' \in BOOLEAN
      <4>1. rflags' = [b \in Blocks |-> IF b = pCurrentThread THEN TRUE ELSE rflags[b]]
        BY <1>6 DEF Switching, ctx_switch
      <4>2. rflags' \in [Blocks -> BOOLEAN]
        BY <1>1, <4>1 DEF TypeOK
      <4>3. iflag' = rflags'[c] /\ c \in Blocks
        BY <1>2, <1>6, <2>2 DEF Switching, ctx_switch
      <4>4. QED
        BY <4>2, <4>3
    <3>2. QED
      BY <1>1, <1>2, <1>3, <2>2, <3>1 DEF TypeOK, list, blocks, lock, history
  <2>5. pc[c] = "run" \/ (pc[c] = "lock" /\ exited)
    <3>1. CASE c = me
      BY <1>1, <2>2, <3>1, Links DEF Sound, Runner, Left, Following, TypeOK, me
    <3>2. CASE c # me
      BY <1>1, <3>2 DEF Sound, Others, Linked
    <3>3. QED
      BY <3>1, <3>2
  <2>6. registered \subseteq filled
    BY <2>1
  <2>7. \A b \in registered \ {c} : pc[b] = "run" \/ (pc[b] = "lock" /\ exited)
    <3>1. CASE me \in registered
      BY <1>1, <3>1 DEF Sound, Others, Linked, Runner, Left
    <3>2. CASE me \notin registered
      BY <1>1, <3>2 DEF Sound, Others, Linked
    <3>3. QED
      BY <3>1, <3>2
  <2>8. Sound'
    BY <1>1, <1>3, <2>3 DEF Sound, Runner, Subject, Others, Lock,
       SafeStack, Linked, Left, Alone, HasLock, list, blocks, lock, history
  <2>9. QED
    BY <1>3, <1>4, <2>4, <2>8 DEF ThreadInv, history
<1>7. QED
  BY <1>5, <1>6

LEMMA TickKeeps == ASSUME ThreadInv, timer_isr PROVE ThreadInv'
<1>1. ~broken /\ Sound /\ iflag /\ Switching
  BY DEF ThreadInv, timer_isr
<1>2. pc[me] = "run" \/ (pc[me] = "lock" /\ exited)
  BY <1>1 DEF Sound, Runner
<1>3. QED
  BY <1>1, <1>2, SwitchKeeps

LEMMA SpinKeeps == ASSUME ThreadInv, DestroySpin PROVE ThreadInv'
<1>1. ~broken /\ Sound /\ Switching /\ pc[me] = "lock" /\ value = 1
  BY DEF ThreadInv, DestroySpin, At, thread_yield
<1>2. exited
  BY <1>1 DEF Sound, Lock, HasLock
<1>3. QED
  BY <1>1, <1>2, SwitchKeeps

LEMMA GoneKeeps == ASSUME ThreadInv, GoneYield PROVE ThreadInv'
<1>1. ~broken /\ Switching /\ pc[me] = "gone" /\ pFirstThread # Null
  BY DEF GoneYield, At, thread_yield
<1>2. QED
  BY <1>1, SwitchKeeps

LEMMA NextInv == ThreadInv /\ [Next]_vars => ThreadInv'
<1> SUFFICES ASSUME ThreadInv, [Next]_vars PROVE ThreadInv'
  OBVIOUS
<1>1. CASE timer_isr
  BY <1>1, TickKeeps
<1>2. CASE \E b \in Blocks : thread_create(b) \/ thread_destroy(b)
  BY <1>2, CreateKeeps, DestroyKeeps
<1>3. CASE thread_register \/ RegisterFail \/ CreateFill
  BY <1>3, RegisterKeeps, RegisterFailKeeps, FillKeeps
<1>4. CASE DestroySpin \/ Panic \/ DestroyLock \/ SwitchStack \/ DestroyAgain
  BY <1>4, SpinKeeps, PanicKeeps, LockKeeps, SwitchStackKeeps, AgainKeeps
<1>5. CASE FreeStack \/ FreeStackFail \/ thread_unregister \/ DestroyDone \/ GoneYield
  BY <1>5, FreeStackKeeps, FreeStackFailKeeps, UnregisterKeeps, DoneKeeps, GoneKeeps
<1>6. CASE UNCHANGED vars
  <2>1. UNCHANGED <<list, blocks, cpu, lock, threadDestroySafe, pc, target, onSafeStack,
                    history>>
    BY <1>6 DEF vars
  <2>2. TypeOK' /\ me' = me
    BY <2>1 DEF ThreadInv, TypeOK, me, list, blocks, cpu, lock, history
  <2>3. ListSound'
    BY <2>1, ListStays DEF ThreadInv
  <2>4. Sound => Sound'
    BY <2>1, <2>2
       DEF Sound, Runner, Subject, Others, Lock, SafeStack, Linked, Left, Alone,
       HasLock, list, blocks, cpu, lock, history
  <2>5. QED
    BY <2>1, <2>2, <2>3, <2>4 DEF ThreadInv, history
<1>7. QED
  BY <1>1, <1>2, <1>3, <1>4, <1>5, <1>6 DEF Next

\* ThreadInv is kept by every step of thread.c, the timer and the switch: the
\* list and what the running thread is about agree until a destruction fails.
THEOREM ThreadCorrect == Spec => []ThreadInv
BY InitInv, NextInv, PTL DEF Spec

\* TypeOK: links, contexts and places are what they should be, and the
\* identifier table names allocated blocks only.
THEOREM TypeCorrect == Spec => []TypeOK
<1>1. ThreadInv => TypeOK
  BY DEF ThreadInv
<1>2. QED
  BY <1>1, ThreadCorrect, PTL

\* ListSound: thread_register and thread_unregister keep the list an order of
\* the registered threads, wherever a thread leaves it and whoever runs.
THEOREM ListCorrect == Spec => []ListSound
<1>1. ThreadInv => ListSound
  BY DEF ThreadInv
<1>2. QED
  BY <1>1, ThreadCorrect, PTL

\* ExitKeepsProcessor: thread_destroy_safe uses the safe stack alone, and the
\* lock of thread_destroy is found taken only once a thread has gone.
THEOREM ExitCorrect == Spec => []ExitKeepsProcessor
<1>1. ThreadInv => ExitKeepsProcessor
  <2> SUFFICES ASSUME ThreadInv PROVE ExitKeepsProcessor
    OBVIOUS
  <2>1. ~broken => \A t \in onSafeStack : t = me
    BY DEF ThreadInv, Sound, SafeStack
  <2>2. pc[me] = "lock" /\ value = 1 => exited
    BY DEF ThreadInv, Sound, Lock, HasLock
  <2>3. exited => value = 1 \/ pc[me] = "panic"
    BY DEF ThreadInv, Sound, Lock
  <2>4. QED
    BY <2>1, <2>2, <2>3 DEF ExitKeepsProcessor
<1>2. QED
  BY <1>1, ThreadCorrect, PTL

\* SwitchedToReady: ctx_switch, from whatever call, from the timer or from a
\* thread that has left the list, goes to a registered and complete thread.
THEOREM SwitchCorrect == Spec => SwitchedToReady
<1>1. ThreadInv /\ [Next]_vars =>
        [pCurrentThread' # pCurrentThread
           => pCurrentThread' \in registered \cap live \cap filled]_vars
  <2> SUFFICES ASSUME ThreadInv, Next, pCurrentThread' # pCurrentThread
               PROVE  pCurrentThread' \in registered \cap live \cap filled
    BY DEF vars, cpu
  <2>1. timer_isr \/ DestroySpin \/ GoneYield
    BY DEF Next, thread_create, thread_destroy, thread_register, RegisterFail,
           CreateFill,
       Panic, DestroyLock, SwitchStack, DestroyAgain, FreeStack, FreeStackFail,
       thread_unregister, DestroyDone, cpu
  <2>2. ~broken /\ Switching /\ Sound
    BY <2>1 DEF ThreadInv, timer_isr, DestroySpin, GoneYield, At, thread_yield
  <2>3. pFirstThread # Null
    BY <2>2 DEF Switching, ctx_switch
  <2>4. pc[me] = "run" \/ (pc[me] = "lock" /\ exited) \/ pc[me] = "gone"
    BY <2>1, <2>2
       DEF timer_isr, DestroySpin, GoneYield, At, Sound, Runner, Lock, HasLock
  <2>5. QED
    BY <2>2, <2>3, <2>4, SwitchGoesTo
<1>2. QED
  BY <1>1, ThreadCorrect, PTL DEF Spec, SwitchedToReady
=============================================================================
