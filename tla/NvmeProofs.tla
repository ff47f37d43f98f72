----------------------------- MODULE NvmeProofs -----------------------------
(***************************************************************************)
(* Proofs about Nvme for any number of threads, commands and queue entries *)
(* and requests of any length, while the drive is used in an Orderly way:  *)
(* no request needs a second command, or one thread at a time uses the     *)
(* drive.  One command at a time is then in the queues, its completion is   *)
(* told once, to the thread that waits for it, and the two queues together *)
(* are a CommandQueue.  Otherwise none of this holds (MCNvmeSplit).        *)
(***************************************************************************)
EXTENDS Nvme, FiniteSetTheorems, TLAPS

-----------------------------------------------------------------------------
(* The inductive invariant.                                                 *)
InQueues == {"ring", "yield", "wait"}
Waiting == {"yield", "wait"}

Busy == InQueues \cup {"alloc"}

TypeThreads ==
  /\ locks \subseteq Kinds /\ halted \in Threads \cup {None}
  /\ pc \in [Threads -> {"idle", "lock", "alloc", "ring", "yield", "wait", "unlock"}]
  /\ kind \in [Threads -> Kinds] /\ left \in [Threads -> 0 .. MaxChunks]

\* A request of one command keeps the scheduler halted from its lock to the
\* return of nvme_yield_until_completion.
Turn == \A t \in Threads : pc[t] \in Busy => halted = t /\ left[t] = 1

(* What holds whatever the threads ask for: whoever has halted the          *)
(* scheduler is about a command.                                            *)
RequestInv ==
  /\ TypeThreads
  /\ \A t \in Threads : pc[t] \in Busy \cup {"lock"} => left[t] >= 1
  /\ halted # None => pc[halted] \in Busy
  /\ MaxChunks = 1 => Turn

\* What an orderly use of the drive adds.
OneRequest ==
  \A t, u \in Threads : pc[t] \in Busy /\ pc[u] \in Busy => t = u

\* The commands that a request may still issue.
Budget ==
  \A t \in Threads :
    /\ pc[t] = "alloc" => issued + left[t] <= MaxCommands
    /\ pc[t] \in InQueues => issued + left[t] - 1 <= MaxCommands

\* The phase of a completion tells the lap it was written in.
Lapped == \A i \in Cq : cq[i].phase = IF i < cqTail THEN cqPhase ELSE 1 - cqPhase

(* Where the last command is: told or not there yet, written, submitted,    *)
(* with the device, or completed.  All commands before it are done and told *)
(* of.                                                                      *)
Told(n) == done = 1 .. n /\ complete = 1 .. n
CqEmpty == cqTail = completionEntry /\ cqPhase = phase
Unheard == ~msi /\ isr = "out"

Settled ==
  /\ sqDoorbell = submissionEntry /\ sqHead = sqDoorbell /\ inflight = {}
  /\ CqEmpty /\ ~msi /\ Told(issued)
  /\ isr \in {"out", "doorbell"} \/ (isr = "loop" /\ processedCount > 0)
  /\ \A t \in Threads : pc[t] \in InQueues => pc[t] # "ring" /\ mine[t] \in complete

Written ==
  /\ submissionEntry = Next1(sqDoorbell, SqEntries) /\ sqHead = sqDoorbell
  /\ inflight = {} /\ CqEmpty /\ Unheard
  /\ \E t \in Threads : pc[t] = "ring" /\ mine[t] = issued
  /\ descList[sqDoorbell] = issued /\ issued > 0 /\ Told(issued - 1)

Current(slot) ==
  /\ sqDoorbell = submissionEntry
  /\ \E t \in Threads : pc[t] \in Waiting /\ mine[t] = issued
  /\ slot \in Sq /\ descList[slot] = issued /\ issued > 0

Submitted ==
  /\ Current(sqHead) /\ sqDoorbell = Next1(sqHead, SqEntries)
  /\ inflight = {} /\ CqEmpty /\ Unheard /\ Told(issued - 1)

Fetched ==
  \E s \in Sq :
    /\ Current(s) /\ sqHead = sqDoorbell
    /\ inflight = {[slot |-> s, cmd |-> issued]} /\ CqEmpty /\ Unheard
    /\ Told(issued - 1)

Completed ==
  /\ Current(cq[completionEntry].slot) /\ sqHead = sqDoorbell /\ inflight = {}
  /\ done = 1 .. issued /\ complete = 1 .. issued - 1
  /\ cqTail = Next1(completionEntry, CqEntries) /\ cqPhase = FlippedPhase(cqTail)
  /\ Fresh
  /\ (msi /\ isr = "out") \/ (~msi /\ isr = "loop" /\ processedCount = 0)

Pipeline == Settled \/ Written \/ Submitted \/ Fetched \/ Completed

\* The rest of the type invariant.
TypeCommands ==
  /\ mine \in [Threads -> 0 .. issued] /\ issued \in 0 .. MaxCommands
  /\ descList \in [Sq -> 0 .. issued]
  /\ complete \subseteq 1 .. issued /\ done \subseteq 1 .. issued
  /\ inflight \subseteq [slot : Sq, cmd : 1 .. issued]
TypeSq == submissionEntry \in Sq /\ sqDoorbell \in Sq /\ sqHead \in Sq
TypeCq ==
  /\ completionEntry \in Cq /\ cqTail \in Cq /\ cqDoorbell \in Cq
  /\ phase \in {0, 1} /\ cqPhase \in {0, 1} /\ msi \in BOOLEAN
  /\ isr \in {"out", "loop", "doorbell", "hung"}
  /\ processedCount \in 0 .. CqEntries
  /\ cq \in [Cq -> [slot : Sq, phase : {0, 1}]]
Types == TypeCommands /\ TypeSq /\ TypeCq

DriveInv == RequestInv /\ OneRequest
NvmeInv == DriveInv /\ Types /\ Budget /\ Lapped /\ Pipeline

-----------------------------------------------------------------------------
LEMMA NextInQueue ==
  ASSUME NEW n \in Nat \ {0}, NEW i \in 0 .. n-1
  PROVE  Next1(i, n) \in 0 .. n-1
BY DEF Next1

LEMMA TypeParts == TypeOK <=> TypeThreads /\ Types
BY DEF TypeOK, Types, TypeThreads, TypeCommands, TypeSq, TypeCq

\* Two threads are not about a command at the same time.
LEMMA OneThread ==
  ASSUME OneRequest, NEW t \in Threads, NEW u \in Threads,
         pc[t] \in InQueues \cup {"alloc"}, pc[u] \in InQueues \cup {"alloc"}
  PROVE  t = u
BY DEF OneRequest, Busy

\* The halted scheduler sees to it when all requests are of one command.
LEMMA OrderlyIsOne ==
  ASSUME RequestInv, Orderly
  PROVE  OneRequest
<1>1. CASE MaxChunks = 1
  BY <1>1 DEF RequestInv, Turn, OneRequest
<1>2. CASE OneUser
  BY <1>2 DEF OneUser, OneRequest, Busy, InQueues
<1>3. QED
  BY <1>1, <1>2 DEF Orderly

LEMMA InvImpliesOne == NvmeInv => OneOutstanding
<1> SUFFICES ASSUME NvmeInv PROVE OneOutstanding
  OBVIOUS
<1> DEFINE S == {t \in Threads : pc[t] \in InQueues}
<1>1. \A t, u \in S : t = u
  BY OneThread DEF NvmeInv, DriveInv
<1>2. Cardinality(S) <= 1
  <2>1. CASE S = {}
    <3>1. Cardinality({}) = 0
      BY FS_EmptySet
    <3>2. Cardinality(S) = 0
      BY <2>1, <3>1, Zenon
    <3>3. QED
      BY <3>2
  <2>2. CASE S # {}
    <3>1. PICK t \in S : TRUE
      BY <2>2
    <3>2. S = {t}
      BY <1>1, <3>1
    <3>3. Cardinality({t}) = 1
      BY FS_Singleton
    <3>4. QED
      BY <3>2, <3>3
  <2>3. QED
    BY <2>1, <2>2
<1>3. QED
  BY <1>2 DEF OneOutstanding, InQueues

LEMMA InvImpliesNoGhost == NvmeInv => NoGhost
BY DEF NvmeInv, Pipeline, Settled, Written, Submitted, Fetched, Completed, Unheard, NoGhost

-----------------------------------------------------------------------------
LEMMA InitRequest == Init => RequestInv
BY NvmeAssumption DEF Init, RequestInv, TypeThreads, Turn, Busy, InQueues, Kinds

LEMMA InitInv ==
  ASSUME Init
  PROVE  NvmeInv
<1> USE NvmeAssumption DEF Init
<1>1. 0 \in Sq /\ 0 \in Cq
  BY DEF Sq, Cq
<1>2. DriveInv
  BY InitRequest DEF DriveInv, OneRequest, Busy, InQueues
<1>3. TypeCommands
  BY DEF TypeCommands
<1>4. TypeSq
  BY <1>1 DEF TypeSq
<1>5. cq \in [Cq -> [slot : Sq, phase : {0, 1}]]
  BY <1>1
<1>6. TypeCq
  <2>1. processedCount \in 0 .. CqEntries
    OBVIOUS
  <2>2. QED
    BY <1>1, <1>5, <2>1 DEF TypeCq
<1>7. Budget
  BY DEF Budget, InQueues
<1>8. Lapped
  BY DEF Lapped, Cq
<1>9. Settled
  BY DEF Settled, CqEmpty, InQueues, Told
<1>10. QED
  BY <1>2, <1>3, <1>4, <1>6, <1>7, <1>8, <1>9 DEF NvmeInv, Types, Pipeline

-----------------------------------------------------------------------------
(* What the threads keep, whatever the requests.                            *)
LEMMA NextRequest ==
  ASSUME RequestInv, [Next]_vars
  PROVE  RequestInv'
<1> USE DEF RequestInv, TypeThreads
<1>1. ASSUME NEW t \in Threads, NEW k \in Kinds, NEW n \in 1 .. MaxChunks,
             drive_sectors(t, k, n)
      PROVE  RequestInv'
  <2>1. /\ pc[t] = "idle" /\ kind' = [kind EXCEPT ![t] = k] /\ left' = [left EXCEPT ![t] = n]
        /\ pc' = [pc EXCEPT ![t] = "lock"] /\ UNCHANGED <<locks, halted>>
    BY <1>1 DEF drive_sectors, At, Goto
  <2>2. \A u \in Threads : pc'[u] \in Busy => u # t /\ pc[u] \in Busy
    BY <2>1 DEF Busy, InQueues
  <2>3. \A u \in Threads : pc'[u] \in Busy \cup {"lock"} => left'[u] >= 1
    BY <2>1
  <2>4. MaxChunks = 1 => Turn'
    BY <2>1, <2>2 DEF Turn
  <2>5. TypeThreads'
    BY <2>1, NvmeAssumption
  <2>6. halted' # None => pc'[halted'] \in Busy
    BY <2>1 DEF Busy, InQueues
  <2>7. QED
    BY <2>3, <2>4, <2>5, <2>6
<1>2. ASSUME NEW t \in Threads, drive_lock(t)
      PROVE  RequestInv'
  <2>1. /\ pc[t] = "lock" /\ halted \in {None, t} /\ halted' = t
        /\ locks' = locks \cup {kind[t]} /\ pc' = [pc EXCEPT ![t] = "alloc"]
        /\ UNCHANGED <<kind, left>>
    BY <1>2 DEF drive_lock, At, Goto
  <2>2. halted = None
    BY <2>1 DEF Busy, InQueues
  <2>3. \A u \in Threads : pc'[u] \in Busy \cup {"lock"} => left'[u] >= 1
    BY <2>1 DEF Busy
  <2>4. ASSUME MaxChunks = 1 PROVE Turn'
    <3>1. \A u \in Threads : pc[u] \notin Busy
      BY <2>2, <2>4, NvmeAssumption DEF Turn
    <3>2. left[t] = 1
      BY <2>1, <2>4
    <3>3. QED
      BY <2>1, <3>1, <3>2 DEF Turn, Busy
  <2>5. TypeThreads'
    BY <2>1
  <2>6. halted' # None => pc'[halted'] \in Busy
    BY <2>1 DEF Busy
  <2>7. QED
    BY <2>3, <2>4, <2>5, <2>6
<1>3. ASSUME NEW t \in Threads, NEW place \in {"ring", "yield", "wait"},
             pc[t] \in Busy, halted \in {None, t}, halted' \in {halted, t},
             pc' = [pc EXCEPT ![t] = place], UNCHANGED <<locks, kind, left>>
      PROVE  RequestInv'
  <2>1. \A u \in Threads : pc'[u] \in Busy <=> pc[u] \in Busy
    BY <1>3 DEF Busy, InQueues
  <2>2. MaxChunks = 1 => Turn'
    BY <1>3, <2>1, NvmeAssumption DEF Turn
  <2>3. \A u \in Threads : pc'[u] \in Busy \cup {"lock"} => left'[u] >= 1
    BY <1>3, <2>1
  <2>4. TypeThreads'
    BY <1>3
  <2>5. halted' # None => pc'[halted'] \in Busy
    BY <1>3, <2>1
  <2>6. QED
    BY <2>2, <2>3, <2>4, <2>5
<1>4. ASSUME NEW t \in Threads,
             nvme_alloc_submission_qe(t) \/ nvme_run_submission_queue(t) \/ YieldLock(t)
      PROVE  RequestInv'
  <2>1. PICK place \in {"ring", "yield", "wait"} :
          /\ pc[t] \in Busy /\ halted \in {None, t} /\ halted' \in {halted, t}
          /\ pc' = [pc EXCEPT ![t] = place] /\ UNCHANGED <<locks, kind, left>>
    BY <1>4
    DEF nvme_alloc_submission_qe, nvme_run_submission_queue, YieldLock, At, Goto, Busy,
        InQueues
  <2>2. QED
    BY <1>3, <2>1
<1>5. ASSUME NEW t \in Threads, YieldReturn(t)
      PROVE  RequestInv'
  <2>1. /\ pc[t] = "wait" /\ halted \in {None, t} /\ halted' = None
        /\ left' = [left EXCEPT ![t] = left[t] - 1]
        /\ pc' = [pc EXCEPT ![t] = IF left[t] = 1 THEN "unlock" ELSE "alloc"]
        /\ UNCHANGED <<locks, kind>>
    BY <1>5 DEF YieldReturn, At, Goto
  <2>2. left[t] >= 1 /\ left[t] \in 0 .. MaxChunks /\ MaxChunks \in Nat
    BY <2>1, NvmeAssumption DEF Busy, InQueues
  <2>3. left[t] - 1 \in 0 .. MaxChunks
    BY <2>2
  <2>4. \A u \in Threads : pc'[u] \in Busy \cup {"lock"} => left'[u] >= 1
    <3>1. CASE left[t] = 1
      BY <2>1, <3>1 DEF Busy, InQueues
    <3>2. CASE left[t] # 1
      BY <2>1, <2>2, <3>2
    <3>3. QED
      BY <3>1, <3>2
  <2>5. ASSUME MaxChunks = 1 PROVE Turn'
    <3>1. left[t] = 1 /\ halted = t
      BY <2>1, <2>5 DEF Turn, Busy, InQueues
    <3>2. \A u \in Threads : pc[u] \in Busy => u = t
      BY <2>5, <3>1 DEF Turn
    <3>3. QED
      BY <2>1, <3>1, <3>2 DEF Turn, Busy, InQueues
  <2>6. TypeThreads'
    <3>1. left' \in [Threads -> 0 .. MaxChunks]
      BY <2>1, <2>3
    <3>2. pc' \in [Threads -> {"idle", "lock", "alloc", "ring", "yield", "wait", "unlock"}]
      BY <2>1
    <3>3. QED
      BY <2>1, <3>1, <3>2
  <2>7. QED
    BY <2>1, <2>4, <2>5, <2>6
<1>6. ASSUME NEW t \in Threads, drive_unlock(t)
      PROVE  RequestInv'
  <2>1. /\ pc[t] = "unlock" /\ halted \in {None, t} /\ halted' = None
        /\ locks' = locks \ {kind[t]}
        /\ pc' = [pc EXCEPT ![t] = "idle"] /\ UNCHANGED <<kind, left>>
    BY <1>6 DEF drive_unlock, At, Goto
  <2>2. \A u \in Threads : pc'[u] \in Busy \cup {"lock"} => pc[u] = pc'[u]
    BY <2>1 DEF Busy, InQueues
  <2>3. \A u \in Threads : pc'[u] \in Busy \cup {"lock"} => left'[u] >= 1
    BY <2>1, <2>2
  <2>4. ASSUME MaxChunks = 1 PROVE Turn'
    <3>1. \A u \in Threads : pc[u] \notin Busy
      BY <2>1, <2>4, NvmeAssumption DEF Turn, Busy, InQueues
    <3>2. QED
      BY <2>2, <3>1 DEF Turn
  <2>5. TypeThreads'
    BY <2>1
  <2>6. QED
    BY <2>1, <2>3, <2>4, <2>5
<1>7. CASE Device \/ Interrupt \/ UNCHANGED vars
  <2>1. UNCHANGED <<locks, halted, pc, kind, left>>
    BY <1>7
    DEF Device, nvme_fetch, nvme_complete, Interrupt, InterruptEnter, InterruptTake,
        InterruptEnd, InterruptDoorbell, vars, threads
  <2>2. QED
    BY <2>1 DEF Turn, Busy, InQueues
<1>8. QED
  BY <1>1, <1>2, <1>4, <1>5, <1>6, <1>7 DEF Next, Thread

-----------------------------------------------------------------------------
(* The threads.                                                             *)

\* Where a stage needs a thread about a command, there is one.
LEMMA NobodyThenSettled ==
  ASSUME Pipeline, \A u \in Threads : pc[u] \notin InQueues
  PROVE  Settled
BY DEF Pipeline, Written, Submitted, Fetched, Completed, Current, InQueues, Waiting

LEMMA AllocKeeps ==
  ASSUME NvmeInv, DriveInv', NEW t \in Threads, nvme_alloc_submission_qe(t)
  PROVE  NvmeInv'
<1> USE DEF NvmeInv, DriveInv, Types
<1>1. /\ pc[t] = "alloc" /\ isr = "out"
      /\ issued' = issued + 1 /\ mine' = [mine EXCEPT ![t] = issued']
      /\ descList' = [descList EXCEPT ![submissionEntry] = issued']
      /\ submissionEntry' = Next1(submissionEntry, SqEntries)
      /\ pc' = [pc EXCEPT ![t] = "ring"]
  BY DEF nvme_alloc_submission_qe, At, Goto
<1>2. UNCHANGED <<locks, halted, kind, left, sqDoorbell, complete,
                  completionEntry, phase, isr, processedCount, cqDoorbell, msi,
                  sqHead, inflight, done, cq, cqTail, cqPhase>>
  BY DEF nvme_alloc_submission_qe, handler, device
<1>3. left[t] >= 1 /\ left[t] \in Nat /\ issued + left[t] <= MaxCommands
  BY <1>1, NvmeAssumption DEF Budget, RequestInv, TypeThreads, Busy
<1>4. /\ \A u \in Threads : u # t => pc'[u] = pc[u] /\ mine'[u] = mine[u]
      /\ pc'[t] = "ring" /\ mine'[t] = issued'
  BY <1>1 DEF RequestInv, TypeThreads, TypeCommands
<1>5. \A u \in Threads : u # t => pc[u] \notin InQueues \cup {"alloc"}
  BY <1>1, OneThread
<1>6. /\ issued \in Nat /\ issued' \in Nat /\ issued' \in 0 .. MaxCommands
      /\ 0 .. issued \subseteq 0 .. issued' /\ 1 .. issued \subseteq 1 .. issued'
      /\ issued' \in 0 .. issued' /\ issued' \notin 1 .. issued /\ issued' > 0
  BY <1>1, <1>3, NvmeAssumption DEF TypeCommands
<1>7. TypeCommands'
  <2>1. mine' \in [Threads -> 0 .. issued'] /\ descList' \in [Sq -> 0 .. issued']
    BY <1>1, <1>6 DEF TypeCommands
  <2>2. complete' \subseteq 1 .. issued' /\ done' \subseteq 1 .. issued'
    BY <1>2, <1>6, Zenon DEF TypeCommands
  <2>3. inflight' \subseteq [slot : Sq, cmd : 1 .. issued']
    BY <1>2, <1>6 DEF TypeCommands
  <2>4. QED
    BY <1>6, <2>1, <2>2, <2>3 DEF TypeCommands, Sq
<1>8. TypeSq' /\ TypeCq'
  <2>1. submissionEntry' \in Sq
    BY <1>1, NextInQueue, NvmeAssumption DEF TypeSq, Sq
  <2>2. QED
    BY <1>2, <2>1 DEF TypeSq, TypeCq, Sq, Cq
<1>9. Budget'
  BY <1>1, <1>2, <1>3, <1>4, <1>5, NvmeAssumption DEF Budget, InQueues, TypeCommands
<1>10. Lapped'
  BY <1>2 DEF Lapped, Cq
<1>11. Settled
  BY <1>1, <1>5, NobodyThenSettled DEF InQueues
<1>12. descList'[sqDoorbell] = issued' /\ issued' - 1 = issued
  BY <1>1, <1>6, <1>11 DEF Settled, TypeCommands, TypeSq
<1>13. Written'
  <2>1. Told(issued - 1)'
    BY <1>2, <1>11, <1>12 DEF Settled, Told
  <2>2. QED
    BY <1>1, <1>2, <1>4, <1>6, <1>11, <1>12, <2>1
    DEF Settled, Written, CqEmpty, Unheard
<1>14. QED
  BY <1>7, <1>8, <1>9, <1>10, <1>13 DEF Pipeline

LEMMA RunKeeps ==
  ASSUME NvmeInv, DriveInv', NEW t \in Threads, nvme_run_submission_queue(t)
  PROVE  NvmeInv'
<1> USE DEF NvmeInv, DriveInv, Types
<1>1. /\ pc[t] = "ring" /\ sqDoorbell' = submissionEntry
      /\ pc' = [pc EXCEPT ![t] = "yield"]
  BY DEF nvme_run_submission_queue, At, Goto
<1>2. UNCHANGED <<locks, halted, kind, left, mine, issued, descList,
                  submissionEntry, complete, completionEntry, phase, isr,
                  processedCount, cqDoorbell, msi, sqHead, inflight, done, cq,
                  cqTail, cqPhase>>
  BY DEF nvme_run_submission_queue, handler, device
<1>3. /\ \A u \in Threads : u # t => pc'[u] = pc[u]
      /\ pc'[t] = "yield"
  BY <1>1 DEF RequestInv, TypeThreads
<1>4. \A u \in Threads : u # t => pc[u] \notin InQueues
  BY <1>1, OneThread DEF InQueues
<1>5. TypeCommands' /\ TypeSq' /\ TypeCq'
  BY <1>1, <1>2 DEF TypeCommands, TypeSq, TypeCq, Sq, Cq
<1>6. Budget'
  BY <1>1, <1>2, <1>3 DEF Budget, InQueues
<1>7. Lapped'
  BY <1>2 DEF Lapped, Cq
<1>8. Written
  BY <1>1, <1>4
  DEF Pipeline, Settled, Submitted, Fetched, Completed, Current, InQueues, Waiting
<1>9. mine[t] = issued
  BY <1>4, <1>8 DEF Written, InQueues
<1>10. Submitted'
  BY <1>1, <1>2, <1>3, <1>8, <1>9
  DEF Written, Submitted, Current, CqEmpty, Unheard, Waiting, TypeSq, Sq, Told
<1>11. QED
  BY <1>5, <1>6, <1>7, <1>10 DEF Pipeline

LEMMA YieldLockKeeps ==
  ASSUME NvmeInv, DriveInv', NEW t \in Threads, YieldLock(t)
  PROVE  NvmeInv'
<1> USE DEF NvmeInv, DriveInv, Types
<1>1. /\ pc[t] = "yield" /\ halted' = t
      /\ pc' = [pc EXCEPT ![t] = "wait"]
  BY DEF YieldLock, At, Goto
<1>2. UNCHANGED <<locks, kind, left, mine, issued, descList, submissionEntry,
                  sqDoorbell, complete, completionEntry, phase, isr,
                  processedCount, cqDoorbell, msi, sqHead, inflight, done, cq,
                  cqTail, cqPhase>>
  BY DEF YieldLock, queue, handler, device
<1>3. /\ \A u \in Threads : u # t => pc'[u] = pc[u]
      /\ pc'[t] = "wait"
  BY <1>1 DEF RequestInv, TypeThreads
<1>4. \A u \in Threads : u # t => pc[u] \notin InQueues \cup {"alloc"}
  BY <1>1, OneThread DEF InQueues
<1>5. TypeCommands' /\ TypeSq' /\ TypeCq'
  BY <1>2 DEF TypeCommands, TypeSq, TypeCq, Sq, Cq
<1>6. Budget'
  BY <1>1, <1>2, <1>3, <1>4 DEF Budget, InQueues
<1>7. Lapped'
  BY <1>2 DEF Lapped, Cq
<1>8. ~Written
  BY <1>1, <1>4 DEF Written, InQueues
<1>9. ASSUME Settled PROVE Settled'
  BY <1>1, <1>2, <1>3, <1>4, <1>9 DEF Settled, CqEmpty, InQueues, Told
<1>10. ASSUME NEW s, Current(s) PROVE Current(s)'
  <2>1. mine[t] = issued
    BY <1>4, <1>10 DEF Current, Waiting, InQueues
  <2>2. QED
    BY <1>2, <1>3, <1>10, <2>1 DEF Current, Waiting, Sq
<1>11. ASSUME Submitted PROVE Submitted'
  <2>1. Current(sqHead)'
    BY <1>2, <1>10, <1>11 DEF Submitted, Current, Sq
  <2>2. QED
    BY <1>2, <1>11, <2>1 DEF Submitted, CqEmpty, Unheard, Told
<1>12. ASSUME Fetched PROVE Fetched'
  <2>1. PICK s \in Sq :
          /\ Current(s) /\ sqHead = sqDoorbell
          /\ inflight = {[slot |-> s, cmd |-> issued]} /\ CqEmpty /\ Unheard
          /\ Told(issued - 1)
    BY <1>12 DEF Fetched
  <2>2. Current(s)'
    BY <1>10, <2>1
  <2>3. QED
    BY <1>2, <2>1, <2>2 DEF Fetched, CqEmpty, Unheard, Sq, Told
<1>13. ASSUME Completed PROVE Completed'
  <2>1. Current(cq[completionEntry].slot)'
    <3>1. PICK s : s = cq[completionEntry].slot
      OBVIOUS
    <3>2. Current(s)'
      BY <1>10, <1>13, <3>1 DEF Completed
    <3>3. QED
      BY <1>2, <3>1, <3>2
  <2>2. QED
    BY <1>2, <1>13, <2>1 DEF Completed, Fresh, FlippedPhase
<1>14. QED
  BY <1>5, <1>6, <1>7, <1>8, <1>9, <1>11, <1>12, <1>13 DEF Pipeline

LEMMA YieldReturnKeeps ==
  ASSUME NvmeInv, DriveInv', NEW t \in Threads, YieldReturn(t)
  PROVE  NvmeInv'
<1> USE DEF NvmeInv, DriveInv, Types
<1>1. /\ pc[t] = "wait" /\ mine[t] \in complete /\ halted' = None
      /\ left' = [left EXCEPT ![t] = left[t] - 1]
      /\ pc' = [pc EXCEPT ![t] = IF left[t] = 1 THEN "unlock" ELSE "alloc"]
  BY DEF YieldReturn, At, Goto
<1>2. UNCHANGED <<locks, kind, mine, issued, descList, submissionEntry,
                  sqDoorbell, complete, completionEntry, phase, isr,
                  processedCount, cqDoorbell, msi, sqHead, inflight, done, cq,
                  cqTail, cqPhase>>
  BY DEF YieldReturn, queue, handler, device
<1>3. left[t] >= 1 /\ left[t] \in Nat /\ issued + left[t] - 1 <= MaxCommands
  BY <1>1, NvmeAssumption DEF Budget, RequestInv, TypeThreads, InQueues, Busy
<1>4. /\ \A u \in Threads : u # t => pc'[u] = pc[u] /\ left'[u] = left[u]
      /\ pc'[t] \in {"unlock", "alloc"} /\ left'[t] = left[t] - 1
  BY <1>1 DEF RequestInv, TypeThreads
<1>5. \A u \in Threads : u # t => pc[u] \notin InQueues \cup {"alloc"}
  BY <1>1, OneThread DEF InQueues
<1>6. TypeCommands' /\ TypeSq' /\ TypeCq'
  BY <1>2 DEF TypeCommands, TypeSq, TypeCq, Sq, Cq
<1>7. Budget'
  BY <1>2, <1>3, <1>4, <1>5, NvmeAssumption DEF Budget, InQueues, TypeCommands
<1>8. Lapped'
  BY <1>2 DEF Lapped, Cq
<1>9. Settled
  <2>1. ~Written
    BY <1>1, <1>5 DEF Written, InQueues
  <2>2. ASSUME NEW s, Current(s) PROVE complete # 1 .. issued - 1
    <3>1. mine[t] = issued /\ issued \in Nat
      BY <1>1, <1>5, <2>2, NvmeAssumption DEF Current, Waiting, InQueues, TypeCommands
    <3>2. QED
      BY <1>1, <3>1
  <2>3. QED
    BY <2>1, <2>2 DEF Pipeline, Submitted, Fetched, Completed, Told
<1>10. Settled'
  BY <1>2, <1>4, <1>5, <1>9 DEF Settled, CqEmpty, InQueues, Told
<1>11. QED
  BY <1>6, <1>7, <1>8, <1>10 DEF Pipeline

\* A step that touches neither the queues nor a thread that is in them leaves
\* the last command where it is.
LEMMA PipelineStays ==
  ASSUME Pipeline,
         \A u \in Threads : pc[u] \in InQueues \/ pc'[u] \in InQueues => pc'[u] = pc[u],
         UNCHANGED <<mine, issued, descList, submissionEntry, sqDoorbell, complete,
                     completionEntry, phase, isr, processedCount, msi, sqHead,
                     inflight, done, cq, cqTail, cqPhase>>
  PROVE  Pipeline'
<1>1. ASSUME NEW s, Current(s) PROVE Current(s)'
  BY <1>1 DEF Current, Waiting, InQueues, Sq
<1>2. CASE Settled
  BY <1>2 DEF Pipeline, Settled, CqEmpty, InQueues, Told
<1>3. CASE Written
  BY <1>3 DEF Pipeline, Written, CqEmpty, Unheard, InQueues, Told
<1>4. CASE Submitted
  <2>1. Current(sqHead)'
    BY <1>4 DEF Submitted, Current, Waiting, InQueues, Sq
  <2>2. QED
    BY <1>4, <2>1 DEF Pipeline, Submitted, CqEmpty, Unheard, Told
<1>5. CASE Fetched
  BY <1>1, <1>5 DEF Pipeline, Fetched, CqEmpty, Unheard, Sq, Told
<1>6. CASE Completed
  <2>1. Current(cq[completionEntry].slot)'
    BY <1>6 DEF Completed, Current, Waiting, InQueues, Sq
  <2>2. QED
    BY <1>6, <2>1 DEF Pipeline, Completed, Fresh, FlippedPhase
<1>7. QED
  BY <1>2, <1>3, <1>4, <1>5, <1>6 DEF Pipeline

LEMMA DriveSectorsKeeps ==
  ASSUME NvmeInv, DriveInv', NEW t \in Threads, NEW k \in Kinds,
         NEW n \in 1 .. MaxChunks, drive_sectors(t, k, n)
  PROVE  NvmeInv'
<1> USE DEF NvmeInv, DriveInv, Types
<1>1. /\ pc[t] = "idle"
      /\ left' = [left EXCEPT ![t] = n] /\ pc' = [pc EXCEPT ![t] = "lock"]
  BY DEF drive_sectors, At, Goto
<1>2. UNCHANGED <<mine, issued, descList, submissionEntry, sqDoorbell, complete,
                  completionEntry, phase, isr, processedCount, cqDoorbell, msi,
                  sqHead, inflight, done, cq, cqTail, cqPhase>>
  BY DEF drive_sectors, queue, handler, device
<1>3. TypeCommands' /\ TypeSq' /\ TypeCq'
  BY <1>2 DEF TypeCommands, TypeSq, TypeCq, Sq, Cq
<1>4. /\ \A u \in Threads : u # t => pc'[u] = pc[u] /\ left'[u] = left[u]
      /\ pc'[t] = "lock"
  BY <1>1 DEF RequestInv, TypeThreads
<1>5. Budget'
  BY <1>2, <1>4 DEF Budget, InQueues
<1>6. Lapped'
  BY <1>2 DEF Lapped, Cq
<1>7. Pipeline'
  BY <1>1, <1>2, <1>4, PipelineStays DEF InQueues
<1>8. QED
  BY <1>3, <1>5, <1>6, <1>7

LEMMA DriveLockKeeps ==
  ASSUME NvmeInv, DriveInv', NEW t \in Threads, drive_lock(t)
  PROVE  NvmeInv'
<1> USE DEF NvmeInv, DriveInv, Types
<1>1. /\ pc[t] = "lock" /\ isr = "out" /\ issued + left[t] <= MaxCommands
      /\ pc' = [pc EXCEPT ![t] = "alloc"] /\ left' = left
  BY DEF drive_lock, At, Goto
<1>2. UNCHANGED <<mine, issued, descList, submissionEntry, sqDoorbell, complete,
                  completionEntry, phase, isr, processedCount, cqDoorbell, msi,
                  sqHead, inflight, done, cq, cqTail, cqPhase>>
  BY DEF drive_lock, queue, handler, device
<1>3. TypeCommands' /\ TypeSq' /\ TypeCq'
  BY <1>2 DEF TypeCommands, TypeSq, TypeCq, Sq, Cq
<1>4. /\ \A u \in Threads : u # t => pc'[u] = pc[u]
      /\ pc'[t] = "alloc"
  BY <1>1 DEF RequestInv, TypeThreads
<1>5. Budget'
  BY <1>1, <1>2, <1>4 DEF Budget, InQueues
<1>6. Lapped'
  BY <1>2 DEF Lapped, Cq
<1>7. Pipeline'
  BY <1>1, <1>2, <1>4, PipelineStays DEF InQueues
<1>8. QED
  BY <1>3, <1>5, <1>6, <1>7

LEMMA DriveUnlockKeeps ==
  ASSUME NvmeInv, DriveInv', NEW t \in Threads, drive_unlock(t)
  PROVE  NvmeInv'
<1> USE DEF NvmeInv, DriveInv, Types
<1>1. pc[t] = "unlock" /\ pc' = [pc EXCEPT ![t] = "idle"]
  BY DEF drive_unlock, At, Goto
<1>2. UNCHANGED <<kind, left, mine, issued, descList, submissionEntry,
                  sqDoorbell, complete, completionEntry, phase, isr,
                  processedCount, cqDoorbell, msi, sqHead, inflight, done, cq,
                  cqTail, cqPhase>>
  BY DEF drive_unlock, queue, handler, device
<1>3. /\ \A u \in Threads : u # t => pc'[u] = pc[u]
      /\ pc'[t] = "idle"
  BY <1>1 DEF RequestInv, TypeThreads
<1>4. TypeCommands' /\ TypeSq' /\ TypeCq'
  BY <1>2 DEF TypeCommands, TypeSq, TypeCq, Sq, Cq
<1>5. Budget'
  BY <1>2, <1>3 DEF Budget, InQueues
<1>6. Lapped'
  BY <1>2 DEF Lapped, Cq
<1>7. Pipeline'
  BY <1>1, <1>2, <1>3, PipelineStays DEF InQueues
<1>8. QED
  BY <1>4, <1>5, <1>6, <1>7

-----------------------------------------------------------------------------
(* The device.                                                              *)
LEMMA FetchKeeps ==
  ASSUME NvmeInv, DriveInv', nvme_fetch
  PROVE  NvmeInv'
<1> USE DEF NvmeInv, DriveInv, Types
<1>1. /\ sqHead # sqDoorbell
      /\ inflight' = inflight \cup {[slot |-> sqHead, cmd |-> descList[sqHead]]}
      /\ sqHead' = Next1(sqHead, SqEntries)
  BY DEF nvme_fetch
<1>2. UNCHANGED <<locks, halted, pc, kind, left, mine, issued, descList,
                  submissionEntry, sqDoorbell, complete, completionEntry, phase,
                  isr, processedCount, cqDoorbell, msi, done, cq, cqTail, cqPhase>>
  BY DEF nvme_fetch, threads, queue, handler
<1>3. Submitted
  BY <1>1 DEF Pipeline, Settled, Written, Fetched, Completed
<1>4. inflight' = {[slot |-> sqHead, cmd |-> issued]} /\ sqHead' = sqDoorbell
  BY <1>1, <1>3 DEF Submitted, Current
<1>5. issued \in 1 .. issued /\ sqHead \in Sq
  BY <1>3, NvmeAssumption DEF Submitted, Current, TypeCommands
<1>6. TypeCommands'
  BY <1>2, <1>4, <1>5 DEF TypeCommands, Sq
<1>7. TypeSq' /\ TypeCq'
  BY <1>2, <1>4 DEF TypeSq, TypeCq, Sq, Cq
<1>8. Budget' /\ Lapped'
  BY <1>2 DEF Budget, Lapped, InQueues, Cq
<1>9. Current(sqHead)
  BY <1>3 DEF Submitted
<1>10. PICK s : s = sqHead
  OBVIOUS
<1>11. Current(s)' /\ s \in Sq'
  BY <1>2, <1>5, <1>9, <1>10 DEF Current, Waiting, Sq
<1>12. Fetched'
  BY <1>2, <1>3, <1>4, <1>10, <1>11 DEF Submitted, Fetched, CqEmpty, Unheard, Told
<1>13. QED
  BY <1>6, <1>7, <1>8, <1>12 DEF Pipeline

LEMMA CompleteKeeps ==
  ASSUME NvmeInv, DriveInv', NEW c \in inflight, nvme_complete(c)
  PROVE  NvmeInv'
<1> USE DEF NvmeInv, DriveInv, Types
<1>1. /\ inflight' = inflight \ {c} /\ done' = done \cup {c.cmd}
      /\ cq' = [cq EXCEPT ![cqTail] = [slot |-> c.slot, phase |-> cqPhase]]
      /\ cqTail' = Next1(cqTail, CqEntries)
      /\ cqPhase' = IF cqTail' = 0 THEN 1 - cqPhase ELSE cqPhase
      /\ msi' = TRUE
  BY DEF nvme_complete
<1>2. UNCHANGED <<locks, halted, pc, kind, left, mine, issued, descList,
                  submissionEntry, sqDoorbell, complete, completionEntry, phase,
                  isr, processedCount, cqDoorbell, sqHead>>
  BY DEF nvme_complete, threads, queue, handler
<1>3. Fetched
  BY DEF Pipeline, Settled, Written, Submitted, Completed
<1>4. PICK s \in Sq :
        /\ Current(s) /\ sqHead = sqDoorbell
        /\ inflight = {[slot |-> s, cmd |-> issued]} /\ CqEmpty /\ Unheard
        /\ Told(issued - 1)
  BY <1>3 DEF Fetched
<1>5. c.slot = s /\ c.cmd = issued /\ inflight' = {} /\ issued \in 1 .. issued
  BY <1>1, <1>4, NvmeAssumption DEF Current, TypeCommands
<1>6. cqTail' \in Cq /\ cqTail \in Cq
  BY <1>1, NextInQueue, NvmeAssumption DEF TypeCq, Cq
<1>7. cq' \in [Cq -> [slot : Sq, phase : {0, 1}]]
  BY <1>1, <1>5 DEF TypeCq
<1>8. TypeCommands'
  BY <1>1, <1>2, <1>5 DEF TypeCommands, Sq
<1>9. TypeSq'
  BY <1>2 DEF TypeSq, Sq
<1>10. TypeCq'
  BY <1>1, <1>2, <1>6, <1>7 DEF TypeCq, Sq, Cq
<1>11. Budget'
  BY <1>2 DEF Budget, InQueues
<1>12. \A i \in Cq : cq'[i] = IF i = cqTail THEN [slot |-> s, phase |-> cqPhase]
                                            ELSE cq[i]
  BY <1>1, <1>5 DEF TypeCq
<1>13. Lapped'
  <2> SUFFICES ASSUME NEW i \in Cq
               PROVE  cq'[i].phase = IF i < cqTail' THEN cqPhase' ELSE 1 - cqPhase'
    BY DEF Lapped, Cq
  <2>1. cq'[i].phase = IF i = cqTail THEN cqPhase
                       ELSE IF i < cqTail THEN cqPhase ELSE 1 - cqPhase
    BY <1>12 DEF Lapped
  <2>2. cqPhase \in {0, 1} /\ i \in 0 .. CqEntries-1 /\ cqTail \in 0 .. CqEntries-1
    BY <1>6 DEF TypeCq, Cq
  <2>3. CASE cqTail + 1 > CqEntries - 1
    <3>1. cqTail' = 0 /\ cqPhase' = 1 - cqPhase
      BY <1>1, <2>3 DEF Next1
    <3>2. i = cqTail \/ i < cqTail
      BY <2>2, <2>3, NvmeAssumption
    <3>3. QED
      BY <2>1, <2>2, <3>1, <3>2
  <2>4. CASE ~(cqTail + 1 > CqEntries - 1)
    <3>1. cqTail' = cqTail + 1 /\ cqPhase' = cqPhase
      BY <1>1, <2>2, <2>4 DEF Next1
    <3>2. QED
      BY <2>1, <2>2, <3>1
  <2>5. QED
    BY <2>3, <2>4
<1>14. cq'[completionEntry'].slot = s /\ cq'[completionEntry'].phase = phase'
  BY <1>2, <1>4, <1>6, <1>12 DEF CqEmpty
<1>15. Current(s)'
  BY <1>2, <1>4 DEF Current, Waiting, Sq
<1>16. Completed'
  <2>1. cqPhase' = IF cqTail' = 0 THEN 1 - phase' ELSE phase'
    BY <1>1, <1>2, <1>4 DEF CqEmpty
  <2>2. cqTail' = Next1(completionEntry', CqEntries)
    BY <1>1, <1>2, <1>4 DEF CqEmpty
  <2>3. Current(cq[completionEntry].slot)'
    BY <1>14, <1>15 DEF Current
  <2>4. /\ done' = 1 .. issued' /\ complete' = 1 .. issued' - 1
        /\ sqHead' = sqDoorbell' /\ inflight' = {}
    BY <1>1, <1>2, <1>4, <1>5, NvmeAssumption DEF Told, TypeCommands
  <2>5. msi' /\ isr' = "out"
    BY <1>1, <1>2, <1>4 DEF Unheard
  <2>6. QED
    BY <1>14, <2>1, <2>2, <2>3, <2>4, <2>5 DEF Completed, Fresh, FlippedPhase
<1>17. QED
  BY <1>8, <1>9, <1>10, <1>11, <1>13, <1>16 DEF Pipeline

-----------------------------------------------------------------------------
(* The interrupt handler.                                                   *)
LEMMA EnterKeeps ==
  ASSUME NvmeInv, DriveInv', InterruptEnter
  PROVE  NvmeInv'
<1> USE DEF NvmeInv, DriveInv, Types
<1>1. msi /\ isr = "out" /\ ~msi' /\ msi' \in BOOLEAN
      /\ isr' = "loop" /\ processedCount' = 0
  BY DEF InterruptEnter
<1>2. UNCHANGED <<locks, halted, pc, kind, left, mine, issued, descList,
                  submissionEntry, sqDoorbell, complete, completionEntry, phase,
                  cqDoorbell, sqHead, inflight, done, cq, cqTail, cqPhase>>
  BY DEF InterruptEnter, threads, queue, device
<1>3. TypeCommands' /\ TypeSq'
  BY <1>2 DEF RequestInv, TypeThreads, TypeCommands, TypeSq, Sq
<1>4. processedCount' \in 0 .. CqEntries
  BY <1>1, NvmeAssumption
<1>5. TypeCq'
  BY <1>1, <1>2, <1>4 DEF TypeCq, Sq, Cq
<1>6. Budget' /\ Lapped'
  BY <1>2 DEF Budget, Lapped, InQueues, Cq
<1>7. Completed
  BY <1>1 DEF Pipeline, Settled, Written, Submitted, Fetched, Unheard
<1>8. Current(cq[completionEntry].slot)'
  BY <1>2, <1>7 DEF Completed, Current, Waiting, Sq
<1>9. Completed'
  BY <1>1, <1>2, <1>7, <1>8 DEF Completed, Fresh, FlippedPhase
<1>10. QED
  BY <1>3, <1>5, <1>6, <1>9 DEF Pipeline

\* A completion is taken in the one stage where there is one.
LEMMA TakeCompleted ==
  ASSUME NvmeInv, InterruptTake
  PROVE  Completed
<1> USE DEF NvmeInv, DriveInv, Types
<1>1. isr = "loop" /\ Fresh
  BY DEF InterruptTake
<1>2. ~Settled
  <2> SUFFICES ASSUME Settled PROVE FALSE
    OBVIOUS
  <2>1. completionEntry = cqTail /\ cqPhase = phase /\ completionEntry \in Cq
    BY DEF Settled, CqEmpty, TypeCq
  <2>2. ~(completionEntry < cqTail) /\ phase \in {0, 1}
    BY <2>1 DEF Cq, TypeCq
  <2>3. cq[completionEntry].phase = 1 - phase
    BY <2>1, <2>2 DEF Lapped
  <2>4. QED
    BY <1>1, <2>2, <2>3 DEF Fresh
<1>3. QED
  BY <1>1, <1>2 DEF Pipeline, Written, Submitted, Fetched, Unheard

LEMMA TakeFacts ==
  ASSUME NvmeInv, InterruptTake
  PROVE  /\ complete' = complete \cup {issued}
         /\ issued \in done \ complete
         /\ \E t \in Threads : pc[t] \in Waiting /\ mine[t] = issued
<1>1. Completed
  BY TakeCompleted
<1>2. issued \in 1 .. issued /\ issued \notin 1 .. issued - 1
  BY <1>1, NvmeAssumption DEF Completed, Current, NvmeInv, Types, TypeCommands
<1>3. QED
  BY <1>1, <1>2 DEF Completed, Current, InterruptTake

LEMMA TakeKeeps ==
  ASSUME NvmeInv, DriveInv', InterruptTake
  PROVE  NvmeInv'
<1> USE DEF NvmeInv, DriveInv, Types
<1>1. /\ isr = "loop" /\ processedCount < CqEntries
      /\ completionEntry' = Next1(completionEntry, CqEntries)
      /\ phase' = FlippedPhase(completionEntry')
      /\ processedCount' = processedCount + 1
      /\ isr' = IF completionEntry' = 0 THEN "doorbell" ELSE "loop"
  BY DEF InterruptTake
<1>2. UNCHANGED <<locks, halted, pc, kind, left, mine, issued, descList,
                  submissionEntry, sqDoorbell, cqDoorbell, msi,
                  sqHead, inflight, done, cq, cqTail, cqPhase>>
  BY DEF InterruptTake, threads, queue, device
<1>3. Completed /\ ~msi /\ processedCount = 0
  BY <1>1, TakeCompleted DEF Completed
<1>4. PICK t \in Threads : pc[t] \in Waiting /\ mine[t] = issued
  BY TakeFacts
<1>5. complete' = complete \cup {issued} /\ issued \in 1 .. issued
  BY <1>3, TakeFacts, NvmeAssumption DEF Completed, Current, TypeCommands
<1>6. completionEntry' \in Cq /\ phase' \in {0, 1}
  BY <1>1, NextInQueue, NvmeAssumption DEF TypeCq, Cq, FlippedPhase
<1>7. processedCount' = 1 /\ processedCount' \in 0 .. CqEntries
  BY <1>1, <1>3, NvmeAssumption
<1>8. TypeSq'
  BY <1>2 DEF RequestInv, TypeThreads, TypeSq, Sq
<1>9. TypeCommands'
  BY <1>2, <1>5 DEF TypeCommands, Sq
<1>10. TypeCq'
  BY <1>1, <1>2, <1>6, <1>7 DEF TypeCq, Sq, Cq
<1>11. Budget' /\ Lapped'
  BY <1>2 DEF Budget, Lapped, InQueues, Cq
<1>12. CqEmpty'
  BY <1>1, <1>2, <1>3 DEF Completed, CqEmpty, FlippedPhase
<1>13. \A u \in Threads : pc[u] \in InQueues => u = t
  BY <1>4, OneThread DEF InQueues, Waiting
<1>14. \A u \in Threads : pc'[u] \in InQueues => pc'[u] # "ring" /\ mine'[u] \in complete'
  BY <1>2, <1>4, <1>5, <1>13 DEF Waiting
<1>15. Settled'
  <2>1. isr' = "doorbell" \/ (isr' = "loop" /\ processedCount' > 0)
    BY <1>1, <1>7
  <2>2. Told(issued)'
    BY <1>2, <1>3, <1>5, NvmeAssumption DEF Completed, Told, TypeCommands
  <2>3. QED
    BY <1>2, <1>3, <1>12, <1>14, <2>1, <2>2 DEF Settled, Completed, Current, InQueues
<1>16. QED
  BY <1>8, <1>9, <1>10, <1>11, <1>15 DEF Pipeline

LEMMA EndKeeps ==
  ASSUME NvmeInv, DriveInv', InterruptEnd
  PROVE  NvmeInv'
<1> USE DEF NvmeInv, DriveInv, Types
<1>1. /\ isr = "loop" /\ (~Fresh \/ processedCount = CqEntries)
      /\ isr' = IF processedCount = 0 THEN "hung" ELSE "doorbell"
  BY DEF InterruptEnd
<1>2. UNCHANGED <<locks, halted, pc, kind, left, mine, issued, descList,
                  submissionEntry, sqDoorbell, complete, completionEntry, phase,
                  processedCount, cqDoorbell, msi, sqHead, inflight, done, cq,
                  cqTail, cqPhase>>
  BY DEF InterruptEnd, threads, queue, device
<1>3. Settled
  <2>1. ~Completed
    BY <1>1, NvmeAssumption DEF Completed
  <2>2. QED
    BY <1>1, <2>1 DEF Pipeline, Written, Submitted, Fetched, Unheard
<1>4. isr' = "doorbell"
  BY <1>1, <1>3, NvmeAssumption DEF Settled
<1>5. TypeCommands' /\ TypeSq'
  BY <1>2 DEF RequestInv, TypeThreads, TypeCommands, TypeSq, Sq
<1>6. TypeCq'
  BY <1>2, <1>4 DEF TypeCq, Sq, Cq
<1>7. Budget' /\ Lapped'
  BY <1>2 DEF Budget, Lapped, InQueues, Cq
<1>8. Settled'
  BY <1>2, <1>3, <1>4 DEF Settled, CqEmpty, InQueues, Told
<1>9. QED
  BY <1>5, <1>6, <1>7, <1>8 DEF Pipeline

LEMMA DoorbellKeeps ==
  ASSUME NvmeInv, DriveInv', InterruptDoorbell
  PROVE  NvmeInv'
<1> USE DEF NvmeInv, DriveInv, Types
<1>1. isr = "doorbell" /\ cqDoorbell' = completionEntry /\ isr' = "out"
  BY DEF InterruptDoorbell
<1>2. UNCHANGED <<locks, halted, pc, kind, left, mine, issued, descList,
                  submissionEntry, sqDoorbell, complete, completionEntry, phase,
                  processedCount, msi, sqHead, inflight, done, cq, cqTail, cqPhase>>
  BY DEF InterruptDoorbell, threads, queue, device
<1>3. Settled
  BY <1>1 DEF Pipeline, Written, Submitted, Fetched, Completed, Unheard
<1>4. TypeCommands' /\ TypeSq'
  BY <1>2 DEF RequestInv, TypeThreads, TypeCommands, TypeSq, Sq
<1>5. TypeCq'
  BY <1>1, <1>2 DEF TypeCq, Sq, Cq
<1>6. Budget' /\ Lapped'
  BY <1>2 DEF Budget, Lapped, InQueues, Cq
<1>7. Settled'
  BY <1>1, <1>2, <1>3 DEF Settled, CqEmpty, InQueues, Told
<1>8. QED
  BY <1>4, <1>5, <1>6, <1>7 DEF Pipeline

-----------------------------------------------------------------------------
LEMMA NextInv ==
  ASSUME NvmeInv, DriveInv', [Next]_vars
  PROVE  NvmeInv'
<1>1. CASE \E t \in Threads, k \in Kinds, n \in 1 .. MaxChunks : drive_sectors(t, k, n)
  BY <1>1, DriveSectorsKeeps
<1>2. CASE \E t \in Threads : Thread(t)
  BY <1>2, DriveLockKeeps, AllocKeeps, RunKeeps, YieldLockKeeps, YieldReturnKeeps, DriveUnlockKeeps
  DEF Thread
<1>3. CASE Device
  BY <1>3, FetchKeeps, CompleteKeeps DEF Device
<1>4. CASE Interrupt
  BY <1>4, EnterKeeps, TakeKeeps, EndKeeps, DoorbellKeeps DEF Interrupt
<1>5. CASE UNCHANGED vars
  <2>1. UNCHANGED <<locks, halted, pc, kind, left, mine, issued, descList,
                    submissionEntry, sqDoorbell, complete, completionEntry, phase,
                    isr, processedCount, cqDoorbell, msi, sqHead, inflight, done,
                    cq, cqTail, cqPhase>>
    BY <1>5 DEF vars, threads, queue, handler, device
  <2>2. Types'
    BY <2>1 DEF NvmeInv, Types, TypeCommands, TypeSq, TypeCq, Sq, Cq
  <2>3. Budget' /\ Lapped'
    BY <2>1 DEF NvmeInv, Budget, Lapped, InQueues, Cq
  <2>4. Pipeline'
    BY <2>1, PipelineStays DEF NvmeInv
  <2>5. QED
    BY <2>2, <2>3, <2>4 DEF NvmeInv
<1>6. QED
  BY <1>1, <1>2, <1>3, <1>4, <1>5 DEF Next

-----------------------------------------------------------------------------
(* The two queues are a CommandQueue.                                       *)
LEMMA LatestOfAll ==
  ASSUME NEW n \in Nat
  PROVE  Latest(1 .. n) = n
<1>1. n \in (1 .. n) \cup {0} /\ \A k \in (1 .. n) \cup {0} : n >= k
  OBVIOUS
<1>2. \A m \in (1 .. n) \cup {0} : m >= n => m = n
  OBVIOUS
<1>3. QED
  BY <1>1, <1>2 DEF Latest, Max

\* A command that is told of has been carried out, and one command at most is
\* neither.
LEMMA ToldUpTo ==
  ASSUME NEW n \in Nat, Told(n)
  PROVE  Latest(done) = n /\ Latest(complete) = n
BY LatestOfAll DEF Told

LEMMA AllocPosts ==
  ASSUME NEW t \in Threads, nvme_alloc_submission_qe(t)
  PROVE  Queue!Post
<1>1. issued' = issued + 1 /\ UNCHANGED <<done, complete>>
  BY DEF nvme_alloc_submission_qe, handler, device
<1>2. QED
  BY <1>1 DEF Queue!Post, Latest

LEMMA CompleteExecutes ==
  ASSUME NvmeInv, NEW c \in inflight, nvme_complete(c)
  PROVE  Queue!Execute
<1>1. Fetched
  BY DEF NvmeInv, Pipeline, Settled, Written, Submitted, Completed
<1>2. c.cmd = issued /\ Told(issued - 1) /\ issued > 0
  BY <1>1 DEF Fetched, Current
<1>3. issued \in Nat /\ issued - 1 \in Nat
  BY <1>2, NvmeAssumption DEF NvmeInv, Types, TypeCommands
<1>4. Latest(done) = issued - 1 /\ Latest(complete) = issued - 1
  BY <1>2, <1>3, ToldUpTo
<1>5. done' = 1 .. issued /\ UNCHANGED <<issued, complete>>
  <2>1. done' = done \cup {issued} /\ UNCHANGED <<issued, complete>>
    BY <1>2 DEF nvme_complete, queue, handler
  <2>2. (1 .. issued - 1) \cup {issued} = 1 .. issued
    BY <1>2, <1>3
  <2>3. QED
    BY <1>2, <2>1, <2>2 DEF Told
<1>6. Latest(done)' = issued /\ Latest(complete)' = Latest(complete)
  BY <1>3, <1>5, LatestOfAll DEF Latest
<1>7. QED
  BY <1>3, <1>4, <1>5, <1>6 DEF Queue!Execute

LEMMA TakeTells ==
  ASSUME NvmeInv, InterruptTake
  PROVE  Queue!Tell
<1>1. Completed
  BY TakeCompleted
<1>2. done = 1 .. issued /\ complete = 1 .. issued - 1 /\ issued > 0
  BY <1>1 DEF Completed, Current
<1>3. issued \in Nat /\ issued - 1 \in Nat
  BY <1>2, NvmeAssumption DEF NvmeInv, Types, TypeCommands
<1>4. Latest(done) = issued /\ Latest(complete) = issued - 1
  BY <1>2, <1>3, LatestOfAll
<1>5. complete' = 1 .. issued /\ UNCHANGED <<issued, done>>
  <2>1. complete' = complete \cup {issued} /\ UNCHANGED <<issued, done>>
    BY TakeFacts DEF InterruptTake, queue, device
  <2>2. (1 .. issued - 1) \cup {issued} = 1 .. issued
    BY <1>2, <1>3
  <2>3. QED
    BY <1>2, <2>1, <2>2
<1>6. Latest(complete)' = issued /\ Latest(done)' = Latest(done)
  BY <1>3, <1>5, LatestOfAll DEF Latest
<1>7. issued \in Latest(complete)+1 .. Latest(done)
  BY <1>3, <1>4
<1>8. QED
  BY <1>5, <1>6, <1>7 DEF Queue!Tell

LEMMA NextQueue ==
  ASSUME NvmeInv, [Next]_vars
  PROVE  [Queue!Next]_<<issued, Latest(done), Latest(complete)>>
<1>1. ASSUME NEW t \in Threads, nvme_alloc_submission_qe(t)
      PROVE  Queue!Next
  BY <1>1, AllocPosts DEF Queue!Next
<1>2. ASSUME NEW c \in inflight, nvme_complete(c)
      PROVE  Queue!Next
  BY <1>2, CompleteExecutes DEF Queue!Next
<1>3. CASE InterruptTake
  BY <1>3, TakeTells DEF Queue!Next
<1>4. ASSUME UNCHANGED <<issued, done, complete>>
      PROVE  UNCHANGED <<issued, Latest(done), Latest(complete)>>
  BY <1>4 DEF Latest
<1>5. CASE UNCHANGED vars
  BY <1>4, <1>5 DEF vars, queue, handler, device
<1>6. CASE Device
  BY <1>2, <1>4, <1>6 DEF Device, nvme_fetch, queue, handler
<1>7. CASE Interrupt
  BY <1>3, <1>4, <1>7
  DEF Interrupt, InterruptEnter, InterruptEnd, InterruptDoorbell, queue, device
<1>8. ASSUME NEW t \in Threads, Thread(t)
      PROVE  [Queue!Next]_<<issued, Latest(done), Latest(complete)>>
  BY <1>1, <1>4, <1>8
  DEF Thread, drive_lock, nvme_run_submission_queue, YieldLock, YieldReturn, drive_unlock,
      queue, handler, device
<1>9. ASSUME NEW t \in Threads, NEW k \in Kinds, NEW n \in 1 .. MaxChunks,
             drive_sectors(t, k, n)
      PROVE  UNCHANGED <<issued, Latest(done), Latest(complete)>>
  BY <1>4, <1>9 DEF drive_sectors, queue, handler, device
<1>10. QED
  BY <1>5, <1>6, <1>7, <1>8, <1>9 DEF Next

-----------------------------------------------------------------------------
(* A wait is served.                                                        *)

\* The handler has told the device how far it is before it is left.
Rung == isr = "out" => cqDoorbell = completionEntry

LEMMA NextRung ==
  ASSUME Rung, [Next]_vars
  PROVE  Rung'
<1>1. CASE UNCHANGED vars
  BY <1>1 DEF vars, handler, Rung
<1>2. CASE InterruptTake
  BY <1>2 DEF InterruptTake, Rung
<1>3. CASE InterruptEnd
  BY <1>3 DEF InterruptEnd, Rung
<1>4. CASE InterruptEnter \/ InterruptDoorbell
  BY <1>4 DEF InterruptEnter, InterruptDoorbell, Rung
<1>5. CASE UNCHANGED handler
  BY <1>5 DEF handler, Rung
<1>6. QED
  BY <1>1, <1>2, <1>3, <1>4, <1>5
  DEF Next, drive_sectors, Thread, drive_lock, nvme_alloc_submission_qe, nvme_run_submission_queue,
      YieldLock, YieldReturn, drive_unlock, Device, nvme_fetch, nvme_complete, Interrupt

LEMMA RungAlways == Spec => []Rung
<1>1. Init => Rung
  BY DEF Init, Rung
<1>2. Rung /\ [Next]_vars => Rung'
  BY NextRung
<1>3. QED
  BY <1>1, <1>2, PTL DEF Spec

\* The queues of two entries and more are not full with one command in them.
LEMMA NextIsAnother ==
  ASSUME NEW n \in Nat, n > 1, NEW i \in 0 .. n-1
  PROVE  Next1(i, n) # i
BY DEF Next1

LEMMA InvServes ==
  ASSUME NvmeInv, Rung
  PROVE  WaitServed
<1> SUFFICES ASSUME NEW t \in Threads, pc[t] = "wait"
             PROVE  /\ halted \in {None, t} /\ isr # "hung"
                    /\ \/ mine[t] \in complete
                       \/ sqHead # sqDoorbell
                       \/ inflight # {} /\ Next1(cqTail, CqEntries) # cqDoorbell
                       \/ isr = "out" /\ msi
                       \/ isr = "loop" /\ Fresh /\ processedCount < CqEntries
  BY DEF WaitServed
<1> USE DEF NvmeInv, DriveInv, Types
<1>1. halted \in {None, t}
  BY DEF RequestInv, TypeThreads, OneRequest, Busy, InQueues
<1>2. isr # "hung"
  BY InvImpliesNoGhost DEF NoGhost
<1>3. \A u \in Threads : u # t => pc[u] \notin InQueues
  BY OneThread DEF InQueues
<1>4. CASE Settled
  BY <1>1, <1>2, <1>4 DEF Settled, InQueues
<1>5. ~Written
  BY <1>3 DEF Written, InQueues
<1>6. CASE Submitted
  <2>1. sqHead \in Sq /\ sqDoorbell = Next1(sqHead, SqEntries)
    BY <1>6 DEF Submitted, Current
  <2>2. SqEntries > 1
    <3>1. Cardinality(Threads) \in Nat /\ Cardinality(Threads) # 0
      BY FS_EmptySet, FS_CardinalityType, NvmeAssumption
    <3>2. QED
      BY <3>1, NvmeAssumption
  <2>3. QED
    BY <1>1, <1>2, <2>1, <2>2, NextIsAnother, NvmeAssumption DEF Sq
<1>7. CASE Fetched
  <2>1. inflight # {} /\ cqTail = completionEntry /\ isr = "out"
    BY <1>7 DEF Fetched, CqEmpty, Unheard
  <2>2. Next1(cqTail, CqEntries) # cqDoorbell
    BY <2>1, NextIsAnother, NvmeAssumption DEF Rung, TypeCq, Cq
  <2>3. QED
    BY <1>1, <1>2, <2>1, <2>2
<1>8. CASE Completed
  BY <1>1, <1>2, <1>8, NvmeAssumption DEF Completed
<1>9. QED
  BY <1>4, <1>5, <1>6, <1>7, <1>8 DEF Pipeline

-----------------------------------------------------------------------------
(* The theorems.                                                            *)

\* The scheduler is halted only by a thread that is about a command, and by a
\* request of one command from its lock to its completion, whatever the others
\* ask for and although two threads may hold the same lock.
THEOREM HaltedForCommand == Spec => []RequestInv
<1>1. Init => RequestInv
  BY InitRequest
<1>2. RequestInv /\ [Next]_vars => RequestInv'
  BY NextRequest
<1>3. QED
  BY <1>1, <1>2, PTL DEF Spec

\* Used in an orderly way, the queues hold one command at a time, in one of the
\* five stages of the pipeline.
THEOREM OneCommandAtATime == Spec /\ []Orderly => []NvmeInv
<1>1. Init => NvmeInv
  BY InitInv
<1>2. RequestInv /\ Orderly => DriveInv
  BY OrderlyIsOne DEF DriveInv
<1>3. NvmeInv /\ DriveInv' /\ [Next]_vars => NvmeInv'
  BY NextInv
<1>4. QED
  BY <1>1, <1>2, <1>3, HaltedForCommand, PTL DEF Spec

\* The types, while the drive is used in an orderly way.
THEOREM TypeCorrect == Spec /\ []Orderly => []TypeOK
<1>1. NvmeInv => TypeOK
  BY TypeParts DEF NvmeInv, DriveInv, RequestInv
<1>2. QED
  BY <1>1, OneCommandAtATime, PTL

\* The handler is never entered without a completion to take: it would not
\* return.
THEOREM HandlerFindsCompletion == Spec /\ []Orderly => []NoGhost
<1>1. NvmeInv => NoGhost
  BY InvImpliesNoGhost
<1>2. QED
  BY <1>1, OneCommandAtATime, PTL

\* The queues never hold the commands of two threads.
THEOREM QueuesHoldOne == Spec /\ []Orderly => []OneOutstanding
<1>1. NvmeInv => OneOutstanding
  BY InvImpliesOne
<1>2. QED
  BY <1>1, OneCommandAtATime, PTL

\* The handler tells every completion once, to the thread that waits for it,
\* after the device has carried the command out.
THEOREM CompletionIsOwn == Spec /\ []Orderly => OwnCompletion
<1>1. NvmeInv /\ [Next]_vars =>
        [processedCount' > processedCount =>
           \E t \in Threads : /\ pc[t] \in {"yield", "wait"}
                              /\ mine[t] \in done \ complete
                              /\ complete' = complete \cup {mine[t]}]_vars
  <2> SUFFICES ASSUME NvmeInv, Next, processedCount' > processedCount
               PROVE  \E t \in Threads : /\ pc[t] \in {"yield", "wait"}
                                         /\ mine[t] \in done \ complete
                                         /\ complete' = complete \cup {mine[t]}
    OBVIOUS
  <2>1. processedCount \in Nat
    BY NvmeAssumption DEF NvmeInv, Types, TypeCq
  <2>2. ~(processedCount' = processedCount) /\ ~(processedCount' = 0)
    BY <2>1
  <2>3. InterruptTake
    BY <2>2, Zenon
    DEF Next, drive_sectors, Thread, drive_lock, nvme_alloc_submission_qe, nvme_run_submission_queue,
        YieldLock, YieldReturn, drive_unlock, Device, nvme_fetch, nvme_complete,
        Interrupt, InterruptEnter, InterruptEnd, InterruptDoorbell, handler
  <2>4. QED
    BY <2>3, TakeFacts DEF Waiting
<1>2. QED
  BY <1>1, OneCommandAtATime, PTL DEF Spec, OwnCompletion

\* No wait is left alone: no interrupt is lost, the completion queue has room,
\* and nobody else has halted the scheduler.
THEOREM NoWaitIsLost == Spec /\ []Orderly => []WaitServed
<1>1. NvmeInv /\ Rung => WaitServed
  BY InvServes
<1>2. QED
  BY <1>1, OneCommandAtATime, RungAlways, PTL

\* Taken together, submission queue, device and completion queue do what a ring
\* of the USB controller does (XhciRing), although nothing but the one command
\* at a time keeps the device from completing in another order: commands are
\* carried out in the order they were issued, each once, and told afterwards.
THEOREM QueuesAreOneRing == Spec /\ []Orderly => ImplementsQueue
<1>1. Init => Queue!Init
  <2>1. 1 .. 0 = {}
    OBVIOUS
  <2>2. Latest({}) = 0
    BY <2>1, LatestOfAll
  <2>3. QED
    BY <2>2 DEF Init, Queue!Init
<1>2. NvmeInv /\ [Next]_vars => [Queue!Next]_<<issued, Latest(done), Latest(complete)>>
  BY NextQueue
<1>3. QED
  BY <1>1, <1>2, OneCommandAtATime, PTL DEF Spec, ImplementsQueue, Queue!Spec
=============================================================================
