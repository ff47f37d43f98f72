-------------------------------- MODULE Nvme --------------------------------
(***************************************************************************)
(* Reads and writes of an NVMe drive (kernel/subsystem/drive.c over        *)
(* kernel/drivers/nvme.c): a thread takes the lock of drive_read_sectors   *)
(* or drive_write_sectors, writes an entry into the submission queue,      *)
(* rings the doorbell and spins until the interrupt handler has found the  *)
(* completion.  A request above the transfer limit is a loop of such       *)
(* commands.                                                               *)
(*                                                                         *)
(* Both locks, and the one of nvme_yield_until_completion, halt the        *)
(* scheduler; and because scheduler_halted tells every lock that the       *)
(* scheduler was running (module Mutex), every unlock resumes it, also the *)
(* unlock after the first command of a longer request.  The lock of        *)
(* nvme_yield_until_completion is taken only while its holder has halted   *)
(* the scheduler, so that nobody meets it taken, and is not a variable.    *)
(* The device may complete commands in any order, and while the handler    *)
(* runs.                                                                   *)
(*                                                                         *)
(* Left out is what the handler's return does to the thread it             *)
(* interrupted: nvme_completion_queue_isr ends in ret (isrs.asm:779), so   *)
(* the rest of the interrupt's frame stays on the stack, and interrupts    *)
(* stay off until the next isr-safe lock, which turns them on.             *)
(***************************************************************************)
EXTENDS Integers, FiniteSets, FiniteSetsExt

CONSTANTS Threads,
          SqEntries, CqEntries,   \* entries of the two queues
          MaxChunks,              \* commands of the longest request
          MaxCommands,            \* bound on the commands issued
          None                    \* no thread

ASSUME NvmeAssumption ==
  /\ IsFiniteSet(Threads)
  /\ SqEntries \in Nat \ {0} /\ SqEntries > Cardinality(Threads)
  /\ CqEntries \in Nat /\ CqEntries > 1
  /\ MaxChunks \in Nat \ {0} /\ MaxCommands \in Nat
  /\ None \notin Threads

VARIABLES locks,           \* the kinds of request whose lock is taken
          halted,          \* the thread that has halted the scheduler, or None
          pc, kind, left,  \* per thread: place, request, commands to go
          mine,            \* per thread: its command
          issued,          \* commands issued, which numbers them
          descList,        \* ppSubmissionQeDescList: the command of an entry
          submissionEntry, sqDoorbell,
          complete,        \* commands whose descriptor has cmdComplete set
          completionEntry, phase,  \* the driver's end of the completion queue
          msi, isr, processedCount,\* pending interrupt, handler
          sqHead, inflight, done,  \* the device: commands fetched, carried out
          cq, cqTail, cqPhase, cqDoorbell

threads == <<locks, halted, pc, kind, left, mine>>
queue == <<issued, descList, submissionEntry, sqDoorbell>>
handler == <<complete, completionEntry, phase, isr, processedCount, cqDoorbell>>
device == <<sqHead, inflight, done, cq, cqTail, cqPhase>>
vars == <<threads, queue, handler, msi, device>>

Kinds == {"read", "write"}
Sq == 0 .. SqEntries-1
Cq == 0 .. CqEntries-1
NextNoWrap(i, n) == i + 1              \* fault: runs off the queue
Next1(i, n) == IF i + 1 > n - 1 THEN 0 ELSE i + 1   \* the wrap of both queues

Init ==
  /\ locks = {} /\ halted = None
  /\ pc = [t \in Threads |-> "idle"]
  /\ kind = [t \in Threads |-> "read"]
  /\ left = [t \in Threads |-> 0]
  /\ mine = [t \in Threads |-> 0]
  /\ issued = 0 /\ descList = [i \in Sq |-> 0]
  /\ submissionEntry = 0 /\ sqDoorbell = 0
  /\ complete = {} /\ completionEntry = 0 /\ phase = 1
  /\ msi = FALSE /\ isr = "out" /\ processedCount = 0
  /\ sqHead = 0 /\ inflight = {} /\ done = {}
  /\ cq = [i \in Cq |-> [slot |-> 0, phase |-> 0]]
  /\ cqTail = 0 /\ cqPhase = 1 /\ cqDoorbell = 0

-----------------------------------------------------------------------------
(* A thread runs when the handler does not and nobody else has halted the   *)
(* scheduler.                                                               *)
At(t, place) == pc[t] = place /\ isr = "out" /\ halted \in {None, t}
Goto(t, place) == pc' = [pc EXCEPT ![t] = place]

\* drive_read_sectors and drive_write_sectors: their lock is tested while the
\* scheduler may run ...
drive_sectors(t, k, n) ==
  /\ At(t, "idle") /\ k \notin locks
  /\ kind' = [kind EXCEPT ![t] = k]
  /\ left' = [left EXCEPT ![t] = n]
  /\ Goto(t, "lock")
  /\ UNCHANGED <<locks, halted, mine, queue, handler, msi, device>>

\* ... and taken, whoever has it by now, once the scheduler is halted.
drive_lock(t) ==
  /\ At(t, "lock")
  /\ issued + left[t] <= MaxCommands
  /\ halted' = t
  /\ locks' = locks \cup {kind[t]}
  /\ Goto(t, "alloc")
  /\ UNCHANGED <<kind, left, mine, queue, handler, msi, device>>

AllocKeepsDesc(t) ==                 \* fault: the old descriptor stays listed
  /\ At(t, "alloc")
  /\ issued' = issued + 1
  /\ mine' = [mine EXCEPT ![t] = issued']
  /\ descList' = [descList EXCEPT ![submissionEntry] = IF @ = 0 THEN issued' ELSE @]
  /\ submissionEntry' = Next1(submissionEntry, SqEntries)
  /\ Goto(t, "ring")
  /\ UNCHANGED <<locks, halted, kind, left, sqDoorbell, handler, msi, device>>

\* With interrupts off: the entry, its descriptor and the tail.
nvme_alloc_submission_qe(t) ==
  /\ At(t, "alloc")
  /\ issued' = issued + 1
  /\ mine' = [mine EXCEPT ![t] = issued']
  /\ descList' = [descList EXCEPT ![submissionEntry] = issued']
  /\ submissionEntry' = Next1(submissionEntry, SqEntries)
  /\ Goto(t, "ring")
  /\ UNCHANGED <<locks, halted, kind, left, sqDoorbell, handler, msi, device>>

nvme_run_submission_queue(t) ==
  /\ At(t, "ring")
  /\ sqDoorbell' = submissionEntry
  /\ Goto(t, "yield")
  /\ UNCHANGED <<locks, halted, kind, left, mine, issued, descList,
                 submissionEntry, handler, msi, device>>

\* nvme_yield_until_completion: its lock halts the scheduler ...
YieldRunning(t) ==                   \* fault: the plain lock, with its cli undone
  /\ At(t, "yield")
  /\ halted' = None
  /\ Goto(t, "wait")
  /\ UNCHANGED <<locks, kind, left, mine, queue, handler, msi, device>>

YieldLock(t) ==
  /\ At(t, "yield")
  /\ halted' = t
  /\ Goto(t, "wait")
  /\ UNCHANGED <<locks, kind, left, mine, queue, handler, msi, device>>

\* ... and its unlock resumes it; the loop goes on with the next command.
YieldReturn(t) ==
  /\ At(t, "wait") /\ mine[t] \in complete
  /\ halted' = None
  /\ left' = [left EXCEPT ![t] = @ - 1]
  /\ Goto(t, IF left[t] = 1 THEN "unlock" ELSE "alloc")
  /\ UNCHANGED <<locks, kind, mine, queue, handler, msi, device>>

drive_unlock(t) ==
  /\ At(t, "unlock")
  /\ locks' = locks \ {kind[t]}
  /\ halted' = None
  /\ Goto(t, "idle")
  /\ UNCHANGED <<kind, left, mine, queue, handler, msi, device>>

Thread(t) ==
  \/ drive_lock(t)
  \/ nvme_alloc_submission_qe(t) \/ nvme_run_submission_queue(t)
  \/ YieldLock(t) \/ YieldReturn(t) \/ drive_unlock(t)

-----------------------------------------------------------------------------
(* The device.  A completion carries the phase of its lap and an interrupt  *)
(* message; a message that comes while the handler runs waits in the APIC.  *)
nvme_fetch ==
  /\ sqHead # sqDoorbell
  /\ inflight' = inflight \cup {[slot |-> sqHead, cmd |-> descList[sqHead]]}
  /\ sqHead' = Next1(sqHead, SqEntries)
  /\ UNCHANGED <<threads, queue, handler, msi, done, cq, cqTail, cqPhase>>

nvme_complete(c) ==
  /\ Next1(cqTail, CqEntries) # cqDoorbell
  /\ inflight' = inflight \ {c}
  /\ done' = done \cup {c.cmd}
  /\ cq' = [cq EXCEPT ![cqTail] = [slot |-> c.slot, phase |-> cqPhase]]
  /\ cqTail' = Next1(cqTail, CqEntries)
  /\ cqPhase' = IF cqTail' = 0 THEN 1 - cqPhase ELSE cqPhase
  /\ msi' = TRUE
  /\ UNCHANGED <<threads, queue, handler, sqHead>>

-----------------------------------------------------------------------------
(* nvme_completion_queue_interrupt *)
Fresh == cq[completionEntry].phase = phase

InterruptEnter ==
  /\ msi /\ isr = "out"
  /\ msi' = FALSE
  /\ isr' = "loop" /\ processedCount' = 0
  /\ UNCHANGED <<threads, queue, complete, completionEntry, phase, cqDoorbell,
                 device>>

\* nvme_acknowledge_completion_qe
SamePhase(next) == phase             \* fault: not flipped at the wrap
FlippedPhase(next) == IF next = 0 THEN 1 - phase ELSE phase

InterruptTake ==
  LET next == Next1(completionEntry, CqEntries) IN
  /\ isr = "loop" /\ processedCount < CqEntries /\ Fresh
  /\ complete' = complete \cup {descList[cq[completionEntry].slot]}
  /\ completionEntry' = next
  /\ phase' = FlippedPhase(next)
  /\ processedCount' = processedCount + 1
  /\ isr' = IF next = 0 THEN "doorbell" ELSE "loop"
  /\ UNCHANGED <<threads, queue, cqDoorbell, msi, device>>

\* The entry is of an earlier lap: if none was taken, "ghost admin completion
\* queue ISR trigger", and the handler never returns.
InterruptEnd ==
  /\ isr = "loop"
  /\ ~Fresh \/ processedCount = CqEntries
  /\ isr' = IF processedCount = 0 THEN "hung" ELSE "doorbell"
  /\ UNCHANGED <<threads, queue, complete, completionEntry, phase, cqDoorbell,
                 processedCount, msi, device>>

InterruptDoorbell ==
  /\ isr = "doorbell"
  /\ cqDoorbell' = completionEntry
  /\ isr' = "out"
  /\ UNCHANGED <<threads, queue, complete, completionEntry, phase,
                 processedCount, msi, device>>

Interrupt == InterruptEnter \/ InterruptTake \/ InterruptEnd \/ InterruptDoorbell
Device == nvme_fetch \/ \E c \in inflight : nvme_complete(c)

Next ==
  \/ \E t \in Threads, k \in Kinds, n \in 1 .. MaxChunks : drive_sectors(t, k, n)
  \/ \E t \in Threads : Thread(t)
  \/ Device
  \/ Interrupt

Spec == Init /\ [][Next]_vars

\* The device carries out what it was given, interrupts are delivered, and a
\* thread that may run gets the processor.
FairSpec ==
  /\ Spec
  /\ WF_vars(nvme_fetch) /\ \A s \in Sq :
       WF_vars(\E c \in inflight : c.slot = s /\ nvme_complete(c))
  /\ WF_vars(Interrupt)
  /\ \A t \in Threads : SF_vars(Thread(t))

-----------------------------------------------------------------------------
\* TypeOK: indices stay within their queues, commands within those issued.
TypeOK ==
  /\ locks \subseteq Kinds
  /\ halted \in Threads \cup {None}
  /\ pc \in [Threads -> {"idle", "lock", "alloc", "ring", "yield", "wait", "unlock"}]
  /\ kind \in [Threads -> Kinds] /\ left \in [Threads -> 0 .. MaxChunks]
  /\ mine \in [Threads -> 0 .. issued] /\ issued \in 0 .. MaxCommands
  /\ descList \in [Sq -> 0 .. issued]
  /\ {submissionEntry, sqDoorbell, sqHead} \subseteq Sq
  /\ {completionEntry, cqTail, cqDoorbell} \subseteq Cq
  /\ complete \subseteq 1 .. issued /\ done \subseteq 1 .. issued
  /\ {phase, cqPhase} \subseteq {0, 1} /\ msi \in BOOLEAN
  /\ isr \in {"out", "loop", "doorbell", "hung"}
  /\ processedCount \in 0 .. CqEntries
  /\ inflight \subseteq [slot : Sq, cmd : 1 .. issued]
  /\ cq \in [Cq -> [slot : Sq, phase : {0, 1}]]

\* OwnCompletion: every completion the handler takes is told to the thread
\* that waits for it, about its current command, for the first time and after
\* the device has carried the command out, although entries of both queues
\* and the descriptors of the list are used again.
OwnCompletion ==
  [][processedCount' > processedCount =>
       \E t \in Threads : /\ pc[t] \in {"yield", "wait"}
                          /\ mine[t] \in done \ complete
                          /\ complete' = complete \cup {mine[t]}]_vars

\* NoGhost: the handler is never entered without a completion to take.
NoGhost == isr # "hung"

\* ImplementsQueue: the two queues together do what a ring of the USB controller
\* does, although the device may complete in any order what it has fetched:
\* commands are executed in the order they were issued, each once, and told
\* afterwards.
Latest(cmds) == Max(cmds \cup {0})
Queue == INSTANCE CommandQueue
           WITH posted <- issued, executed <- Latest(done), told <- Latest(complete)
ImplementsQueue == Queue!Spec

\* OneOutstanding: the reason: the queues hold one command at a time.
OneOutstanding ==
  Cardinality({t \in Threads : pc[t] \in {"ring", "yield", "wait"}}) <= 1

\* Orderly: what all this rests on.  No request needs a second command, so that
\* the scheduler is halted from the lock of a request to its completion, or one
\* thread at a time uses the drive.  The locks of drive.c do not see to it for
\* longer requests: there is one for each kind, and two threads may both find
\* the same one free before either has halted the scheduler (nvme_split).
OneUser == \A t, u \in Threads : pc[t] # "idle" /\ pc[u] # "idle" => t = u
Orderly == MaxChunks = 1 \/ OneUser

\* WaitServed: the safety half of WaitReturns.  A wait is never left alone: its
\* command is on its way to the handler, or the handler has told of it and
\* nobody else has halted the scheduler, so that the thread is to run.
WaitServed ==
  \A t \in Threads : pc[t] = "wait" =>
    /\ halted \in {None, t} /\ isr # "hung"
    /\ \/ mine[t] \in complete
       \/ sqHead # sqDoorbell
       \/ inflight # {} /\ Next1(cqTail, CqEntries) # cqDoorbell
       \/ isr = "out" /\ msi
       \/ isr = "loop" /\ Fresh /\ processedCount < CqEntries

\* WaitReturns: a thread that waits for a command gets its completion.
WaitReturns == \A t \in Threads : pc[t] = "wait" ~> pc[t] # "wait"
=============================================================================
