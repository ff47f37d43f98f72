------------------------------- MODULE Thread -------------------------------
(***************************************************************************)
(* The life of threads (kernel/cpu/thread.c, thread.asm) and the switch    *)
(* from one to the next (ctx_switch of isrs.asm): the list of thread_t     *)
(* blocks, thread_create, thread_destroy of another thread and of the      *)
(* calling one, and the context the kernel starts in, which is no thread.  *)
(*                                                                         *)
(* Stacks are in ThreadStack, the identifier table in Subsystem, the locks *)
(* in Mutex: of the locks only the one of thread_destroy keeps its value   *)
(* here, because a thread that destroys itself never gives it back.        *)
(*                                                                         *)
(* Left out: the failing returns of thread_unregister, which come only     *)
(* when the identifier names nothing (thread_destroy has just found its    *)
(* block, under its lock) or the free stack is full (module Subsystem);    *)
(* and the seven bytes after threadDestroySafe, a one-byte variable that   *)
(* thread.asm:36 stores eight bytes to: what the linker puts there is set  *)
(* to zero.                                                                *)
(***************************************************************************)
EXTENDS Integers, FiniteSets

CONSTANTS Blocks,      \* the memory thread_t structures are made in
          Boot,        \* the context of kernel_main
          Null,
          MaxCreates   \* bound: threads created in all

ASSUME BlocksAssumption == IsFiniteSet(Blocks) /\ Null \notin Blocks /\ Boot \notin Blocks
ASSUME MaxCreatesAssumption == MaxCreates \in Nat

VARIABLES pFirstThread, pLastThread, pCurrentThread,
          pFlink, pBlink,     \* the links in each block
          registered,         \* the blocks the identifier table names
          live,               \* the blocks that are allocated
          filled,             \* the blocks whose context has been filled in
          rflags,             \* the interrupt flag in each context
          iflag,              \* the interrupt flag of the processor
          value, old_rflags,  \* the lock of thread_destroy; the flags saved by
                              \* it and by the lock of thread_create
          threadDestroySafe,
          pc, target,         \* where an actor is, and the thread it is about
          onSafeStack,        \* the threads that have moved to the safe stack
          created,
          exited,             \* history: a thread has destroyed itself
          broken              \* history: a thread_destroy failed half way

list == <<pFirstThread, pLastThread, pFlink, pBlink, registered>>
blocks == <<live, filled>>
cpu == <<pCurrentThread, rflags, iflag>>
lock == <<value, old_rflags>>
history == <<created, exited, broken>>
vars == <<list, blocks, cpu, lock, threadDestroySafe, pc, target, onSafeStack, history>>

Actors == Blocks \cup {Boot}
(* What follows a destruction that failed half way is not followed.         *)
me == IF pCurrentThread = Null THEN Boot ELSE pCurrentThread
At(step) == ~broken /\ pc[me] = step
Goto(step) == pc' = [pc EXCEPT ![me] = step]

Init ==
  /\ pFirstThread = Null /\ pLastThread = Null /\ pCurrentThread = Null
  /\ pFlink = [b \in Blocks |-> Null] /\ pBlink = [b \in Blocks |-> Null]
  /\ registered = {} /\ live = {} /\ filled = {}
  /\ rflags = [b \in Blocks |-> FALSE] /\ iflag = TRUE
  /\ value = 0 /\ old_rflags = [create |-> FALSE, destroy |-> FALSE]
  /\ threadDestroySafe = FALSE
  /\ pc = [a \in Actors |-> "run"] /\ target = [a \in Actors |-> Null]
  /\ onSafeStack = {}
  /\ created = 0 /\ exited = FALSE /\ broken = FALSE

-----------------------------------------------------------------------------
(* The switch saves the context in the block of the current thread, whether *)
(* it is still allocated or not, and goes to the next block, or the first   *)
(* one at the end.  The context of kernel_main is not saved anywhere.       *)
FollowingStays ==                             \* fault: the end goes nowhere
  IF pCurrentThread = Null THEN pFirstThread
  ELSE IF pFlink[pCurrentThread] = Null THEN pCurrentThread ELSE pFlink[pCurrentThread]

Following ==
  IF pCurrentThread = Null \/ pFlink[pCurrentThread] = Null
  THEN pFirstThread ELSE pFlink[pCurrentThread]

ctx_switch ==
  IF pFirstThread = Null
  THEN iflag' = TRUE /\ UNCHANGED <<pCurrentThread, rflags>>
  ELSE /\ pCurrentThread' = Following
       /\ rflags' = [b \in Blocks |-> IF b = pCurrentThread THEN TRUE ELSE rflags[b]]
       /\ iflag' = rflags'[Following]

Switching ==
  /\ ctx_switch
  /\ UNCHANGED <<list, blocks, lock, threadDestroySafe, pc, target, onSafeStack, history>>

timer_isr == ~broken /\ iflag /\ Switching

(* thread_yield returns at once without a first or a current thread: the    *)
(* callers below that loop on it go on for ever.                            *)
thread_yield == pFirstThread # Null /\ pCurrentThread # Null /\ Switching

-----------------------------------------------------------------------------
(* thread_create: a cleared block, under the lock of thread_create, which   *)
(* is never contended.  kernel_main creates one thread and waits for it.    *)
CreateInterruptsOn(b) ==                       \* fault: the lock without cli
  /\ At("run") /\ created < MaxCreates /\ b \notin live
  /\ me = Boot => created = 0
  /\ live' = live \cup {b} /\ filled' = filled \ {b}
  /\ pFlink' = [pFlink EXCEPT ![b] = Null] /\ pBlink' = [pBlink EXCEPT ![b] = Null]
  /\ old_rflags' = [old_rflags EXCEPT !.create = iflag]
  /\ created' = created + 1
  /\ target' = [target EXCEPT ![me] = b] /\ Goto("register")
  /\ UNCHANGED <<pFirstThread, pLastThread, registered, cpu, value,
                 threadDestroySafe, onSafeStack, exited, broken>>

thread_create(b) ==
  /\ At("run") /\ created < MaxCreates /\ b \notin live
  /\ me = Boot => created = 0
  /\ live' = live \cup {b} /\ filled' = filled \ {b}
  /\ pFlink' = [pFlink EXCEPT ![b] = Null] /\ pBlink' = [pBlink EXCEPT ![b] = Null]
  /\ old_rflags' = [old_rflags EXCEPT !.create = iflag] /\ iflag' = FALSE
  /\ created' = created + 1
  /\ target' = [target EXCEPT ![me] = b] /\ Goto("register")
  /\ UNCHANGED <<pFirstThread, pLastThread, registered, pCurrentThread, rflags, value,
                 threadDestroySafe, onSafeStack, exited, broken>>

(* The block joins the list, which ctx_switch follows, before its context   *)
(* says where to start.                                                     *)
thread_register ==
  LET b == target[me] IN
  /\ At("register")
  /\ registered' = registered \cup {b}
  /\ pFirstThread' = IF pFirstThread = Null THEN b ELSE pFirstThread
  /\ pFlink' = [x \in Blocks |-> IF x = pLastThread THEN b ELSE pFlink[x]]
  /\ pBlink' = [pBlink EXCEPT ![b] = pLastThread]
  /\ pLastThread' = b
  /\ Goto("fill")
  /\ UNCHANGED <<blocks, cpu, lock, threadDestroySafe, target, onSafeStack, history>>

RegisterFail ==                \* no identifier: the block and stack are freed
  /\ At("register")
  /\ live' = live \ {target[me]}
  /\ iflag' = old_rflags.create
  /\ Goto("run")
  /\ UNCHANGED <<list, filled, pCurrentThread, rflags, lock, threadDestroySafe, target,
                 onSafeStack, history>>

CreateFill ==
  LET b == target[me] IN
  /\ At("fill")
  /\ filled' = filled \cup {b}
  /\ rflags' = [rflags EXCEPT ![b] = TRUE]
  /\ pc' = [pc EXCEPT ![b] = "run", ![me] = "run"]
  /\ iflag' = old_rflags.create
  /\ UNCHANGED <<list, live, pCurrentThread, lock, threadDestroySafe, target,
                 onSafeStack, history>>

-----------------------------------------------------------------------------
(* thread_destroy switches interrupts off before it takes its lock.  What   *)
(* the callers owe: the identifier is one of a registered thread.           *)
thread_destroy(b) ==
  /\ At("run") /\ me # Boot /\ b \in registered
  /\ iflag' = FALSE
  /\ target' = [target EXCEPT ![me] = b] /\ Goto("lock")
  /\ UNCHANGED <<list, blocks, pCurrentThread, rflags, lock, threadDestroySafe,
                 onSafeStack, history>>

DestroySpin == At("lock") /\ value = 1 /\ thread_yield

(* After SPINLOCK_MAX_ATTEMPTS yields, here after any number, mutex_lock    *)
(* stops the machine.                                                       *)
Panic ==
  /\ At("lock") /\ value = 1
  /\ iflag' = FALSE /\ value' = 0
  /\ Goto("panic")
  /\ UNCHANGED <<list, blocks, pCurrentThread, rflags, old_rflags, threadDestroySafe,
                 target, onSafeStack, history>>

DestroyLock ==
  /\ At("lock") /\ value = 0
  /\ value' = 1
  /\ old_rflags' = [old_rflags EXCEPT !.destroy = iflag] /\ iflag' = FALSE
  /\ IF target[me] = me /\ ~threadDestroySafe
     THEN Goto("switch") /\ UNCHANGED threadDestroySafe
     ELSE Goto("free") /\ threadDestroySafe' = FALSE
  /\ UNCHANGED <<list, blocks, pCurrentThread, rflags, target, onSafeStack, history>>

(* A thread that destroys itself gives the lock back, moves to the one safe *)
(* stack and calls thread_destroy again (thread_destroy_safe).              *)
SwitchLocked ==                                \* fault: the lock is kept
  /\ At("switch")
  /\ threadDestroySafe' = TRUE /\ onSafeStack' = onSafeStack \cup {me}
  /\ Goto("lock")
  /\ UNCHANGED <<list, blocks, cpu, lock, target, history>>

SwitchStack ==
  /\ At("switch")
  /\ value' = 0 /\ iflag' = old_rflags.destroy
  /\ threadDestroySafe' = TRUE /\ onSafeStack' = onSafeStack \cup {me}
  /\ Goto("safe")
  /\ UNCHANGED <<list, blocks, pCurrentThread, rflags, old_rflags, target, history>>

DestroyAgain ==
  /\ At("safe")
  /\ iflag' = FALSE
  /\ Goto("lock")
  /\ UNCHANGED <<list, blocks, pCurrentThread, rflags, lock, threadDestroySafe, target,
                 onSafeStack, history>>

FreeBlockEarly ==                              \* fault: kfree before the unlinking
  /\ At("free")
  /\ live' = live \ {target[me]}
  /\ Goto("unregister")
  /\ UNCHANGED <<list, filled, cpu, lock, threadDestroySafe, target, onSafeStack, history>>

FreeStack ==
  /\ At("free")
  /\ Goto("unregister")
  /\ UNCHANGED <<list, blocks, cpu, lock, threadDestroySafe, target, onSafeStack, history>>

(* A stack or guard that cannot be freed: the block is freed where it is,   *)
(* in the list and in the identifier table.                                 *)
FreeStackFail ==
  /\ At("free")
  /\ live' = live \ {target[me]} /\ broken' = TRUE
  /\ value' = 0 /\ iflag' = TRUE
  /\ Goto("run")
  /\ UNCHANGED <<list, filled, pCurrentThread, rflags, old_rflags, threadDestroySafe,
                 target, onSafeStack, created, exited>>

UnlinkKeepLast ==                              \* fault: pLastThread kept
  LET b == target[me] IN
  /\ At("unregister")
  /\ registered' = registered \ {b}
  /\ pFlink' = [x \in Blocks |-> IF x = pBlink[b] THEN pFlink[b] ELSE pFlink[x]]
  /\ pBlink' = [x \in Blocks |-> IF x = pFlink[b] THEN pBlink[b] ELSE pBlink[x]]
  /\ pFirstThread' = IF b = pFirstThread THEN pFlink[b] ELSE pFirstThread
  /\ Goto("kfree")
  /\ UNCHANGED <<pLastThread, blocks, cpu, lock, threadDestroySafe, target, onSafeStack,
                 history>>

thread_unregister ==
  LET b == target[me] IN
  /\ At("unregister")
  /\ registered' = registered \ {b}
  /\ pFlink' = [x \in Blocks |-> IF x = pBlink[b] THEN pFlink[b] ELSE pFlink[x]]
  /\ pBlink' = [x \in Blocks |-> IF x = pFlink[b] THEN pBlink[b] ELSE pBlink[x]]
  /\ pLastThread' = IF b = pLastThread THEN pBlink[b] ELSE pLastThread
  /\ pFirstThread' = IF b = pFirstThread THEN pFlink[b] ELSE pFirstThread
  /\ Goto("kfree")
  /\ UNCHANGED <<blocks, cpu, lock, threadDestroySafe, target, onSafeStack, history>>

(* The thread that has destroyed itself yields in a loop, its lock taken.   *)
DestroyDone ==
  /\ At("kfree")
  /\ live' = live \ {target[me]} /\ onSafeStack' = onSafeStack \ {target[me]}
  /\ IF target[me] = me
     THEN /\ exited' = TRUE /\ Goto("gone")
          /\ UNCHANGED <<value, iflag>>
     ELSE /\ value' = 0 /\ iflag' = TRUE /\ Goto("run")
          /\ UNCHANGED exited
  /\ UNCHANGED <<list, filled, pCurrentThread, rflags, old_rflags, threadDestroySafe,
                 target, created, broken>>

GoneYield == At("gone") /\ thread_yield

Next ==
  \/ timer_isr
  \/ \E b \in Blocks : thread_create(b) \/ thread_destroy(b)
  \/ thread_register \/ RegisterFail \/ CreateFill
  \/ DestroySpin \/ Panic \/ DestroyLock
  \/ SwitchStack \/ DestroyAgain
  \/ FreeStack \/ FreeStackFail
  \/ thread_unregister \/ DestroyDone \/ GoneYield

Spec == Init /\ [][Next]_vars

(* The timer goes on ticking, and a thread that runs gets on with what it   *)
(* has begun: a call of these functions comes to its end.                   *)
Progress ==
  \/ thread_register \/ CreateFill \/ DestroySpin \/ DestroyLock \/ SwitchStack
  \/ DestroyAgain \/ FreeStack \/ thread_unregister \/ DestroyDone \/ GoneYield

FairSpec == Spec /\ SF_vars(timer_isr) /\ WF_vars(Progress)

-----------------------------------------------------------------------------
(* A registered block is an allocated one, unless a destruction has failed. *)
TypeOK ==
  /\ {pFirstThread, pLastThread, pCurrentThread} \subseteq Blocks \cup {Null}
  /\ pFlink \in [Blocks -> Blocks \cup {Null}] /\ pBlink \in [Blocks -> Blocks \cup {Null}]
  /\ live \subseteq Blocks /\ filled \subseteq Blocks
  /\ registered \subseteq Blocks /\ (~broken => registered \subseteq live)
  /\ rflags \in [Blocks -> BOOLEAN] /\ iflag \in BOOLEAN
  /\ value \in {0, 1} /\ old_rflags \in [create : BOOLEAN, destroy : BOOLEAN]
  /\ threadDestroySafe \in BOOLEAN
  /\ pc \in [Actors -> {"run", "register", "fill", "lock", "switch", "safe", "free",
                        "unregister", "kfree", "gone", "panic"}]
  /\ target \in [Actors -> Blocks \cup {Null}]
  /\ \A a \in Actors : pc[a] # "run" => target[a] \in Blocks
  /\ onSafeStack \subseteq Blocks
  /\ created \in 0 .. MaxCreates /\ exited \in BOOLEAN /\ broken \in BOOLEAN

(* The threads the identifier table names stand in one order: from          *)
(* pFirstThread along pFlink each of them once, and from pLastThread along  *)
(* pBlink the same way back, also while a thread that is destroying itself  *)
(* goes on running.                                                         *)
Order == 1 .. Cardinality(registered)

InOrder(order) ==
  /\ \A b \in registered : \E i \in Order : order[i] = b
  /\ \A i, j \in Order : order[i] = order[j] => i = j
  /\ pFirstThread = IF registered = {} THEN Null ELSE order[1]
  /\ pLastThread = IF registered = {} THEN Null ELSE order[Cardinality(registered)]
  /\ \A i \in Order :
       /\ pFlink[order[i]] = IF i + 1 \in Order THEN order[i+1] ELSE Null
       /\ pBlink[order[i]] = IF i - 1 \in Order THEN order[i-1] ELSE Null

ListSound == \E order \in [Order -> registered] : InOrder(order)

(* The processor goes to a thread that is registered, whose block is        *)
(* allocated and whose context is there, although a block is linked before  *)
(* it is filled in, and unlinked while its thread runs.                     *)
SwitchedToReady ==
  [][pCurrentThread' # pCurrentThread
       => pCurrentThread' \in registered \cap live \cap filled]_vars

(* The safe stack, of which there is one, has at most one thread on it, and *)
(* that thread keeps the processor until it is gone.  The lock of           *)
(* thread_destroy is found taken only after a thread has destroyed itself,  *)
(* and then by every caller that comes.                                     *)
ExitKeepsProcessor ==
  /\ ~broken => \A t \in onSafeStack : t = me
  /\ \A a \in Actors : pc[a] = "lock" /\ a = me /\ value = 1 => exited
  /\ exited => value = 1 \/ pc[me] = "panic"

(* Every thread gets the processor again, unless it is destroyed or the     *)
(* machine stops.  The bound on creations is needed: new threads go to the  *)
(* end of the list, and threads that each create one there and destroy      *)
(* their creator keep the processor from the threads before them.           *)
RunsAgain ==
  \A b \in Blocks :
    b \in registered ~> \/ pCurrentThread = b \/ b \notin registered
                        \/ pc[me] = "panic" \/ broken
=============================================================================
