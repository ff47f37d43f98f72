------------------------------- MODULE Mutex --------------------------------
(***************************************************************************)
(* The two locks of the kernel (kernel/cpu/mutex.c) on its one processor,  *)
(* with the round-robin scheduler they work against (thread_yield of       *)
(* kernel/cpu/thread.c, ctx_switch of kernel/cpu/isrs.asm).                *)
(*                                                                         *)
(* mutex_lock keeps the processor by clearing the interrupt flag, and      *)
(* mutex_lock_isr_safe by stopping the scheduler with interrupts on, so    *)
(* that device interrupts are still served.  Each kernel function has one  *)
(* static lock of its own, so "lock" and "function that takes it" are the  *)
(* same thing here; a function calls others while it holds its lock.       *)
(***************************************************************************)
EXTENDS Integers

CONSTANTS Threads, FirstThread,
          NextThread,      \* pFlink of each thread, the last one's the first
          Locks,
          IsrLocks,        \* the locks taken with mutex_lock_isr_safe
          Callees,         \* Callees[l]: locks taken at any depth under l
          TopLocks,        \* locks a thread may take holding nothing
          NoLock

ASSUME ThreadsAssumption ==
  /\ FirstThread \in Threads
  /\ NextThread \in [Threads -> Threads]
ASSUME LocksAssumption ==
  /\ IsrLocks \subseteq Locks /\ TopLocks \subseteq Locks /\ NoLock \notin Locks
  /\ Callees \in [Locks -> SUBSET Locks]
(* No function calls itself, directly or through others.                    *)
ASSUME NoRecursionAssumption ==
  /\ \A l \in Locks : l \notin Callees[l]
  /\ \A k, l \in Locks : l \in Callees[k] => Callees[l] \subseteq Callees[k]

VARIABLES pCurrentThread,
          iflag,          \* the interrupt flag of the processor
          schedulerHalt,
          rflags,         \* rflags[t]: the interrupt flag saved in a context
          pc,             \* pc[t]: where t is in the lock functions
          want,           \* want[t]: the lock that t takes or releases
          held,           \* held[t]: the locks t holds
          value,          \* value[l], old_rflags[l]: the fields of a mutex_t
          old_rflags,
          lost            \* history: threads whose interrupt flag was lost

scheduling == <<pCurrentThread, iflag, schedulerHalt, rflags>>
vars == <<scheduling, pc, want, held, value, old_rflags, lost>>

cur == pCurrentThread

(* Contexts are created with the interrupt flag set (thread_create).        *)
Init ==
  /\ pCurrentThread = FirstThread
  /\ iflag = TRUE /\ schedulerHalt = FALSE
  /\ rflags = [t \in Threads |-> TRUE]
  /\ pc = [t \in Threads |-> "run"]
  /\ want = [t \in Threads |-> NoLock]
  /\ held = [t \in Threads |-> {}]
  /\ value = [l \in Locks |-> 0]
  /\ old_rflags = [l \in Locks |-> FALSE]
  /\ lost = {}

-----------------------------------------------------------------------------
(* The interrupt of the timer or of thread_yield: nothing while the         *)
(* scheduler is halted, else the next context of the ring.  The flag is as  *)
(* the interrupted code had it when the context is saved.                   *)
ctx_switch(flag) ==
  IF schedulerHalt
  THEN /\ iflag' = flag
       /\ UNCHANGED <<pCurrentThread, rflags, schedulerHalt>>
  ELSE /\ pCurrentThread' = NextThread[cur]
       /\ rflags' = [rflags EXCEPT ![cur] = flag]
       /\ iflag' = rflags'[NextThread[cur]]
       /\ UNCHANGED schedulerHalt

timer_isr ==
  /\ iflag
  /\ ctx_switch(TRUE)
  /\ UNCHANGED <<pc, want, held, value, old_rflags, lost>>

(* thread_yield sets the interrupt flag before it raises the interrupt, so  *)
(* that a thread which holds nothing has the flag again.                    *)
thread_yield ==
  /\ ctx_switch(TRUE)
  /\ lost' = IF held[cur] = {} THEN lost \ {cur} ELSE lost

At(step) == pc[cur] = step
Goto(step) == pc' = [pc EXCEPT ![cur] = step]

(* A thread that holds nothing may yield (the loader, sleep).               *)
Yield ==
  /\ At("run") /\ held[cur] = {}
  /\ thread_yield
  /\ UNCHANGED <<pc, want, held, value, old_rflags>>

(* A function takes its lock on entry.                                      *)
Call(l) ==
  /\ At("run")
  /\ IF held[cur] = {} THEN l \in TopLocks ELSE \A k \in held[cur] : l \in Callees[k]
  /\ want' = [want EXCEPT ![cur] = l]
  /\ Goto("test")
  /\ UNCHANGED <<scheduling, held, value, old_rflags, lost>>

(* The loop both lock functions begin with.                                 *)
Test ==
  /\ At("test")
  /\ value[want[cur]] = 0
  /\ Goto("save")
  /\ UNCHANGED <<scheduling, want, held, value, old_rflags, lost>>

SpinYield ==
  /\ At("test")
  /\ value[want[cur]] = 1
  /\ thread_yield
  /\ UNCHANGED <<pc, want, held, value, old_rflags>>

(* The value is set and the thread is the holder.                           *)
Take(l) ==
  /\ value' = [value EXCEPT ![l] = 1]
  /\ held' = [held EXCEPT ![cur] = @ \cup {l}]
  /\ Goto("run")

(* mutex_lock: the flags are read, then interrupts are switched off; the    *)
(* thread may lose the processor between the two, and what it has read is   *)
(* then written over by the next thread that comes to the same lock.        *)
Overwritten == {t \in Threads \ {cur} : pc[t] = "cli" /\ want[t] = want[cur]}

SaveFlags ==
  /\ At("save") /\ want[cur] \notin IsrLocks
  /\ old_rflags' = [old_rflags EXCEPT ![want[cur]] = iflag]
  /\ lost' = IF iflag THEN lost \ Overwritten ELSE lost \cup Overwritten
  /\ Goto("cli")
  /\ UNCHANGED <<scheduling, want, held, value>>

TakeInterruptsOn ==                            \* fault: no cli
  /\ At("cli")
  /\ Take(want[cur])
  /\ UNCHANGED <<scheduling, want, old_rflags, lost>>

TakePlain ==
  /\ At("cli") /\ want[cur] \notin IsrLocks
  /\ iflag' = FALSE
  /\ Take(want[cur])
  /\ UNCHANGED <<pCurrentThread, schedulerHalt, rflags, want, old_rflags, lost>>

(* mutex_lock_isr_safe: from the halt on nothing else runs.                 *)
TakeRunning ==                                 \* fault: scheduler not halted
  /\ At("save") /\ want[cur] \in IsrLocks
  /\ old_rflags' = [old_rflags EXCEPT ![want[cur]] = iflag]
  /\ iflag' = TRUE
  /\ Take(want[cur])
  /\ UNCHANGED <<pCurrentThread, schedulerHalt, rflags, want, lost>>

TakeIsrSafe ==
  /\ At("save") /\ want[cur] \in IsrLocks
  /\ schedulerHalt' = TRUE
  /\ old_rflags' = [old_rflags EXCEPT ![want[cur]] = iflag]
  /\ iflag' = TRUE
  /\ Take(want[cur])
  /\ UNCHANGED <<pCurrentThread, rflags, want, lost>>

(* Both unlock functions clear the value first.  A function releases its    *)
(* own lock, the innermost one.                                             *)
ReleaseForgets(l) ==                           \* fault: no lock to restore for
  /\ At("run")
  /\ l \in held[cur] /\ \A k \in held[cur] \ {l} : l \in Callees[k]
  /\ value' = [value EXCEPT ![l] = 0]
  /\ held' = [held EXCEPT ![cur] = @ \ {l}]
  /\ want' = [want EXCEPT ![cur] = NoLock]
  /\ Goto("restore")
  /\ UNCHANGED <<scheduling, old_rflags, lost>>

Release(l) ==
  /\ At("run")
  /\ l \in held[cur] /\ \A k \in held[cur] \ {l} : l \in Callees[k]
  /\ value' = [value EXCEPT ![l] = 0]
  /\ held' = [held EXCEPT ![cur] = @ \ {l}]
  /\ want' = [want EXCEPT ![cur] = l]
  /\ Goto("restore")
  /\ UNCHANGED <<scheduling, old_rflags, lost>>

(* scheduler_halted tests the address of scheduler_halt, which is never     *)
(* null: it returns 0 whatever the scheduler does, so that the saved state  *)
(* is "not halted" and every unlock resumes the scheduler.                  *)
scheduler_halted == 0

RestoreDisabled ==                             \* fault: interrupts stay off
  /\ At("restore")
  /\ iflag' = FALSE
  /\ schedulerHalt' =
       IF want[cur] \in IsrLocks THEN scheduler_halted # 0 ELSE schedulerHalt
  /\ Goto("run")
  /\ UNCHANGED <<pCurrentThread, rflags, want, held, value, old_rflags, lost>>

RestoreEnabled ==                              \* fault: interrupts always on
  /\ At("restore")
  /\ iflag' = TRUE
  /\ schedulerHalt' =
       IF want[cur] \in IsrLocks THEN scheduler_halted # 0 ELSE schedulerHalt
  /\ Goto("run")
  /\ UNCHANGED <<pCurrentThread, rflags, want, held, value, old_rflags, lost>>

RestoreHalted ==                               \* fault: never resumed
  /\ At("restore")
  /\ iflag' = old_rflags[want[cur]]
  /\ Goto("run")
  /\ UNCHANGED <<pCurrentThread, schedulerHalt, rflags, want, held, value, old_rflags,
                 lost>>

Restore ==
  /\ At("restore")
  /\ iflag' = old_rflags[want[cur]]
  /\ schedulerHalt' =
       IF want[cur] \in IsrLocks THEN scheduler_halted # 0 ELSE schedulerHalt
  /\ Goto("run")
  /\ UNCHANGED <<pCurrentThread, rflags, want, held, value, old_rflags, lost>>

LockStep == Test \/ SpinYield \/ SaveFlags \/ TakePlain \/ TakeIsrSafe \/ Restore

Next ==
  \/ timer_isr
  \/ Yield
  \/ \E l \in Locks : Call(l) \/ Release(l)
  \/ LockStep

Spec == Init /\ [][Next]_vars

(* A tick that comes while the interrupt flag is off waits in the local     *)
(* APIC, so that an infinitely often enabled tick is delivered; a thread    *)
(* that gets its time slices executes; and a function returns.              *)
FairSpec ==
  /\ Spec
  /\ SF_vars(timer_isr)
  /\ \A t \in Threads : SF_vars(cur = t /\ LockStep)
  /\ \A l \in Locks : SF_vars(Release(l))

-----------------------------------------------------------------------------
TypeOK ==
  /\ pCurrentThread \in Threads
  /\ iflag \in BOOLEAN /\ schedulerHalt \in BOOLEAN
  /\ rflags \in [Threads -> BOOLEAN]
  /\ pc \in [Threads -> {"run", "test", "save", "cli", "restore"}]
  /\ want \in [Threads -> Locks \cup {NoLock}]
  /\ \A t \in Threads : pc[t] # "run" => want[t] \in Locks
  /\ held \in [Threads -> SUBSET Locks]
  /\ value \in [Locks -> {0, 1}]
  /\ old_rflags \in [Locks -> BOOLEAN]
  /\ lost \subseteq Threads

(* A lock has one holder, and its value says whether it has one, although   *)
(* mutex_lock tests the value and sets it in separate instructions.         *)
MutualExclusion ==
  /\ \A t, u \in Threads : t # u => held[t] \cap held[u] = {}
  /\ \A l \in Locks : value[l] = 1 <=> \E t \in Threads : l \in held[t]

(* Holding a lock is holding the processor: a thread that does not run      *)
(* holds nothing, so that what the functions do under their own, different  *)
(* locks to shared data (kmalloc and kfree, subsystem_alloc_entry and       *)
(* subsystem_free_entry) excludes each other too.                           *)
OthersHoldNothing == \A t \in Threads \ {cur} : held[t] = {}

(* No lock is ever found taken: the loop and its panic are dead code.       *)
NeverContended == pc[cur] = "test" => value[want[cur]] = 0

(* A thread that holds nothing and is in no lock function has the scheduler *)
(* going: nested locks of both kinds do not leave it halted.                *)
SchedulerResumed ==
  pc[cur] = "run" /\ held[cur] = {} => ~schedulerHalt

(* Such a thread also has the interrupt flag that the timer needs to take   *)
(* the processor from it, since the locks give back the flag they found     *)
(* (mutex.c lines 22 and 32), unless it lost the processor between          *)
(* get_rflags and cli and a holder of another lock, with interrupts off,    *)
(* was the last to come to the same lock meanwhile: exactly then the flag   *)
(* is gone, until the thread yields.                                        *)
FlagsRestored ==
  pc[cur] = "run" /\ held[cur] = {} => (iflag <=> cur \notin lost)

(* What the results about isr-safe locks rest on, and the file system does  *)
(* not respect: no isr-safe lock is taken while another one is held.        *)
IsrNotNested == \A k \in IsrLocks : Callees[k] \cap IsrLocks = {}

(* No plain lock is held around an isr-safe one, in the file system either. *)
PlainNotOverIsr == \A k \in Locks \ IsrLocks : Callees[k] \cap IsrLocks = {}

(* The plain locks keep the processor whatever isr-safe locks are held      *)
(* around them, even where nested isr-safe locks fail to: the first inner   *)
(* unlock resumes the scheduler under the outer lock.                       *)
PlainHoldersRun == \A t \in Threads \ {cur} : held[t] \subseteq IsrLocks

(* The panic "deadlock detected" of mutex.c is not reached: the running     *)
(* thread never waits for a taken lock while the scheduler is halted, where *)
(* thread_yield returns to the same thread for ever.                        *)
NeverStuck ==
  ~(pc[cur] = "test" /\ value[want[cur]] = 1 /\ schedulerHalt)

(* A thread that asks for a lock gets it, and gives it back, however often  *)
(* the others take it and stop the scheduler under it; but for one case: a  *)
(* thread that has lost its interrupt flag may keep the processor for ever. *)
NoStarvation ==
  \/ <>[](cur \in lost)
  \/ \A t \in Threads : (pc[t] = "test") ~> (pc[t] = "run" /\ held[t] = {})
=============================================================================
