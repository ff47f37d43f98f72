---------------------------- MODULE MutexProofs -----------------------------
(***************************************************************************)
(* The locks of Mutex exclude each other, keep the processor and give back *)
(* the scheduler, and the interrupt flag too but to the threads whose      *)
(* saved flag was written over, for every set of threads and every lock    *)
(* graph in which isr-safe locks are not nested; and the plain locks keep  *)
(* the processor where they are.                                           *)
(***************************************************************************)
EXTENDS Mutex, TLAPS

LEMMA TypeInit == Init => TypeOK
BY ThreadsAssumption, LocksAssumption DEF Init, TypeOK

LEMMA TypeStep == TypeOK /\ [Next]_vars => TypeOK'
<1> SUFFICES ASSUME TypeOK, [Next]_vars PROVE TypeOK'
  OBVIOUS
<1> USE ThreadsAssumption, LocksAssumption
<1>0. /\ pCurrentThread \in Threads /\ rflags \in [Threads -> BOOLEAN]
      /\ pc \in [Threads -> {"run", "test", "save", "cli", "restore"}]
      /\ want \in [Threads -> Locks \cup {NoLock}]
      /\ \A t \in Threads : pc[t] # "run" => want[t] \in Locks
      /\ held \in [Threads -> SUBSET Locks]
      /\ value \in [Locks -> {0, 1}]
      /\ old_rflags \in [Locks -> BOOLEAN]
      /\ iflag \in BOOLEAN /\ schedulerHalt \in BOOLEAN /\ lost \subseteq Threads
  BY DEF TypeOK
<1> HIDE DEF TypeOK
<1>1. ASSUME ctx_switch(TRUE), UNCHANGED <<pc, want, held, value, old_rflags>>,
             lost' \subseteq lost
      PROVE  TypeOK'
  <2>1. /\ pCurrentThread' \in Threads /\ rflags' \in [Threads -> BOOLEAN]
        /\ schedulerHalt' = schedulerHalt /\ iflag' \in BOOLEAN
    <3>1. CASE schedulerHalt
      BY <1>0, <1>1, <3>1 DEF ctx_switch
    <3>2. CASE ~schedulerHalt
      <4>1. /\ pCurrentThread' = NextThread[pCurrentThread]
            /\ rflags' = [rflags EXCEPT ![pCurrentThread] = TRUE]
            /\ iflag' = rflags'[NextThread[pCurrentThread]]
            /\ schedulerHalt' = schedulerHalt
        BY <1>1, <3>2 DEF ctx_switch, cur
      <4>2. rflags' \in [Threads -> BOOLEAN] /\ NextThread[pCurrentThread] \in Threads
        BY <1>0, <4>1
      <4> QED BY <4>1, <4>2
    <3> QED BY <3>1, <3>2
  <2> QED BY <1>0, <1>1, <2>1 DEF TypeOK
<1>11. thread_yield => ctx_switch(TRUE) /\ lost' \subseteq lost
  BY DEF thread_yield
<1>2. ASSUME NEW l \in Locks, Call(l) PROVE TypeOK'
  BY <1>0, <1>2 DEF TypeOK, Call, Goto, cur, scheduling
<1>3. ASSUME NEW l \in Locks, Release(l) PROVE TypeOK'
  BY <1>0, <1>3 DEF TypeOK, Release, Goto, cur, scheduling
<1>4. CASE Test
  BY <1>0, <1>4 DEF TypeOK, Test, At, Goto, cur, scheduling
<1>6. CASE SaveFlags
  <2>1. lost' \subseteq Threads
    BY <1>0, <1>6 DEF SaveFlags, Overwritten
  <2>2. /\ UNCHANGED <<pCurrentThread, iflag, schedulerHalt, rflags, want, held, value>>
        /\ old_rflags' = [old_rflags EXCEPT ![want[pCurrentThread]] = iflag]
        /\ pc' = [pc EXCEPT ![pCurrentThread] = "cli"] /\ pc[pCurrentThread] = "save"
    BY <1>6 DEF SaveFlags, At, Goto, cur, scheduling
  <2> QED BY <1>0, <2>1, <2>2 DEF TypeOK
<1>7. CASE TakePlain
  BY <1>0, <1>7 DEF TypeOK, TakePlain, At, Take, Goto, cur
<1>8. CASE TakeIsrSafe
  BY <1>0, <1>8 DEF TypeOK, TakeIsrSafe, Take, At, Goto, cur
<1>9. CASE Restore
  <2>1. want[cur] \in Locks
    BY <1>0, <1>9 DEF Restore, At, cur
  <2>2. iflag' \in BOOLEAN /\ schedulerHalt' \in BOOLEAN
    BY <1>0, <1>9, <2>1 DEF Restore, scheduler_halted
  <2>3. /\ pc' = [pc EXCEPT ![pCurrentThread] = "run"]
        /\ UNCHANGED <<pCurrentThread, rflags, want, held, value, old_rflags, lost>>
    BY <1>9 DEF Restore, Goto, cur
  <2>4. /\ pc' \in [Threads -> {"run", "test", "save", "cli", "restore"}]
        /\ \A t \in Threads : pc'[t] # "run" => want'[t] \in Locks
    BY <1>0, <2>3
  <2> QED BY <1>0, <2>2, <2>3, <2>4 DEF TypeOK
<1>10. CASE UNCHANGED vars
  BY <1>0, <1>10 DEF TypeOK, vars, scheduling
<1>12. CASE timer_isr
  BY <1>1, <1>12 DEF timer_isr
<1>13. CASE Yield
  BY <1>1, <1>11, <1>13 DEF Yield
<1>14. CASE SpinYield
  BY <1>1, <1>11, <1>14 DEF SpinYield
<1> QED
  BY <1>2, <1>3, <1>4, <1>6, <1>7, <1>8, <1>9, <1>10, <1>12, <1>13, <1>14
     DEF Next, LockStep

THEOREM TypeCorrect == Spec => []TypeOK
BY TypeInit, TypeStep, PTL DEF Spec

-----------------------------------------------------------------------------
(* The inductive invariant about the running thread.  Every other thread    *)
(* waits outside the locks; the running one cannot be interrupted while it  *)
(* holds a lock, and neither will the old_rflags it restores let it be as   *)
(* long as an outer plain lock is held and no isr-safe one.                 *)
OthersOutside ==
  \A t \in Threads : t # pCurrentThread => held[t] = {} /\ pc[t] # "restore"

HolderKeeps ==
  held[pCurrentThread] # {} \/ pc[pCurrentThread] = "restore" => ~iflag \/ schedulerHalt

HaltedByIsr ==
  schedulerHalt <=> \/ held[pCurrentThread] \cap IsrLocks # {}
                    \/ pc[pCurrentThread] = "restore" /\ want[pCurrentThread] \in IsrLocks

ValueIsHeld == \A l \in Locks : value[l] = 1 <=> l \in held[pCurrentThread]

WantInner ==
  pc[pCurrentThread] # "run" =>
    \A k \in held[pCurrentThread] : want[pCurrentThread] \in Callees[k]

Ordered ==
  \A k, l \in held[pCurrentThread] : k # l => l \in Callees[k] \/ k \in Callees[l]

FlagsBelow ==
  \A l \in held[pCurrentThread] :
    old_rflags[l] /\ (\E k \in held[pCurrentThread] : l \in Callees[k])
      => \E k \in held[pCurrentThread] \cap IsrLocks : l \in Callees[k]

FlagsToRestore ==
  pc[pCurrentThread] \in {"cli", "restore"}
    /\ old_rflags[want[pCurrentThread]] /\ held[pCurrentThread] # {}
      => held[pCurrentThread] \cap IsrLocks # {}

LockInv == /\ TypeOK /\ OthersOutside /\ HolderKeeps /\ HaltedByIsr /\ ValueIsHeld
           /\ WantInner /\ Ordered /\ FlagsBelow /\ FlagsToRestore

LEMMA LockInit == Init => LockInv
<1> SUFFICES ASSUME Init PROVE LockInv
  OBVIOUS
<1> USE ThreadsAssumption, LocksAssumption
<1>1. TypeOK
  BY TypeInit
<1>2. /\ held[pCurrentThread] = {} /\ pc[pCurrentThread] = "run"
      /\ \A t \in Threads : held[t] = {} /\ pc[t] = "run"
      /\ schedulerHalt = FALSE /\ \A l \in Locks : value[l] = 0
  BY DEF Init
<1> QED
  BY <1>1, <1>2 DEF LockInv, OthersOutside, HolderKeeps, HaltedByIsr, ValueIsHeld,
                    WantInner, Ordered, FlagsBelow, FlagsToRestore

LEMMA LockStepKeeps ==
  ASSUME IsrNotNested, LockInv, [Next]_vars
  PROVE  LockInv'
<1> USE ThreadsAssumption, LocksAssumption, NoRecursionAssumption
<1> DEFINE c == pCurrentThread
           h == held[c]
           w == want[c]
<1>0. /\ c \in Threads /\ h \subseteq Locks
      /\ pc \in [Threads -> {"run", "test", "save", "cli", "restore"}]
      /\ pc[c] # "run" => w \in Locks
      /\ want \in [Threads -> Locks \cup {NoLock}]
      /\ held \in [Threads -> SUBSET Locks]
      /\ value \in [Locks -> {0, 1}]
      /\ old_rflags \in [Locks -> BOOLEAN]
  BY DEF LockInv, TypeOK
<1>T. TypeOK'
  BY TypeStep DEF LockInv
<1>I. /\ OthersOutside /\ HolderKeeps /\ HaltedByIsr /\ ValueIsHeld
      /\ WantInner /\ Ordered /\ FlagsBelow /\ FlagsToRestore
  BY DEF LockInv
(* Nothing is held outside its own callees: what irreflexivity and           *)
(* transitivity give.                                                        *)
<1>W. \A k \in h, l \in Locks : l \in Callees[k] => k # l /\ k \notin Callees[l]
  BY <1>0
<1>S. ASSUME ctx_switch(TRUE), ~schedulerHalt, held[c] = {}, pc[c] # "restore",
             UNCHANGED <<pc, want, held, value, old_rflags>>
      PROVE  LockInv'
  <2>1. /\ c' = NextThread[c] /\ c' \in Threads /\ schedulerHalt' = schedulerHalt
        /\ UNCHANGED <<pc, want, held, value, old_rflags>>
    BY <1>0, <1>S DEF ctx_switch, cur
  <2>2. \A t \in Threads : held[t] = {} /\ pc[t] # "restore"
    BY <1>I, <1>S DEF OthersOutside
  <2>3. held'[c'] = {} /\ pc'[c'] # "restore"
    BY <2>1, <2>2
  <2> QED BY <1>T, <1>I, <1>S, <2>1, <2>2, <2>3
          DEF LockInv, OthersOutside, HolderKeeps, HaltedByIsr,
              ValueIsHeld, WantInner, Ordered, FlagsBelow, FlagsToRestore
<1>1. CASE timer_isr
  <2>1. CASE schedulerHalt
    <3>1. UNCHANGED vars
      BY <1>1, <2>1 DEF timer_isr, ctx_switch, vars, scheduling
    <3> QED BY <1>T, <1>I, <3>1
            DEF vars, scheduling, LockInv, OthersOutside, HolderKeeps, HaltedByIsr,
                ValueIsHeld, WantInner, Ordered, FlagsBelow, FlagsToRestore
  <2>2. CASE ~schedulerHalt
    <3>1. held[c] = {} /\ pc[c] # "restore"
      BY <1>1, <1>I, <2>2 DEF timer_isr, HolderKeeps
    <3> QED BY <1>S, <1>1, <2>2, <3>1 DEF timer_isr
  <2> QED BY <2>1, <2>2
<1>11. CASE Yield
  <2>1. /\ pc[c] = "run" /\ held[c] = {} /\ ctx_switch(TRUE)
        /\ UNCHANGED <<pc, want, held, value, old_rflags>>
    BY <1>11 DEF Yield, At, cur, thread_yield
  <2>2. ~schedulerHalt
    BY <1>I, <2>1 DEF HaltedByIsr
  <2> QED BY <1>S, <2>1, <2>2
<1>2. ASSUME NEW l \in Locks, Call(l) PROVE LockInv'
  <2>1. /\ pc[c] = "run" /\ c' = c /\ iflag' = iflag /\ schedulerHalt' = schedulerHalt
        /\ held' = held /\ value' = value /\ old_rflags' = old_rflags
        /\ want' = [want EXCEPT ![c] = l] /\ pc' = [pc EXCEPT ![c] = "test"]
        /\ \A k \in h : l \in Callees[k]
    BY <1>2 DEF Call, At, Goto, cur, scheduling
  <2>2. /\ want'[c] = l /\ pc'[c] = "test"
        /\ \A t \in Threads : t # c => pc'[t] = pc[t]
    BY <1>0, <2>1
  <2> QED BY <1>T, <1>I, <2>1, <2>2
          DEF LockInv, OthersOutside, HolderKeeps, HaltedByIsr,
              ValueIsHeld, WantInner, Ordered, FlagsBelow, FlagsToRestore
<1>3. ASSUME NEW l \in Locks, Release(l) PROVE LockInv'
  <2>1. /\ pc[c] = "run" /\ c' = c /\ iflag' = iflag /\ schedulerHalt' = schedulerHalt
        /\ held' = [held EXCEPT ![c] = h \ {l}] /\ old_rflags' = old_rflags
        /\ value' = [value EXCEPT ![l] = 0]
        /\ want' = [want EXCEPT ![c] = l] /\ pc' = [pc EXCEPT ![c] = "restore"]
        /\ l \in h /\ \A k \in h \ {l} : l \in Callees[k]
    BY <1>3 DEF Release, At, Goto, cur, scheduling
  <2>2. /\ want'[c] = l /\ pc'[c] = "restore" /\ held'[c] = h \ {l}
        /\ \A t \in Threads : t # c => pc'[t] = pc[t] /\ held'[t] = held[t]
        /\ value'[l] = 0 /\ \A m \in Locks : m # l => value'[m] = value[m]
    BY <1>0, <2>1
  <2>3. OthersOutside' /\ HolderKeeps'
    BY <1>I, <2>1, <2>2 DEF OthersOutside, HolderKeeps
  <2>4. HaltedByIsr'
    BY <1>I, <2>1, <2>2 DEF HaltedByIsr
  <2>5. ValueIsHeld' /\ WantInner' /\ Ordered'
    BY <1>I, <2>1, <2>2 DEF ValueIsHeld, WantInner, Ordered
  <2>6. FlagsToRestore'
    <3>1. ASSUME old_rflags[l], h \ {l} # {}
          PROVE  (h \ {l}) \cap IsrLocks # {}
      <4>1. PICK k \in h \ {l} : l \in Callees[k]
        BY <2>1, <3>1
      <4>2. PICK j \in h \cap IsrLocks : l \in Callees[j]
        BY <1>I, <2>1, <3>1, <4>1 DEF FlagsBelow
      <4>3. j # l
        BY <1>0, <4>2
      <4> QED BY <4>2, <4>3
    <3> QED BY <2>1, <2>2, <3>1 DEF FlagsToRestore
  <2>7. FlagsBelow'
    <3> SUFFICES ASSUME NEW m \in h \ {l}, old_rflags[m],
                        NEW k \in h \ {l}, m \in Callees[k]
                 PROVE  \E j \in (h \ {l}) \cap IsrLocks : m \in Callees[j]
      BY <2>1, <2>2 DEF FlagsBelow
    <3>1. PICK j \in h \cap IsrLocks : m \in Callees[j]
      BY <1>I DEF FlagsBelow
    <3>2. j # l
      BY <1>0, <1>W, <2>1, <3>1
    <3> QED BY <3>1, <3>2
  <2> QED BY <1>T, <2>3, <2>4, <2>5, <2>6, <2>7 DEF LockInv
<1>4. CASE Test
  <2>1. /\ pc[c] = "test" /\ c' = c /\ iflag' = iflag /\ schedulerHalt' = schedulerHalt
        /\ held' = held /\ value' = value /\ old_rflags' = old_rflags /\ want' = want
        /\ pc' = [pc EXCEPT ![c] = "save"]
    BY <1>4 DEF Test, At, Goto, cur, scheduling
  <2>2. pc'[c] = "save" /\ \A t \in Threads : t # c => pc'[t] = pc[t]
    BY <1>0, <2>1
  <2> QED BY <1>T, <1>I, <2>1, <2>2
          DEF LockInv, OthersOutside, HolderKeeps, HaltedByIsr,
              ValueIsHeld, WantInner, Ordered, FlagsBelow, FlagsToRestore
<1>5. CASE SpinYield
  <2>1. pc[c] = "test" /\ value[w] = 1
    BY <1>5 DEF SpinYield, At, cur
  <2>2. w \in Locks /\ w \in h
    BY <1>0, <1>I, <2>1 DEF ValueIsHeld
  <2>3. w \in Callees[w]
    BY <1>I, <2>1, <2>2 DEF WantInner
  <2> QED BY <2>2, <2>3
<1>6. CASE SaveFlags
  <2>1. /\ pc[c] = "save" /\ c' = c /\ iflag' = iflag /\ schedulerHalt' = schedulerHalt
        /\ held' = held /\ value' = value /\ want' = want
        /\ old_rflags' = [old_rflags EXCEPT ![w] = iflag]
        /\ pc' = [pc EXCEPT ![c] = "cli"] /\ w \notin IsrLocks
    BY <1>6 DEF SaveFlags, At, Goto, cur, scheduling
  <2>2. /\ w \in Locks /\ w \notin h
    BY <1>0, <1>I, <2>1 DEF WantInner
  <2>3. /\ pc'[c] = "cli" /\ \A t \in Threads : t # c => pc'[t] = pc[t]
        /\ old_rflags'[w] = iflag /\ \A l \in h : old_rflags'[l] = old_rflags[l]
    BY <1>0, <2>1, <2>2
  <2>4. OthersOutside' /\ HolderKeeps' /\ HaltedByIsr' /\ ValueIsHeld' /\ WantInner' /\ Ordered'
    BY <1>I, <2>1, <2>3 DEF OthersOutside, HolderKeeps, HaltedByIsr,
              ValueIsHeld, WantInner, Ordered
  <2>5. FlagsBelow'
    BY <1>I, <2>1, <2>3 DEF FlagsBelow
  <2>6. FlagsToRestore'
    BY <1>I, <2>1, <2>3 DEF FlagsToRestore, HolderKeeps, HaltedByIsr
  <2> QED BY <1>T, <2>4, <2>5, <2>6 DEF LockInv
<1>7. CASE TakePlain
  <2>1. /\ pc[c] = "cli" /\ c' = c /\ iflag' = FALSE /\ schedulerHalt' = schedulerHalt
        /\ held' = [held EXCEPT ![c] = h \cup {w}] /\ want' = want
        /\ value' = [value EXCEPT ![w] = 1]
        /\ old_rflags' = old_rflags /\ pc' = [pc EXCEPT ![c] = "run"]
        /\ w \notin IsrLocks
    BY <1>7 DEF TakePlain, Take, At, Goto, cur, scheduling
  <2>2. w \in Locks /\ w \notin h /\ \A k \in h : w \in Callees[k] /\ k \notin Callees[w]
    BY <1>0, <1>I, <1>W, <2>1 DEF WantInner
  <2>3. /\ pc'[c] = "run" /\ held'[c] = h \cup {w}
        /\ \A t \in Threads : t # c => pc'[t] = pc[t] /\ held'[t] = held[t]
        /\ value'[w] = 1 /\ \A m \in Locks : m # w => value'[m] = value[m]
    BY <1>0, <2>1, <2>2
  <2>4. OthersOutside' /\ ValueIsHeld' /\ WantInner' /\ Ordered'
    BY <1>I, <2>1, <2>2, <2>3 DEF OthersOutside, ValueIsHeld, WantInner, Ordered
  <2>5. HolderKeeps' /\ HaltedByIsr'
    BY <1>I, <2>1, <2>2, <2>3 DEF HolderKeeps, HaltedByIsr
  <2>6. FlagsBelow'
    <3> SUFFICES ASSUME NEW l \in h \cup {w}, old_rflags[l],
                        NEW k \in h \cup {w}, l \in Callees[k]
                 PROVE  \E j \in (h \cup {w}) \cap IsrLocks : l \in Callees[j]
      BY <2>1, <2>3 DEF FlagsBelow
    <3>1. CASE l = w
      BY <1>0, <1>I, <2>1, <2>2, <3>1 DEF FlagsToRestore
    <3>2. CASE l \in h
      BY <1>I, <2>2, <3>2 DEF FlagsBelow
    <3> QED BY <3>1, <3>2
  <2>7. FlagsToRestore'
    BY <2>1, <2>3 DEF FlagsToRestore
  <2> QED BY <1>T, <2>4, <2>5, <2>6, <2>7 DEF LockInv
<1>8. CASE TakeIsrSafe
  <2>1. /\ pc[c] = "save" /\ c' = c /\ iflag' = TRUE /\ schedulerHalt' = TRUE
        /\ held' = [held EXCEPT ![c] = h \cup {w}] /\ want' = want
        /\ value' = [value EXCEPT ![w] = 1] /\ w \in IsrLocks
        /\ old_rflags' = [old_rflags EXCEPT ![w] = iflag]
        /\ pc' = [pc EXCEPT ![c] = "run"]
    BY <1>8 DEF TakeIsrSafe, Take, At, Goto, cur, scheduling
  <2>2. w \in Locks /\ w \notin h /\ \A k \in h : w \in Callees[k] /\ k \notin Callees[w]
    BY <1>0, <1>I, <1>W, <2>1 DEF WantInner
  <2>3. /\ pc'[c] = "run" /\ held'[c] = h \cup {w}
        /\ \A t \in Threads : t # c => pc'[t] = pc[t] /\ held'[t] = held[t]
        /\ value'[w] = 1 /\ \A m \in Locks : m # w => value'[m] = value[m]
    BY <1>0, <2>1, <2>2
  <2>4. OthersOutside' /\ ValueIsHeld' /\ WantInner' /\ Ordered'
    BY <1>I, <2>1, <2>2, <2>3 DEF OthersOutside, ValueIsHeld, WantInner, Ordered
  <2>5. HolderKeeps' /\ HaltedByIsr'
    BY <2>1, <2>3 DEF HolderKeeps, HaltedByIsr
  <2>6. FlagsBelow'
    <3>1. old_rflags'[w] = iflag /\ \A l \in h : old_rflags'[l] = old_rflags[l]
      BY <1>0, <2>1, <2>2
    <3>2. h \cap IsrLocks = {}
      BY <1>0, <2>1, <2>2 DEF IsrNotNested
    <3>3. iflag => h = {}
      BY <1>I, <2>1, <3>2 DEF HolderKeeps, HaltedByIsr
    <3> SUFFICES ASSUME NEW l \in h \cup {w}, old_rflags'[l],
                        NEW k \in h \cup {w}, l \in Callees[k]
                 PROVE  \E j \in (h \cup {w}) \cap IsrLocks : l \in Callees[j]
      BY <2>1, <2>3 DEF FlagsBelow
    <3>4. CASE l = w
      BY <1>0, <2>2, <3>1, <3>3, <3>4
    <3>5. CASE l \in h
      BY <1>I, <2>2, <3>1, <3>5 DEF FlagsBelow
    <3> QED BY <3>4, <3>5
  <2>7. FlagsToRestore'
    BY <2>1, <2>3 DEF FlagsToRestore
  <2> QED BY <1>T, <2>4, <2>5, <2>6, <2>7 DEF LockInv
<1>9. CASE Restore
  <2>1. /\ pc[c] = "restore" /\ c' = c /\ held' = held /\ value' = value
        /\ want' = want /\ old_rflags' = old_rflags
        /\ iflag' = old_rflags[w]
        /\ w \in IsrLocks => schedulerHalt' = FALSE
        /\ w \notin IsrLocks => schedulerHalt' = schedulerHalt
        /\ pc' = [pc EXCEPT ![c] = "run"]
    BY <1>9 DEF Restore, At, Goto, cur, scheduler_halted
  <2>2. pc'[c] = "run" /\ \A t \in Threads : t # c => pc'[t] = pc[t]
    BY <1>0, <2>1
  <2>3. w \in IsrLocks => h \cap IsrLocks = {}
    BY <1>0, <1>I, <2>1 DEF WantInner, IsrNotNested
  <2>4. HaltedByIsr' /\ HolderKeeps'
    BY <1>I, <2>1, <2>2, <2>3 DEF HaltedByIsr, HolderKeeps, FlagsToRestore
  <2>5. OthersOutside' /\ ValueIsHeld' /\ WantInner' /\ Ordered'
    BY <1>I, <2>1, <2>2 DEF OthersOutside, ValueIsHeld, WantInner, Ordered
  <2>6. FlagsBelow' /\ FlagsToRestore'
    BY <1>I, <2>1, <2>2 DEF FlagsBelow, FlagsToRestore
  <2> QED BY <1>T, <2>4, <2>5, <2>6 DEF LockInv
<1>10. CASE UNCHANGED vars
  BY <1>T, <1>I, <1>10
     DEF vars, scheduling, LockInv, OthersOutside, HolderKeeps, HaltedByIsr,
         ValueIsHeld, WantInner, Ordered, FlagsBelow, FlagsToRestore
<1> QED
  BY <1>1, <1>2, <1>3, <1>4, <1>5, <1>6, <1>7, <1>8, <1>9, <1>10, <1>11
     DEF Next, LockStep

(* With isr-safe locks that are not nested, the running thread's locks are   *)
(* its own, it is not interrupted while it has one, and the locks restore    *)
(* what they changed.                                                        *)
THEOREM LocksCorrect ==
  ASSUME IsrNotNested
  PROVE  Spec => []LockInv
<1>1. Init => LockInv
  BY LockInit
<1>2. LockInv /\ [Next]_vars => LockInv'
  BY IsrNotNested, LockStepKeeps
<1> QED BY <1>1, <1>2, PTL DEF Spec

(* A lock has one holder, and its value says so, although mutex_lock tests   *)
(* and sets it in separate instructions.                                     *)
THEOREM LocksExclude ==
  ASSUME IsrNotNested
  PROVE  Spec => []MutualExclusion
<1>1. LockInv => MutualExclusion
  <2> SUFFICES ASSUME LockInv PROVE MutualExclusion
    OBVIOUS
  <2>1. pCurrentThread \in Threads
    BY DEF LockInv, TypeOK
  <2> QED BY <2>1 DEF LockInv, OthersOutside, ValueIsHeld, MutualExclusion
<1>2. Spec => []LockInv
  BY IsrNotNested, LocksCorrect
<1> QED BY <1>1, <1>2, PTL

(* The functions under different locks exclude each other too: a thread that *)
(* does not run is in none of them.                                          *)
THEOREM HoldersRun ==
  ASSUME IsrNotNested
  PROVE  Spec => []OthersHoldNothing
<1>1. LockInv => OthersHoldNothing
  BY DEF LockInv, OthersOutside, OthersHoldNothing, cur
<1>2. Spec => []LockInv
  BY IsrNotNested, LocksCorrect
<1> QED BY <1>1, <1>2, PTL

(* A thread never finds a lock taken, neither on entry nor on a way back:    *)
(* the loop both lock functions begin with, and its panic, are dead code.    *)
THEOREM LoopsAreDead ==
  ASSUME IsrNotNested
  PROVE  Spec => []NeverContended
<1>1. LockInv => NeverContended
  <2> SUFFICES ASSUME LockInv, pc[pCurrentThread] = "test"
               PROVE  value[want[pCurrentThread]] = 0
    BY DEF NeverContended, cur
  <2>1. /\ want[pCurrentThread] \in Locks /\ value \in [Locks -> {0, 1}]
        /\ held[pCurrentThread] \subseteq Locks
    BY DEF LockInv, TypeOK
  <2>2. want[pCurrentThread] \notin held[pCurrentThread]
    BY <2>1, NoRecursionAssumption DEF LockInv, WantInner
  <2>3. value[want[pCurrentThread]] # 1
    BY <2>1, <2>2 DEF LockInv, ValueIsHeld
  <2> QED BY <2>1, <2>3
<1>2. Spec => []LockInv
  BY IsrNotNested, LocksCorrect
<1> QED BY <1>1, <1>2, PTL

(* A thread that has left its last function has the scheduler going, though  *)
(* scheduler_halted always answers that it was going.                        *)
THEOREM SchedulerGoes ==
  ASSUME IsrNotNested
  PROVE  Spec => []SchedulerResumed
<1>1. LockInv => SchedulerResumed
  BY DEF LockInv, HaltedByIsr, SchedulerResumed, cur
<1>2. Spec => []LockInv
  BY IsrNotNested, LocksCorrect
<1> QED BY <1>1, <1>2, PTL

-----------------------------------------------------------------------------
(* What the running thread finds: its interrupt flag is on, or it has lost   *)
(* it, and each lock that gives a flag back to a thread outside the locks    *)
(* has kept the one of that thread, or the thread has lost it.               *)
Outermost(l) == \A k \in held[pCurrentThread] : l \notin Callees[k]

ContextsOn ==
  /\ \A t \in Threads : rflags[t] = TRUE
  /\ \A t \in Threads : t # pCurrentThread /\ pc[t] # "cli" => t \notin lost

FlagFound ==
  held[pCurrentThread] = {} /\ pc[pCurrentThread] \in {"run", "test", "save"}
    => (iflag <=> pCurrentThread \notin lost)

FlagSaved ==
  \A t \in Threads : pc[t] = "cli" =>
    /\ want[t] \notin IsrLocks
    /\ held[t] = {} => (old_rflags[want[t]] <=> t \notin lost)

FlagKept ==
  /\ \A l \in held[pCurrentThread] :
       Outermost(l) => (old_rflags[l] <=> pCurrentThread \notin lost)
  /\ held[pCurrentThread] = {} /\ pc[pCurrentThread] = "restore"
       => (old_rflags[want[pCurrentThread]] <=> pCurrentThread \notin lost)

FlagsInv == ContextsOn /\ FlagFound /\ FlagSaved /\ FlagKept

LEMMA FlagsInit == Init => FlagsInv
BY ThreadsAssumption DEF Init, FlagsInv, ContextsOn, FlagFound, FlagSaved, FlagKept

(* The processor goes from a thread outside the locks to another one, with   *)
(* the flags of both on.                                                     *)
LEMMA FlagsSwitch ==
  ASSUME LockInv, FlagsInv, ctx_switch(TRUE), ~schedulerHalt,
         UNCHANGED <<pc, want, held, value, old_rflags>>,
         held[pCurrentThread] = {}, pc[pCurrentThread] # "restore",
         \/ lost' = lost \ {pCurrentThread} /\ pc[pCurrentThread] # "cli"
         \/ lost' = lost /\ (pc[pCurrentThread] # "cli" => pCurrentThread \notin lost)
  PROVE  FlagsInv'
<1> USE ThreadsAssumption
<1> DEFINE c == pCurrentThread
<1>0. /\ c \in Threads /\ rflags \in [Threads -> BOOLEAN]
      /\ pc \in [Threads -> {"run", "test", "save", "cli", "restore"}]
  BY DEF LockInv, TypeOK
<1>1. /\ c' = NextThread[c] /\ c' \in Threads
      /\ rflags' = [rflags EXCEPT ![c] = TRUE]
      /\ iflag' = rflags'[NextThread[c]]
  BY <1>0 DEF ctx_switch, cur
<1>2. (\A t \in Threads : rflags'[t] = TRUE) /\ iflag' = TRUE
  BY <1>0, <1>1 DEF FlagsInv, ContextsOn
<1>3. \A t \in Threads : held'[t] = {} /\ pc'[t] = pc[t] /\ pc'[t] # "restore"
  BY DEF LockInv, OthersOutside
<1>4. \A t \in Threads : pc[t] # "cli" => t \notin lost'
  BY DEF FlagsInv, ContextsOn
<1>5. \A t \in Threads : pc[t] = "cli" => (t \in lost' <=> t \in lost)
  OBVIOUS
<1>6. FlagSaved'
  BY <1>5 DEF FlagsInv, FlagSaved, LockInv, OthersOutside
<1>7. ContextsOn' /\ FlagFound' /\ FlagKept'
  BY <1>1, <1>2, <1>3, <1>4 DEF ContextsOn, FlagFound, FlagKept
<1> QED BY <1>6, <1>7 DEF FlagsInv

LEMMA FlagsStep ==
  ASSUME LockInv, FlagsInv, [Next]_vars
  PROVE  FlagsInv'
<1> USE ThreadsAssumption, LocksAssumption, NoRecursionAssumption
<1> DEFINE c == pCurrentThread
           h == held[c]
           w == want[c]
<1>0. /\ c \in Threads /\ h \subseteq Locks
      /\ pc \in [Threads -> {"run", "test", "save", "cli", "restore"}]
      /\ pc[c] # "run" => w \in Locks
      /\ want \in [Threads -> Locks \cup {NoLock}]
      /\ held \in [Threads -> SUBSET Locks]
      /\ old_rflags \in [Locks -> BOOLEAN]
      /\ rflags \in [Threads -> BOOLEAN] /\ iflag \in BOOLEAN
      /\ \A t \in Threads : pc[t] # "run" => want[t] \in Locks
  BY DEF LockInv, TypeOK
<1>I. ContextsOn /\ FlagFound /\ FlagSaved /\ FlagKept
  BY DEF FlagsInv
<1>O. /\ \A t \in Threads : t # c => held[t] = {} /\ pc[t] # "restore"
      /\ pc[c] # "run" => \A k \in h : w \in Callees[k]
      /\ h # {} \/ pc[c] = "restore" => ~iflag \/ schedulerHalt
      /\ h = {} /\ pc[c] # "restore" => ~schedulerHalt
  BY DEF LockInv, OthersOutside, WantInner, HolderKeeps, HaltedByIsr
<1>W. pc[c] # "run" => w \notin h
  BY <1>0, <1>O
<1>1. CASE timer_isr
  <2>0. /\ iflag /\ ctx_switch(TRUE)
        /\ UNCHANGED <<pc, want, held, value, old_rflags, lost>>
    BY <1>1 DEF timer_isr
  <2>1. CASE schedulerHalt
    <3>1. iflag' = iflag /\ UNCHANGED <<pCurrentThread, rflags>>
      BY <1>0, <2>0, <2>1 DEF ctx_switch
    <3> QED BY <1>I, <2>0, <3>1
            DEF FlagsInv, ContextsOn, FlagFound, FlagSaved, FlagKept, Outermost
  <2>2. CASE ~schedulerHalt
    <3>1. h = {} /\ pc[c] # "restore"
      BY <1>O, <2>0, <2>2
    <3>2. pc[c] # "cli" => c \notin lost
      BY <1>0, <1>I, <2>0, <3>1 DEF FlagFound
    <3> QED BY <2>0, <2>2, <3>1, <3>2, FlagsSwitch
  <2> QED BY <2>1, <2>2
<1>11. CASE Yield
  <2>1. /\ pc[c] = "run" /\ h = {} /\ ctx_switch(TRUE) /\ lost' = lost \ {c}
        /\ UNCHANGED <<pc, want, held, value, old_rflags>>
    BY <1>11 DEF Yield, At, cur, thread_yield
  <2>2. ~schedulerHalt
    BY <1>O, <2>1
  <2> QED BY <2>1, <2>2, FlagsSwitch
<1>2. ASSUME NEW l \in Locks, Call(l) PROVE FlagsInv'
  <2>1. /\ pc[c] = "run" /\ c' = c /\ iflag' = iflag /\ rflags' = rflags
        /\ held' = held /\ old_rflags' = old_rflags /\ lost' = lost
        /\ want' = [want EXCEPT ![c] = l] /\ pc' = [pc EXCEPT ![c] = "test"]
    BY <1>2 DEF Call, At, Goto, cur, scheduling
  <2>2. /\ want'[c] = l /\ pc'[c] = "test"
        /\ \A t \in Threads : t # c => pc'[t] = pc[t] /\ want'[t] = want[t]
    BY <1>0, <2>1
  <2> QED BY <1>I, <2>1, <2>2
          DEF FlagsInv, ContextsOn, FlagFound, FlagSaved, FlagKept, Outermost
<1>3. ASSUME NEW l \in Locks, Release(l) PROVE FlagsInv'
  <2>1. /\ pc[c] = "run" /\ c' = c /\ iflag' = iflag /\ rflags' = rflags
        /\ held' = [held EXCEPT ![c] = h \ {l}] /\ old_rflags' = old_rflags
        /\ want' = [want EXCEPT ![c] = l] /\ pc' = [pc EXCEPT ![c] = "restore"]
        /\ l \in h /\ \A k \in h \ {l} : l \in Callees[k]
        /\ lost' = lost
    BY <1>3 DEF Release, At, Goto, cur, scheduling
  <2>2. /\ want'[c] = l /\ pc'[c] = "restore" /\ held'[c] = h \ {l}
        /\ \A t \in Threads : t # c => /\ pc'[t] = pc[t] /\ held'[t] = held[t]
                                       /\ want'[t] = want[t]
    BY <1>0, <2>1
  <2>3. ContextsOn' /\ FlagFound' /\ FlagSaved'
    BY <1>I, <2>1, <2>2 DEF ContextsOn, FlagFound, FlagSaved
  <2>4. h \ {l} = {} => (old_rflags[l] <=> c \notin lost)
    <3> SUFFICES ASSUME h \ {l} = {} PROVE old_rflags[l] <=> c \notin lost
      OBVIOUS
    <3>1. Outermost(l)
      BY <1>0, <2>1 DEF Outermost
    <3> QED BY <1>I, <2>1, <3>1 DEF FlagKept
(* The lock released is under all the others and called none of them.        *)
  <2>5. ASSUME NEW m \in h \ {l}, Outermost(m)' PROVE old_rflags[m] <=> c \notin lost
    <3>1. \A k \in h \ {l} : m \notin Callees[k]
      BY <2>1, <2>2, <2>5 DEF Outermost
    <3>2. m \notin Callees[l]
      <4>1. l \in Callees[m]
        BY <2>1, <2>5
      <4> QED BY <1>0, <2>1, <2>5, <4>1
    <3>3. Outermost(m)
      BY <3>1, <3>2 DEF Outermost
    <3> QED BY <1>I, <2>5, <3>3 DEF FlagKept
  <2>6. FlagKept'
    BY <2>1, <2>2, <2>4, <2>5 DEF FlagKept
  <2> QED BY <2>3, <2>6 DEF FlagsInv
<1>4. CASE Test
  <2>1. /\ pc[c] = "test" /\ c' = c /\ iflag' = iflag /\ rflags' = rflags
        /\ held' = held /\ old_rflags' = old_rflags /\ want' = want /\ lost' = lost
        /\ pc' = [pc EXCEPT ![c] = "save"]
    BY <1>4 DEF Test, At, Goto, cur, scheduling
  <2>2. pc'[c] = "save" /\ \A t \in Threads : t # c => pc'[t] = pc[t]
    BY <1>0, <2>1
  <2> QED BY <1>I, <2>1, <2>2
          DEF FlagsInv, ContextsOn, FlagFound, FlagSaved, FlagKept, Outermost
<1>5. CASE SpinYield
  <2>1. pc[c] = "test" /\ value[w] = 1
    BY <1>5 DEF SpinYield, At, cur
  <2>2. w \in Locks /\ w \in h
    BY <1>0, <2>1 DEF LockInv, ValueIsHeld
  <2> QED BY <1>O, <2>1, <2>2
<1>6. CASE SaveFlags
  <2>1. /\ pc[c] = "save" /\ c' = c /\ iflag' = iflag /\ rflags' = rflags
        /\ held' = held /\ want' = want /\ w \notin IsrLocks
        /\ old_rflags' = [old_rflags EXCEPT ![w] = iflag]
        /\ pc' = [pc EXCEPT ![c] = "cli"]
        /\ lost' = IF iflag THEN lost \ Overwritten ELSE lost \cup Overwritten
    BY <1>6 DEF SaveFlags, At, Goto, cur, scheduling
  <2>2. pc'[c] = "cli" /\ \A t \in Threads : t # c => pc'[t] = pc[t]
    BY <1>0, <2>1
  <2>3. \A t \in Threads : t \in Overwritten <=> t # c /\ pc[t] = "cli" /\ want[t] = w
    BY DEF Overwritten, cur
  <2>4. \A t \in Threads \ Overwritten : t \in lost' <=> t \in lost
    BY <2>1
  <2>5. \A t \in Overwritten : t \in lost' <=> ~iflag
    BY <2>1
  <2>6. old_rflags'[w] = iflag /\ \A l \in Locks \ {w} : old_rflags'[l] = old_rflags[l]
    BY <1>0, <2>1
  <2>7. c \in lost' <=> c \in lost
    BY <1>0, <2>3, <2>4
  <2>8. ContextsOn'
    BY <1>I, <2>1, <2>2, <2>3, <2>4 DEF ContextsOn
  <2>9. FlagFound' /\ FlagKept'
    BY <1>0, <1>I, <1>W, <2>1, <2>2, <2>6, <2>7 DEF FlagFound, FlagKept, Outermost
  <2>10. ASSUME NEW t \in Threads, pc'[t] = "cli"
         PROVE  /\ want[t] \notin IsrLocks
                /\ held[t] = {} => (old_rflags'[want[t]] <=> t \notin lost')
    <3>1. CASE t = c
      BY <1>0, <1>I, <2>1, <2>6, <2>7, <3>1 DEF FlagFound
    <3>2. CASE t \in Overwritten
      BY <2>1, <2>3, <2>5, <2>6, <3>2
    <3>3. CASE t # c /\ t \notin Overwritten
      <4>1. pc[t] = "cli" /\ want[t] \in Locks \ {w}
        BY <1>0, <2>2, <2>3, <2>10, <3>3
      <4> QED BY <1>I, <2>4, <2>6, <3>3, <4>1 DEF FlagSaved
    <3> QED BY <3>1, <3>2, <3>3
  <2>11. FlagSaved'
    BY <2>1, <2>10 DEF FlagSaved
  <2> QED BY <2>8, <2>9, <2>11 DEF FlagsInv
<1>7. CASE TakePlain
  <2>1. /\ pc[c] = "cli" /\ c' = c /\ rflags' = rflags /\ lost' = lost
        /\ held' = [held EXCEPT ![c] = h \cup {w}] /\ want' = want
        /\ old_rflags' = old_rflags /\ pc' = [pc EXCEPT ![c] = "run"]
    BY <1>7 DEF TakePlain, Take, At, Goto, cur
  <2>2. /\ pc'[c] = "run" /\ held'[c] = h \cup {w}
        /\ \A t \in Threads : t # c => pc'[t] = pc[t] /\ held'[t] = held[t]
    BY <1>0, <2>1
  <2>3. ContextsOn' /\ FlagFound' /\ FlagSaved'
    BY <1>I, <2>1, <2>2 DEF ContextsOn, FlagFound, FlagSaved
  <2>4. ASSUME NEW m \in h \cup {w}, Outermost(m)' PROVE old_rflags[m] <=> c \notin lost
    <3>1. \A k \in h \cup {w} : m \notin Callees[k]
      BY <2>1, <2>2, <2>4 DEF Outermost
    <3>2. CASE h = {}
      BY <1>0, <1>I, <2>1, <2>4, <3>2 DEF FlagSaved
    <3>3. CASE h # {}
      <4>1. m \in h /\ Outermost(m)
        BY <1>O, <2>1, <2>4, <3>1, <3>3 DEF Outermost
      <4> QED BY <1>I, <4>1 DEF FlagKept
    <3> QED BY <3>2, <3>3
  <2>5. FlagKept'
    BY <2>1, <2>2, <2>4 DEF FlagKept
  <2> QED BY <2>3, <2>5 DEF FlagsInv
<1>8. CASE TakeIsrSafe
  <2>1. /\ pc[c] = "save" /\ c' = c /\ rflags' = rflags /\ lost' = lost
        /\ held' = [held EXCEPT ![c] = h \cup {w}] /\ want' = want /\ w \in IsrLocks
        /\ old_rflags' = [old_rflags EXCEPT ![w] = iflag]
        /\ pc' = [pc EXCEPT ![c] = "run"]
    BY <1>8 DEF TakeIsrSafe, Take, At, Goto, cur
  <2>2. /\ pc'[c] = "run" /\ held'[c] = h \cup {w}
        /\ \A t \in Threads : t # c => pc'[t] = pc[t] /\ held'[t] = held[t]
    BY <1>0, <2>1
  <2>3. old_rflags'[w] = iflag /\ \A l \in Locks \ {w} : old_rflags'[l] = old_rflags[l]
    BY <1>0, <2>1
  <2>4. ContextsOn' /\ FlagFound'
    BY <1>I, <2>1, <2>2 DEF ContextsOn, FlagFound
  <2>5. FlagSaved'
    <3> SUFFICES ASSUME NEW t \in Threads, pc'[t] = "cli"
                 PROVE  /\ want[t] \notin IsrLocks
                        /\ held'[t] = {} => (old_rflags'[want[t]] <=> t \notin lost)
      BY <2>1 DEF FlagSaved
    <3>1. t # c /\ pc[t] = "cli" /\ held'[t] = held[t]
      BY <1>0, <2>2
    <3>2. want[t] \notin IsrLocks /\ want[t] \in Locks
      BY <1>0, <1>I, <3>1 DEF FlagSaved
    <3> QED BY <1>I, <2>1, <2>3, <3>1, <3>2 DEF FlagSaved
  <2>6. ASSUME NEW m \in h \cup {w}, Outermost(m)' PROVE old_rflags'[m] <=> c \notin lost
    <3>1. \A k \in h \cup {w} : m \notin Callees[k]
      BY <2>1, <2>2, <2>6 DEF Outermost
    <3>2. CASE h = {}
      BY <1>0, <1>I, <2>1, <2>3, <2>6, <3>2 DEF FlagFound
    <3>3. CASE h # {}
      <4>1. m \in h /\ m # w /\ Outermost(m)
        BY <1>O, <2>1, <2>6, <3>1, <3>3 DEF Outermost
      <4> QED BY <1>0, <1>I, <2>3, <4>1 DEF FlagKept
    <3> QED BY <3>2, <3>3
  <2>7. FlagKept'
    BY <2>1, <2>2, <2>6 DEF FlagKept
  <2> QED BY <2>4, <2>5, <2>7 DEF FlagsInv
<1>9. CASE Restore
  <2>1. /\ pc[c] = "restore" /\ c' = c /\ held' = held /\ rflags' = rflags
        /\ want' = want /\ old_rflags' = old_rflags /\ lost' = lost
        /\ iflag' = old_rflags[w] /\ pc' = [pc EXCEPT ![c] = "run"]
    BY <1>9 DEF Restore, At, Goto, cur
  <2>2. pc'[c] = "run" /\ \A t \in Threads : t # c => pc'[t] = pc[t]
    BY <1>0, <2>1
  <2>3. FlagFound'
    BY <1>0, <1>I, <2>1, <2>2 DEF FlagFound, FlagKept
  <2> QED BY <1>I, <2>1, <2>2, <2>3
          DEF FlagsInv, ContextsOn, FlagSaved, FlagKept, Outermost
<1>10. CASE UNCHANGED vars
  BY <1>I, <1>10
     DEF vars, scheduling, FlagsInv, ContextsOn, FlagFound, FlagSaved, FlagKept, Outermost
<1> QED
  BY <1>1, <1>2, <1>3, <1>4, <1>5, <1>6, <1>7, <1>8, <1>9, <1>10, <1>11
     DEF Next, LockStep

(* A thread outside the locks runs with interrupts on, unless what it saved  *)
(* on entering a lock was written over by a thread that had them off.        *)
THEOREM InterruptsRestored ==
  ASSUME IsrNotNested
  PROVE  Spec => []FlagsRestored
<1>1. LockInv /\ FlagsInv /\ [Next]_vars => FlagsInv'
  BY FlagsStep
<1>2. FlagsInv => FlagsRestored
  BY DEF FlagsInv, FlagFound, FlagsRestored, cur
<1>3. Spec => []LockInv
  BY IsrNotNested, LocksCorrect
<1> QED BY <1>1, <1>2, <1>3, FlagsInit, PTL DEF Spec

-----------------------------------------------------------------------------
(* Isr-safe locks may be nested from here on, and then the scheduler runs    *)
(* under an outer one.  What is left concerns the plain locks: the thread    *)
(* that runs is the only one to hold any, and no flag it restores before the *)
(* outermost of them switches interrupts on.                                 *)
Plain(t) == held[t] \ IsrLocks

PlainOthers == \A t \in Threads : t # pCurrentThread => Plain(t) = {}

PlainKeeps == Plain(pCurrentThread) # {} => ~iflag

WantsInner ==
  \A t \in Threads : pc[t] # "run" => \A k \in held[t] : want[t] \in Callees[k]

PlainIsHeld ==
  \A l \in Locks \ IsrLocks : value[l] = 1 => \E t \in Threads : l \in held[t]

PlainBelow ==
  \A l \in Plain(pCurrentThread) :
    (\E k \in Plain(pCurrentThread) : l \in Callees[k]) => ~old_rflags[l]

PlainToRestore ==
  pc[pCurrentThread] \in {"cli", "restore"} /\ Plain(pCurrentThread) # {}
    => ~old_rflags[want[pCurrentThread]]

PlainInv == /\ TypeOK /\ PlainOthers /\ PlainKeeps /\ WantsInner /\ PlainIsHeld
            /\ PlainBelow /\ PlainToRestore

LEMMA PlainInit == Init => PlainInv
<1> SUFFICES ASSUME Init PROVE PlainInv
  OBVIOUS
<1>1. TypeOK
  BY TypeInit
<1>2. /\ \A t \in Threads : held[t] = {} /\ pc[t] = "run"
      /\ pCurrentThread \in Threads /\ \A l \in Locks : value[l] = 0
  BY ThreadsAssumption DEF Init
<1> QED
  BY <1>1, <1>2 DEF PlainInv, Plain, PlainOthers, PlainKeeps, WantsInner, PlainIsHeld,
                    PlainBelow, PlainToRestore

(* The processor is only lost by a thread that holds no plain lock.          *)
LEMMA PlainSwitch ==
  ASSUME PlainInv, ctx_switch(TRUE), Plain(pCurrentThread) = {},
         UNCHANGED <<pc, want, held, value, old_rflags>>
  PROVE  PlainOthers' /\ PlainKeeps' /\ WantsInner' /\ PlainIsHeld' /\ PlainBelow'
           /\ PlainToRestore'
<1>1. pCurrentThread \in Threads /\ pCurrentThread' \in Threads
  BY ThreadsAssumption DEF PlainInv, TypeOK, ctx_switch, cur
<1>2. \A t \in Threads : held'[t] = held[t] /\ Plain(t) = {}
  BY DEF PlainInv, PlainOthers
<1>3. \A t \in Threads : Plain(t)' = {}
  BY <1>2 DEF Plain
<1>4. Plain(pCurrentThread)' = {}
  BY <1>1, <1>2 DEF Plain
<1> QED BY <1>3, <1>4 DEF PlainInv, PlainOthers, PlainKeeps, WantsInner, PlainIsHeld,
                          PlainBelow, PlainToRestore

LEMMA PlainStepKeeps ==
  ASSUME PlainNotOverIsr, PlainInv, [Next]_vars
  PROVE  PlainInv'
<1> USE LocksAssumption, NoRecursionAssumption
<1> DEFINE c == pCurrentThread
           h == held[c]
           w == want[c]
<1>0. /\ c \in Threads /\ h \subseteq Locks
      /\ pc \in [Threads -> {"run", "test", "save", "cli", "restore"}]
      /\ pc[c] # "run" => w \in Locks
      /\ want \in [Threads -> Locks \cup {NoLock}]
      /\ held \in [Threads -> SUBSET Locks]
      /\ value \in [Locks -> {0, 1}]
      /\ old_rflags \in [Locks -> BOOLEAN]
  BY DEF PlainInv, TypeOK
<1>T. TypeOK'
  BY TypeStep DEF PlainInv
<1>I. /\ PlainOthers /\ PlainKeeps /\ WantsInner /\ PlainIsHeld
      /\ PlainBelow /\ PlainToRestore
  BY DEF PlainInv
(* What runs under a plain lock wants a plain lock, and not one it has.       *)
<1>W. pc[c] # "run" /\ Plain(c) # {} => w \in Locks \ IsrLocks /\ w \notin h
  BY <1>0, <1>I DEF WantsInner, Plain, PlainNotOverIsr
<1>1. CASE timer_isr
  <2>1. /\ iflag /\ ctx_switch(TRUE)
        /\ UNCHANGED <<pc, want, held, value, old_rflags>>
    BY <1>1 DEF timer_isr
  <2>2. Plain(c) = {}
    BY <1>I, <2>1 DEF PlainKeeps
  <2> QED BY <1>T, <2>1, <2>2, PlainSwitch DEF PlainInv
<1>11. CASE Yield
  <2>1. /\ held[c] = {} /\ ctx_switch(TRUE)
        /\ UNCHANGED <<pc, want, held, value, old_rflags>>
    BY <1>11 DEF Yield, cur, thread_yield
  <2>2. Plain(c) = {}
    BY <2>1 DEF Plain
  <2> QED BY <1>T, <2>1, <2>2, PlainSwitch DEF PlainInv
<1>2. ASSUME NEW l \in Locks, Call(l) PROVE PlainInv'
  <2>1. /\ pc[c] = "run" /\ c' = c /\ iflag' = iflag
        /\ held' = held /\ value' = value /\ old_rflags' = old_rflags
        /\ want' = [want EXCEPT ![c] = l] /\ pc' = [pc EXCEPT ![c] = "test"]
        /\ \A k \in h : l \in Callees[k]
    BY <1>2 DEF Call, At, Goto, cur, scheduling
  <2>2. /\ want'[c] = l /\ pc'[c] = "test"
        /\ \A t \in Threads : t # c => pc'[t] = pc[t] /\ want'[t] = want[t]
    BY <1>0, <2>1
  <2> QED BY <1>T, <1>I, <2>1, <2>2
          DEF PlainInv, Plain, PlainOthers, PlainKeeps, WantsInner, PlainIsHeld,
              PlainBelow, PlainToRestore
<1>3. ASSUME NEW l \in Locks, Release(l) PROVE PlainInv'
  <2>1. /\ pc[c] = "run" /\ c' = c /\ iflag' = iflag
        /\ held' = [held EXCEPT ![c] = h \ {l}] /\ old_rflags' = old_rflags
        /\ value' = [value EXCEPT ![l] = 0]
        /\ want' = [want EXCEPT ![c] = l] /\ pc' = [pc EXCEPT ![c] = "restore"]
        /\ l \in h /\ \A k \in h \ {l} : l \in Callees[k]
    BY <1>3 DEF Release, At, Goto, cur, scheduling
  <2>2. /\ want'[c] = l /\ pc'[c] = "restore" /\ held'[c] = h \ {l}
        /\ \A t \in Threads : t # c => /\ pc'[t] = pc[t] /\ held'[t] = held[t]
                                       /\ want'[t] = want[t]
        /\ value'[l] = 0 /\ \A m \in Locks : m # l => value'[m] = value[m]
    BY <1>0, <2>1
  <2>3. PlainOthers' /\ PlainKeeps'
    BY <1>I, <2>1, <2>2 DEF PlainOthers, PlainKeeps, Plain
  <2>4. WantsInner' /\ PlainIsHeld'
    BY <1>0, <1>I, <2>1, <2>2 DEF WantsInner, PlainIsHeld
  <2>5. PlainBelow'
    BY <1>I, <2>1, <2>2 DEF PlainBelow, Plain
  <2>6. PlainToRestore'
    <3> SUFFICES ASSUME NEW k \in (h \ {l}) \ IsrLocks PROVE ~old_rflags[l]
      BY <2>1, <2>2 DEF PlainToRestore, Plain
    <3>1. l \in Callees[k] /\ l \notin IsrLocks
      BY <1>0, <2>1 DEF PlainNotOverIsr
    <3> QED BY <1>I, <2>1, <3>1 DEF PlainBelow, Plain
  <2> QED BY <1>T, <2>3, <2>4, <2>5, <2>6 DEF PlainInv
<1>4. CASE Test
  <2>1. /\ pc[c] = "test" /\ c' = c /\ iflag' = iflag
        /\ held' = held /\ value' = value /\ old_rflags' = old_rflags /\ want' = want
        /\ pc' = [pc EXCEPT ![c] = "save"]
    BY <1>4 DEF Test, At, Goto, cur, scheduling
  <2>2. pc'[c] = "save" /\ \A t \in Threads : t # c => pc'[t] = pc[t]
    BY <1>0, <2>1
  <2> QED BY <1>T, <1>I, <2>1, <2>2
          DEF PlainInv, Plain, PlainOthers, PlainKeeps, WantsInner, PlainIsHeld,
              PlainBelow, PlainToRestore
<1>5. CASE SpinYield
  <2>1. /\ pc[c] = "test" /\ value[w] = 1 /\ ctx_switch(TRUE)
        /\ UNCHANGED <<pc, want, held, value, old_rflags>>
    BY <1>5 DEF SpinYield, At, cur, thread_yield
  <2>2. Plain(c) = {}
    <3> SUFFICES ASSUME Plain(c) # {} PROVE FALSE
      OBVIOUS
    <3>1. w \in Locks \ IsrLocks /\ w \notin h
      BY <1>W, <2>1
    <3>2. PICK t \in Threads : w \in held[t]
      BY <1>I, <2>1, <3>1 DEF PlainIsHeld
    <3> QED BY <1>I, <3>1, <3>2 DEF PlainOthers, Plain
  <2> QED BY <1>T, <2>1, <2>2, PlainSwitch DEF PlainInv
<1>6. CASE SaveFlags
  <2>1. /\ pc[c] = "save" /\ c' = c /\ iflag' = iflag
        /\ held' = held /\ value' = value /\ want' = want
        /\ old_rflags' = [old_rflags EXCEPT ![w] = iflag]
        /\ pc' = [pc EXCEPT ![c] = "cli"] /\ w \notin IsrLocks
    BY <1>6 DEF SaveFlags, At, Goto, cur, scheduling
  <2>2. /\ pc'[c] = "cli" /\ \A t \in Threads : t # c => pc'[t] = pc[t]
        /\ old_rflags'[w] = iflag
        /\ \A l \in Locks : l # w => old_rflags'[l] = old_rflags[l]
    BY <1>0, <2>1
  <2>3. PlainOthers' /\ PlainKeeps' /\ WantsInner' /\ PlainIsHeld'
    BY <1>I, <2>1, <2>2 DEF PlainOthers, PlainKeeps, WantsInner, PlainIsHeld, Plain
  <2>4. PlainBelow'
    BY <1>0, <1>I, <1>W, <2>1, <2>2 DEF PlainBelow, Plain
  <2>5. PlainToRestore'
    BY <1>I, <2>1, <2>2 DEF PlainToRestore, PlainKeeps, Plain
  <2> QED BY <1>T, <2>3, <2>4, <2>5 DEF PlainInv
<1>7. CASE TakePlain
  <2>1. /\ pc[c] = "cli" /\ c' = c /\ iflag' = FALSE
        /\ held' = [held EXCEPT ![c] = h \cup {w}] /\ want' = want
        /\ value' = [value EXCEPT ![w] = 1]
        /\ old_rflags' = old_rflags /\ pc' = [pc EXCEPT ![c] = "run"]
    BY <1>7 DEF TakePlain, Take, At, Goto, cur
  <2>2. w \in Locks /\ \A k \in h : w \in Callees[k] /\ k \notin Callees[w]
    BY <1>0, <1>I, <2>1 DEF WantsInner
  <2>3. /\ pc'[c] = "run" /\ held'[c] = h \cup {w}
        /\ \A t \in Threads : t # c => pc'[t] = pc[t] /\ held'[t] = held[t]
        /\ \A m \in Locks : m # w => value'[m] = value[m]
    BY <1>0, <2>1, <2>2
  <2>4. PlainOthers' /\ PlainKeeps' /\ WantsInner' /\ PlainToRestore'
    BY <1>I, <2>1, <2>3 DEF PlainOthers, PlainKeeps, WantsInner, PlainToRestore, Plain
  <2>5. PlainIsHeld'
    <3> SUFFICES ASSUME NEW l \in Locks \ IsrLocks, value'[l] = 1
                 PROVE  \E t \in Threads : l \in held'[t]
      BY DEF PlainIsHeld
    <3>1. CASE l = w
      BY <1>0, <2>3, <3>1
    <3>2. CASE l # w
      BY <1>I, <2>3, <3>2 DEF PlainIsHeld
    <3> QED BY <3>1, <3>2
  <2>6. PlainBelow'
    <3> SUFFICES ASSUME NEW l \in (h \cup {w}) \ IsrLocks,
                        NEW k \in (h \cup {w}) \ IsrLocks, l \in Callees[k]
                 PROVE  ~old_rflags[l]
      BY <2>1, <2>3 DEF PlainBelow, Plain
    <3>1. CASE l = w
      <4>1. k \in Plain(c)
        BY <2>2, <3>1 DEF Plain
      <4> QED BY <1>I, <2>1, <3>1, <4>1 DEF PlainToRestore
    <3>2. CASE l \in h
      <4>1. k \in h
        BY <2>2, <3>2
      <4> QED BY <1>I, <3>2, <4>1 DEF PlainBelow, Plain
    <3> QED BY <3>1, <3>2
  <2> QED BY <1>T, <2>4, <2>5, <2>6 DEF PlainInv
<1>8. CASE TakeIsrSafe
  <2>1. /\ pc[c] = "save" /\ c' = c
        /\ held' = [held EXCEPT ![c] = h \cup {w}] /\ want' = want
        /\ value' = [value EXCEPT ![w] = 1] /\ w \in IsrLocks
        /\ pc' = [pc EXCEPT ![c] = "run"]
    BY <1>8 DEF TakeIsrSafe, Take, At, Goto, cur
  <2>2. /\ pc'[c] = "run" /\ held'[c] = h \cup {w}
        /\ \A t \in Threads : t # c => pc'[t] = pc[t] /\ held'[t] = held[t]
        /\ \A m \in Locks : m # w => value'[m] = value[m]
    BY <1>0, <2>1
  <2>3. Plain(c) = {}
    BY <1>W, <2>1
  <2>4. Plain(c)' = {}
    BY <2>1, <2>2, <2>3 DEF Plain
  <2>5. PlainOthers' /\ PlainKeeps' /\ WantsInner' /\ PlainBelow' /\ PlainToRestore'
    BY <1>I, <2>1, <2>2, <2>4
       DEF PlainOthers, PlainKeeps, WantsInner, PlainBelow, PlainToRestore, Plain
  <2>6. PlainIsHeld'
    BY <1>I, <2>1, <2>2 DEF PlainIsHeld
  <2> QED BY <1>T, <2>5, <2>6 DEF PlainInv
<1>9. CASE Restore
  <2>1. /\ pc[c] = "restore" /\ c' = c /\ held' = held /\ value' = value
        /\ want' = want /\ old_rflags' = old_rflags /\ iflag' = old_rflags[w]
        /\ pc' = [pc EXCEPT ![c] = "run"]
    BY <1>9 DEF Restore, At, Goto, cur
  <2>2. pc'[c] = "run" /\ \A t \in Threads : t # c => pc'[t] = pc[t]
    BY <1>0, <2>1
  <2> QED BY <1>T, <1>I, <2>1, <2>2
          DEF PlainInv, Plain, PlainOthers, PlainKeeps, WantsInner, PlainIsHeld,
              PlainBelow, PlainToRestore
<1>10. CASE UNCHANGED vars
  BY <1>T, <1>I, <1>10
     DEF vars, scheduling, PlainInv, Plain, PlainOthers, PlainKeeps, WantsInner,
         PlainIsHeld, PlainBelow, PlainToRestore
<1> QED
  BY <1>1, <1>2, <1>3, <1>4, <1>5, <1>6, <1>7, <1>8, <1>9, <1>10, <1>11
     DEF Next, LockStep

(* However isr-safe locks are nested, the plain locks of a thread that does  *)
(* not run are free.                                                         *)
THEOREM PlainHolders ==
  ASSUME PlainNotOverIsr
  PROVE  Spec => []PlainHoldersRun
<1>1. PlainInv /\ [Next]_vars => PlainInv'
  BY PlainNotOverIsr, PlainStepKeeps
<1>2. PlainInv => PlainHoldersRun
  BY DEF PlainInv, PlainOthers, Plain, PlainHoldersRun, cur
<1> QED BY <1>1, <1>2, PlainInit, PTL DEF Spec
=============================================================================
