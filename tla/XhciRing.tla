------------------------------ MODULE XhciRing ------------------------------
(***************************************************************************)
(* The rings between the xHCI driver (kernel/drivers/usb/xhci.c) and the   *)
(* host controller.  The driver writes commands into a ring, rings a       *)
(* doorbell and spins until the interrupt handler has found the completion *)
(* event and marked the command's descriptor.  The controller owns an      *)
(* entry whose cycle bit equals its own; the last entry is a link back to  *)
(* the start, where both sides flip their cycle.                           *)
(*                                                                         *)
(* The driver keeps interrupts on while it posts (mutex_lock_isr_safe), so *)
(* a completion may be handled between the write of an entry and the       *)
(* clearing of its descriptor.  One thread drives: the mutexes turn        *)
(* interrupts off or halt the scheduler.  A transfer ring is the same      *)
(* algorithm with batches of three entries; the controller and the handler *)
(* of the port's own events are the environment.                           *)
(*                                                                         *)
(* Left out: a transfer that ends in an error, of which the waiting thread *)
(* is told as of any other, and the completionFunc of a transfer nobody    *)
(* waits for (xhci.c:1129), which is called after the same acknowledgement *)
(* and step of the event ring, inside the interrupt.                       *)
(***************************************************************************)
EXTENDS Integers

CONSTANTS Entries,     \* XHCI_MAX_CMD_TRB_ENTRIES: the last one is the link
          EventEntries,\* XHCI_MAX_EVENT_TRB_ENTRIES
          Shapes,      \* how entries are posted, see shape
          PortAcks,    \* acknowledgements a port event's handling makes
          MaxPosts,    \* bound on the commands posted
          MaxPorts     \* bound on the port events

ASSUME RingAssumption ==
  /\ Entries \in Nat /\ EventEntries \in Nat /\ EventEntries > 1
  /\ \A s \in Shapes : /\ s.first \in Nat /\ s.batch \in Nat \ {0}
                      /\ Entries > s.first + s.batch /\ Entries > s.batch + 1
  /\ PortAcks \subseteq Nat \ {0} /\ MaxPosts \in Nat /\ MaxPorts \in Nat

Link == Entries - 1

VARIABLES ring,          \* pRingBuffer: the command and cycle bit per entry
          cycle_state, currentEntry,      \* the driver's side of the ring
          cmdDesc,       \* pCmdDescList: completion mark and its event
          pc, todo, await, \* the driver: place, entries to post, descriptor
          dequeue, cycle, active,         \* the controller's side
          posted, executed, told,         \* see CommandQueue
          events, enqueue,                \* the event ring: the controller
          dequeueTrb, interrupt_pending, isr,     \* and the handler
          acks,          \* acknowledgements the handler has still to make
          ports,         \* port events so far
          shape,         \* first: posted before the first wait, which is for
                         \* the first; batch: posted before every later one,
                         \* which is for the last
          raced          \* history: an entry of this batch was written while
                         \* the controller still ran

kind == <<shape, raced>>
driver == <<cycle_state, currentEntry, cmdDesc, pc, todo, await, posted, told, kind>>
xhc == <<dequeue, cycle, active, executed>>
eventRing == <<events, enqueue, dequeueTrb, interrupt_pending, isr, acks, ports>>
vars == <<ring, driver, xhc, eventRing>>

Slots == 0 .. Entries-1
Cleared == [complete |-> FALSE, cmd |-> 0]
\* The commands a wait is for.
Awaited(k) ==
  \/ shape.first > 0 /\ k = 1
  \/ k > shape.first /\ (k - shape.first) % shape.batch = 0

Init ==
  /\ ring = [i \in Slots |-> [cmd |-> 0, cycle |-> IF i = Link THEN 1 ELSE 0]]
  /\ cycle_state = 1 /\ currentEntry = 0
  /\ cmdDesc = [i \in Slots |-> Cleared]
  /\ shape \in Shapes /\ raced = FALSE
  /\ pc = "idle" /\ todo = shape.first /\ await = 0
  /\ dequeue = 0 /\ cycle = 1 /\ active = FALSE
  /\ posted = 0 /\ executed = 0 /\ told = 0
  /\ events = [i \in 0 .. EventEntries-1 |-> 0]
  /\ enqueue = 0 /\ dequeueTrb = 0
  /\ interrupt_pending = FALSE /\ isr = "out" /\ acks = 0 /\ ports = 0

-----------------------------------------------------------------------------
(* The driver.  It does not run while the handler does.                     *)
At(place) == pc = place /\ isr = "out"

Begin ==
  /\ At("idle")
  /\ todo' = IF todo = 0 THEN shape.batch ELSE todo
  /\ posted + todo' <= MaxPosts
  /\ pc' = "alloc"
  /\ raced' = FALSE
  /\ UNCHANGED <<ring, cycle_state, currentEntry, cmdDesc, await, posted, told,
                 shape, xhc, eventRing>>

\* xhci_alloc_cmd at the link: hand it over, start again with the other cycle.
FlipKept(c) == c                     \* fault: the cycle is not flipped
Flip(c) == 1 - c

AllocWrap ==
  /\ At("alloc") /\ currentEntry >= Link
  /\ ring' = [ring EXCEPT ![Link].cycle = cycle_state]
  /\ cycle_state' = Flip(cycle_state)
  /\ currentEntry' = 0
  /\ UNCHANGED <<cmdDesc, pc, todo, await, posted, told, kind, xhc, eventRing>>

\* xhci_write_cmd: from here on the controller may take the entry.
AllocWrite ==
  /\ At("alloc") /\ currentEntry < Link
  /\ posted' = posted + 1
  /\ ring' = [ring EXCEPT ![currentEntry] = [cmd |-> posted', cycle |-> cycle_state]]
  /\ pc' = "clear"
  /\ raced' = (raced \/ active)
  /\ UNCHANGED <<cycle_state, currentEntry, cmdDesc, todo, await, told, shape, xhc,
                 eventRing>>

\* The descriptor of the entry, cleared after the entry was written.
KeepDesc(i) == cmdDesc               \* fault: the old completion stays
ClearDesc(i) == [cmdDesc EXCEPT ![i] = Cleared]

SameEntry(i) == i                    \* fault: the next command overwrites it
NextEntry(i) == i + 1

AllocClear ==
  /\ At("clear")
  /\ cmdDesc' = ClearDesc(currentEntry)
  /\ await' = IF Awaited(posted) THEN currentEntry ELSE await
  /\ currentEntry' = NextEntry(currentEntry)
  /\ todo' = todo - 1
  /\ pc' = IF todo = 1 THEN "ring" ELSE "alloc"
  /\ UNCHANGED <<ring, cycle_state, posted, told, kind, xhc, eventRing>>

\* xhci_ring, with interrupts off again.
xhci_ring ==
  /\ At("ring")
  /\ active' = TRUE
  /\ pc' = "wait"
  /\ UNCHANGED <<ring, cycle_state, currentEntry, cmdDesc, todo, await, posted,
                 told, kind, dequeue, cycle, executed, eventRing>>

\* xhci_yield_until_cmd_complete returns, and the caller reads the event.
xhci_yield_until_cmd_complete ==
  /\ At("wait") /\ cmdDesc[await].complete
  /\ told' = cmdDesc[await].cmd
  /\ pc' = "idle"
  /\ UNCHANGED <<ring, cycle_state, currentEntry, cmdDesc, todo, await, posted,
                 kind, xhc, eventRing>>

-----------------------------------------------------------------------------
(* The controller, as the driver relies on it: in ring order, one event per *)
(* command that reports, an interrupt while events wait to be taken.        *)
Owned(i) == ring[i].cycle = cycle

Report(e) ==
  /\ events' = [events EXCEPT ![enqueue] = e]
  /\ enqueue' = (enqueue + 1) % EventEntries
  /\ interrupt_pending' = TRUE

RoomForEvent == (enqueue + 1) % EventEntries # dequeueTrb

xhc_execute ==
  /\ active /\ dequeue # Link /\ Owned(dequeue) /\ RoomForEvent
  /\ executed' = ring[dequeue].cmd
  /\ dequeue' = dequeue + 1
  /\ \/ Report(1 + dequeue) /\ UNCHANGED <<dequeueTrb, isr, acks, ports>>
     \/ ~Awaited(ring[dequeue].cmd) /\ UNCHANGED eventRing
  /\ UNCHANGED <<ring, driver, cycle, active>>

xhc_link ==
  /\ active /\ dequeue = Link /\ Owned(Link)
  /\ dequeue' = 0
  /\ cycle' = 1 - cycle
  /\ UNCHANGED <<ring, driver, active, executed, eventRing>>

xhc_stop ==
  /\ active /\ ~Owned(dequeue)
  /\ active' = FALSE
  /\ UNCHANGED <<ring, driver, dequeue, cycle, executed, eventRing>>

xhc_port(k) ==
  /\ ports < MaxPorts /\ RoomForEvent
  /\ Report(-k)
  /\ ports' = ports + 1
  /\ UNCHANGED <<ring, driver, xhc, dequeueTrb, isr, acks>>

-----------------------------------------------------------------------------
(* xhci_interrupter: one event per interrupt, the cycle bit not looked at.  *)
(* The handler of the events that are not a command's changes nothing here. *)
InterruptsOn == pc # "ring"
Event == events[dequeueTrb]
IsCompletion == Event > 0

AcksTwice == 2                       \* fault: acknowledged in two branches
Acks == IF IsCompletion \/ Event = 0 THEN 1 ELSE -Event

MarkComplete(i, cmd) == [cmdDesc EXCEPT ![i] = [complete |-> TRUE, cmd |-> cmd]]

xhci_interrupter ==
  /\ InterruptsOn /\ isr = "out" /\ interrupt_pending
  /\ isr' = "handled" /\ acks' = Acks
  /\ cmdDesc' = IF IsCompletion THEN MarkComplete(Event-1, ring[Event-1].cmd)
                                ELSE cmdDesc
  /\ UNCHANGED <<ring, cycle_state, currentEntry, pc, todo, await, posted, told,
                 kind, xhc, events, enqueue, dequeueTrb, interrupt_pending, ports>>

xhci_send_ack ==
  /\ isr = "handled"
  /\ interrupt_pending' = FALSE
  /\ isr' = "acked"
  /\ UNCHANGED <<ring, driver, xhc, events, enqueue, dequeueTrb, acks, ports>>

\* The controller interrupts again when the ring still holds events.
AdvanceNoWrap(d) == IF d < EventEntries THEN d + 1 ELSE 0   \* fault: off by one
Advance(d) == IF d >= EventEntries - 1 THEN 0 ELSE d + 1

xhci_update_dequeue_trb ==
  /\ isr = "acked"
  /\ dequeueTrb' = Advance(dequeueTrb)
  /\ interrupt_pending' = (interrupt_pending \/ enqueue # dequeueTrb')
  /\ acks' = acks - 1
  /\ isr' = IF acks = 1 THEN "out" ELSE "handled"
  /\ UNCHANGED <<ring, driver, xhc, events, enqueue, ports>>

Driver == Begin \/ AllocWrap \/ AllocWrite \/ AllocClear \/ xhci_ring
          \/ xhci_yield_until_cmd_complete
Controller == xhc_execute \/ xhc_link \/ xhc_stop
Handler == xhci_interrupter \/ xhci_send_ack \/ xhci_update_dequeue_trb

Next ==
  \/ Driver
  \/ Controller
  \/ \E k \in PortAcks : xhc_port(k)
  \/ Handler

Spec == Init /\ [][Next]_vars

\* The thread, the controller and a pending interrupt are all served.
FairSpec == Spec /\ WF_vars(Driver) /\ WF_vars(Controller) /\ WF_vars(Handler)

-----------------------------------------------------------------------------
\* TypeOK: every index stays within its ring and every bit is a bit.
TypeOK ==
  /\ ring \in [Slots -> [cmd : 0 .. MaxPosts, cycle : {0, 1}]]
  /\ cycle_state \in {0, 1} /\ currentEntry \in Slots
  /\ cmdDesc \in [Slots -> [complete : BOOLEAN, cmd : 0 .. MaxPosts]]
  /\ pc \in {"idle", "alloc", "clear", "ring", "wait"}
  /\ todo \in Nat /\ await \in 0 .. Link-1
  /\ dequeue \in Slots /\ cycle \in {0, 1} /\ active \in BOOLEAN
  /\ posted \in 0 .. MaxPosts /\ executed \in 0 .. MaxPosts
  /\ told \in 0 .. MaxPosts
  /\ enqueue \in 0 .. EventEntries-1 /\ dequeueTrb \in 0 .. EventEntries-1
  /\ events \in [0 .. EventEntries-1 -> Int]
  /\ interrupt_pending \in BOOLEAN /\ isr \in {"out", "handled", "acked"}
  /\ acks \in Nat
  /\ ports \in 0 .. MaxPorts
  /\ shape \in Shapes /\ raced \in BOOLEAN

Queue == INSTANCE CommandQueue

\* ImplementsQueue: over every wrap and every interleaving with the
\* controller and the handler, the ring is a queue of commands.
ImplementsQueue == Queue!Spec

\* ToldOfItsOwn: a wait that ended was told of the command it was for, not of
\* one that used the same entry a lap earlier.
ToldOfItsOwn == pc = "idle" /\ posted > 0 =>
  told = IF posted = shape.first THEN 1 ELSE posted

\* InterruptHasEvent: the handler, which does not look at the cycle bit of an
\* event, is never interrupted when it has taken all of them: it neither takes
\* an event twice nor passes one the controller has yet to write.
InterruptHasEvent == interrupt_pending /\ isr = "out" => enqueue # dequeueTrb

\* WaitReturns: a thread that waits for a command gets its answer, if the
\* controller had come to the end of the ring when the batch was written.  A
\* controller that still runs takes a new entry as soon as it is written, its
\* completion may be handled, and AllocClear wipes it: that wait never ends.
WaitReturns == pc = "wait" ~> pc = "idle" \/ raced

\* WaitServed: the part of it that needs no fairness.  While the thread waits,
\* the answer is there, or the handler runs or will be interrupted, or the
\* controller has a next entry and room for its event.
WaitServed ==
  pc = "wait" /\ ~raced =>
    \/ cmdDesc[await].complete
    \/ isr # "out" \/ interrupt_pending
    \/ active /\ Owned(dequeue) /\ (dequeue = Link \/ RoomForEvent)
=============================================================================
