# A verification development for the OS-2.0 kernel

OS-2.0 is a hobby operating system for x86-64: a UEFI loader, one monolithic
kernel that runs on one processor, drivers for NVMe, AHCI, xHCI and the VirtIO
GPU, the FluxFS, FAT32 and exFAT file systems, and a text console. These modules
model the parts of the kernel whose correctness depends on an order of events or
on an invariant between data structures. Every definition is translated from
`src/kernel`; `PROJECT.json` (`map`) names the lines.

Read `Subsystem`, `Mutex`, `Memory` and `Heap` first: everything else in the kernel is
built on them.

## 1. Inventory

| Component | State | Operations | Interacts with | What is hard |
|---|---|---|---|---|
| Identifier tables (`subsystem/subsystem.c`) | entries, stack of free entries, committed count, highest entry used | init, alloc, free, commit | every registry (threads, drives, drivers, mounts, handles, extensions, GPU objects) | growth in the middle of an allocation, clearing a page that may be in use, long sequences of calls |
| Locks (`cpu/mutex.c`) | `value`, `old_rflags`, scheduler state | `mutex_lock`, `mutex_lock_isr_safe` and the unlocks | the scheduler, the timer | a tick between any two instructions, nesting, waiting with the scheduler halted |
| Scheduler and threads (`cpu/thread.c`, `thread.asm`, `isrs.asm`) | list of thread blocks, current thread, saved contexts, one safe stack | create, destroy another thread or oneself, yield, halt, resume, context switch | locks, page allocator, identifier table | a block in the list before its context is filled, a block that leaves the list while its thread runs, failures half way |
| Thread stacks (`cpu/thread.c`) | a lazy region with two guards per thread | reserve, map guards, commit, free | `vmm.c`, `pmm.c` | guards mapped to frames others own, a failure after the guards |
| Frames (`mem/pmm.c`) | status per frame, stack of free frames, counters | alloc, free, map, unmap | `vmm.c`, drivers | a frame handed out twice, the double update by free and unmap |
| Virtual memory (`mem/vmm.c`, page fault of `isrs.asm`) | page tables, last page used | alloc/free of pages, map, unmap, lazy backing | `pmm.c`, every component | failure half-way through a region, a fault inside a page |
| Heap (`mem/heap.c`) | one node of free blocks per size class | `kmalloc`, `kfree` | `vmm.c` | two functions with different locks on one node, class exhaustion |
| xHCI (`drivers/usb/xhci.c`) | command, transfer and event rings, descriptors | post, ring, wait, handle an event, enumerate | interrupts, USB drivers | cycle bits lap after lap, a completion between any two steps of a post, handlers that wait |
| NVMe (`drivers/nvme.c`) | submission and completion queues, descriptors on waiting stacks | post, ring, wait, handle completions | drive registry, interrupts | phase bits, several completions per interrupt, requests split under a lock |
| Drive registry (`subsystem/drive.c`) | drives and drivers, partitions | register, unregister, read, write | NVMe, AHCI, USB storage | a driver removed while drives name it, bounds of a partition |
| File layer (`subsystem/filesystem.c`) | mounts, handles, drivers | open, read, write, close, mount | partitions, FAT32, exFAT, FluxFS | handles never given back, error returns with a lock held |
| FAT32 (`drivers/filesystem/fat32.c`) | the allocation table and its copy, one cached sector, file entries on disk and in handles | write, delete, create; search, allocate, link, free a cluster | partitions | entries of 27 bits that hold no mark, two writes per entry, a cache that is set before it is filled, chains without an end, a failure or power loss at any access |
| FluxFS, exFAT | free stack or chains on disk, sector cache | FluxFS: allocate, create (open and delete are empty); exFAT: mount, read | partitions | unfinished: FluxFS's create allocates ten clusters and drops them |
| PCIe and USB registries (`subsystem/pcie.c`, `subsystem/usb.c`) | lists of drivers and devices | register, unregister, enumerate | drivers | list links set before the steps that can fail |
| GPU (`subsystem/gpu.c`, `drivers/gpu/virtio`) | request queue, contexts, resources, surfaces | submit, wait, create and delete objects | interrupts, console | same shape as NVMe; object life cycles |
| Console, fonts, shader compiler, ELF, stdlib, platform tables, timers | local | sequential | - | no state shared between actors |

What makes each correct, in one line:

- *Identifier tables*: an identifier names one object from registration to
  unregistration, and none is lost.
- *Locks*: exclusion; the processor is kept while a lock is held; a released lock
  leaves the machine able to schedule; a thread that asks gets the lock.
- *Threads*: the list stays a list; a switch goes to a thread that is complete and alive;
  one thread at a time leaves; every thread runs again.
- *Frames, pages, stacks*: a frame has one owner and is on the stack or in use; regions
  of different callers are disjoint and stay mapped; a running thread has its guards.
- *Heap*: a block is free once or held once; a node never outgrows its page.
- *Rings and queues*: commands arrive once and in order; a wait is told of its own
  command and ends; an interrupt finds what it came for.
- *FAT32*: the copy and the cache follow the table through every failure; a file reads back
  what was written to it; a call ends.
- *Registries, files*: no object is reachable after it was freed,
  and failures leave structures (and locks) as they were.

The hazards of the code, at their lines, are in `PROJECT.json` (`hazards`), with the
properties that guard them or the reason none does yet.

## 2. Modules

| Module | Models | Role |
|---|---|---|
| `IdPool` | - | abstract: identifiers name at most one object |
| `Subsystem` | `subsystem.c` | identifier table; implements `IdPool` |
| `SubsystemProofs` | | the table's theorems |
| `Mutex` | `mutex.c`, `thread_yield`, `ctx_switch`, `timer_isr` | locks, scheduler and timer |
| `MutexProofs` | | the locks' theorems |
| `Thread` | `thread.c`, `thread.asm`, `ctx_switch` | the life of threads and what the switch makes of them |
| `ThreadProofs` | | the list's and the switch's theorems |
| `Memory` | `pmm.c`, `vmm.c`, `isr14` | frames, pages, lazy backing |
| `ThreadStack` | the stack part of `thread_create` and `thread_destroy` | composed with `Memory`, which it extends |
| `MemoryProofs` | | theorems about frames, regions and stacks, stated for `ThreadStack` |
| `Heap` | `heap.c` | size classes and whole pages under two locks |
| `HeapProofs` | | the heap's theorems |
| `CommandQueue` | - | abstract: posted, executed and told, in order |
| `XhciRing` | rings of `xhci.c`, the controller | command and transfer rings with the event ring; implements `CommandQueue` |
| `XhciRingProofs` | | the rings' theorems, among them that they implement `CommandQueue` |
| `Nvme` | I/O path of `nvme.c`, locks of `drive.c`, the device | queue pair, split requests, completion handler; implements `CommandQueue` in orderly use |
| `NvmeProofs` | | theorems about the queue pair in orderly use, among them that it implements `CommandQueue` |
| `Fat32` | `fat32.c` | clusters of files, the table, its copy and its cache, with faults |
| `Fat32Proofs` | | theorems about table, copy, cache and files |
| `MC...` | | values and small assumptions for TLC |

Operators marked `\* fault` in the modules are mistakes a programmer could make in
that place; they appear in no specification, and replace the definition next to
them to show that the properties notice.

### How state and actions correspond to the code

**Subsystem.** `pEntries`, `pFreeEntries`, `freeEntryCount`, `entryCommitCount` are the
fields of `struct subsystem_desc`. `AllocFree` is `subsystem_alloc_entry` with a
free entry, `AllocGrow` the path through `subsystem_commit_entries`, `AllocFail` its
two failing returns, `subsystem_free_entry(id)` the free. Each is one step: the function
holds `mutex_lock`, which keeps the processor (`Mutex` shows it). `Stored` includes the
clearing of a page on first use. The committed memory holds anything before it is
committed (`garbage` in `Init`). A caller frees what it registered once; the code does not
test it and the model states it as a guard.

**Mutex.** One processor: `pCurrentThread`, `iflag`, `schedulerHalt`, the saved `rflags` of
every context. A lock function is split where a tick may fall: `Test` (and its spin
through `thread_yield`), then `TakePlain` or `TakeIsrSafe`, then `Release` and
`Restore`. `timer_isr` switches when interrupts are on and the scheduler is not
halted. Every kernel function has one static lock, so a lock and the function are
the same constant; `Callees` is the lock graph, `TopLocks` what a thread calls
holding nothing. The bound of the spin, after which the kernel panics, is not a counter:
a thread that spins on a taken lock with the scheduler halted is the state
`NeverStuck` excludes. The two instructions of the plain unlock (`value = 0`, restore of
flags) are separate steps. `SaveFlags` and `TakePlain` are the two of `mutex_lock` (lines 22 and 23): a tick between
them lets another thread write `old_rflags` of the same lock, and if that one holds an outer lock it writes "off". The
variable `lost` remembers whose flag that was. `Yield` is a thread that calls `thread_yield` while it holds nothing (the loader, `sleep`), which
gives it the flag back.

**Thread.** `pFirstThread`, `pLastThread`, `pFlink`, `pBlink` are the list; `registered` is what
the identifier table names, `live` the blocks that are allocated, `filled` those whose context
says where to start. `thread_create` takes a block, `thread_register` links it,
`CreateFill` completes it; `thread_destroy` is split at its lock, at the move to the safe stack
(`SwitchStack`, `DestroyAgain`: a thread that destroys itself calls the function a second time
from there), the freeing of the stack, `thread_unregister` and the freeing of the block.
`ctx_switch` follows the links of the current block, whether it is still allocated or not.
Blocks are reused. The context of `kernel_main` is no thread and is saved nowhere: once the first thread
runs, it never resumes (`kext_load`, which waits there for its thread, does not return). The only lock whose
value is kept is that of `thread_destroy`, because a thread that destroys itself yields for ever with it:
each later destruction finds it taken and ends in the panic of `mutex_lock` (`Panic`). A stack that cannot
be freed leaves a freed block in the list (`FreeStackFail`); nothing after that is followed (`broken`).
Left out: the failing returns of `thread_unregister` (line 200), which need a block that no list names, and what
the eight bytes stored to the one-byte flag at `thread.asm:36` do to its neighbours.

**Memory.** `status` and the stack are `pmm.c`; `pte`, `table` and `last_page_va` are
`vmm.c` at the granularity of pages and the last table level. `virtualAllocPages` starts an
operation, `AllocStep` maps one page (and, when it is needed, takes a frame for a new
table), `Fail` is the failing return, which keeps what was mapped. Freeing goes page
by page, and a lazy page never gives its frame back, as in the code.
`FaultAligned`, `FaultInside` and `FaultHalt` are the page fault at a page's start, inside a
page (where `virtualMapPage` maps the next one too, to a frame it did not take) and one for which no frame is left, for the
page or for the page table of the next one, which halts. The variable `strays` names the pages that the fault of the page before them has mapped.
`pmm.c` reads the top of its stack and the status of a frame before it takes its mutex (lines 137 to 145 and 164);
this is one step with the rest, since the callers that are modelled run with interrupts off.

**ThreadStack.** A stack is a region of `Memory`; its operations run when no other does, since
interrupts are off. `MapGuards` maps both guards to the frames from 0 on, read-only, whatever these are
used for; `CommitStep` gives frames to the top pages, the first of which lies in the upper guard
(`CommitPage` counts from one past the end). `CreateFail` frees the whole size from behind the lower guard,
although only part of it is the stack's: frames of others are freed, which `spilled` remembers.
`Destroy`, `DestroyFree` and `DestroyUnmap` are the freeing in `thread_destroy`.

**Heap.** A class has a chain of nodes, each a stack of blocks. `kmalloc` and `kfree` are
split where one reads what another might change: `heap_get_block`, `heap_pop_block`,
`heap_push_block`. Two mutexes, two threads; `running` is the processor kept by
`mutex_lock`. `freePages` stands for `Memory`: a request is granted when it fits.

**XhciRing.** Indices, cycle bits and the link entry are those of the rings; the driver's
post is `AllocWrite`, `AllocClear`, `AllocWrap` so that the completion of an entry may be handled
between the write and the clearing of its descriptor. The initial state chooses the `shape`: the command ring
(two posts before the first wait, then one by one) or a transfer ring (batches of three); `RingAssumption` asks that what
is posted before a wait and the batch after it fit into the ring, since the driver never looks whether there is room. The interrupt handler takes one
event and acknowledges it as often as its branches do (`acks`): once for each `xhci_update_dequeue_trb` it calls. The controller (`xhc_...`) is external: it executes
entries with its cycle bit, follows the link, and stops at the first entry that is not its own.
`raced` remembers that an entry of the current batch was written while the controller still ran. Transfers that end
in an error and the completion functions that the handler calls for some transfers (`xhci.c:1129`) are left out.

**Nvme.** Two threads issue requests of one or several commands; the device fetches in
order and completes in any order; the handler consumes completions with the
current phase until there is none or the queue wraps. An interrupt that finds no
completion is `isr = "hung"`: the code prints and loops for ever. Message-signalled
interrupts that arrive while one is pending merge. The lock of the drive is tested in one step
(`drive_sectors`) and taken in another (`drive_lock`, which halts the scheduler), as in `mutex.c`: two threads may both find it
free, and then both take it, and the unlock of one frees it for a third. `locks` is therefore the set of kinds whose lock is taken and names no holder. What the
return of the interrupt does to the thread it interrupted is left out: `nvme_completion_queue_isr` ends in `ret`
(`isrs.asm:779`), so that the frame of the interrupt stays on the stack and interrupts stay off until the next isr-safe lock, whose
`sti` turns them on.

**Fat32.** `fat` and `backup` are the two tables, `data` who wrote a cluster last, `dir` the entries in
directories and `entry` those in open handles; `cache` is the one cached sector. Each access of the drive
is a step: `Label` and `readcluster` (the number of the cached sector is set before the sector is read), `Load`,
`WriteFat` and `writecluster` (the sector is read past the cache, written to the table, then to the copy, then
the cached entry follows). `pc` names the stage of the call: `fat32_writefile` walks the chain, allocates and links
or frees clusters, writes the data along the chain and then the directory entry; `fat32_deletefile` follows the
chain and frees it. `Fail` ends the access under way with an error, `Stop` is a power failure: memory is lost, the drive stays.
An entry is a field of 27 bits (`fat32.h:78`) and the marks have 28: the end of a chain, `0x0FFFFFF8` and up, is read as
`0x07FFFFF8` and up, and none of the tests of `fat32.h:14-19` meets it. `EOC` and `BAD` are therefore two more numbers of clusters,
on the sector `Far`, 2^20 sectors past the start of the table, and `CONTINUE` knows neither. The two partitions that `build.sh` makes (lines 112
and 143) end before that sector, and `partition_read_sectors` and `partition_write_sectors` refuse it (`drive.c:299`): this is `Outside`,
which is not a fault but what happens at every mark. On a larger partition the sector is there: the driver
takes data for entries and writes a link over data. There the model ends (`Overrun`) and nothing is claimed. What follows from it:

- the walk of a file another system wrote does not stop at its end but reads one entry more: the cached sector's number becomes `Far` while its
  entries stay, and the access fails;
- growing such a file allocates a cluster, marks it, and fails when it links it to the mark: the call ends and the cluster stays marked;
- the search for a free cluster fails where the chain it follows comes to a mark; the skip of a bad cluster (`fat32.c:680`) and the test of
  the end (684) are dead code, so neither is in the model.

What else the code does and one may not expect is in the model too: an allocated cluster's entry is its own number plus one
and never the end of a chain; the hint of the search is never updated; a file of this driver is extended by linking entry 0 or what
follows; clusters past the last one are allocated though their data cannot be written; and a full table makes the
search run past the end of the table, where the model ends as well.

## 3. Runs

| Run | Question | Instance and why it is enough |
|---|---|---|
| `subsystem` | does the table hand out, keep and take back identifiers, as the pool promises? | 8 reserved entries, pages of 2, commits of 2 then 4: one growth succeeds and the next is refused (assumed in `MCSubsystem`), ids cross page starts with and without entries in use |
| `mutex` | do the locks exclude, keep the processor and give back the interrupt flag? | three threads (a third one to be switched to while two compete), the lock graph of the drive registry: isr-safe over plain, two levels, every lock taken at top level and under others |
| `mutex_file` | do plain locks still keep the processor where isr-safe locks nest? | two threads, the lock graph of `fs_open`/`fs_read` down to `drive_read_sectors`; here threads do spin on taken locks |
| `mutex_fair` | does everybody get a lock? | two threads, the same graph without `kmalloc`, which has the place of `free_entry` in it |
| `mutex_nested` | can a thread spin for ever where isr-safe locks nest? | as `mutex_file`; a **violation** run |
| `threads` | does the list stay sound, does the processor go to the living, does everyone run again? | three blocks (one in the middle of the list), four creations (a block is used again) |
| `memory` | one owner per frame, regions apart and mapped, guards in place, through every failure and every first touch? | touches at the start of pages and inside them; 6 frames of which boot keeps 1, 9 pages in tables of 7, regions up to 2 pages, two at once, stacks of 2+1+2 pages of which 2 are committed: a second table is needed, frames run out in the middle of every operation, a stack stands beside a region or after a freed one |
| `heap` | does any interleaving of `kmalloc` and `kfree` duplicate or lose a block? | two threads, two classes of three blocks, four pages: a class is drained and the second fill may fail |
| `xhci_ring` | is a ring a queue, is a wait told of its own command, does it end? | 4 entries and a link, 4 events, 9 posts: more than two laps, both cycle bits, port events in between; command and transfer shape |
| `nvme` | do the two queues execute in order, is a wait told of its own completion, does it end? | queues of 3, 9 commands: three laps, both phases |
| `nvme_split` | is an interrupt always for a completion once requests are split? | requests of two commands, two threads that may both find a drive lock free; a **violation** run |
| `fat32` | do copy, cache and files follow the table, do calls end? | two files, one of them perhaps written by another system and ended by a mark, perhaps a bad cluster, a table of two sectors and ten entries with one past the volume's end, sizes up to three clusters, four calls, one failing access or stop at any place; 2.3 million states, the longest run |

`CHECK_DEADLOCK FALSE` is set where the model stops by design: the two rings and the queue
at the bound on commands (`MaxPosts`, `MaxPorts`, `MaxCommands`), the memory when
a fault has halted the machine or virtual space has run out, the threads after a panic, a broken destruction
or when the last one has gone, and the volume at the bound on calls or after an overrun.

What the violation runs show, as findings in `PROJECT.json`:

1. `mutex_nested`: `scheduler_halted` (`cpu/thread.c:300`) tests the function's own address
   and always says "not halted". `mutex_lock_isr_safe` saves that answer, so *every*
   isr-safe unlock resumes the scheduler, also inside an outer isr-safe lock. Another thread
   enters the path, and a thread can then meet a taken lock with the scheduler halted.
2. `nvme_split`: the same unlock, in the wait of the first command of a long request, lets
   a second drive lock in (or a second thread that found the same lock free before the first had halted the scheduler); one interrupt takes both completions and the next one
   finds none, which the handler treats as impossible.

Other places where the code departs from what one would expect are modelled as they are, and a
history variable records that they have happened; a property that then no longer holds says so:

- `strays`: the pages that a fault inside the page before them has mapped, to a frame that may be anybody's. `FramesIsolated` and
  `StackGuarded` except these pages and hold of all others, also after such faults; `FramesCounted` and `RegionsSound` hold of all.
- `spilled`: a `thread_create` has failed after its guards were mapped. Frames are still
  counted, but they may have two owners.
- `raced`: the descriptor of an xHCI entry was cleared after a running controller could have completed it: that wait
  may never end. `WaitReturns` holds for every other wait; the safety properties hold for all.
- `broken`, `exited`: a destruction failed half way; a thread has destroyed itself, after which the lock of `thread_destroy` is never free.
- `damaged` of `Fat32`: the files whose write or deletion was cut short, by a failing access or a stop. Their clusters
  and their entry may disagree, which the driver neither notes nor repairs; the others are whole.
- `events` of `Fat32`: an access failed so that the cache disagrees with the drive (`failed`, and `stale` until the next
  start), a file does not lie in one piece (`scattered`), or a damaged file was written or deleted again (`reused`).
  `CopyFollows` holds always, `CacheFollows` while nothing is stale, `FilesReadBack` (for the files that are not
  damaged) and `CallEnds` while nothing of it has happened: a file in pieces runs into the clusters of others.
- A port event with two changes acknowledges twice (`PortAcks = {2}`): `InterruptHasEvent`
  then fails. The run has one acknowledgement per event.
- `lost`: the threads whose saved interrupt flag was overwritten between lines 22 and 23 of `mutex.c`. A lock taken both under
  another and on its own, as `kmalloc` and the tables' locks are, stores the flags of both callers in its one field. `FlagsRestored`
  says that a thread outside the locks has interrupts off exactly then; `NoStarvation` holds unless the running thread has lost its flag for ever.
- `RunsAgain` needs the bound on creations: threads that each create one at the end of the list and destroy
  their creator keep the processor from the threads before them.
- Calls through the handle of a deleted file are left to the callers' duty and excluded in `Fat32`.

## 4. Fairness

- `Mutex.FairSpec`: strong fairness of `timer_isr`. Interrupts are off while a plain lock
  is held, so weak fairness would never be owed; but the local APIC keeps a pending
  tick and delivers it as soon as the flag is set. The current thread's own steps are strongly fair:
  a thread that is scheduled again and again executes again and again, and a function comes to its unlock. Nothing is assumed of `Yield`. The test of a lock
  competes with the tick, hence strong rather than weak.
- `Thread.FairSpec`: strong fairness of `timer_isr` for the same reason, and weak fairness of `Progress`, the steps
  that continue a call that has begun. Whether a thread makes a call is its own business. The failing branches and the panic are
  not in `Progress`: they may happen, nothing says they must.
- `XhciRing.FairSpec`: weak fairness of the driver (one thread), of the controller
  (a device that completes what it is given) and of the handler.
- `Nvme.FairSpec`: weak fairness of fetching, of the completion of each fetched command
  and of the handler; strong fairness of each thread, since it only runs when the scheduler
  gives it the processor. `WaitReturns` therefore does not speak of a device that drops a
  command: the code has no timeout and would wait for ever.
- `Fat32.FairSpec`: weak fairness of `Step`, the continuation of the one call under way: a drive that answers,
  well or with an error.

## 5. What is proved

`SubsystemProofs`, from `SizesAssumption` and `NullAssumption` only:

- `TableCorrect`: `Spec => []TableInv`. `FreeXorNamed` alone is not inductive: the clearing
  of a page in `Stored` could wipe an entry in use, which is excluded only by
  `InUseUpToLast` (nothing beyond `lastEntry` is in use); and taking the top of the stack
  keeps the rest disjoint from the new identifier only by `FreeStackDistinct`. The
  conjunction of the three with `TypeOK` is inductive. `TakeTopKeepsTable` carries both
  allocation branches, `CommitAgrees` brings the growth to it, `FreeKeepsTable` is the free.
- `TypeCorrect`, `NoIdFreeTwice`, `FreeOrNamed` follow.
- `TableIsPool`: `Spec => ImplementsIdPool`. `Names` maps the committed entries to what
  identifiers name and leaves the others empty. Both allocations map to
  `IdPool!Acquire`, the free to `Release`, a refusal to a stutter.

`MutexProofs`, for every set of threads, every ring and every lock graph that satisfies
the assumptions of the module:

- `TypeCorrect`.
- `LocksCorrect`: `LockInv` is an invariant if no isr-safe lock is taken under an isr-safe
  lock (`IsrNotNested`). Mutual exclusion is not inductive: it holds since only the current
  thread is ever inside the lock functions (`OthersOutside`), which in turn needs that the
  holder of a lock keeps the processor (`HolderKeeps`), that the scheduler is halted only for
  an isr-safe lock that is held (`HaltedByIsr`), and that the flags that will be restored
  under an outer lock are "off" (`FlagsBelow`, `FlagsToRestore`).
- `LocksExclude` (`MutualExclusion`), `HoldersRun` (`OthersHoldNothing`: who does not run holds nothing),
  `SchedulerGoes` (`SchedulerResumed`) and `LoopsAreDead` (`NeverContended`: no lock is ever found taken, so
  that the spin and the panic after it are never reached) follow.
- `InterruptsRestored` (`FlagsRestored`), in the same graphs, those included that take a lock both at top level and under
  others: a thread outside the locks has interrupts on, unless it is in `lost`, and then they are off. `FlagsInv` follows the flag through every
  lock: the running thread has it before it takes its first lock (`FlagFound`), the lock's field has it while a thread waits between lines 22
  and 23 (`FlagSaved`), the outermost lock the thread holds keeps it until the restore (`FlagKept`), each time unless the thread is in `lost`; and a
  thread that does not run was switched away from with interrupts on (`ContextsOn`).
- `PlainHolders`: isr-safe locks may nest, as in the file system, but none is taken under a plain
  lock (`PlainNotOverIsr`): a thread that holds a plain lock is the one that runs. `PlainInv`
  restricts the argument of `LockInv` to the plain locks: whoever holds one has interrupts off,
  and the flags restored below it are off as well.

`IsrNotNested` is a hypothesis and not an assumption of the module, because the file
system does not satisfy it; `mutex_nested` shows what happens then, and `PlainHolders` what is left:
the heap and the identifier tables, whose locks are plain, remain safe. Elsewhere in the kernel isr-safe locks are taken under plain ones
(`xhci.c:1309` and `1314`); no graph of these runs has that, and `PlainHolders` does not speak of it.

`Fat32Proofs`, for a table of any number of whole sectors, any files and any number of calls, failing
accesses and stops, from `SizesAssumption` and `FilesAssumption`, on a partition that ends before the sector of the marks (`Outside`):

- `VolumeCorrect`: `Spec => []FatInv`. `CopyFollows` is kept by the write of the copy only if the buffer
  is the sector as the table now has it (`BufferInv`: from `Load` on it is the sector of the entry that the
  stage writes, with that entry changed, and after `WriteFat` the table has it). `CacheFollows` says nothing between
  the write of the table and the update of the cache, where the cached entry that is being written is the one
  that differs (`CacheInv`), and the sector that is read after `Label` has to be the one whose number was set (`LabelInv`). After the failing read at a mark the number is
  `Far` and the entries are old: the next read is never of that sector (`Fresh`), because a mark is only ever read next after the entry that holds it. That no other
  stage comes between these steps is `NoAccess`: a stage that reads and writes no entry finds the store at rest.
  `SectorArithmetic` is the division of the table into sectors.
- `TypeCorrect`, `CopyAgrees`, `CacheAgrees` follow.
- `FilesCorrect`: `Spec => []FilesInv`, for any number of files of any size, through any number of failing accesses and
  stops between any two accesses, until the cache goes stale, a file is scattered or a damaged one is used again: a
  call that is cut short leaves its own file damaged and every other whole (`FailLaid`, `StopLaid`, which hold because
  every stage keeps what it has allocated and not yet freed apart from the others). A file that is not damaged lies in one piece, chained entry by entry (`Resting`), and the pieces are apart
  (`Apart`). This alone is not inductive: the file of the call under way is what the stage of the call says
  (`Growing`, `Shrinking`, `Filling`, `Deleting`), its piece, with what was allocated to it, is apart from the others (`Clear`), and
  the cluster a search returns belongs to nobody, because the entries of a piece are never `FREE`. Links only lead
  upwards (`Ascends`), and searches begin behind the root directory (`Hint`).
- `FilesRead` (`FilesReadBack`) follows. The chain of the property is a recursive function: what it computes is
  proved by a least number at which it would differ from the piece (`LeastNumber`, `ReadsBack`), and not
  by induction over the file.
- `SearchGoesUp`: `SearchAscends`, the part of `CallEnds` that needs no fairness: the position of a search only grows.

`HeapProofs`, for any number of threads, classes, blocks and pages, from `HeapAssumption`: `HeapInv` says that only
the thread that turned interrupts off is inside an operation (`Alone`), that a class that was filled has one node, whose
stack repeats no block and holds only that class's blocks (`Chained`), that the block `kmalloc` has read is still on top
when it is popped (`Popping`), that the block `kfree` pushes is neither on the stack nor held (`Pushing`), and that
each block is on the stack, held or on its way back (`Placed`). Pushing does not overflow the node because a
stack without repetition of the blocks of one node is no longer than the node (`StackBound`, by the pigeonhole
principle). `TypeCorrect`, `BlocksCorrect` and `NodeCorrect` follow, and `BlocksGivenOnce` (`GivesUnheld`): the block
whose address `kmalloc` read is the one it takes off the stack, nobody holds it, and no other call changes the heap
between the two steps.

`XhciRingProofs`, for rings, event rings and batches of every size and any number of laps, from `RingAssumption` and the
hypothesis `PortAcks \subseteq {1}` of each theorem (with two acknowledgements the handler passes an event, which is the
hazard at `xhci.c:1182`):

- `RingCorrect`: `Spec => []RingInv`. The driver's index and cycle bit say what every entry's cycle bit is (`Written`);
  the controller is in the same lap, in the one before, or waits at the start of the next (`Lap`), and in each case the
  commands it has not taken are as many as the entries between the two. What was told is the last command of an
  earlier batch (`Batch`); the events between the handler and the controller belong, in order, to commands executed
  and not yet marked (`Reported`); the descriptors that are marked hold the command that used the entry last
  (`Noted`); and an interrupt is pending whenever an event is (`Pending`). None is inductive without the others: that a completion is
  marked in the right descriptor needs that the entry was not written again, which needs that the driver waited for
  the batch before, which needs what it was told.
- `TypeCorrect`, `WaitCorrect` and `HandlerHasEvent` follow.
- `RingIsQueue`: `Spec => ImplementsQueue`. `AllocWrite` is the post of the queue, `xhc_execute` its execution,
  `xhci_yield_until_cmd_complete` its answer; every other step is a stutter.
- `NoWaitIsLost`: `Spec => []WaitServed`, the part of `WaitReturns` that needs no fairness, for waits that did not race.
  On top of `RingInv`: a controller that was stopped before a batch stays so until the doorbell, and one that stops has
  taken all that was posted (`Running`, from `OwnedWhenBehind`); so nothing of the batch is executed while its
  descriptors are being cleared, and the awaited command, once executed, is marked or its event is still to be handled
  (`Answered`); and an event that is not handled keeps the interrupt up, although the handler dismisses the interrupt
  before it moves on (`Alive`).

`NvmeProofs`, for any number of threads, commands and entries of the two queues and requests of any length, from
`NvmeAssumption`:

- `HaltedForCommand`: `Spec => []RequestInv`, for every use of the drive, although two threads may hold the same lock. Who has
  halted the scheduler is about a command; and a request of one command keeps it halted from its lock to its completion, because the resume of another
  thread's unlock cannot come in between.
- All other theorems have the hypothesis `[]Orderly`: requests are of one command, or one thread at a time uses the drive (`OneUser`). It is a
  hypothesis and not an assumption of the module, because nothing in `drive.c` makes callers behave so; `nvme_split`
  shows what happens otherwise. The locks do not provide the second half: two threads may both find one free. Both halves say that one
  thread at most is about a command (`OneRequest`), the first because of the halted scheduler.
- `OneCommandAtATime`: `NvmeInv` is an invariant. The phase of a completion entry tells its lap (`Lapped`), and
  the last command is at one place of a `Pipeline`: `Written` into its entry, `Submitted` by the doorbell, `Fetched` by the
  device, `Completed` with its interrupt, or `Settled`, while all before it are done and told of (`Told`). Each stage fixes the indices of
  both sides, so that a step of one side leads from one stage to the next.
- `TypeCorrect`, `HandlerFindsCompletion` (`NoGhost`), `QueuesHoldOne` (`OneOutstanding`), `CompletionIsOwn` (`OwnCompletion`) follow.
- `NoWaitIsLost` (`WaitServed`): the part of `WaitReturns` that needs no fairness. A command somebody waits for is on its way
  to the handler, or it was told of and nobody else has halted the scheduler.
- `QueuesAreOneRing`: `ImplementsQueue`. Two queues and a device that completes in any order are the same `CommandQueue`
  that a ring of xHCI is.

`ThreadProofs`, for any number of blocks, from `BlocksAssumption`:

- `ThreadCorrect`: `Spec => []ThreadInv`. The list alone is not inductive: what a step does to it depends on where the
  running thread is in its call. `Runner` says that the running thread is in the list or is the one that has just left
  it and still follows its link, which leads into the list; `Subject` that the thread a call is about is linked or not as the
  stage of the call requires; `Others` that no other thread is inside the three functions, unless it waits for
  a lock that is never given back; `Lock` when the lock of `thread_destroy` is held, and `SafeStack` that only the running
  thread is on the safe stack. After a destruction has failed half way (`broken`) only the types and the list remain.
  The list is an `Order` of the threads in it: appending extends the order, and taking a thread out shifts
  what follows (`ListAppend`, `ListUnlink`).
- `TypeCorrect`, `ListCorrect` (`ListSound`), `ExitCorrect` (`ExitKeepsProcessor`) and `SwitchCorrect` (`SwitchedToReady`) follow.

`MemoryProofs`, for any number of pages, frames and entries of a table, from `MemoryAssumption` and `StackAssumption`.
The theorems are about `StackSpec`, the memory together with the stacks of threads:

- `StackCorrect`: `StackSpec => []StackInv`. The address space is used from the bottom, and the region of the operation under way
  is apart from all others (`Layout`); the pages of a region are mapped (`AllMapped`); how far `thread_create` or
  `thread_destroy` has come says what is mapped of the stack (`Stages`); until a `thread_create` fails, pages
  that own a frame own different ones, none of them free, and no free frame is on the stack of free frames twice
  (`Isolated`), where a page owns its frame unless it is a guard or the fault of the page before it has mapped it (`strays`); and the guards of stacks are
  mapped read-only unless they were mapped so (`Guarded`). `StackFits` says why a freeing cannot
  fail half way: a page that owns a frame means that a frame is in use, by the pigeonhole principle.
- `TypeCorrect`, `CountCorrect` (`FramesCounted`), `IsolationCorrect`
  (`FramesIsolated`), `RegionCorrect` (`RegionsSound`) and `GuardCorrect` (`StackGuarded`) follow.

**Only model-checked**: liveness (`NoStarvation`, `RunsAgain`, `CallEnds` and both `WaitReturns`), which needs
fairness and ENABLED; of `WaitReturns` the safety half is proved (`WaitServed`, in both modules), of `CallEnds` that searches go up. Every
other property of a passing run is stated by a theorem. What `Nvme` does with long requests of two threads is left to `nvme_split`.

## 6. What is not modelled

Drawing (console, fonts), parsing (ELF, ACPI, SMBIOS, GPT), the shader compiler,
strings, arithmetic and checksums: sequential code with no state between calls. Register
access of timers, interrupt controllers, serial port and PCIe configuration
space: pure I/O. Boot (`boot/`, `kernel.c`): a fixed sequence before any thread
exists. `components` in `PROJECT.json` has a line for each, and for those that are planned.

FluxFS and exFAT are unfinished in the source: `fluxfs_open` and `fluxfs_delete` have no body, and creating a file
allocates clusters that nothing refers to; exFAT has no writing. There is little yet whose order matters.

Within modelled components: `subsystem_deinit`; the boot-time set-up of the page
tables, the upper table levels and the identity map; raw frame allocation by drivers;
page protection changes; the halting of the scheduler in `Thread` (it is in `Mutex`) and the priorities of
threads, which nothing reads; xHCI enumeration (which waits inside the interrupt handler),
controller reset; NVMe admin commands, page lists, the lengths of requests and the `ret` of the interrupt; in FAT32 names and directories
(growing one, renaming), reading, and calls that overlap.

## 7. Plan

Done in this order: `Subsystem` (all registries rest on it), `Mutex` (all
critical sections rest on it), `Memory`, `Heap`, `XhciRing`, `Nvme`, `ThreadStack`, `Thread`, `Fat32`, the
proofs about the identifier tables, the locks, the volume, the heap, the rings, the queue pair, threads and memory,
the proofs about files, the refinement of `CommandQueue` by `Nvme`, and the safety halves of the waits. To come, most important first:

1. `Registry`: the drive, USB and PCIe driver lists with their failing paths, drives that
   name a driver, partitions and their bounds (`drive_register` does not set the identifier it is to return, so that
   `nvme.c` and `usb-bot.c` go on with one of another drive; `partition_read_sectors` tests only the first sector). Abstract specification: `IdPool` again.
2. `Files`: mounts and handles over `IdPool`; close, failing unmount with a lock held.
3. `Gpu`: the request queue (it can reuse the shape of `Nvme`) and objects over `IdPool`.
4. Pure operators: the number and the lengths of the commands of a split NVMe request and
   the index of an xHCI descriptor, each against a reference definition.
5. Two calls of the file system at once over `Fat32`, which `mutex_nested` shows to be possible.
