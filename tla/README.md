# RT-Thread sensor node: a TLA+ verification project

The repository is an application for an STM32F103 (Cortex-M3): the RT-Thread
kernel (`src/Source/RT-Thread`), device drivers (`src/Source/Dev`) and a small
application that samples light and temperature (`src/Source/Main`).  This
directory holds TLA+ modules translated from that code, TLC configurations that
check them on small instances, and proofs checked by TLAPS.

Paths below are relative to `src/Source`.  The configuration is the one of
`Main/rtconfig.h`: 32 priorities, a 1 ms tick, heap with the small-memory
manager, semaphores, mutexes, events, mailboxes and message queues, FinSH with
msh; no debug assertions, no hooks, no soft timers.  Four parts are modelled
that this configuration leaves out of the build although the repository holds
them: the history of the shell's line (`FINSH_USING_HISTORY`), memory pools
(`RT_USING_MEMPOOL`), memory heaps (`RT_USING_MEMHEAP`) and the slab allocator
(`RT_USING_SLAB`).

## The system

| Part | State it keeps | Operations | What makes it hard |
|---|---|---|---|
| Scheduler (`src/scheduler.c`, `src/irq.c`, `cortex-m3/context_rvds.S`) | ready lists and the bitmap of non-empty ones, `rt_current_thread`, lock nesting, the three words PendSV reads | `rt_schedule`, insert, remove, enter/exit critical | it runs from threads and handlers alike; the switch itself happens later, in PendSV |
| Threads (`src/thread.c`) | status, priority, slice, one list node, one timer per thread | create, startup, yield, sleep, suspend, resume, control, exit, delete, detach, time-out | several calls check first and disable interrupts afterwards; delete works in three sections |
| Idle thread (`src/idle.c`) | the list of dead threads | reaping | it frees the stack of a thread that has just been switched away from |
| Tick (`src/clock.c`) | tick count, remaining slice | `rt_tick_increase` | wrap-around; the slice is charged to the thread the kernel calls current |
| Timers (`src/timer.c`) | one list ordered by deadline | start, stop, control, check | wrap-around; callbacks run in the tick handler and restart timers |
| Semaphore, mutex, event, mailbox, message queue (`src/ipc.c`) | a value and one or two suspend lists each | take/send/recv, release, control, delete | blocking calls open interrupts between the check and the wait; time-outs race wake-ups; priority inheritance |
| Heap (`src/mem.c`) | blocks with boundary links, a lowest-free pointer, a semaphore | malloc, realloc, free | merging of free neighbours; the lowest-free pointer is a cache |
| Memory pool (`src/mempool.c`), memory heap (`src/memheap.c`) | free blocks, waiters and a count of them; items, a free list, a semaphore | alloc, free, delete; alloc, realloc, free | the count of waiters is kept beside their list; `realloc` gives the lock back in its middle |
| Slab allocator (`src/slab.c`) | runs of free pages, the use of every page, zones of chunks by class, spare zones, a semaphore | malloc, realloc, free | the semaphore is given back while pages are taken and returned; a pointer leads to its zone by the use of its page only |
| Object registry (`src/object.c`, the listings of `components/finsh/cmd.c`) | a list of objects per class | init, detach, allocate, delete, find, list | the type of an object and its place in the list change in two sections; a listing walks the list in batches and prints between them |
| Sensor acquisition (`Dev/ADCTimer.c`, `Dev/Adc.c`, `Main/Task.c`, `Main/Lock.c`, `Main/SensorMQ.c`, `Dev/Exti.c`, `Dev/FinSHcmd.c`) | the DMA buffer, the last samples, a mutex, a message queue | timer callback, `bright_thread`, `temper_thread`, key handlers, the weak-up command | the timer callback runs in the tick handler and takes the mutex; wake-ups go behind the back of the object a thread waits on |
| USART (`Dev/USart.c`, `Main/Task.c`) | receive buffer, position, semaphore | receive handler, `usart2_recv`, console | handler and thread share the buffer without a lock; the line end is a semaphore the handler releases |
| Shell (`components/finsh`) | the cells of a line, a cursor, a history | line editing, history, completion, command look-up | what was typed stays in the cells; completion measures the line by `strlen`, editing by counters |
| Console (`src/kservice.c`, `Dev/USart.c`) | one buffer for all of `rt_kprintf` | print | threads and handlers share the buffer without a lock; sending locks the scheduler only |
| Kernel service (the rest of `src/kservice.c`), CPU port (`cortex-m3/cpuport.c`) | errno; first stack frames | string and memory functions | nothing between threads |
| Set-aside sources (`bak/`) | a key scanner and its hardware timer | | not in the project file, and called by nothing |
| Device framework | | | compiled to nothing in this configuration, and used by nothing here |

How they interact.  Every kernel object uses the thread layer through
`rt_thread_suspend` (self) and `rt_thread_resume`, and the tick layer through
the `thread_timer` each thread owns; the scheduler is called at the end of
nearly every operation.  A thread has one list node, so the ready lists, the
suspend lists of all objects and the list of dead threads are disjoint by
construction only as long as everybody unlinks before inserting.  Handlers
(SysTick, EXTI15_10, USART2) call into the same code.  The application is three
threads, one hard timer and two handlers on top of the mutex `buffer_lock`
and the message queue `sensor_mq`.

What makes each part correct:

- Scheduler and threads: lists, statuses and bitmap agree; the most urgent
  ready thread runs; PendSV saves and loads the right threads; nobody who is
  suspended is forgotten; nothing freed is used; equals share the processor.
- Timers: the list is ordered by deadline across the wrap of the tick; a timer
  fires no earlier and not twice; a stopped timer does not fire.
- Semaphore and mutex: no lost unit, no lost wake-up, value and waiters exclude
  each other; at most one owner; an owner runs at the priority of its most
  urgent waiter, and returns to its own.
- Message queue and mailbox: a bounded FIFO; nothing lost, duplicated or
  reordered between senders, receivers, urgent messages and time-outs.
- Event: a waiter whose bits are there is woken, with the bits it asked for,
  and bits that are cleared go to one receiver.
- Deletion of an object: it leaves nobody suspended on memory it frees.
- Heaps and slab allocator: blocks or pages partition the arena, no two free neighbours,
  nothing handed out twice, the pointers to free blocks are right.
- Memory pool: a block is free or with one caller; the count of waiters is the
  length of their list.
- Object registry: the list of a class is sound at every interrupt, and a
  listing that met no object on its way in or out shows all of them.
- Shell: the line ends where its counters say, and behaves as an editable text
  with a history.
- Sensor application: the buffer is read by the owner of the lock only, the
  lock is passed on by its owner only, the temperature printed beside a
  brightness was received in the same round, no thread sleeps for good, every
  line end is handled.

## Modules

`ThreadQueues` – the values and routines every kernel module shares: the ready
lists, the bitmap, the suspend lists, the list of dead threads, status and
priority of every thread, as one record `q` in `Queues`, and the routines that
change them as operators on it (`InsertThread` is `rt_schedule_insert_thread`,
`RemoveThread` is `rt_schedule_remove_thread`, `Unlinked` is `rt_list_remove` of
the thread's node, `Suspended`, `Resumed` and `Reprioritised` are the sections
of `rt_thread_suspend`, `rt_thread_resume` and `rt_thread_control`, `WaitFifo`
and `WaitPrio` are `rt_ipc_list_suspend`).  An interrupt-free section that calls
several of them is their composition.

`Scheduler` – threads, interrupts and the context switch.  A step is the code
between two points at which interrupts are enabled, so that every interleaving
the hardware allows is a behaviour.  `sw.current` is `rt_current_thread`;
`sw.cpu` is the thread whose registers are on the processor, which changes only
in `PendSV`; `sw.from`, `sw.to`, `sw.flag` are the words of `context_rvds.S`.
`pc[t]` says where in the kernel a thread was when it was preempted, `arg[t]`
which thread its call is about; `isr` says where the tick handler is.  What the
application does is a choice among the calls the constant `Calls` allows it.
Other kernel objects appear only as suspend lists (`Block`, `Release`,
`IsrRelease`) and timers only as the set `armed` of running thread timers, any
of which may have expired at a tick.

`Mutex` – `rt_mutex_take` and `rt_mutex_release` on `ThreadQueues`, with
priority inheritance.  A step is an interrupt-free section with the
`rt_schedule` behind it: what `Scheduler` shows of context switches lets one
variable, `current`, stand for the running thread.  `owner`, `value`, `hold` and
`orig` are the fields of `struct rt_mutex`; `want` and `err` say where a waiting
thread is, and `took` counts the takes that returned `RT_EOK` to it.  `Timeout`
is `rt_thread_timeout`, `Delay` any other call in which a thread waits,
`SliceEnds` the round robin of the tick.

`MessageQueue`, `Mailbox` – the two channels of `ipc.c`, and `Channel`, the
bounded FIFO both promise and are shown to implement.  A message node or a slot
of the ring is a variable of its own with the list pointers of the code; a
process (a thread, or a handler whose calls run to their end) is at a `pc`
between two interrupt-free sections.  `rt_mq_send` fills its node with
interrupts enabled and `rt_mq_recv` copies it out likewise: these are the steps
`Fill`, `Copy` and `PutBack`.  `Semaphore` – the calls of a semaphore, each of
which is one section.  In these three any thread that is not suspended may take
the next step: more behaviours than the priorities allow, so what is shown
holds under any priorities.

`Timer` – hard timers and the tick.  `rt_timer_start` and `rt_timer_stop` are
three steps each, with the tick handler between any two; the handler itself runs
with interrupts off and may, in a time-out function, stop and start timers
(`Callback`).  Ticks wrap at `Width`.  `Alarms` is what timers promise in true
time, without ticks that wrap and without sections: an alarm rings in the first
tick handler that finds its time over.

`Event`, `MemoryPool` – the other two objects of the kernel a thread can wait
for, with the walk of `rt_event_send`, which serves waiters as it goes, and with
the loop of `rt_mp_alloc`, which looks again after every wake-up.

Deletion is part of the modules of all six objects: `DeleteCheck` is the look at
the list that `rt_ipc_list_resume_all` and `rt_mp_delete` take with interrupts
enabled, `DeleteTake` the section that wakes the first waiter, and `phase` (in
`Mutex` `life`) tells how far the deletion is.  Between the two a time-out or a
handler may empty the list; the code then takes the list head for a thread
(`phase` is "wild"), after which nothing is modelled.  `rt_..._detach` does what
`rt_..._delete` does but for the memory.

`Heap` – the small-memory manager.  `mem` maps the offset of a block to its
header; the work between taking and releasing `heap_sem` is one step, and
`rt_realloc` is the three steps it gives the semaphore back between.  `held` is
what callers rely on: their pointers and the sizes they asked for.  `MemHeap`
is the same for `memheap.c`, with its ring of items and its free list; the size
left is read before the lock is taken, as in the code.

`Slab` – the slab allocator.  `runs` is the list of `rt_page_alloc` and
`rt_page_free`, `usage` is `memusage`, `zones` the headers of the zones in use,
`avail` is `zone_array` and `spare` `zone_free`.  A request is the class
`zoneindex` finds for its size, or a number of pages.  What `rt_malloc` and
`rt_free` do with `heap_sem` taken is a step, and so are the takes and returns
of pages between.

`Objects` – a class of objects.  `Type`, `Link`, `Untype`, `Unlink` and their
kind are the sections of `rt_object_init`, `rt_object_allocate`,
`rt_object_detach` and `rt_object_delete`; `lister` is a thread inside a listing
of `cmd.c`, which collects `Batch` objects with interrupts off, copies and
prints each, and goes on from the last one it has.

`Shell` – the input line, a step for each byte.  `line` is all the cells of the
array, since what lies behind the text decides what `strlen` sees.
`LineEditor` is what the user of a line is promised: text, cursor and history
without cells.

`Console` – `rt_kprintf`.  `log` is its buffer, `print` the calls in progress.
A character that `rt_vsnprintf` puts into the buffer is a step; a character that
`rt_hw_console_output` sends is two, the test for the end and the read for
sending.  Handlers interrupt threads and less urgent handlers anywhere; threads
are switched anywhere but while one is sending.  `alone` and `sent` are history:
whether somebody else wrote the buffer since the call began, and what it sent.

`SensorApp` – the application on the kernel.  `k` is a record of the thread
lists (the same `ThreadQueues`), `rt_current_thread`, the fields of
`buffer_lock`, the error and the timer of each thread; `pc` is where each of the
five threads is in `Task.c`, `late` who has enabled interrupts and not called
`rt_schedule` yet.  `SensorTimer` is `sensor_start_convert_entry`, executed in
the tick handler as whatever thread `rt_current_thread` names; `Key`, `Line` and
`Command` are the EXTI handler, the line end of USART2 and the wake-up command;
`ThreadTimer` is `rt_thread_timeout`, also of timers that the wake-up command
started under a thread that waits for something else or does not wait at all.

`Ipc` and `Services` put several modules side by side: the first extends
`Semaphore`, the second `Timer`, whose properties hold as they stand; the others
are instances on variables of their own.  A state has one `part`, and a property
is the property of each part by case.  `Heaps` is the same for the three
allocators, and `Services` extends it.  `MC...` – instances for TLC, which give
constants their values and add what only a run needs.

`ThreadQueuesProofs`, `SchedulerProofs`, `MutexProofs`, `IpcProofs`, `MailboxProofs`,
`ServicesProofs`, `HeapProofs`, `SensorAppProofs` – theorems.  `IpcProofs` is about
the objects of `Ipc`, with those of the mailbox in a module of their own.
`HeapProofs` is about the three allocators of `Heaps`; `ServicesProofs` extends it
and is about the rest of `Services`, and all of it together.

## What is checked

| Run | Instance | What it shows |
|---|---|---|
| `sched_everyday` | main, two threads and idle on three priorities, one suspend list | under the calls applications and IPC code make, lists, bitmap, statuses, switch words, timers and freed stacks agree at every step, the most urgent thread runs whenever the scheduler is unlocked, and equals pass each other only by yielding or using their slice up |
| `sched_manage` | the same threads, of which main suspends, resumes, re-prioritises, deletes and detaches the others | out of step is only the thread that a call in progress holds; `rt_schedule` always finds a thread |
| `sched_share` | three busy threads of one priority | each gets the processor again and again, although one keeps locking the scheduler |
| `sched_delete_race` | main deletes a thread that sleeps | the tick between the sections of `rt_thread_delete` puts the thread back: expected to fail, see Findings |
| `mutex_one` | three threads of different priority and idle, one mutex, takes nested twice | ownership as callers see it is ownership as the mutex records it; no lost wake-up; the owner is as urgent as its waiters and gets its own priority back; the single case in which a more urgent thread is left ready; and the most urgent thread gets the mutex although others may compute forever; all this with deletion at any time |
| `mutex_nested` | two threads, two mutexes, any order of release | the owner keeps an inherited priority: expected to fail, see Findings |
| `ipc_objects` | a message queue of two nodes and a mailbox of two words, each with two threads and a handler; a semaphore with three threads, one more urgent, and a count that wraps at 4; an event of three bits with two threads; a pool of two blocks with three threads; all with deletion | nodes, blocks and units are in one place each, also while a call works with interrupts enabled; nobody sleeps beside what he waits for unless it is meant for one already woken; waiters of a semaphore and an event are served in order and told the truth; queue and mailbox implement `Channel`; a deletion leaves nobody behind but who came back meanwhile |
| `kernel_services` | three timers with ticks that wrap at 12; arenas of 21 and 30 words and six pages, each with two threads in the calls; three objects, listed two at a time; a line of four cells with a history of one; two threads and two handlers that print | the timer list is in order across the wrap and timers implement `Alarms`; headers tile the arenas, runs and zones tile the pages, free neighbours are joined, each block has one owner with the room it counts on; a listing is complete unless it met an object on its way in or out; the line implements `LineEditor`; a text printed by one caller at a time is printed as it is, all output ends |
| `heap_lowest` | the arena of 21 words | a free block below `lfree`: expected to fail, see Findings |
| `pool_pended` | the pool | the count of waiters is not their number: expected to fail, see Findings |
| `sensor_app` | the five threads of the application, in three scenarios: conversions with the key, with the wake-up command, with line ends and with conversions that find the lock taken | lists, lock and waits stay sound; the buffer is read under the lock, the lock passed on by its owner, the temperature printed beside a brightness was received in the same round (when it was measured is not said); every line end is handled |
| `sensor_dma` | a conversion that takes its time | it writes a buffer that is being read: expected to fail, see Findings |

Every property is paired with a mutation of the code under which TLC finds it
violated; the mutated operators stand before the operators they mutate.

### Bounds

Scheduler: four threads and three priorities give an equal pair, a more urgent
and a less urgent thread; two ticks per slice distinguish a slice in progress
from one that ends; nesting of one is enough for "locked" and for one exit too
many.  One suspend list shows all interleavings of waiters, since the routines
never touch two lists.

Mutex: an owner, a waiter and a thread between them are what inversion takes;
`MaxHold` = 2 (`mutex_one`) tells an inner release from the last one.
Channels: with two nodes or words the object can be empty, partly full and full,
and two threads and a handler can all be inside a call; two values tell order
apart.  Semaphore: `Width` = 4 stands for 2^16 and `MaxBalance` = 5 lets the
count pass it.  Event: with three bits a request can be met in part, and two
waiters can want overlapping sets.  Memory pool: two blocks and three threads let
one wait while another is on its way to a block; `MaxPended` = 4 lets the count
of waiters pass the number of threads.

Timer: `Width` = 12 leaves `Half` = 5 for the comparison, just above
`Longest + MaxStall + 1` = 4, which is what the order of the list needs: a
deadline may be `MaxStall` ticks past when it is linked, one more when the
handler reaches it, while another lies `Longest` ahead.  The code asserts only
that the time itself is below `RT_TICK_MAX / 2`.  The view of `kernel_services`
hides the deadlines of timers that are not linked nor about to be: no step and no
property reads them.  Heap: 21 words hold four blocks of the least size, in
the proportion of header and least block the code has (12 bytes each), so that
splitting, near fits and joins on either side all occur; 30 words hold four
items of a memory heap and the tailer.  Slab: six pages are three zones of two
pages, or runs that large requests of three have to find; two chunks in a zone,
on different pages, tell a zone that is full, in part free and whole (the code's
hold three or more), and a threshold of one spare zone instead of two makes the
third give its pages back.  Objects: three control blocks, one of
them static, and batches of two make a listing take a second batch and let a
block be freed and used again under it.  Shell: four cells hold a text of three
bytes, so that a name can be completed, a line be full and a text be edited in
its middle; a history of one shifts at the second command.  Console: a buffer of
four characters holds a text of two and the byte that stays '\0'; a text of one
fits and one of four does not.

Sensor application: threads, priorities and objects are those of the code; one
untaken line end (`MaxUnits`) is enough for the handler to come again before the
thread is back.  A run ends when a list is broken or a thread keeps the lock for
good, and, but for the third scenario, when a conversion found the lock taken:
what follows then is in the observations below.  The scenarios divide the events
because all of them together are beyond TLC; the theorems below hold for any.

Everything else is unbounded in the model and finite by itself.

### Fairness

`Scheduler!FairSpec`, for `TimeShared`.  The tick keeps coming and its
handler ends; PendSV, the lowest exception, is taken when no handler runs
(strong fairness, since handlers disable it again and again); a thread that has
the processor executes its kernel code to its end and leaves a section it
locked the scheduler for.  A tick is longer than its handler and the switch it
pends, so the next one finds PendSV taken: without that, a tick could forever
arrive between PendSV being pended and taken, and charge time to a thread that
never ran.

`Mutex!FairSpec`, for `WaiterServed`.  Thread timers expire; a thread that gets
the processor again and again ends the kernel code it is in and, if it owns a
mutex, makes the releases it owes, the last one included (strong fairness,
since others preempt it in between).  No thread is assumed to wait, to yield or
to end a computation otherwise.

`SensorApp!FairSpec`, for `LineHandled`.  The thread the kernel has chosen goes
on with its code (weak fairness of `ThreadStep(k.current)`); no event, no tick
and no time-out has to come.  The receiving thread has the highest priority, and
whoever delays it by printing, which locks the scheduler, comes to the end of it.

All other properties are safety properties and need none.

## What is proved

All theorems hold for any number of threads, priorities, slices and objects.

`ThreadQueuesProofs` proves what each list routine does to a sound set of
queues (`InsertLemma`, `UnlinkedSound`, `WakeLemma`, `RemoveLemma`,
`SuspendLemma`, `WaitFifoLemma`, `DefunctLemma`, `RelabelLemma`): it stays
sound, and only the thread the routine is about changes its place.

`SchedulerProofs!SwitchSafety`: `Spec => []SwitchSound`, with no assumption on
what is called.  The invariant is `SwitchSound` with the fact that `sw` is a
record of the five words; every path that switches goes through `rt_schedule`
(`RescheduleKeepsWords`), and only PendSV changes the processor.

`ListsSafety` (`ListsAgree`), `PriorityRuns` (`HighestRuns`), `TimeoutSafety`
(`TimeoutFindsSuspended`), `WakeUpSafety` (`NoThreadLost`), `ReapSafety`
(`FreedUnused`), `TypeSafety` (`TypeOK`, `SomeoneRuns`) and `FifoOrder`
(`FifoAmongEquals`) assume `EverydayUse`: no call that suspends, resumes, deletes or
re-prioritises another thread.  The assumption is necessary: between the
sections of those calls the lists really disagree, which is what `sched_manage`
checks instead.  They rest on one inductive invariant, `QueuesInv`.  None of the
properties is inductive alone: that the lists stay sound when the tick wakes a
thread needs that an active timer belongs to a suspended thread
(`TimeoutFindsSuspended`), which in turn needs that a thread that is about to
wait still runs (`CurrentSound`); that `rt_schedule` finds a thread needs the
idle thread on its list (`IdleReady`); that a freed stack is unused needs that
a thread once dead is named by no switch word (`FreedSound`, with `SwitchInv`);
`Scheduled` says in which states between two sections the current thread may
not be the most urgent one, and `HeldAlone` which thread a call in progress
holds outside of every list.  `QueuesInvariant` proves it, one step per action
and one below it per conjunct.  For `FifoOrder` each
step is shown to move at most one thread, which comes from no ready list, goes to
none, or is the current one giving way: it yields, or the tick ends its slice
(`Yields`, `UsedUp`).  Nobody else changes his place, and `UsedUpFallsBehind`
shows that the tick which ends the slice puts its thread behind all its equals.

`ManagedLists` (`ListsAgreeButHeld`) and `ManagedRuns` (`SomeoneRuns`) are about
the calls `EverydayUse` leaves out.  They assume `ManagedUse`: the main thread
alone makes them; nobody exits, and the threads it manages start no timer; it
does not lock the scheduler and is no argument of its own calls but
`rt_thread_suspend`.  Each part is needed.  A thread that exits, or whose timer
expires, between two sections of a call about it is linked twice or dead on a
ready list (`sched_delete_race`), and with the scheduler locked a thread that became
ready and more urgent than the main thread would not run: `rt_thread_resume` then
empties its list and the bit of the highest priority stays set until it is back.
`Whole(q, Hand, Stale)` says of the lists that they would be sound if the thread in
hand were one that was never started and the bits in `Stale` were not set.  Each routine
of `ThreadQueues` keeps that for every other thread, since it does to the lists
what it does to the sound ones (`WholeWake`, `WholeSuspend`, `WholeWait`,
`WholeRotate`, `WholeReap`); `TakeUnlink`, `TakeRemove` and `TakeNew` take a thread in
hand, `GiveBack` and `CloseHeld` end it.  That `rt_schedule` finds a thread while a
bit is stale needs `InHand`: the main thread is ready and at least as urgent as
that bit, or it would have been preempted (`ManagedNext`).  `AsideKeeps` shows that no
other thread and no handler disturbs what a call in progress relies on.

`SensorAppProofs` proves of the application, for any set of scenarios and any
number of line ends: `TypeSafety` (`TypeOK`), `Exclusion` (`Exclusive`),
`PairsReceived` (`PairReceived`) and `Ownership` (`OwnerReleases`).  Threads and
objects are those of the code (`SensorAssumption`).  The inductive invariant
`Inv` holds, whatever happens, that values have their types, that the fields of
the mutex agree with each other (`Lock`), that each thread is somewhere in its
own code (`Placed`) and that no thread which prints still has to call
`rt_schedule` (`Quiet`).  Until a conversion has found the lock taken it adds
three parts.  `Claimed`: a sensor thread that waits for the lock is on its
suspend list or has been given it, unless its timer ended the wait; without that
nothing follows about a thread that comes back from the wait and reads.
`Attended`: a thread on that list which still runs is about to call
`rt_schedule`; without that the ADC timer's function might take the lock as a
thread that waits for it.  `Excused`: a wait for a message fails, and an old
temperature is printed, only after the light thread's own timer ended the wait.
That the lists are sound is not part of it: the wake-up command lets a timer
expire whatever its thread does, which leaves statuses that fit no list, and the
guards say only that no list is corrupt.  The lemmas of `ThreadQueuesProofs`
that assume no more than types (`ResumeOnly`, `NextOnly` and their kind) carry
these proofs.  `InvKept` has one step per action.

`SoundUntilContended` (`SoundUnlessContended`) is about the time before a conversion
has found the lock taken.  Then more is invariant (`Ordered`), and `OrderKept` shows
it, on top of `Inv`, step by step.  `Sane`: the lists are sound, the idle thread is
ready, a suspended thread has a timer or a list.  `Running`: the thread that runs is
ready, or in front of its `rt_schedule`; with it a restarted timer of the running
thread finds a status it may requeue.  `Ranked`: only the temperature thread is ever
above its own priority, as the owner, and only while the light thread waits for
the lock or had that wait cut short; the property itself says nothing of
priorities, but without this part the most urgent thread could change when the
owner releases.  `Foremost`: who runs is the most urgent, unless it prints, is late
or has given back the priority of a waiter that its timer took away.  `Holds` and
`Waits`: the owner has taken the lock once and is in its section or about to learn
that it was handed the lock, and who is on the suspend list is inside a take, so that a
hand-over always meets a thread that will release.  The lemmas follow the kernel's
routines (`ScheduledSane`, `WokenSane`, `ExpiredSane`, `BlockedSane`, `PassesSane`), then
four kinds of steps (`StayOrderly`, `MoveOrderly`, `RousedOrderly`, `RestedOrderly`) into which all
actions but take and release fall.

`MutexProofs` proves, for any number of threads, priorities and mutexes, taken
nested by anybody: `Exclusion` (`OwnerAgrees`), `NoLostWakeUp`
(`FreeWithoutWaiters`) and `LateRunner` (`LateOnlyAfterRestore`).  `OwnerAgrees`
is not inductive, since a waiter is made the owner by the release, or told of its
time-out, long before its take returns.  `Counts` therefore counts as taken what
a thread was handed and does not know of yet, `WaitersWait` says that whoever is
inside a take and was not handed anything is suspended on that mutex or on its way
out with an error, and `Lists` that the suspend lists are sound, so that the
waiter a release picks is the one it hands the mutex to.  `OwnerInherits`
(`Inherits`) and `OwnerRestored` (`RestoredAll`) assume `SingleMutex`: one mutex
with waiters queued by priority, as `Lock.c` makes.  With several the second is
false (`mutex_nested`).  Their invariant `SingleInv` adds that the list is
sorted by priority, so that its head decides what the owner inherits
(`Sorted`), and that `original_priority` is the priority the owner was made with
while it owns (`Original`).

`IpcProofs` proves the properties of the objects side by side, each from the
invariant of its object (`PartInv`): `FieldsHold` (`FieldsAgree`), `NobodyStrands`
(`NobodyStranded`), `DeletionLeaves` (`DeletedLeft`), `HandsOut` (`BitsHandedOut`),
`BothAreFifo` (`ImplementsFifo`), and of the semaphore `NoUnitLost` (`UnitsKept`),
`DeletedEmpty` (`NobodyLeft`) and `InTurn` (`FirstServed`).

- Semaphore, for any width of the count (`Inv`).  The units that callers may
  still take are the count plus what woken waiters were given; `Owed` says so up to
  a multiple of the width, since the count wraps without a check, and
  `WaitersInside` that whoever is on the list is inside a take, once, with a count
  of zero.
- Event (`FlagsInv`).  Nobody on the list is satisfied by the bits that are set, and
  whoever is there is inside a receive and asks for something.  `rt_event_send`
  walks the list and changes the bits as it goes; `Walked` says of the walk, after
  any number of threads, that who was left behind is not satisfied by what is left,
  and that who was woken has the bits he asked for and shares none that are
  cleared.  The walk is a fold over the list, so that a lemma on one step of it and
  the library's facts about finite sets carry it, without induction over data.
- Memory pool (`PoolInv`).  Each block is on the list or given, once; while
  somebody waits, no more blocks are free than woken threads are on their way to;
  who is on the list after the last look of `rt_mp_delete` had been woken before.
- Message queue (`QueueInv`).  The nodes of the queue are reached by `next` from
  `head`, and so are the free ones, which no set of nodes describes: the invariant
  says that there are two sequences `q` and `f` of nodes, linked in their order,
  without a node in common or twice, to which every node belongs that is not in the
  hands of a call between two sections, and that `tail` is the last of `q` and
  `entry` its length.  Each section has a lemma that names the next `q` and
  `f`.  `AtHand` says what a process carries at each `pc`.  In the refinement of
  `Channel` the sequence is that of the values in `q`.
- Mailbox: `MailboxProofs`, under the names of `Ipc` (`BoxProofs`).

`MailboxProofs` proves `BoundedFifo` (`ImplementsFifo`, the refinement of
`Channel`), `NoLostWakeUp` (`NobodyForgotten`) and `DeletedLeaves` (`NobodyLeft`).
Of the invariant, `Ring` ties both offsets to the number of mails however they
wrap, `Calling` says what a process between two sections carries, `Suspends` who
is on which suspend list, `Forgotten` that while somebody waits on a side there is
no more for it than its woken threads take, and `Swept` how far a deletion is.  A
call's first section maps to `Offer`, `Put` to `Put`, `Get` and `GetReturn` to
`Get` and `Return`, a refusal, time-out or deletion of a sender to `Refuse`,
`Reset` to `Clear`; whatever else happens is a stutter.

`ServicesProofs` proves of the timers `OrderOfTheList` (`ListOrdered`), `FlagOfTheList`
(`FlagTellsLinked`), `EqualsInOrder` (`EqualDeadlinesInOrder`) and
`TimersAreAlarms` (`ImplementsAlarms`), and of all services side by side the same as
`TimersOrdered`, `TimersFlagged`, `TimersEqual` and `TimersRing`, for any number of timers and width of the
tick that leaves `Half` at least `Longest + MaxStall + 1`.  Deadlines are compared as the code
compares them, by a difference that wraps; `Off` is the distance from now, and a
deadline that is linked or about to be is at most `Longest` ahead and `MaxStall + 1`
past (`Near`, `NotLate`), where the comparison orders deadlines as their
distances do (`OffsetLemma`).  `LinkedWhen` and `FiringUnlinked` say who is off
the list: without them the sections of start, stop and the handler could link a
timer twice.  In the refinement the sections that unlink are `Cancel`, the
computation of the deadline is `Set`, linking is `Arm`, the handler's taking of a
timer is `Ring`.

Its other theorems are about the parts beside the timers, each from an
invariant of its own; `PartInv` holds them together.

- `ListingsComplete` (`ListingComplete`), for any objects, batch size and number of
  threads.  `UsesAgree` ties the type an object has to where it is in its life.
  `Course` says what a listing that met nothing on its way relies on: the object
  it goes on from is still linked, and the objects that stayed linked from its
  beginning are ahead of it in the list (`Beyond`) unless it has shown them or has
  them in its batch.  Objects that come are put in front, objects that go leave the
  order of the others alone (`BeyondLinked` and its kind).
- `LinesEnd` (`LineEnds`) and `LineIsEditor` (`ImplementsEditor`), for any keys, line
  length, history and commands.  The property says that the cell behind the text
  ends it, which is not inductive: erasing a byte moves the cells behind the cursor
  by one, and recalling a line of the history copies over another.  `LineInv`
  therefore says that *all* cells behind the text are clear unless the last one is
  in use, that is, a line was given up when it was full.  Each way the code moves
  cells has a lemma about the text it leaves (`Cut`), and each byte is a step of
  `LineEditor` or none.
- `OutputPrinted` (`Printed`), for any threads, handlers, texts and size of the
  buffer.  What carries it is that no text reaches the last cell of the buffer, so
  that it stays NUL and ends every output, however the text before it changes; and
  that the lock nesting counts who is sending.
- `BlocksTile` (`Tiled`), `BlocksOwnedOnce` (`OwnedOnce`), `HeapsRecover` (`Recovered`)
  and `LossesByShrinking` (`LostOnlyByShrinking`), of the three allocators, from the
  invariants of `HeapProofs`.

`HeapProofs` proves about the heap of `mem.c`, for any arena, block sizes and
number of threads: `HeapTiled`, `HeapFreeSound`, `HeapOwnedOnce`, `HeapRecovered` and
`HeapHidesOnlyByShrinking` (`Tiled`, `FreeSound`, `OwnedOnce`, `Recovered` and
`LostOnlyByShrinking` of `Heap`).  The headers are a chain (`Chain`) that joining
two neighbours and splitting a block keep (`JoinedLemma`, `SplitLemma`);
`plug_holes` may find free blocks on both sides of the one it is called for and
nowhere else (`ApartBut`), leaves none and touches no used block
(`PlugHolesLemma`, `Keeps`).  The invariant adds that pointers and used blocks
correspond (`Owned`), that a pointer which `rt_realloc` moves is in no other
thread's hands (`Calls`), without which its last `rt_free` could hit a block that
was given to somebody else, and that `lfree` is not `heap_end` when nothing is in
use (`Idle`), without which a heap that was freed whole could be unusable.

About `memheap.c` it proves `ItemsTile` and `ItemsHaveOwners` (`Tiled` and `OwnedOnce`
of `MemHeap`), for any pool, sizes and number of threads.  The headers are a ring
(`Ring`).  `Listed` ties the rest to it: the free list has every free item once and
`available` is the sum of their rooms (`Total`), which needs sums over finite sets
that gain and lose an element (`TotalAdd`, `JoinTotal`, `SplitTotal`, `FlipTotal`) and
a bound for them (`TotalBound`), or the type of the counter does not hold.  A call
is a chain of small operations, each with a lemma (`JoinItemLemma`,
`SplitItemLemma`, `FlipLemma`) about the ring it leaves; in the middle of one, two
neighbours may be free at one place only (`ApartAfter`).  `ItemInv` adds that used
items and pointers correspond (`OwnedItems`) and that no two calls in progress
work on the same pointer (`ItemCalls`).

About `slab.c` it proves `PagesTile`, `ChunksHaveOwners` and `PagesRecover` (`Tiled`,
`OwnedOnce` and `Recovered` of `Slab`), for any number of pages, zone size, classes,
chunks per zone, threshold and number of threads in the middle of a call.
`Divided` says that every page is in exactly one of the runs, zones in use, spare
zones, large blocks and runs that a call has in its hands.  A step hands pages
from some of these to others of the same span (`Redivided`), which is all that has
to be shown for the division to stay.  `rt_page_free` puts a run in its place and
joins it on either side; `ReturnedLemma` says that the list stays sorted, with a
gap between any two runs, and that only the neighbours of the run change.
`Leads` is what `rt_free` relies on: the pages of a zone, also of a spare one, lead
to it.  `Zoned` says of each zone which of its chunks were never given, are free
or given, that a class has its zones with free chunks on its list once each, and
at most one zone that is wholly free, which is what `PagesRecover` rests on:
`rt_free` keeps a zone that is wholly free only where it is alone on that list.  `CallsOk` says
what the calls in progress carry, and that no two free the same block.

Only model-checked, and why:

- the liveness properties `WaiterServed`, `TimeShared` and `LineHandled`: fairness is
  out of the prover's reach;
- `Inherits` and `RestoredAll` with several mutexes: false in the code, where the
  runs show one mutex or the violation.

Every other property of a passing run is a theorem.

## Findings

`rt_thread_delete` (`RT-Thread/src/thread.c:407`) takes the thread off its list,
stops its timer and closes it in three separate sections.  A tick between the
first two that finds the timer expired calls `rt_thread_timeout`, which puts the
thread on its ready list; the third section then links the same node into the
list of dead threads.  The comment at `thread.c:399` promises that the thread is
removed from its queue (`sched_delete_race`).

`rt_mutex_take` (`ipc.c:697`) saves the current priority, which may be one
inherited through another mutex, as `original_priority`, and the release at
`ipc.c:831` sets the owner to it: a thread that releases two mutexes in the order
it took them can end up with nothing owned and a priority it was lent
(`mutex_nested`).

`rt_realloc` (`mem.c:458`) frees the end of a block without lowering `lfree`,
"pointer to the lowest free block" (`mem.c:118`).  When that end lies below
`lfree`, `rt_malloc` does not see it (`heap_lowest`) until a block below it is
freed; `LostOnlyByShrinking` and `Recovered` show that no other call does this
and that the loss is not permanent.

`rt_mp_alloc` (`mempool.c:337`) counts a waiter in `suspend_thread_count`,
"numbers of thread pended on this resource" (`include/rtdef.h:764`); a time-out
takes the thread off the list and nobody corrects the count.  The next
`rt_mp_free` (`mempool.c:421`) finds it above 0 and resumes the head of an empty
list (`pool_pended`).

`sensor_start_convert_entry` (`Dev/ADCTimer.c:43`) takes `buffer_lock` so that a
conversion and a read of the buffer exclude each other, and waits for the DMA
transfer flag before it releases it.  Nothing clears that flag, so from the
second conversion on the wait ends at once, and the DMA controller writes the
buffer while a thread reads it as the owner of the lock (`sensor_dma`).

More observations.  Only the first goes against a comment.

- `ipc.c:657` says of `rt_mutex_take` that it "must not be used in interrupt even
  if time = 0"; the assertion behind it is compiled out.  The time-out functions
  run in the tick handler here, and the one of `sensor_timer` (`Dev/ADCTimer.c:43`)
  takes `buffer_lock`.  While it finds the lock free it owns it as the thread it
  interrupted; `SensorApp` follows it that far and, where the handler meets a
  lock that is taken, says only what is still true after it.
- `rt_kprintf` (`src/kservice.c:1195`) formats before it locks the scheduler, and
  locks nothing against handlers that print: a thread that is interrupted or
  switched away from while it prints sends somebody else's text, or the end of
  one.  `Printed` says what is left: who is alone prints his text, output ends
  inside the buffer, and threads do not send at the same time.
- The ADC timer's function runs in the tick handler.  When it finds
  `buffer_lock` taken by another thread than the one interrupted, it suspends
  the interrupted thread, which had nothing to do with the lock, calls
  `rt_schedule` and goes on as if it had the lock: it releases it as whichever
  thread is current by then.  `contended` marks this; a thread can then own the
  lock for good (`Kept`), or a list be broken (`Broken`).
- The wake-up command and the key restart thread timers whatever the thread waits
  for (`Dev/FinSHcmd.c:8`).  The results of `rt_mutex_take` and `rt_mq_recv` are
  not looked at (`Main/Task.c:145`), so a wait cut short lets a thread read
  without the lock or print an old temperature: the exceptions `cut` makes in
  `Exclusive` and `PairReceived`.
- `usart2_recv` reads and clears the variables of USART1, which no handler fills,
  and `g_USART2_RecPos` is never set back (`Dev/USart.c:213`).
- A release that wakes nobody and takes an inherited priority back (the waiter
  timed out) does not call `rt_schedule`, so a more urgent ready thread waits for
  the next reschedule (`LateOnlyAfterRestore`).  `rt_mutex_delete` wakes waiters
  without a reschedule, too, and leaves the owner the priority it inherited.
- `rt_ipc_list_resume_all` and `rt_mp_delete` look at the list with interrupts
  enabled (`ipc.c:159`, `mempool.c:261`): a time-out in between leaves them with
  the head of an empty list.  A receiver, sender or allocator that was woken
  before may find nothing and wait again on a list the deletion has already
  emptied; it is the exception `again` of `DeletedLeft`.
- `rt_mutex_take` may wait inside `rt_enter_critical` (`ipc.c:751`): `rt_schedule`
  then returns at once and the call goes on with what it finds.
- A listing (`components/finsh/cmd.c:115`) can stop early or show an object of
  another life when the object it goes on from was detached or its block used
  again: the exception `met` of `ListingComplete`.
- After a line that filled the buffer, which the shell gives up without clearing
  it, Tab measures the line with `strlen` and may run past its end
  (`components/finsh/shell.c:658`); the model goes to "wild" and stops.
- A one-shot timer that is started again in its own time-out function is marked
  inactive while it is linked (`timer.c:539`).  `Timer!Callback` leaves out every
  restart of the timer that fires by its own function, of a periodic one too; no
  time-out function here does it.
- `rt_malloc` compares strictly (`mem.c:293`), so the last block of the arena is
  passed over when it fits exactly.

## Not modelled

Vendor code (`src/Libraries`, `src/Project`), board set-up and initial stack
frames keep no state that another part depends on; two thirds of the
repository's lines of C are such code, and of the rest a good part is headers,
comments, hooks, debug assertions and the listings' output.  This is why the
part of the lines that the modules account for is small although each component
with state and an order of events is there.

Left out as pure functions or output: the string and memory routines of
`kservice.c` and what a format makes of its arguments, how `msh_exec` splits a
command and calls it, `rt_object_find`.
Left out as compiled to nothing and used by nothing: the device framework, the
sources in `bak`, soft timers, hooks, `rt_malloc` over several memory heaps and
`rt_memheap_detach`.  Left out because the state behind it is undefined: the
receive buffer of USART2, what a call does with an object after its deletion, what
follows a broken list, a thread that deletes itself and goes on.  Left out because
nothing here calls it: `rt_tick_set`, which would move every deadline.  Also left
out: the conversion `rt_tick_from_millisecond`, the start-up before the first
switch, suspend lists by priority in mailbox, queue and event (the mutex and the
semaphore have them).

## Plan

Done: scheduler, mutex, semaphore, mailbox, message queue, event, memory pool, timers,
three heaps, object registry, input line, console and application, with their proofs.

Left: suspend lists by priority in `Mailbox`, `MessageQueue` and `Event`.
