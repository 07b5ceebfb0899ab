# A verification project for FreeRTOS_cpp11

FreeRTOS_cpp11 lets a program use the threads, mutexes, condition variables,
`call_once`, futures, atomics and clocks of the C++ standard library on FreeRTOS. The
toolchain's own libstdc++ calls an abstraction layer named *gthreads*; this
repository supplies that layer on top of kernel primitives, together with the few
libstdc++ source files that a toolchain built without threads leaves out. The FreeRTOS
kernel itself is part of the repository, vendored, and the layer is only as right as the
kernel calls it is made of; so the kernel is modelled too.

This directory holds TLA+ specifications of the layer, of the kernel and of the heap, the
TLC configurations that check them on small instances, and TLAPS proofs for every size of
the instance. Paths below are relative to the repository root; `cpp11_gcc` stands for
`src/FreeRTOS/cpp11_gcc`, and `kernel` for `src/FreeRTOS/Source`.
`PROJECT.json` lists the components, the runs, the hazards and, for every definition
that models code, the lines it was translated from.

Contents: [1 inventory](#1-inventory) - [2 plan](#2-plan) -
[3 modules](#3-the-modules-and-the-code) - [4 runs](#4-runs) -
[5 fairness](#5-fairness) - [6 proofs](#6-proofs) - [7 findings](#7-findings) -
[8 limits](#8-what-is-not-modelled)

## 1 Inventory

| Component | State | Operations | What is hard |
|---|---|---|---|
| Thread handle, `cpp11_gcc/thread_gthread.h` | `gthr_freertos`: task handle, event group, argument, ownership flag | create, copy, move, join, detach, the two notifications | the object moves while its thread starts or ends; the task and its memory vanish on their own |
| `std::thread` glue, `cpp11_gcc/thread.cpp` | `_M_id` in each `std::thread`; the routine's local copy of the handle | start, join, detach, the native routine, sleep | the routine reads an object that belongs to another task |
| Thread attributes, `thread_with_attributes.h`, `freertos_thread_attributes.h` | one static pointer, guarded by a critical section | construct and destroy `attributes_lock` | exclusion over a whole construction |
| Condition variable, `condition_variable.h`, `bits/gthr-default.h:226-300` | queue of task handles, its semaphore, one notification count per task | wait, timedwait, signal, broadcast | signal against blocking, timeout against signal, the count is shared by all variables |
| Mutexes, timed locks, `bits/gthr-default.h:109-191` | kernel semaphores | lock, try, timed lock, unlock | deadlines, conversions |
| `call_once`, `bits/gthr-default.h:72-85`, `src/libstdc++_gcc/*/mutex.cc` | flag and mutex per `once_flag`; two globals and one global mutex | `call_once`, `__gthread_once`, `__once_proxy` | lock order, hand-over through globals |
| Thread specific data, `gthr_key*.{h,cpp}`, `src/libstdc++_gcc/*/condition_variable.cc`, `future.cc` | the key, a map from task handles to values, a linked list per thread | create key, get, set, run the destructor, register | first use, end of thread, reuse of handles |
| libatomic, `src/libstdc++_gcc/*/libatomic.c` | 16 spin flags | load, store, exchange, compare-exchange, fetch | preemption in the middle of a value, shared flags, spinning at a priority |
| Wall clock and conversions, `freertos_time.{h,cpp}`, `thread.cpp:95-113`, the timed calls of `bits/gthr-default.h` | the offset of the clock; the deadline of a call in progress | set, get, convert a deadline or a span to ticks and wait | two halves of setting, rounding, offsets below zero, widths, preemption between the look at the clock and the wait |
| Heap glue, `src/sys_common/sys.cpp` | a word in front of each pointer | malloc, memalign, free | alignment; arithmetic at the ends |
| Kernel: tasks, `kernel/tasks.c`, `list.c` | TCBs; ready, delayed, overflow, suspended, pending and terminating lists; tick count; bit map of ready priorities; notification counts | create, delete, delay, suspend, resume, change priority, inherit and disinherit, notify, tick, idle task | wrap of the tick count, ticks and wake-ups while the scheduler is suspended, whether a switch is asked for |
| Kernel: queues, semaphores, mutexes, `kernel/queue.c` | ring of slots, two event lists, two locks, holder | send, receive, peek, overwrite, take, give, recursive take and give, the variants for interrupts | the loop of attempt, lock, check, wait, unlock; interrupts into a locked queue; priority inheritance |
| Kernel: event groups, `kernel/event_groups.c` | bits, list of waiters with what they wait for | wait, set, clear, sync, delete | set walks the waiters; the group may be deleted once its waiter is released |
| Kernel: software timers, `kernel/timers.c` | two lists of active timers, a queue of commands, the time last seen | start, reset, stop, delete, change period, from tasks and interrupts; the timer task | late commands, missed periods, exchange of the lists at the wrap |
| Kernel: stream and message buffers, `kernel/stream_buffer.c` | ring with head and tail, two handles of waiting tasks | send, receive, length of the next message, from tasks and interrupts | neither side locks the ring; wake-ups by the one notification of a task |
| Kernel: heap, `kernel/portable/MemMang/heap_4.c` | free list, block headers, two counters | `pvPortMalloc`, `vPortFree` | split and merge, sizes near the width, the step before the scheduler is suspended |
| Kernel: co-routines, other heaps; ports, start-up code, demos, tests | hardware | - | - |

How they interact. A `std::thread` constructor calls `create_thread`, which hands the
address of the object to the new task. Creator and task meet again through two bits of
an event group: *started*, set when the task has copied the handle, and *join*, set when
the function has returned. The handle of the group is stored twice, in the object and in
slot 0 of the task's local storage, and detach clears the second copy. A condition
variable calls the notification functions of the kernel with the handles in its queue.
`call_once` uses a mutex of this layer, and `__at_thread_exit` uses `__gthread_once`
and the key. The native routine runs the key's destructor before it signals *join*.
Timed calls read the wall clock, which is the tick count plus an offset, and make one
kernel call with a number of ticks. In the kernel everything meets in the scheduler's
lists: queues, groups, notifications, buffers and the timer task block and wake tasks
through them, each call is a sequence of critical sections or of stretches with the
scheduler suspended, and interrupts come between these. All memory, that of tasks, groups
and of the C++ library, comes from heap_4.

What makes each part correct:

* *threads*: nobody deletes a task that still runs; join returns after the end; events
  go to the live group of the right pair; ownership is unique through moves; nothing
  leaks; calls return.
* *condition variables*: no wakeup is lost and none is left over; the queue holds the
  waiters, once each; calls return.
* *call_once*: one run, of the caller's own callable, over before anybody returns.
* *thread exit*: registered callbacks run once, in their own thread, before the join; no
  value is inherited with a handle.
* *atomics*: linearizability; the flags are locks; operations return.
* *clock*: a timed call asks for the time left, whoever sets the clock meanwhile, and does
  not give up early.
* *scheduler*: every task is in the list its state says; the highest ready priority runs; no
  tick is lost; waits last as long as asked, over any number of early wake-ups.
* *queues*: bounded sequences, one atomic step per call; no wake-up is lost; the holder of a
  mutex runs at the priority of its waiters, and gets its own back.
* *event groups*: nobody waits for bits that are there; nobody uses a group that is gone.
* *timers*: they expire at the multiples of their period, without drift.
* *buffers*: what is received is what was sent, in order; nobody sleeps on what is there.
* *heap*: blocks tile the memory and are merged; what is handed out fits and never overlaps.

## 2 Plan

In order of importance, with what has been done.

| | Modules | State |
|---|---|---|
| 1 | `ThreadLifecycle`, refining `ThreadContract` | checked; all safety and the refinement proved |
| 2 | `CondVar`, refining `CondVarContract` | checked; safety and refinement proved for untimed waits |
| 3 | `CallOnce`, refining `OnceContract` | checked; safety and refinement proved for any nesting |
| 4 | `ThreadExit` | checked; safety proved, callbacks that register included |
| 5 | `LibAtomic`, refining `AtomicContract` | checked; locks and linearizability proved |
| 6 | `WallClock`, composed in `Services` | checked; the arithmetic proved for all units |
| 7 | `KernelTasks`, `KernelQueue`, `Kernel` with event groups, refining `QueueContract` | checked; the refinement and the order of the scheduler's lists proved for every program |
| 8 | `Timers`, `StreamBuffer`, composed with the kernel in `Services` | checked; that buffers deliver and nobody sleeps on them proved for every ring and program |
| 9 | `Heap` with the malloc glue, refining `AllocatorContract` | checked; shape, fit, counters and refinement proved |
| 10 | `attributes_lock`: the nesting count of critical sections on each kind of port | left |
| 11 | what timed waits of a condition variable keep, as an invariant that is proved | left |
| 12 | proofs about the scheduler of `KernelTasks` in the whole system | done for every part that holds for every program, but the waits (section 6) |
| 13 | the event group and the mutex inside `ThreadLifecycle`, `CondVar` and `CallOnce` shown to be abstractions of those of `Kernel` | left |

No module has a RECURSIVE operator, and constants have named assumptions, so that
everything can be proved about.

## 3 The modules and the code

### Threads

`ThreadLifecycle` has one variable per piece of memory: `obj` (what each `std::thread`
object or temporary stores), `tcb`, `live` and `bits` (event groups), and for each thread
where its routine is, on which TCB, the parameter it got, its local copy and its
`_State`. A client's call is cut where another task can run in between:

| Action | Code |
|---|---|
| `CreateEventGroup`, `CreateTask`, `PublishHandle` | `create_thread`: before, and in, its critical section |
| `JoinCall`, `JoinWait`, `AssignInvalid` | `thread::join`, `gthr_freertos::join`, `_M_id = std::move(invalid)` |
| `DetachCall`, `DetachWait`, `DetachCritical`, `AssignInvalid` | `detach`: `wait_for_start`, the critical section, the assignment |
| `SwapCall`, `Swap1`, `Swap2`, `Swap3` | `std::swap` of two ids: one move construction, two move assignments |
| `CopyHandle`, `NotifyStarted`, `Return`, `DeleteState`, `NotifyJoined`, `DeleteSelf` | `__execute_native_thread_routine` |
| `Reap` | the idle task frees TCBs of tasks that deleted themselves |

`MoveAssign` is the whole of `operator=(gthr_freertos&&)`, with `eTaskGetState`,
`vTaskDelete` and `vEventGroupDelete` as the kernel does them. Two constants describe
the environment: `AddressReuse` (the heap may give the memory of a dead task to a new
one while an object still stores the handle) and `Urgent` (the threads that preempt their
creator: they have a higher priority and the port's `portYIELD` switches at once, even
with interrupts masked by a critical section: the software interrupt of CA9 and the
`ecall` of RISC-V do, the pended exception of the Cortex-M ports does not).
`ThreadContract` is `std::thread` seen from outside: who holds which thread, what has
finished, who is in join or detach. `ThreadInvariant` is the inductive invariant.

### Condition variables

`CondVar` follows `__gthread_cond_wait`, `_timedwait`, `_signal` and `_broadcast`
statement by statement: `CondLock` (the semaphore), `Push`, `MutexGive`, the two
critical sections of `ulTaskNotifyTake` (`TakeEnter`, `TakeExit`) with the tick between
them (`Timeout`), `MutexTake`, and after a timeout `Remove`; `Front`, `Pop`, `Give`,
`Release` for the notifiers. A task is woken only in `Give`; its count is one for all
variables, as in the kernel. Locking and unlocking the program's mutex between calls
are actions too. `CondVarContract` is the textbook condition variable: a set of waiters
and a set of woken tasks for each variable. A broadcast takes effect when it has the
semaphore, a signal when it gives its notification.

### call_once

`CallOnce` has a *frame* for each pair of a task and a flag it calls for, because a
callable may call `call_once` for another flag. `Prepare`, `LockGlobal` and `Leave` are
the header's part (external), `Take`, `Swap`, `Give` are `__gthread_once`, and
`MoveFunctor`, `UnlockGlobal`, `CallCallable` are `__once_proxy`. `Crossed` names the one
way in which calls can hang: a caller holds the global mutex and waits for a flag whose
callable, in turn, needs the global mutex. The targets have no
thread-local variables, so this is the branch of `mutex.cc` that is compiled.

### Thread exit

`ThreadExit` details what `ThreadLifecycle` leaves between the end of the function and
*join*: registration through `__at_thread_exit` (with its own `__gthread_once` and the
creation of the key), the map from handles to values, `CallDestructor`, and the loop
over the linked list in which a callback may itself register (`Reenter`); an element
registered so is *late*, since the list it joins has already been taken. Threads come
and go on a small set of TCB addresses, so that handles are reused.
A task that comes to the key while another still creates it waits in the `__gthread_once`
of the key; `KeyIsReady` says so.

### Atomics

`AtomicValues` has values of several words, one bit each, and the operations on them.
`LibAtomic` executes the generic and the sized functions word by word between `GetLock`
and `FreeLock`, with the real hash from an address to one of sixteen flags, and lets
only tasks of the highest ready priority run. `AtomicContract` is linearizability: call,
take effect at one instant, return. The instant is the acquisition of the lock.
`Inverted` names the one way in which operations can hang: a task spins for a flag held by
a ready task of lower priority.

### The kernel

`KernelTasks` gives the scheduler as functions on one record: its lists, the TCBs, the
tick count and the bit map. A ready list is the ring the code walks, end marker included,
since round robin depends on it; the other lists are sequences. `AddTaskToReadyList`,
`PlaceOnEventList`, `IncrementTick`, `ResumeAll` with its pended ticks and tasks,
`SwitchContext`, `PriorityInherit` and the two ways to lose an inherited priority are
functions from record to record, and `failed` names a `configASSERT` that failed, after which nothing runs.
`KernelQueue` does the same for one queue: the ring of slots, the copying in and out, and
what a send or receive does to the waiters, also while the queue is locked.

`Kernel` has the processes. `program` chooses a client program, which gives every task a
script of calls; `local` holds the local variables of the call a task is in. Each action is
one critical section, or one stretch with the scheduler suspended, of one kernel call, in
the order the call takes them:

| Actions | Code |
|---|---|
| `SendNow`, `ReceiveNow`, `PeekNow`, `TakeNow`, `Refuse`; then `GoWait`, `LockAndCheck`, `CheckStill`, `Place`, `UnlockTx`, `UnlockRx`, `ResumeScheduler`, `Resume`, `GiveUp`, `DisinheritAfterTimeout` | the loop of `xQueueGenericSend`, `xQueueReceive`, `xQueuePeek`, `xQueueSemaphoreTake` |
| `Give`, `GiveNothing`, `TakeAgain`, `GiveOnce` | `xQueueGenericSend` on a mutex, `xQueueTakeMutexRecursive`, `xQueueGiveMutexRecursive` |
| `Delay`, `DelayUntil`, `TaskCall` (suspend, resume, delete, create, priority, notify), `AbortDelayOf`, `Exit` | the functions of `tasks.c` of these names |
| `WaitForNotification`, `NotifyTaken` | the two halves of `ulTaskNotifyTake` |
| `WaitBits`, `SetBits`, `SyncBits`, `BitsCame`, `ReadBits`, `ClearBits`, `DeleteGroup` | `event_groups.c` |
| switching tasks, `IdleCleansUp` | `vTaskSwitchContext`, `prvCheckTasksWaitingTermination` |
| `Interrupt`, `TickInterrupt` | the FromISR functions, `xTaskIncrementTick` |

Interrupts come between any two of these. `QueueContract` is what callers are promised:
a bounded sequence of values per object, and an owner for a mutex, each call one atomic step.

`Timers` adds the timer task: commands are composed and sent through the kernel's queue,
and `DaemonStep` is the loop of `prvTimerTask`, cut at each look at the tick count, at
each list operation that a tick may come before, and at each callback. `StreamBuffer` adds
buffers between one writer and one reader, cut at each access to head, tail and the two
handles that the other side may change; the copy of a write into the ring is one step with the
head that publishes it, for the reader looks at no byte beyond the head. `Services` is the composition of all of these
with the clock; their steps interleave and share the scheduler.

### The wall clock

`WallClock` models `SetSystemClockTime` in its two halves (`BeginSetClock` looks at the
tick count, `StoreClock` stores the offset), `_gettimeofday`, `operator+` and `operator-`
with their carries, and `pdMS_TO_TICKS` in the width of a tick. A call with a deadline
first runs `ReadClock` (the timed locks and the timed wait), one with a span runs
`SleepFor` (`this_thread::__sleep_for`), and then is an ordinary kernel call with the
ticks just computed; anything may happen in between. A second has `PerSecond`
milliseconds, a millisecond `Fine` units. `wall.epoch` and `wall.round` exist for the
property only: they say what time it really is and when the clock was set. The property
leaves out what the code gets wrong by width (`Convertible`) and the wrap of the tick
count after the clock was set (section 7).

### The heap

`Heap` is heap_4 under the malloc, memalign and free of `sys.cpp`. A block is named by the
address of its header; the free list is ordered by address, so it is a set. `TakeBlock` is
the body of `pvPortMalloc` with first fit, split and counters, `WantedSize` the header and
the rounding with the checks for overflow, `FreeBegin` and `FreeInsert` the two parts of
`vPortFree` (the mark is removed before the scheduler is suspended), and
`InsertIntoList` merges with both neighbours. `WrapMalloc` and `WrapMemalign` put the word
with the address of the allocation in front of the pointer they return.
`AllocatorContract` hands out ranges that do not overlap.

## 4 Runs

Every property has a mutant, a plausible bug of the code, that breaks it under the same
configuration. Deadlock is checked in `heap`, where some task can always go on; everywhere
else programs end, since the calls are bounded.
Symmetry is used only in runs without a liveness property, over sets of model values
that the specification and its contract treat alike.

| Run | Question | Properties | Bounds |
|---|---|---|---|
| `thread_safety` | is anybody killed, misled, leaked or owned twice, and is it `std::thread`? | `NoThreadKilled`, `EventsReachOwnGroup`, `SoleOwner`, `NoGroupLeaks`, `ImplementsContract` | 2 clients, 2 objects, 3 threads, 2 TCBs, 2 groups |
| `thread_liveness` | do calls return, are tasks freed, also with a thread that preempts its creator? | `CallsComplete`, `JoinsComplete`, `TasksReclaimed` | 1 client, 2 objects, 2 threads, one of them urgent |
| `thread_tcb_reuse` | finding 1 | `NoThreadKilled`, violated | 2 clients, 3 threads, 2 TCBs |
| `cv_safety` | lost or stale wakeups, untimed; is it a condition variable? | `NoLostWaiter`, `QueuedTasksWait`, `NoStaleNotification`, `ImplementsContract` | 3 tasks, 2 variables, 1 mutex, 2 calls each |
| `cv_timed` | who returns when timeouts race with signals? | `NotifiersReturn`, `WaitersReturn` | 3 tasks, 1 variable, calls 2, 1 and 1 |
| `cv_stale_entry` | finding 2 | `QueuedTasksWait`, violated | 3 tasks, 1 variable, 3 calls each |
| `once_safety` | one's own callable; is it `call_once`; what can hang? | `RunsOwnCallable`, `ImplementsContract`, `CallsReturn` | 3 tasks, 2 flags, one nested call, 2 calls each |
| `exit_safety` | do callbacks run, once, in time, and do exits end, with re-entry? | `CallbacksRunBeforeJoin`, `RunsOwnCallbacks`, `ExitsComplete` | 3 threads, 2 addresses, 2 elements each |
| `atomic` | are the flags locks, are operations linearizable, what can hang? | `FlagsAreLocks`, `ImplementsContract`, `OperationsReturn` | 3 tasks of two priorities; 3 objects (2 on one flag, 1 lock free); 2 words; 6 kinds of call; 1 call each |
| `kernel` | the scheduler's lists and choices, waits, inheritance, groups, buffers, timers, deadlines, queues as sequences, and do programs end? | `ListsAgree`, `HighestPriorityRuns`, `NoLostWakeup`, `PriorityIsInherited`, `WaitsAreExact`, `BitsDelivered`, `GroupUsesAreLive`, `StreamsDeliver`, `StreamWaitersWake`, `TimersAreExact`, `DeadlinesAreKept`, `ImplementsContract`, `ProgramsFinish` | 24 programs; up to 3 tasks, the idle and the timer task; priorities 0 to 3; 8 tick values, starting at 5; 2 milliseconds a second, 2 units a millisecond |
| `kernel_ready_map` | finding 3 | `AssertionsHold`, violated | 1 program of 3 tasks; starting at tick 6 |
| `heap` | do blocks tile and merge, do counters agree, does what is handed out fit and not overlap? | `HeapShape`, `BytesCounted`, `RequestsFit`, `ImplementsContract` | 2 tasks; 29 units of memory, alignment 2; `size_t` of 128 values; sizes 0, 2, 6, one with the allocated bit, one that wraps; 4 pointers held |

`MCLibAtomic` also has TLC evaluate, as assumptions, that the chosen addresses collide or
differ under the real hash, and that the fetch operations computed word by word, with
their carry, agree with arithmetic modulo the width for all operands of two words
(`FetchIsArithmetic`).

Why these are enough. Threads: a hand-over involves one creator, one thread, and at most
one other client that moves or detaches; two objects make every swap possible, including
with itself, and a third thread on two TCBs reuses memory. Condition variables: a stale
count needs a waiter, and two notifiers of which one comes late; two variables separate the
shared count from the queues, and a task with two calls can wait again on what the first
left. `call_once`: the globals can be confused by two callers for
different flags while a third is nested. Thread exit: an address has to be reused once,
a list needs two elements. Atomics: a torn value needs two words and two tasks, sharing
a flag two objects. Moreover the safety results of all of these are proved for all sizes
(section 6). The bounds named in the modules are `MaxCalls` (calls a task makes itself),
`MaxElements` (registrations per thread) and `MaxHeld` (pointers held).

Kernel: a client program is a bound, so the programs of `MCKernel` are written one for each
mechanism, so that the case that hurts occurs: a queue filled and drained by interrupts
while two tasks wait; waiters that time out, retry, or are overtaken; a holder that is lent
a priority, and nested and recursive mutexes; delays, periods and timers across the wrap
(the tick count starts three ticks before it); notifications that come before, during and after a wait; a
rendezvous; the use `gthr_freertos` makes of a group, with its deletion; tasks that are
suspended, deleted, resumed and given other priorities while they wait; a timer task that
is late by more than a period, or whose queue is full; rings that wrap, trigger levels and
messages too long for their reader; a clock set while another task waits by it, or by two tasks
at once. Ticks come while a task other than the timer task is delayed and the scheduler runs, or while the idle task
runs and the timer task is delayed; besides, each program names how many may come at any
moment, and which interrupts it raises. Between them the programs take every action. The heap of 29 units has room for three or four
blocks, so that each of a first fit that is not the first block, a split, no split, and
a merge with none, either or both neighbours happens.

## 5 Fairness

Weak fairness of the library's steps: the kernel is configured with preemption and time
slicing, so a task of the top ready priority is run again and again, and the models
whose tasks have one priority treat all tasks so. `LibAtomic` has priorities and takes
the kernel's rule into its guards. Nothing the program decides is fair: calls are made
or not, and a thread function (`Return`) may run for ever.

`Kernel` chooses the task that runs itself, so the only fairness there is that of the
machine, `WF(SystemNext)`: as long as the running task, an interrupt or the tick can take a
step, one of them is taken. That every task then ends its script (`ProgramsFinish`) follows from
what the kernel does, not from an assumption on its choices.

Exceptions, where a stronger assumption on the program is made:

* `SF(Reap)`: the application blocks again and again, so that the idle task, of the lowest
  priority, gets time to free memory. The kernel asks the same of its users.
* `SF(MutexTake)` and `WF(Unlock)` in `CondVar`: the program does not keep its mutex and does not
  take it so often that a woken task never finds it free.
* callables of `call_once` and exit callbacks return, and calls are bounded by the
  constants above, so that a mutex is not taken away for ever.

## 6 Proofs

`tlapm` checks eight modules, for every value of the constants that satisfies the named
assumptions of the modules (which TLC evaluates in the runs). In the tables, *states* names
a property of a run that the theorem states for all sizes. In each state machine
the property is not inductive by itself; `IInv` is the strengthening, each action has a
lemma that it keeps `IInv`, and the temporal step comes last. The refinements show that the
initial states map to initial states of the contract and that every step from a state with
`IInv` is a step of the contract or leaves its variables unchanged.

### Threads: `ThreadLifecycle_proofs`

Every theorem has the hypothesis `Benign`, with
`Benign == ~AddressReuse /\ Urgent = {}`: it leaves out the two environments in which the
code misbehaves (section 7). Both occur: heap_4 does give the address of a freed TCB out again, and two
of the ports switch inside `create_thread`. The theorems say nothing about them. `IInv`
(module `ThreadInvariant`) adds

* the four shapes of a stored handle: empty, being created (group but no task), owner,
  let go (detached, not yet cleared), and which call justifies the two transient ones;
* what each call in progress knows of its objects, and that calls use disjoint objects;
* that places hold different threads, tasks and groups, and that every live group is
  held;
* that a TCB and the thread on it point at each other, and that an address stored
  anywhere still means the same thread;
* that a starting thread's object stays an owner with the *started* bit clear: this is
  why `wait_for_start` in the moves protects the copy in the routine;
* that an owner's slot 0 names its group, and that its *join* bit implies the end.

The moves, which occur in five actions, are handled once (`Move`, `DropOwned`).

| Theorem | States | What it establishes |
|---|---|---|
| `InductiveInvariant` | - | The strengthening that all the other theorems rest on holds in every reachable state, for every number of clients, objects, threads and addresses, if TCB addresses are fresh and creation does not switch tasks (Benign). |
| `HandlesAreValid` | - | Under Benign, what an owner's handle names exists when a call uses it: the event group that a wait, a detach or an overwriting move reaches is live and the task address is that of its thread; a new routine finds its object, and a routine that ends reads the slot of, and deletes, its own live TCB. |
| `TasksEndThemselves` | `NoThreadKilled` | If the heap gives no TCB address out again while a handle stores it, and no switch happens inside create_thread (Benign), no move assignment deletes a task that has not signalled its end. heap_4 promises no such thing: with reuse the property is false (thread_tcb_reuse). |
| `SignalsAreForTheJoiner` | `EventsReachOwnGroup` | Under Benign, a client waits, and a thread signals, only on a live event group that belongs to the pair of them. |
| `CopiesAreOwn` | - | Under Benign, a routine copies the handle of its own task before any move empties the object. |
| `JoinMeansFinished` | - | Under Benign, join returns only after the thread function, its State and its exit callbacks are done. |
| `OwnersAreUnique` | `SoleOwner` | Under Benign, at no point of a swap or move do two places own one task or one event group. |
| `GroupsNeverLeak` | `NoGroupLeaks` | Under Benign, every event group that exists is stored in the place whose operation will delete it. |
| `SlotNamesGroup` | - | On ports that do not switch in a critical section, a started thread finds the event group of its joiner in its local storage. |
| `ThreadsImplementContract` | `ImplementsContract` | Under Benign, handles, tasks and event groups implement the abstract contract of std::thread: every step maps to a contract step or a stutter. |

### Condition variables: `CondVar_proofs`

The theorems assume `~TimedWaits`: with timeouts `QueuedTasksWait` is false (finding 2), and
with it the contract. `IInv` says which call a task is in and that it then has the semaphore of
the queue to itself and, until it gives it, the mutex (`CallInv`, `LockInv`, `HoldInv`), that a
notifier pops the handle it has read (`TargetInv`), that a queue holds a task once and only in
a wait for its variable (`QueueInv`), that a popped task has one notifier and no count yet, and one with
a count is neither queued nor popped (`NoteInv`), and that a task in a wait is queued, popped or
has its count (`ReachInv`). The last is why no wakeup is lost: pushing comes before the mutex is given,
and the count outlives the look at it.

| Theorem | States | What it establishes |
|---|---|---|
| `InductiveInvariant` | - | In programs without timed waits calls, mutex, semaphore, queues and notification counts stay in step, for any number of tasks, variables, mutexes and calls. |
| `TypesCorrect` | - | Every variable keeps its type. |
| `NoWakeupIsLost` | `NoLostWaiter` | A task in a wait is in the queue, or its notifier is on the way, or it has been notified. |
| `QueuesHoldWaiters` | `QueuedTasksWait` | The queues hold tasks that wait, each once. |
| `NotificationsAreFresh` | `NoStaleNotification` | No notification is left over when a task is not in a wait. |
| `CondVarImplementsContract` | `ImplementsContract` | Wait, signal and broadcast implement an atomic condition variable. |

### call_once: `CallOnce_proofs`

Any number of tasks and flags, and any nesting of callables that ends (`InnerEnds`: a callable
that calls, through others, for its own flag would wait for itself). `GlobalInv`
says which frame owns the global mutex and in which of its steps, `GlobalsInv` that the two
globals are those of that frame until the proxy has taken them over. `OnceInv` says when the
mutex of a `once_flag` is held, `FlagInv` how its flag counts the runs of the callable, and
`NestingInv` that of a task's frames all but one wait for a callable.

| Theorem | States | What it establishes |
|---|---|---|
| `InductiveInvariant` | - | The two mutexes, the two globals, the flag and the nesting of frames stay in step, for any number of tasks and flags and any nesting of callables. |
| `CallablesRunOnce` | - | The callable of a flag is started at most once, whoever calls when (test_once.h:67). |
| `CallersRunTheirOwn` | `RunsOwnCallable` | The callable and the lock that the proxy takes from the globals of mutex.cc are those of the caller itself. |
| `ReturnsAreAfterRuns` | - | A call returns only after the callable of its flag has run and returned. |
| `LockPtrsAreValid` | - | __once_functor_lock_ptr points to nothing or to the lock of a call that still owns the global mutex. |
| `CallOnceImplementsContract` | `ImplementsContract` | __gthread_once under the proxy of mutex.cc implements std::call_once, for any number of tasks and flags. |

### Thread exit: `ThreadExit_proofs`

For any number of threads, addresses and elements, callbacks that register included. `IInv`
has the once flag of the key (`KeyInv`), what a task has in its hands at each place
(`PlaceInv`), that no two pointers lead to one element and none to a deleted one
(`PointerInv`), and that on an address without a running function only late elements are left
(`SpareInv`). What a walk over a linked list reaches would need induction over
data; instead the chain is explicit: the elements on the list of a thread are its first `k`, each
points to the one before it, and the length `k` is part of the invariant (`ChainInv`).

| Theorem | States | What it establishes |
|---|---|---|
| `InductiveInvariant` | - | The key, the place each task is at, the pointers, the spare elements and the chain of each list stay in step, for any number of tasks, addresses and elements. |
| `TypesCorrect` | - | Every variable keeps its type. |
| `KeysAreReady` | - | Nobody uses the key before it is created and stored, whoever comes first to the once flag of the key. |
| `NoCallbackIsLost` | `CallbacksRunBeforeJoin` | A callback registered before the routine takes the value has run, or will run, before the task signals its joiner. |
| `CallbacksAreOwn` | `RunsOwnCallbacks` | A task runs only callbacks it registered itself, unless one was registered after an earlier task on its address had taken its value. |

### Atomics: `LibAtomic_proofs`

For any number of tasks, priorities, objects and words, with the hash of the code. `FlagsAreLocks` is
part of `IInv`; `TaskInv` says how far a task has come: the words it has passed are read into
its result, equal to what it expects, or written. The operation takes effect in the contract at
`GetLock`, where what the task will return is known, and from then on memory is compared with
the contract's object word by word.

| Theorem | States | What it establishes |
|---|---|---|
| `InductiveInvariant` | - | Values keep their size, flags are locks, and each task has read, found equal or written exactly the words it has passed. |
| `FlagsAreAlwaysLocks` | `FlagsAreLocks` | A flag is set exactly while one task is between get_lock and free_lock for an object that maps to it, for any number of tasks, priorities and objects that share flags. |
| `OperationsImplementContract` | `ImplementsContract` | The operations of libatomic.c, word by word under the flags, are linearizable: for any number of tasks, objects and words and any program. |

### The heap: `Heap_proofs`

For every heap, alignment, request and order of calls of any number of tasks. The requests include
those that overflow inside heap_4; `HeapAssumption` excludes those that wrap in the glue. `IInv`
is `TypeOK`, `HeapShape`, `RequestsFit`, `BytesCounted` and `WordAligned`, which memalign needs: blocks begin
at words. Cutting a block in two and merging it with its neighbours are lemmas about
tilings (`Cut`, `Merge`). `BytesCounted` is a fold over the free list; that it is a sum
whose terms may be taken in any order is proved by induction (`TotalIsSum`, `TotalOfPick`), and each
operation takes out and puts in the blocks it touches (`CountAfter`).

| Theorem | States | What it establishes |
|---|---|---|
| `HeapKeepsItsShape` | `HeapShape` | For every heap, every request that HeapAssumption admits and every order of calls, the blocks tile the heap, are free, used or on their way back, and free ones are merged. |
| `PointersHaveTheirRoom` | `RequestsFit` | For every request to pvPortMalloc, and every request and alignment of malloc and memalign whose sum does not wrap size_t (HeapAssumption; sys.cpp:86 and 107 do not check), the pointer handed out has its size in a block of its own, which free finds again. |
| `BytesAreCounted` | `BytesCounted` | For every heap, every request that HeapAssumption admits and every order of calls, the counter of free bytes is the sum of the sizes of the free blocks. |
| `HeapImplementsContract` | `ImplementsContract` | For requests that do not wrap in the glue (HeapAssumption), the heap with its glue is an allocator: the ranges handed out lie in the heap and never overlap. |
| `MemoryStaysInside` | - | For requests that do not wrap in the glue (HeapAssumption), every block lies between the first aligned address of ucHeap and pxEnd; so do the bytes of every pointer handed out and, behind the header of its block, the word that malloc and memalign write in front of it. |

### Queues, semaphores and mutexes: `Kernel_proofs`

For every program, set of tasks, priorities and interrupts, with timers, buffers and the clock
in the same system (`SystemSpec`). `ProgramAssumption` states what the `configASSERT`s of `queue.c`
and the types of the handles ask of a program: items go to queues and overwrite those of length one,
semaphores and mutexes are taken and given, no interrupt touches a mutex, nobody but the timer API sends to
the timer task's queue. `QueueInv` is needed because the contract cannot be read off the state a call leaves:

* `Sound`: in a ring the write position follows the last item, so that the item sent to
  the back is the one after the last (`SentToBack`, `SentToFront`, `ReceivedFirst`); a mutex is empty exactly while it
  has a holder;
* no call changes the kind or the length of an object, so that the check made in one critical section
  still speaks of the same object in the next;
* a mutex that a task has taken and not given names this task as its holder, also when the task
  was deleted, suspended, or lent a priority meanwhile.

Steps of the system that do not move an item (each wait, lock, unlock, timeout,
tick, and all of the groups, timers, buffers and the clock) leave the contract's variables alone (the
lemmas whose names end in `Unseen`); each of the others is exactly one step of the contract (`Seen`).

| Theorem | States | What it establishes |
|---|---|---|
| `QueuesStaySound` | - | For every program, number of tasks, priorities and interrupts, the ring of a queue keeps its positions and counts, a mutex is held by at most the one task that has taken it, and calls in progress know the objects they were made on. |
| `QueuesImplementContract` | `ImplementsContract` | For every program, queues, semaphores and mutexes, with their retries, timeouts, locks and interrupts, are bounded sequences and owners on which each call is one atomic step. |

### The scheduler: `Kernel_proofs` and `Services_proofs`

For every program, set of tasks, priorities, interrupts and width of the tick count, in the whole
system. `Kernel_proofs` proves what each operator of `KernelTasks` and each step of a task or interrupt does to the
scheduler's record; `Services_proofs` adds the steps of timers, buffers and clock, the start, and
the theorems. What a program must keep is stated by `LegalTasks` (a task is
started once or created once, by one call; the idle task makes no call, and only the timer task is the daemon), `LegalCreation` (no
handle is used before the task exists) and `ListAssumption` (a list is not the end marker, and each object has its own lists).

The invariant `IInv` is `QueueInv`, `StreamInv` and `SchedInv`, with what ties them to the calls in progress: `LabelsFit`
(a task is at a step of the call it makes), `HoldersAreTasks`, `PeersAreTasks` (what a mutex or a
buffer names as holder or waiter is a task). None of the theorems is inductive by itself. `SchedInv` is

* `Well(sched)`: `Shape` types the lists; `Homed` says that a task is in one state list at most, in one event list at most, and in none
  while it is ready; `Settled` that tasks are pending only while the scheduler is suspended, and the
  running one only after it placed itself. A task that is woken while the scheduler is suspended is in the pending list
  and a delayed list at the same time, and `xTaskResumeAll` must take it out of both before it is ready;
* `StopsInTime`: if the running task is not ready, then a switch is due, or the task `Dozes`, which is to say
  that it put itself to sleep with the scheduler suspended and has yet to resume it;
* `OnlyOneLocks`: the scheduler is suspended once, exactly when the running task is between the two ends of such a section;
  without it no step could tell that a switch does not come in the middle;
* `NewTasksAreNew`: a task that is to be created is in no list, so that `CreateTask` does not list it twice;
* `WaitsRightly`: a task whose notification state is *waiting* is at the step after such a wait and in no event list,
  so that a notification does not ready a task that waits for something else;
* `BitsAreMissing`: no task waits for bits that are there, also while the scheduler is suspended, where
  `BitsDelivered` says nothing;
* `Ticks(sched) = InitialTick + now`: ticks counted and pended are the tick interrupts so far;
* the idle task is ready.

The lemmas say of each operator what it does to everybody else (`Spares`: a task that is ready stays so, enters
no event list, keeps the bits it waits for and the notification it has received), so that the step of one task needs no look at the others. Operators
that walk a list (`ReadyThose`, `ReplayTicks`) are folds, for which the invariant is carried along the walk by induction on the position. The start is a
walk too, over the tasks the program begins with.

`StreamWaitersWake` needs `WaitersInv` besides: whoever a buffer names as waiting is between the
step that announced it and the one that takes this back (`Told`); and as soon as what it waits for is there, either the other side is on its way to
notify it (`Tells`), or its next wait ends at once, or has been ended (`Heard`). Each access to the ring and to the two handles is a step of its own,
so this covers the byte that comes between the look at the buffer and the wait, and the notification that comes before the wait. The theorem has the
hypothesis `KeepsMessages` of `BuffersDeliver`: a reader that puts a length back makes bytes appear that no
writer told it of. Message buffers have trigger level 1 (`StreamAssumption`; `xMessageBufferCreate` passes 0, which `stream_buffer.c:248` makes 1).

| Theorem | States | What it establishes |
|---|---|---|
| `BitsAreDelivered` | `BitsDelivered` | No task is left waiting for bits its event group has, also while the scheduler is suspended between the steps of a call. |
| `NobodySleepsOnData` | `StreamWaitersWake` | No reader sleeps on data and no writer on space that it waits for, unless a task on the other side is about to notify it, for every program whose reads have room for the messages of their buffer. |
| `TasksStayListedOnce` | - | Every task is in one state list at most, the ready list only of its own priority, and in one event list at most, which it can be in only while it is blocked or suspended: the part of `ListsAgree` that does not speak of order. |
| `TicksAreNotLost` | - | Ticks counted and ticks pended are always the tick interrupts so far, over any number of wraps and any suspension of the scheduler: the first part of `WaitsAreExact`. |
| `OnlyReadyTasksRun` | - | While the scheduler runs and no switch is due, the running task is in the ready list of its priority: the first half of `HighestPriorityRuns`. |
| `SchedulerIsResumed` | - | The scheduler is suspended, and once, exactly while the running task is in a section that suspends it; no section nests and no task is switched out in one. |
| `ReadyTasksAreMapped` | - | The ready map has the bit of every priority with a ready task: the half of the map that the code keeps (finding 3 is about the other half). |

### Time: `Kernel_proofs`

What the scheduler's operators do to tasks that sleep, in every state whose lists are `Well` and `Timely`. `Timely` is the part
of `ListsAgree` that speaks of time (`AgreeingListsAreTimely`), which the run `kernel` checks in every state it reaches: both lists are
in order of wake time, the overflow list holds the times after the wrap of the tick count, and `xNextTaskUnblockTime`
is no later than any of the others. Each theorem gives `Timely` back, so they chain. `Left(s, t)` is the
number of ticks from now at which `t` is to wake, over a wrap. The argument follows the tick: when the count wraps, the
delayed list is already empty and the lists change places (`TickIsTimely`); then the entries before
the first later one are exactly those due, because the list is sorted (`ExpiredAreDue`); removing and
inserting keep it sorted (`RemovedThins`, `InsertedSorted`); the next time to unblock is set anew (`UnblocksFirst`).

| Theorem | States | What it establishes |
|---|---|---|
| `TickWakesOnTime` | - | Each tick takes one from what every sleeping task has left, also over the wrap of the tick count, and readies a task with the last one, never before and never after. |
| `ReplayWakesOnTime` | - | The ticks that came while the scheduler was suspended ready exactly the tasks whose time came meanwhile, and shorten the sleep of the others by as many. |
| `DelayIsTimed` | - | A task that delays itself or waits with a timeout sleeps for just the ticks it asked for, also over the wrap, and changes nothing for those who sleep already. |

### Buffers: `Services_proofs`

A writer and a reader share the ring without a lock: the writer alone moves the head, the reader alone
the tail. `StreamAssumption` states what `stream_buffer.h` asks of a program (one writer and one reader for
each buffer, each a task or the interrupts) and the `configASSERT`s. `StreamsDeliver` says nothing of what
a task has seen and not yet acted on, so `StreamInv` adds, for each buffer,

* `SoundStream`: head, tail and length are those of a ring, of which `BytesIn` counts the bytes;
* `SpaceSeen` and `BytesSeen`: the space a writer has seen, or the bytes a reader has, are still there, since
  the other side only adds to them; this is why no lock is needed;
* `OnTheWay`: between the accesses to the ring, the ring holds the rest of a message whose
  length the reader has taken (`PartRead`), then whole messages each behind its length, then
  the length of a message that is being written (`Begun`), and the messages are those sent and not received; for bytes
  `InOrder`;
* `ControlInv`: a task at a step of a buffer call is in such a call.

Ring arithmetic (`Written`, `Oldest` across the end of the ring) and the flattening of
messages into bytes are lemmas, proved by induction on a set of positions. Steps outside the buffers leave
what the invariant sees alone (`OutsideKeeps`).

The theorem assumes `KeepsMessages` of every message buffer: each reader task has room for each message sent, and none
asks for the next length. Otherwise a reader moves the tail back over a length that a
writer may have overwritten meanwhile, and the statement is false (section 7). Byte buffers need no such assumption, nor do
interrupts that read, since a task cannot preempt them.

| Theorem | States | What it establishes |
|---|---|---|
| `BuffersDeliver` | `StreamsDeliver` | For every program, length of the ring and number of tasks: whatever preempts a writer or a reader between two accesses to the ring, a stream buffer delivers every byte once and in order, and a message buffer every message whole, once and in order, when its readers have room for every message and so never put a length back. |

### The clock: `Services_proofs`

Not a state invariant but the arithmetic behind `DeadlinesAreKept`, for any `PerSecond`,
`Fine` and width of a tick, offsets of either sign, and times that `Convertible` allows: the clock shows offset plus ticks, a
deadline or a span is turned into ticks to less than a millisecond, setting the clock makes it
show what was asked. That nothing between the conversion and the wait breaks this, and that
the kernel then waits that long, is checked in `kernel`.

| Theorem | States | What it establishes |
|---|---|---|
| `ClockShowsTicks` | - | The clock shows its offset and one millisecond for each tick, for offsets of any sign and any units. |
| `WaitIsTimeLeft` | - | The milliseconds of a timed call are the time left on the clock, less than one millisecond off. |
| `ShortWaitsConvert` | - | pdMS_TO_TICKS gives one tick for each millisecond while the product fits into the width of a tick count. |
| `SettingIsRight` | - | SetSystemClockTime computes an offset that shows the time it was given. |
| `ReadingIsRight` | - | A timed call whose deadline is to come and does not wrap asks for the time left to within a millisecond: the first half of DeadlinesAreKept. |
| `SleepingIsRight` | - | So does sleep_for. |

### Only model-checked

* Of the kernel, the whole of `ListsAgree` (the ready map has a stale bit), the second half of
  `HighestPriorityRuns` (a yield that is not asked for), `NoLostWakeup` (a late take), `PriorityIsInherited`,
  `TimersAreExact` (a timer task that is late by a whole wrap) and `AssertionsHold` are false for some programs that the kernel admits
  (section 7), so that no theorem about every program can state them; the programs of the run
  are chosen to keep clear of these cases. The parts that do hold for every program are theorems: `TasksStayListedOnce`,
  `ReadyTasksAreMapped` and `OnlyReadyTasksRun`. Whether a use of a group is live (`GroupUsesAreLive`)
  is up to the program. The property covers each call up to the end of its suspended section and the second look of a
  waiter; it excepts the last read of `xEventGroupSetBits`, which in `Detach` does find its group gone (section 7), and says
  instead that a task of at least the setter's priority deleted it. `Disposal` has a deleter of lower priority.
* That the delayed lists are sorted in every state (the rest of `ListsAgree`) and that no call gives up sooner or later than it was asked to (the rest of `WaitsAreExact`, and of
  `DeadlinesAreKept`): each tick, each replay and each delay of 1 to `MaxDelay` ticks keeps time (above), but that every call in progress asks for
  so many relates its local timeouts to the lists, which `IInv` does not type.
* `StreamWaitersWake` and `StreamsDeliver` of message buffers whose reader may put a length back: the run has programs in which it does so.
* Timed waits of condition variables (`QueuedTasksWait` is false with them).
* The carry in `AtomicValues`, checked for all operands of two words.
* All liveness: it is out of the prover's reach, as is ENABLED.

Induction is within reach, without the library's induction theorems whose parameter is an operator: a set of
counterexamples has a least element (`LeastNumber` in `Heap_proofs`, from the well-foundedness of the naturals).

Proved, and asked of no run any more because the proofs cover the small instances: the type invariants, `IInv` of each module,
`CopyIsOwnHandle`, `JoinedIsFinished`, `HandleStoredBeforeStart`, `KeyIsReady`, `RunsOnce`,
`ReturnsAfterRun`, `LockPtrIsValid`.

## 7 Findings

Shown by a run:

1. `thread_tcb_reuse`: the assignment after a join asks for the state of a task by a
   handle that may already belong to another thread, and then deletes that thread
   (`thread_gthread.h:330`).
2. `cv_stale_entry`: a signal between a timeout and the removal of the waiter's entry
   leaves a count; the next wait returns at once and leaves its entry; a later signal is
   spent on a task that does not wait (`gthr-default.h:287`).
3. `kernel_ready_map`: when a waiter that was lent a priority times out, the holder's old
   ready list may stay marked as not empty; the next selection looks there and an
   assertion of the kernel fails (`tasks.c:4297`).

Known limits of the code, met while modelling; the models state the properties so that these
cases are named or excluded:

* Threads. On CA9 and RISC-V a thread of higher priority can run before its local storage
  is set, although `README.md:848-849` of the repository says the critical section prevents
  it; if it ends before its creator resumes, its joiner waits for ever (`JoinsComplete` asks it only
  of threads that tell their end).
* `call_once`. Two callers and a callable that calls `call_once` can deadlock, because a
  caller waits for a flag with the global mutex held (`Crossed`). The static guard of
  `condition_variable.cc:117` may be compiled without locking.
* Thread exit. A callback that registers another one stores a value nobody runs, until a
  task gets the same TCB address. A static destructor deletes the key while a thread that
  ends may be about to use it (`gthr_key.cpp:40`).
* Atomics. A task that spins for a flag held by one of lower priority spins for ever
  (`Inverted`).
* Time. A deadline that has passed is a negative number of milliseconds, which becomes a wait of
  up to 71 minutes (`gthr-default.h:284`); sleeps of more than that wrap (`thread.cpp:111`); the
  clock jumps back at the wrap of the tick count, after 49.7 days; `pdTICKS_TO_MS` is right
  only at 1000 ticks a second. The comment "sleep at least 1ms" (`thread.cpp:109`) is not
  what `vTaskDelay(1)` does, which ends at the next tick.
* Mutexes. A task that gives its last mutex falls back to its base priority; when the waiter
  this wakes is no higher, the yield is not asked for, although a task the holder outranked until
  then is ready (`queue.c:866-891`; program `MissedYield` of `MCKernel`). A waiter that timed out on a
  mutex which is given, and taken by another task before the waiter looks again, fails an assertion
  (`queue.c:1546-1552`; `LateTake`).
* Event groups. `xEventGroupSetBits` reads the group once more, for its result, after the
  task it released may have deleted it (`event_groups.c:622`): a read of freed memory, which happens in program
  `Detach` when a thread notifies its creator. `GroupUsesAreLive` excepts this read and states when it can happen;
  `gthr_freertos` does not use the value.
* Tasks. `prvTaskIsTaskSuspended` does not look at notification waits, so `vTaskResume`
  wakes a task that waits for a notification without a limit.
* Timers. The reload of a timer that expired may be queued as a command behind a stop or a delete, and then
  starts a timer that was stopped, or uses one that is gone (`timers.c:531`); with the queue full an assertion
  fails instead. One-shot timers that expire at the wrap or in a late start stay marked
  active, and the bits of that mark are changed without protection; callbacks of the wrap run with
  the scheduler suspended.
* Buffers. A reader of messages moves the tail past a length and may put it back, and a
  writer that preempts it may overwrite the length (`stream_buffer.c:878` and 983); the
  length of the next message may be asked for while only the length has been written; a late
  notification ends the next wait early; a sender that timed out uses the space it
  saw before it waited.
* Heap. `free(nullptr)` reads the word before address 0 (`sys.cpp:123`); sizes near the top
  of `size_t` wrap when the word is added (`sys.cpp:86` and 107); the walk of `vPortGetHeapStats` assumes a
  list that is not empty (`heap_4.c:460-485`).

Software timers are compiled in by one configuration of the repository (`nxp_mk64`), stream
buffers are not used by the C++ library, and the C++ library makes no use of a timeout on a
recursive or nested mutex by itself; an application may.

## 8 What is not modelled

* `attributes_lock`. It holds a critical section over a whole construction, and whether
  another thread can be created meanwhile is a question to the port: its comment forbids
  what would break it, and a model of the lock would repeat the comment.
* Construction and destruction of condition variables and mutexes; deletion of the key
  by static destructors; use of handles from interrupt handlers.
* Failures of allocation (`create_thread` returning an error, exceptions): the builds
  disable exceptions. Memory for kernel objects comes from nowhere in `Kernel`: `Heap` is
  a model of its own.
* In `CondVar` a timeout may come at any moment; its length is the matter of `WallClock`
  and `Kernel`. Seconds narrowed to 32 bits need times 68 years apart.
* In the kernel: notifications other than counts, the yield of the idle task to others of its priority,
  queue sets, deletion, reset and registry of queues, setting and clearing bits from interrupts, pended function
  calls, `vTimerSetReloadMode`, the active flag and creation of timers, reset and
  change of the trigger level of buffers, static allocation, statistics, tracing, MPU.
* Co-routines, heaps 1, 2, 3 and 5, and the ports: no configuration uses the first two, and
  the ports are assembly, whose one property that matters, when a yield switches, is a constant
  (`Urgent`) in `ThreadLifecycle`.
* Memory ordering: the targets have one core; interleavings are sequentially
  consistent.
* The headers of the toolchain (`<mutex>`, `<thread>`, `<future>`), modelled where the
  repository's code depends on them and marked external in the map.
* Board support, drivers, demos, tests and start-up code, which are most of the lines of the
  repository: they have no state the library depends on.
