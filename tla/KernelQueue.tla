---------------------------- MODULE KernelQueue ----------------------------
(***************************************************************************)
(* Queues, semaphores and mutexes (queue.c): what the critical sections do  *)
(* to a queue `q` and, with the queue's two event lists, to the scheduler   *)
(* `s`.  Storage is the ring of slots the code keeps, with the slot written *)
(* next and the slot read last; a semaphore stores nothing and only counts. *)
(***************************************************************************)
EXTENDS KernelTasks

CONSTANTS Objects   \* the queues, semaphores and mutexes

Unlocked == -1      \* queueUNLOCKED; queueLOCKED_UNMODIFIED is 0

ToSend(o)    == <<o, "xTasksWaitingToSend">>
ToReceive(o) == <<o, "xTasksWaitingToReceive">>

\* xQueueGenericCreate and xQueueGenericReset: empty, read position last.
NewQueue(kind, length) ==
    [kind     |-> kind,     \* "queue", "semaphore", "mutex"
     length   |-> length,
     slots    |-> [i \in 0 .. length - 1 |-> None],
     writeTo  |-> 0,
     readFrom |-> length - 1,
     count    |-> 0,
     rxLock   |-> Unlocked,
     txLock   |-> Unlocked,
     holder   |-> None,
     calls    |-> 0]        \* uxRecursiveCallCount

\* xQueueCreateMutex gives the new mutex once; xQueueCreateCountingSemaphore
\* sets the count.
NewMutex == [NewQueue("mutex", 1) EXCEPT !.count = 1]
NewSemaphore(length, count) == [NewQueue("semaphore", length) EXCEPT !.count = count]

IsMutex(q) == q.kind = "mutex"
HoldsData(q) == q.kind = "queue"
IsEmpty(q) == q.count = 0
IsFull(q)  == q.count = q.length
After(q, i)  == (i + 1) % q.length
Before(q, i) == (i + q.length - 1) % q.length

\* The values a queue holds, the next to be received first.
Contents(q) == [i \in 1 .. q.count |-> q.slots[(q.readFrom + i) % q.length]]

--------------------------------------------------------------------------
(* The queue's own state.                                                 *)

\* Mutant: the front slot is written, the read position stays.
CopyDataInPlace(q, value, position) ==
    IF ~ HoldsData(q)
    THEN [q EXCEPT !.count = @ + 1, !.holder = IF IsMutex(q) THEN None ELSE @]
    ELSE IF position = "back"
    THEN [q EXCEPT !.slots[q.writeTo] = value, !.writeTo = After(q, @), !.count = @ + 1]
    ELSE [q EXCEPT !.slots[q.readFrom] = value, !.count = @ + 1]

\* prvCopyDataToQueue
CopyDataToQueue(q, value, position) ==
    IF ~ HoldsData(q)
    THEN [q EXCEPT !.count = @ + 1, !.holder = IF IsMutex(q) THEN None ELSE @]
    ELSE IF position = "back"
    THEN [q EXCEPT !.slots[q.writeTo] = value, !.writeTo = After(q, @), !.count = @ + 1]
    ELSE [q EXCEPT !.slots[q.readFrom] = value, !.readFrom = Before(q, @),
                   !.count = IF position = "overwrite" /\ @ > 0 THEN @ ELSE @ + 1]

\* prvCopyDataFromQueue: the value the next receive copies out.
NextValue(q) == IF HoldsData(q) THEN q.slots[After(q, q.readFrom)] ELSE None
Received(q) ==
    [q EXCEPT !.readFrom = IF HoldsData(q) THEN After(q, @) ELSE @, !.count = @ - 1]

Accepts(q, position) == q.count < q.length \/ position = "overwrite"

\* xQueueSemaphoreTake: a mutex gets its holder.
Taken(q, t) == [q EXCEPT !.count = @ - 1, !.holder = IF IsMutex(q) THEN t ELSE @]

\* prvLockQueue
LockQueue(q) ==
    [q EXCEPT !.rxLock = IF @ = Unlocked THEN 0 ELSE @,
              !.txLock = IF @ = Unlocked THEN 0 ELSE @]

--------------------------------------------------------------------------
(* What happens to the scheduler.                                         *)

\* xQueueGenericSend: a mutex is disinherited, then a receiver is woken; the
\* yield of the disinheritance is reached only when no receiver waits.
SendWakes(s, o, q) ==
    LET gave == IF IsMutex(q) THEN PriorityDisinherit(s, q.holder) ELSE s
    IN  IF gave.waiting[ToReceive(o)] # <<>> THEN WakeAndYield(gave, ToReceive(o))
        ELSE YieldIf(gave, IsMutex(q) /\ Disinherits(s, q.holder))

ReceiveWakes(s, o) == WakeAndYield(s, ToSend(o))
PeekWakes(s, o)    == WakeAndYield(s, ToReceive(o))

TakeWakes(s, o, q) ==
    WakeAndYield(IF IsMutex(q) THEN [s EXCEPT !.mutexesHeld[s.current] = @ + 1] ELSE s,
                 ToSend(o))

\* xQueueSendFromISR, xQueueGiveFromISR and xQueueReceiveFromISR on a locked
\* queue count the items for prvUnlockQueue instead of waking a task.
SendFromISRWakes(s, o, q) ==
    IF q.txLock = Unlocked THEN WakeAndYield(s, ToReceive(o)) ELSE s
ReceiveFromISRWakes(s, o, q) ==
    IF q.rxLock = Unlocked THEN WakeAndYield(s, ToSend(o)) ELSE s
CountTx(q) == [q EXCEPT !.txLock = IF q.txLock = Unlocked THEN @ ELSE @ + 1]
CountRx(q) == [q EXCEPT !.rxLock = IF q.rxLock = Unlocked THEN @ ELSE @ + 1]

\* prvUnlockQueue wakes at most one task for each item counted; its two
\* halves are two critical sections.
WakeUpTo(s, list, n) ==
    LET first == {s.waiting[list][i] : i \in {j \in DOMAIN s.waiting[list] : j <= n}}
        wake(state, t) == IF t \in first THEN Unblock(state, t) ELSE state
    IN  Each(wake, s, s.waiting[list])
\* Mutant: the last item counted wakes nobody.
UnlockTxOneShort(s, o, q) == WakeUpTo(s, ToReceive(o), q.txLock - 1)
UnlockTxWakes(s, o, q) == WakeUpTo(s, ToReceive(o), q.txLock)
UnlockRxWakes(s, o, q) == WakeUpTo(s, ToSend(o), q.rxLock)

\* prvGetDisinheritPriorityAfterTimeout: of the first task still waiting.
HighestWaiting(s, o) ==
    LET list == s.waiting[ToReceive(o)]
    IN  IF list = <<>> THEN 0 ELSE TopPriority - s.eventOrder[Head(list)]

--------------------------------------------------------------------------
(* Event groups (event_groups.c): a group is its set of bits, and a waiting *)
(* task's event item holds what it waits for.                             *)

WaitingForBits(g) == <<g, "xTasksWaitingForBits">>

WaitedFor(bits, all, clear) == [bits |-> bits, all |-> all, clear |-> clear, set |-> FALSE]

\* prvTestWaitCondition
Satisfied(current, wanted) ==
    IF wanted.all THEN wanted.bits \subseteq current ELSE wanted.bits \cap current # {}

\* The waiting tasks whose wait is over with `bits`.
Released(s, group, bits) ==
    {t \in Range(s.waiting[WaitingForBits(group)]) : Satisfied(bits, s.eventBits[t])}

\* Mutant: the walk over the waiting tasks ends with the first that is released.
SetBitsWakesFirst(s, group, bits) ==
    LET list  == s.waiting[WaitingForBits(group)]
        first == Min({i \in DOMAIN list : list[i] \in Released(s, group, bits)})
    IN  IF Released(s, group, bits) = {} THEN s
        ELSE Release(s, WaitingForBits(group), {list[first]}, bits)

\* xEventGroupSetBits: the tasks whose wait is over, and the bits they clear.
SetBitsWakes(s, group, bits) ==
    Release(s, WaitingForBits(group), Released(s, group, bits), bits)
ClearedBySet(s, group, bits) ==
    UNION {s.eventBits[t].bits : t \in {u \in Released(s, group, bits) : s.eventBits[u].clear}}

\* vEventGroupDelete: every waiting task is released with no bit set.
Drop(s, group) == Release(s, WaitingForBits(group), Range(s.waiting[WaitingForBits(group)]), {})

\* Mutants: the released tasks are not told that they were; no task is released.
DeleteGroupTimesOut(s, group) ==
    [Drop(s, group) EXCEPT !.eventBits =
        [t \in Tasks |-> IF WaitsIn(s, t, WaitingForBits(group)) THEN [@[t] EXCEPT !.set = FALSE]
                         ELSE @[t]]]
DeleteGroupQuietly(s, group) == s
DeleteGroupWakes(s, group) == Drop(s, group)
=============================================================================
