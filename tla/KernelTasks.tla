---------------------------- MODULE KernelTasks ----------------------------
(***************************************************************************)
(* The scheduler of the FreeRTOS kernel (tasks.c, list.c) as functions on   *)
(* one record `s`, the kernel's static variables and the fields of the      *)
(* TCBs.  A critical section of the code is one application of them.        *)
(*                                                                          *)
(* A list whose pxIndex never moves is a sequence, head first.  A ready     *)
(* list, which listGET_OWNER_OF_NEXT_ENTRY walks round, is the sequence of  *)
(* the entries after pxIndex, its end marker End among them, the entry      *)
(* pxIndex points to being the last.                                        *)
(*                                                                          *)
(* `s.failed` names the configASSERT that has failed; nothing runs after    *)
(* it, since configASSERT never returns.                                    *)
(***************************************************************************)
EXTENDS Naturals, SequencesExt, FiniteSetsExt

CONSTANTS
    Tasks,        \* every TCB, Idle included
    Idle,         \* the idle task
    TopPriority,  \* configMAX_PRIORITIES - 1
    TickCount,    \* the number of values of TickType_t
    InitialTick,  \* configINITIAL_TICK_COUNT
    EventLists,   \* the event lists of queues and event groups
    None          \* NULL

\* The assertions of tasks.c that may fail.
Assertions ==
    {"delayed list empty", "ready list not empty", "the holder gives its mutex",
     "the holder is another task", "the holder holds a mutex"}

ASSUME KernelAssumption ==
    /\ Idle \in Tasks
    /\ TopPriority \in Nat \ {0}
    /\ TickCount \in Nat \ {0, 1}
    /\ InitialTick \in 0 .. TickCount - 1
    /\ None \notin Tasks \cup Assertions

Priorities == 0 .. TopPriority
MaxDelay   == TickCount - 1
Pending    == <<"tasks", "xPendingReadyList">>
End        == "xListEnd"

EmptyRing == <<End>>
RingInsert(ring, t) == InsertAt(ring, Len(ring), t)
RingLength(ring) == Len(ring) - 1

\* listGET_OWNER_OF_NEXT_ENTRY: pxIndex moves on, over the end marker.
RingAdvance(ring) ==
    LET steps == IF Head(ring) = End THEN 2 ELSE 1
    IN  SubSeq(ring, steps + 1, Len(ring)) \o SubSeq(ring, 1, steps)

\* vListInsert: before the first entry with a larger item value.
ListInsert(list, t, value) ==
    LET larger == {i \in DOMAIN list : value[list[i]] > value[t]}
    IN  IF larger = {} THEN Append(list, t) ELSE InsertAt(list, Min(larger), t)

\* A step for each element in turn; after[i] is the state after i of them.  It is
\* bound by a set, so that TLC evaluates it once.
Each(step(_, _), s, seq) ==
    LET after[i \in 0 .. Len(seq)] ==
            IF i = 0 THEN s ELSE CHOOSE r \in {step(v, seq[i]) : v \in {after[i - 1]}} : TRUE
    IN  after[Len(seq)]

Fail(s, assertion) == [s EXCEPT !.failed = IF @ = None THEN assertion ELSE @]
Yield(s) == [s EXCEPT !.switchPending = TRUE]
YieldIf(s, condition) == IF condition THEN Yield(s) ELSE s

IsReady(s, t) == Contains(s.ready[s.priority[t]], t)
IsDelayed(s, t) == Contains(s.delayed, t) \/ Contains(s.overflowDelayed, t)
WaitsIn(s, t, list) == Contains(s.waiting[list], t)
EventContainer(s, t) == {list \in EventLists \cup {Pending} : WaitsIn(s, t, list)}

\* eTaskGetState(t) = eBlocked, of a task that is not running.
IsBlocked(s, t) ==
    \/ IsDelayed(s, t)
    \/ /\ t \in s.suspendedTasks
       /\ EventContainer(s, t) # {} \/ s.notifyState[t] = "waiting"

--------------------------------------------------------------------------
(* Moving a task between lists.                                           *)

RemoveEventItem(s, t) ==
    [s EXCEPT !.waiting = [list \in DOMAIN @ |-> RemoveFirst(@[list], t)]]

RemoveStateItem(s, t) ==
    [s EXCEPT !.ready           = [p \in Priorities |-> RemoveFirst(@[p], t)],
              !.delayed         = RemoveFirst(@, t),
              !.overflowDelayed = RemoveFirst(@, t),
              !.suspendedTasks  = @ \ {t},
              !.terminating     = RemoveFirst(@, t)]

AddTaskToReadyList(s, t) ==
    LET p == s.priority[t]
    IN  [s EXCEPT !.topReady = @ \cup {p}, !.ready[p] = RingInsert(@, t)]

\* taskRESET_READY_PRIORITY
ResetReadyPriority(s, p) ==
    IF RingLength(s.ready[p]) = 0 THEN [s EXCEPT !.topReady = @ \ {p}] ELSE s

MakeReady(s, t) == AddTaskToReadyList(RemoveStateItem(s, t), t)

\* Those tasks, in the order of seq, leave their event lists and become ready.
ReadyThose(s, seq, those) ==
    LET ready(state, t) ==
            IF t \in those THEN MakeReady(RemoveEventItem(state, t), t) ELSE state
    IN  Each(ready, s, seq)
ReadyAll(s, seq) == ReadyThose(s, seq, Range(seq))

ResetNextTaskUnblockTime(s) ==
    [s EXCEPT !.nextUnblock =
        IF s.delayed = <<>> THEN MaxDelay ELSE s.wakeTime[Head(s.delayed)]]

\* uxTaskResetEventItemValue: what the event item held, replaced by the priority.
ResetEventItemValue(s, t) ==
    [s EXCEPT !.eventBits[t] = None, !.eventOrder[t] = TopPriority - s.priority[t]]

\* A change of priority shows in the event item unless the item holds bits;
\* the list the item is in is not sorted again.
SetEventOrder(s, t, p) ==
    IF s.eventBits[t] = None THEN [s EXCEPT !.eventOrder[t] = TopPriority - p] ELSE s

\* Mutant: only a ready task changes its priority.
ChangePriorityOfReady(s, t, p, cleared) ==
    IF IsReady(s, t)
    THEN AddTaskToReadyList([RemoveStateItem(s, t) EXCEPT !.priority[t] = p], t) ELSE s

\* Gives t the priority p and, if it is ready, moves it to the list of p,
\* clearing the bit of `cleared` when its old list becomes empty.
ChangePriority(s, t, p, cleared) ==
    LET moved == RemoveStateItem(s, t)
        old   == s.priority[t]
        reset == IF RingLength(moved.ready[old]) = 0
                 THEN [moved EXCEPT !.topReady = @ \ {cleared}] ELSE moved
    IN  IF IsReady(s, t)
        THEN AddTaskToReadyList([reset EXCEPT !.priority[t] = p], t)
        ELSE [s EXCEPT !.priority[t] = p]

\* Mutant: one delayed list for the times before and after the wrap.
AddCurrentTaskToOneList(s, ticks, mayBlockForever) ==
    LET t     == s.current
        taken == ResetReadyPriority(RemoveStateItem(s, t), s.priority[t])
        timed == [taken EXCEPT !.wakeTime[t] = (s.tick + ticks) % TickCount]
    IN  IF ticks = MaxDelay /\ mayBlockForever
        THEN [taken EXCEPT !.suspendedTasks = @ \cup {t}]
        ELSE [timed EXCEPT !.delayed     = ListInsert(@, t, timed.wakeTime),
                           !.nextUnblock = Min({@, timed.wakeTime[t]})]

AddCurrentTaskToDelayedList(s, ticks, mayBlockForever) ==
    LET t     == s.current
        wake  == (s.tick + ticks) % TickCount
        taken == ResetReadyPriority(RemoveStateItem(s, t), s.priority[t])
        timed == [taken EXCEPT !.wakeTime[t] = wake, !.delayAborted[t] = FALSE]
    IN  IF ticks = MaxDelay /\ mayBlockForever
        THEN [taken EXCEPT !.suspendedTasks = @ \cup {t}, !.delayAborted[t] = FALSE]
        ELSE IF wake < s.tick
        THEN [timed EXCEPT !.overflowDelayed = ListInsert(@, t, timed.wakeTime)]
        ELSE [timed EXCEPT !.delayed     = ListInsert(@, t, timed.wakeTime),
                           !.nextUnblock = Min({@, wake})]

--------------------------------------------------------------------------
(* Event lists.                                                           *)

PlaceOnEventList(s, list, ticks) ==
    AddCurrentTaskToDelayedList(
        [s EXCEPT !.waiting[list] = ListInsert(@, s.current, s.eventOrder)], ticks, TRUE)

PlaceOnUnorderedEventList(s, list, bits, ticks) ==
    AddCurrentTaskToDelayedList(
        [s EXCEPT !.waiting[list] = Append(@, s.current),
                  !.eventBits[s.current] = bits], ticks, TRUE)

Outranks(s, t) == s.priority[t] > s.priority[s.current]

\* A task whose event has come: ready, or pending while the scheduler is
\* suspended; xYieldPending records that it outranks the running task.
Unblock(s, t) ==
    LET out == RemoveEventItem(s, t)
        to  == IF s.suspended = 0 THEN MakeReady(out, t)
               ELSE [out EXCEPT !.waiting[Pending] = Append(@, t)]
    IN  [to EXCEPT !.yieldPending = @ \/ Outranks(s, t)]

\* xTaskRemoveFromEventList, and what it returns.
RemoveFromEventList(s, list) == Unblock(s, Head(s.waiting[list]))
RemovesHigher(s, list) == Outranks(s, Head(s.waiting[list]))

\* The callers' pattern: wake the first waiter, if any, and yield to it.
WakeAndYield(s, list) ==
    IF s.waiting[list] = <<>> THEN s
    ELSE YieldIf(RemoveFromEventList(s, list), RemovesHigher(s, list))

\* vTaskRemoveFromUnorderedEventList, called with the scheduler suspended, for
\* each of those tasks as the walk over the list comes to it: the first bits of
\* its item are replaced, and marked.
Release(s, list, those, bits) ==
    LET told == [s EXCEPT !.eventBits =
                    [t \in Tasks |-> IF t \in those
                                     THEN [@[t] EXCEPT !.bits = bits, !.set = TRUE] ELSE @[t]]]
    IN  [ReadyThose(told, s.waiting[list], those) EXCEPT
            !.yieldPending = @ \/ \E t \in those : Outranks(s, t)]

--------------------------------------------------------------------------
(* Time.                                                                  *)

\* taskSWITCH_DELAYED_LISTS
SwitchDelayedLists(s) ==
    LET checked == IF s.delayed = <<>> THEN s ELSE Fail(s, "delayed list empty")
    IN  ResetNextTaskUnblockTime(
            [checked EXCEPT !.delayed = s.overflowDelayed,
                            !.overflowDelayed = s.delayed,
                            !.overflows = @ + 1])

\* The delayed tasks the tick wakes: the entries before the first later one.
ExpiredTasks(s) ==
    LET later == {i \in DOMAIN s.delayed : s.wakeTime[s.delayed[i]] > s.tick}
    IN  IF s.tick < s.nextUnblock THEN <<>>
        ELSE IF later = {} THEN s.delayed ELSE SubSeq(s.delayed, 1, Min(later) - 1)

WakeExpired(s) ==
    IF s.tick < s.nextUnblock THEN s
    ELSE ResetNextTaskUnblockTime(ReadyAll(s, ExpiredTasks(s)))

\* xTaskIncrementTick with the scheduler running, and what it returns.
CountTick(s) ==
    LET next == [s EXCEPT !.tick = (@ + 1) % TickCount]
    IN  IF next.tick = 0 THEN SwitchDelayedLists(next) ELSE next
AdvanceTick(s) == WakeExpired(CountTick(s))
TickSwitches(s) ==
    LET after == AdvanceTick(s)
    IN  \/ \E t \in Range(ExpiredTasks(CountTick(s))) :
               s.priority[t] >= s.priority[s.current]
        \/ RingLength(after.ready[s.priority[s.current]]) > 1
        \/ s.yieldPending

\* The tick interrupt.
IncrementTick(s) ==
    IF s.suspended = 0 THEN YieldIf(AdvanceTick(s), TickSwitches(s))
    ELSE [s EXCEPT !.pendedTicks = @ + 1]

SuspendAll(s) == [s EXCEPT !.suspended = @ + 1]

\* Mutant: the tasks become ready, no yield is recorded.
ReadyPendingQuietly(s) ==
    IF s.waiting[Pending] = <<>> THEN s
    ELSE ResetNextTaskUnblockTime(ReadyAll(s, s.waiting[Pending]))

\* xYieldPending, once any of the tasks is no lower than the running one.
ReadyPending(s) ==
    LET noLower == {t \in Range(s.waiting[Pending]) : s.priority[t] >= s.priority[s.current]}
        ready   == ResetNextTaskUnblockTime(ReadyAll(s, s.waiting[Pending]))
    IN  IF s.waiting[Pending] = <<>> THEN s
        ELSE [ready EXCEPT !.yieldPending = @ \/ noLower # {}]

ReplayTicks(s) ==
    LET replay(state, i) ==
            [AdvanceTick(state) EXCEPT !.yieldPending = @ \/ TickSwitches(state)]
    IN  [Each(replay, s, [i \in 1 .. s.pendedTicks |-> i]) EXCEPT !.pendedTicks = 0]

\* xTaskResumeAll, and whether it has yielded.
Resumed(s) ==
    LET up == [s EXCEPT !.suspended = @ - 1]
    IN  IF up.suspended = 0 THEN ReplayTicks(ReadyPending(up)) ELSE up
ResumeYields(s) == s.suspended = 1 /\ Resumed(s).yieldPending
ResumeAll(s) == YieldIf(Resumed(s), ResumeYields(s))

\* vTaskSwitchContext with taskSELECT_HIGHEST_PRIORITY_TASK.
SwitchContext(s) ==
    LET done == [s EXCEPT !.switchPending = FALSE]
        top  == Max(s.topReady)
        ring == RingAdvance(s.ready[top])
    IN  IF s.suspended > 0 THEN [done EXCEPT !.yieldPending = TRUE]
        ELSE IF RingLength(s.ready[top]) = 0 THEN Fail(done, "ready list not empty")
        ELSE [done EXCEPT !.yieldPending = FALSE, !.ready[top] = ring, !.current = Last(ring)]

\* A timeout: the wait still to come and the time it was computed at.
SetTimeOut(s, ticks) == [ticks |-> ticks, overflows |-> s.overflows, entered |-> s.tick]

\* xTaskCheckForTimeOut: the timeout that is left; TimedOut is its result.
Elapsed(s, timeout) == (s.tick + TickCount - timeout.entered) % TickCount
TimedOut(s, timeout) ==
    \/ s.delayAborted[s.current]
    \/ /\ timeout.ticks # MaxDelay
       /\ \/ s.overflows # timeout.overflows /\ s.tick >= timeout.entered
          \/ Elapsed(s, timeout) >= timeout.ticks
\* Mutant: the wait starts again in full.
CheckAfresh(s, timeout) ==
    IF TimedOut(s, timeout) THEN [timeout EXCEPT !.ticks = 0] ELSE SetTimeOut(s, timeout.ticks)
CheckForTimeOut(s, timeout) ==
    IF s.delayAborted[s.current] \/ timeout.ticks = MaxDelay THEN timeout
    ELSE IF TimedOut(s, timeout) THEN [timeout EXCEPT !.ticks = 0]
    ELSE SetTimeOut(s, timeout.ticks - Elapsed(s, timeout))
ClearAborted(s) == [s EXCEPT !.delayAborted[s.current] = FALSE]

--------------------------------------------------------------------------
(* Priority inheritance.                                                  *)

\* xTaskPriorityInherit on behalf of the running task, and what it returns.
PriorityInherit(s, holder) ==
    LET p == s.priority[s.current]
    IN  IF holder = None \/ ~ s.priority[holder] < p THEN s
        ELSE ChangePriority(SetEventOrder(s, holder, p), holder, p, s.priority[holder])
Inherits(s, holder) ==
    /\ holder # None
    /\ \/ s.priority[holder] < s.priority[s.current]
       \/ s.basePriority[holder] < s.priority[s.current]

\* xTaskPriorityDisinherit, and what it returns.
Disinherits(s, holder) ==
    /\ holder # None
    /\ s.priority[holder] # s.basePriority[holder]
    /\ s.mutexesHeld[holder] = 1
PriorityDisinherit(s, holder) ==
    LET given   == [s EXCEPT !.mutexesHeld[holder] = @ - 1]
        base    == s.basePriority[holder]
        lowered == ChangePriority(given, holder, base, s.priority[holder])
    IN  IF holder = None THEN s
        ELSE IF holder # s.current \/ s.mutexesHeld[holder] = 0
        THEN Fail(s, "the holder gives its mutex")
        ELSE IF Disinherits(s, holder)
        THEN [lowered EXCEPT !.eventOrder[holder] = TopPriority - base]
        ELSE given

\* vTaskPriorityDisinheritAfterTimeout.  The bit that is cleared when the
\* holder leaves its old ready list empty is that of its new priority.
PriorityDisinheritAfterTimeout(s, holder, highestWaiting) ==
    LET p       == Max({s.basePriority[holder], highestWaiting})
        checked == IF holder # s.current THEN s ELSE Fail(s, "the holder is another task")
    IN  IF holder = None THEN s
        ELSE IF s.mutexesHeld[holder] = 0 THEN Fail(s, "the holder holds a mutex")
        ELSE IF s.priority[holder] = p \/ s.mutexesHeld[holder] > 1 THEN s
        ELSE ChangePriority(SetEventOrder(checked, holder, p), holder, p, p)

--------------------------------------------------------------------------
(* Calls about other tasks.                                               *)

\* prvTaskIsTaskSuspended does not look at notifications, so a task that
\* waits for one without a timeout counts as suspended.
IsSuspended(s, t) == t \in s.suspendedTasks /\ EventContainer(s, t) = {}

Unlisted(s, t) ==
    RemoveEventItem(ResetReadyPriority(RemoveStateItem(s, t), s.priority[t]), t)

DeleteTask(s, t) ==
    LET out == Unlisted(s, t)
    IN  IF t = s.current THEN Yield([out EXCEPT !.terminating = Append(@, t)])
        ELSE ResetNextTaskUnblockTime(out)

SuspendTask(s, t) ==
    LET out == [Unlisted(s, t) EXCEPT
                   !.suspendedTasks = @ \cup {t},
                   !.notifyState[t] = IF @ = "waiting" THEN "none" ELSE @]
    IN  YieldIf(ResetNextTaskUnblockTime(out), t = s.current)

ResumeTask(s, t) ==
    IF t = s.current \/ ~ IsSuspended(s, t) THEN s
    ELSE YieldIf(MakeReady(s, t), s.priority[t] >= s.priority[s.current])

ResumeTaskFromISR(s, t) ==
    LET yields == s.suspended = 0 /\ s.priority[t] >= s.priority[s.current]
        ready  == [MakeReady(s, t) EXCEPT !.yieldPending = @ \/ yields]
    IN  IF ~ IsSuspended(s, t) THEN s
        ELSE IF s.suspended = 0 THEN YieldIf(ready, yields)
        ELSE [s EXCEPT !.waiting[Pending] = Append(@, t)]

\* vTaskPrioritySet; an inherited priority stays until it is disinherited.
PrioritySet(s, t, p) ==
    LET base   == s.basePriority[t]
        used   == s.priority[t]
        set    == SetEventOrder([s EXCEPT !.basePriority[t] = p], t, p)
        yields == IF p > base THEN t # s.current /\ p >= s.priority[s.current]
                  ELSE t = s.current
    IN  IF p = base THEN s
        ELSE YieldIf(ChangePriority(set, t, IF base = used THEN p ELSE used, used), yields)

\* xTaskAbortDelay, with the scheduler suspended.
AbortDelay(s, t) ==
    LET waits == EventContainer(s, t) # {}
        woken == [MakeReady(RemoveEventItem(s, t), t) EXCEPT
                     !.delayAborted[t] = @ \/ waits,
                     !.yieldPending    = @ \/ Outranks(s, t)]
    IN  IF IsBlocked(s, t) THEN woken ELSE s

\* Task notifications: `noted` is s with the state of t made "received" and
\* its value changed, one more (eIncrement) or not at all (eNoAction).
Counted(s, t) ==
    [s EXCEPT !.notifiedValue[t] = @ + 1, !.notifyState[t] = "received"]
Signalled(s, t) == [s EXCEPT !.notifyState[t] = "received"]
Notify(s, t, noted) ==
    IF s.notifyState[t] # "waiting" THEN noted
    ELSE YieldIf(MakeReady(noted, t), Outranks(s, t))
NotifyFromISR(s, t, noted) ==
    IF s.notifyState[t] # "waiting" THEN noted
    ELSE YieldIf(Unblock(noted, t), Outranks(s, t))

\* xTaskNotifyStateClear(NULL); the two critical sections of xTaskNotifyWait,
\* which waits only while no notification is pending.
NotifyStateClear(s) ==
    [s EXCEPT !.notifyState[s.current] = IF @ = "received" THEN "none" ELSE @]
NotifyWait(s, ticks) ==
    LET waits == [s EXCEPT !.notifyState[s.current] = "waiting"]
    IN  IF s.notifyState[s.current] = "received" THEN s
        ELSE IF ticks = 0 THEN waits
        ELSE Yield(AddCurrentTaskToDelayedList(waits, ticks, TRUE))
NotifyEnd(s) == [s EXCEPT !.notifyState[s.current] = "none"]

\* ulTaskNotifyTake: its first critical section waits only for a zero value,
\* its second takes the value, one or all of it.
NotifyTakeWait(s, ticks) ==
    LET waits == [s EXCEPT !.notifyState[s.current] = "waiting"]
    IN  IF s.notifiedValue[s.current] > 0 THEN s
        ELSE IF ticks = 0 THEN waits
        ELSE Yield(AddCurrentTaskToDelayedList(waits, ticks, TRUE))
NotifyTake(s, clear) ==
    [s EXCEPT !.notifiedValue[s.current] = IF clear \/ @ = 0 THEN 0 ELSE @ - 1,
              !.notifyState[s.current]   = "none"]

\* xTaskDelayUntil: the next wake time, and whether it is still to come.
NextWake(last, increment) == (last + increment) % TickCount
StillToCome(s, last, wake) ==
    IF s.tick < last THEN wake < last /\ wake > s.tick
    ELSE wake < last \/ wake > s.tick
TicksTo(s, wake) == (wake + TickCount - s.tick) % TickCount
=============================================================================
