------------------------------- MODULE Timers -------------------------------
(***************************************************************************)
(* Software timers (timers.c).  Tasks and interrupts send commands to the   *)
(* timer task through a queue; only the timer task touches the two lists of *)
(* active timers, one for the times before the next wrap of the tick count  *)
(* and one for those after it.  It sleeps until the first expiry or the     *)
(* next command, and finds out about a wrap by comparing two tick counts.   *)
(***************************************************************************)
EXTENDS Kernel

CONSTANTS TimerHandles   \* the software timers

VARIABLES timers

--------------------------------------------------------------------------
(* The lists and the local variables of the timer task.  For the properties *)
(* `started` and `fired` record when a timer was started and how often it   *)
(* has expired since, `sampled` the moment the time was last looked at, and  *)
(* `round` how often the tick count had wrapped by then.                    *)

NoTimers ==
    [current  |-> <<>>, overflow |-> <<>>,             \* pxCurrentTimerList, pxOverflowTimerList
     lastTime |-> 0,                                   \* xLastTime
     expiry   |-> [h \in TimerHandles |-> 0],                \* the value of xTimerListItem
     period   |-> program.periods,                  \* xTimerPeriodInTicks
     exists   |-> TimerHandles,
     timeNow  |-> 0, nextExpire |-> 0,                 \* xTimeNow, xNextExpireTime
     command  |-> None,                                \* xMessage
     subject  |-> None,                                \* pxTimer
     then     |-> "receive",                           \* where a callback returns to
     switched |-> "apply",                             \* where prvSwitchTimerLists returns to
     started  |-> [h \in TimerHandles |-> None], fired |-> [h \in TimerHandles |-> 0],
     sampled |-> 0, round |-> 0]

Reloads(h) == h \in program.reloads                 \* tmrSTATUS_IS_AUTORELOAD

\* The ticks counted so far, without the wrap.
Clock == sched.overflows * TickCount + sched.tick

Later(time, ticks) == (time + ticks) % TickCount
Since(time, earlier) == (time + TickCount - earlier) % TickCount

Unlist(T, h) == [T EXCEPT !.current = Remove(@, h), !.overflow = Remove(@, h)]

\* Mutant: a wrap between the command and now is not noticed.
IsOverUnlessWrapped(T, h, expiry, commanded) ==
    expiry <= T.timeNow /\ Since(T.timeNow, commanded) >= T.period[h]

\* prvInsertTimerInActiveList: a timer whose time is over already is in no
\* list afterwards.
IsOver(T, h, expiry, commanded) ==
    IF expiry <= T.timeNow THEN Since(T.timeNow, commanded) >= T.period[h]
    ELSE T.timeNow < commanded /\ expiry >= commanded
InsertTimer(T, h, expiry, commanded) ==
    LET set == [T EXCEPT !.expiry[h] = expiry]
    IN  IF IsOver(T, h, expiry, commanded) THEN set
        ELSE IF expiry <= T.timeNow
        THEN [set EXCEPT !.overflow = ListInsert(@, h, set.expiry)]
        ELSE [set EXCEPT !.current = ListInsert(@, h, set.expiry)]

Expired(T, h) == [T EXCEPT !.fired[h] = @ + 1, !.subject = h]

--------------------------------------------------------------------------
(* Commands (xTimerGenericCommand).                                       *)

\* xTimerStart reads the tick count before the message is sent; the send may
\* have to wait.
Message(call) ==
    [id |-> call.id, timer |-> call.timer, moment |-> Clock,
     value |-> IF call.id = "start" THEN sched.tick ELSE call.value]

ComposeCommand(t) ==
    /\ Calls(t, {"compose"})
    /\ Goto(t, [message |-> Message(Call(t))])
    /\ UNCHANGED <<program, sched, queues, groups, raised, now, timers>>

CommandInterrupt ==
    LET q == queues[TimerQueue]
    IN  /\ Raise({"command"})
        /\ IF IsFull(q) THEN UNCHANGED <<sched, queues>>
           ELSE /\ queues' = [queues EXCEPT ![TimerQueue] =
                                 CountTx(CopyDataToQueue(q, Message(Raised), "back"))]
                /\ sched' = SendFromISRWakes(sched, TimerQueue, q)
        /\ UNCHANGED timers

\* The timer task asks itself to start an auto-reload timer again, from the
\* expiry `value`; it asserts that its queue has room.
SendReload(h, value) ==
    LET q == queues[TimerQueue]
        reload == [id |-> "reload", timer |-> h, moment |-> Clock, value |-> value]
    IN  IF IsFull(q) THEN sched' = Fail(sched, "room for a reload") /\ UNCHANGED queues
        ELSE /\ queues' = [queues EXCEPT ![TimerQueue] = CopyDataToQueue(q, reload, "back")]
             /\ sched' = SendWakes(sched, TimerQueue, q)

--------------------------------------------------------------------------
(* prvTimerTask: prvProcessTimerOrBlockTask.                              *)

\* prvSampleTimeNow up to the switch of the lists, if the tick count has wrapped.
Wrapped == sched.tick < timers.lastTime
Sampled(T) ==
    LET seen == [T EXCEPT !.timeNow = sched.tick, !.sampled = Clock]
    IN  IF Wrapped THEN seen
        ELSE [seen EXCEPT !.lastTime = sched.tick, !.round = sched.overflows]

\* prvGetNextExpireTime, vTaskSuspendAll and prvSampleTimeNow.
LookAtTimers(d) ==
    LET next == IF timers.current = <<>> THEN 0 ELSE timers.expiry[Head(timers.current)]
    IN  /\ Calls(d, {"daemon"})
        /\ sched' = SuspendAll(sched)
        /\ timers' = [Sampled(timers) EXCEPT !.nextExpire = next, !.switched = "resumeSwitched"]
        /\ Goto(d, [pc |-> IF Wrapped THEN "switchLists"
                           ELSE IF timers.current # <<>> /\ next <= sched.tick THEN "resumeExpired"
                           ELSE "lockQueue"])
        /\ UNCHANGED <<program, queues, groups, raised, now>>

\* vQueueWaitForMessageRestricted: lock the queue, and wait unless it holds a
\* command (CheckStill, UnlockTx and UnlockRx of Kernel do the rest).
AwaitCommand(d) ==
    /\ At(d, "lockQueue")
    /\ queues' = [queues EXCEPT ![TimerQueue] = LockQueue(@)]
    /\ Goto(d, [pc |-> "check"])
    /\ UNCHANGED <<program, sched, groups, raised, now, timers>>

\* vTaskPlaceOnEventListRestricted.  Without a timer in the current list the
\* wait ends at the wrap, without any timer never.
PlaceDaemon(d) ==
    LET forever == timers.current = <<>> /\ timers.overflow = <<>>
        ticks   == IF forever THEN MaxDelay ELSE Since(timers.nextExpire, timers.timeNow)
        listed  == [sched EXCEPT !.waiting[ToReceive(TimerQueue)] = Append(@, d)]
    IN  /\ At(d, "place")
        /\ Call(d).op = "daemon"
        /\ sched' = AddCurrentTaskToDelayedList(listed, ticks, forever)
        /\ Goto(d, [pc |-> "unlockTx",
                    deadline |-> IF forever THEN None ELSE now - sched.pendedTicks + ticks])
        /\ UNCHANGED <<program, queues, groups, raised, now, timers>>

ResumeDaemon(d) ==
    /\ \/ /\ At(d, "resume") /\ Call(d).op = "daemon"
          /\ sched' = Yield(ResumeAll(sched))
          /\ Goto(d, [pc |-> "receive"])
       \/ /\ At(d, "resumeSwitched")
          /\ sched' = ResumeAll(sched)
          /\ Goto(d, [pc |-> "receive"])
       \/ /\ At(d, "resumeExpired")
          /\ sched' = ResumeAll(sched)
          /\ Goto(d, [pc |-> "expire"])
    /\ UNCHANGED <<program, queues, groups, raised, now, timers>>

\* prvProcessExpiredTimer up to its callback.
ExpireTimer(d) ==
    LET h    == Head(timers.current)
        next == Later(timers.nextExpire, timers.period[h])
        out  == [Expired(Unlist(timers, h), h) EXCEPT !.then = "receive"]
    IN  /\ At(d, "expire")
        /\ timers' = IF Reloads(h) THEN InsertTimer(out, h, next, timers.nextExpire) ELSE out
        /\ IF Reloads(h) /\ IsOver(timers, h, next, timers.nextExpire)
           THEN SendReload(h, timers.nextExpire) ELSE UNCHANGED <<sched, queues>>
        /\ Goto(d, [pc |-> "callback"])
        /\ UNCHANGED <<program, groups, raised, now>>

\* pxCallbackFunction, of which a program chooses the task that it notifies, if
\* any: program.tells has the timers that may notify a task.
Callback(d) ==
    LET told == {t \in Tasks : timers.subject \in program.tells[t]}
    IN  /\ At(d, "callback")
        /\ IF told = {} THEN UNCHANGED sched
           ELSE \E t \in told : sched' = Notify(sched, t, Counted(sched, t))
        /\ Goto(d, [pc |-> timers.then])
        /\ UNCHANGED <<program, queues, groups, raised, now, timers>>

--------------------------------------------------------------------------
(* prvSwitchTimerLists: the timers left in the current list expire first.  *)

SwitchOne(d) ==
    LET h == Head(timers.current)
    IN  /\ At(d, "switchLists")
        /\ timers.current # <<>>
        /\ timers' = [Expired(Unlist(timers, h), h) EXCEPT
                         !.nextExpire = timers.expiry[h], !.then = "reloadSwitched"]
        /\ Goto(d, [pc |-> "callback"])
        /\ UNCHANGED <<program, sched, queues, groups, raised, now>>

\* One that expires again before the wrap goes back into the list that is
\* being emptied.
ReloadSwitched(d) ==
    LET h      == timers.subject
        reload == Later(timers.nextExpire, timers.period[h])
        set    == [timers EXCEPT !.expiry[h] = reload]
    IN  /\ At(d, "reloadSwitched")
        /\ IF ~ Reloads(h) THEN UNCHANGED <<sched, queues, timers>>
           ELSE IF reload > timers.nextExpire
           THEN /\ timers' = [set EXCEPT !.current = ListInsert(@, h, set.expiry)]
                /\ UNCHANGED <<sched, queues>>
           ELSE SendReload(h, timers.nextExpire) /\ UNCHANGED timers
        /\ Goto(d, [pc |-> "switchLists"])
        /\ UNCHANGED <<program, groups, raised, now>>

SwitchLists(d) ==
    /\ At(d, "switchLists")
    /\ timers.current = <<>>
    /\ timers' = [timers EXCEPT !.current = timers.overflow, !.overflow = <<>>,
                                !.lastTime = timers.timeNow,
                                !.round = timers.sampled \div TickCount]
    /\ Goto(d, [pc |-> timers.switched])
    /\ UNCHANGED <<program, sched, queues, groups, raised, now>>

--------------------------------------------------------------------------
(* prvProcessReceivedCommands.                                            *)

ReceiveCommand(d) ==
    LET q == queues[TimerQueue]
    IN  /\ At(d, "receive")
        /\ IF IsEmpty(q) THEN Goto(d, [pc |-> "call"]) /\ UNCHANGED <<sched, queues, timers>>
           ELSE /\ queues' = [queues EXCEPT ![TimerQueue] = Received(q)]
                /\ sched' = ReceiveWakes(sched, TimerQueue)
                /\ timers' = [timers EXCEPT !.command = NextValue(q)]
                /\ Goto(d, [pc |-> "sample"])
        /\ UNCHANGED <<program, groups, raised, now>>

\* The timer leaves its list before the time is sampled, and the time is
\* sampled after the command was received.
SampleTime(d) ==
    /\ At(d, "sample")
    /\ timers' = [Sampled(Unlist(timers, timers.command.timer)) EXCEPT !.switched = "apply"]
    /\ Goto(d, [pc |-> IF Wrapped THEN "switchLists" ELSE "apply"])
    /\ UNCHANGED <<program, sched, queues, groups, raised, now>>

Applied(T) == [T EXCEPT !.command = None]

\* START, RESET and START_DONT_TRACE, from tasks or interrupts.
ApplyStart(d) ==
    LET c      == timers.command
        h      == c.timer
        expiry == Later(c.value, timers.period[h])
        from   == IF c.id = "reload" THEN timers
                  ELSE [timers EXCEPT !.started[h] = c.moment, !.fired[h] = 0]
    IN  /\ At(d, "apply")
        /\ c.id \in {"start", "reload"}
        /\ IF IsOver(timers, h, expiry, c.value)
           THEN /\ timers' = [Expired(InsertTimer(from, h, expiry, c.value), h) EXCEPT
                                 !.then = "reloadStarted"]
                /\ Goto(d, [pc |-> "callback"])
           ELSE /\ timers' = Applied(InsertTimer(from, h, expiry, c.value))
                /\ Goto(d, [pc |-> "receive"])
        /\ UNCHANGED <<program, sched, queues, groups, raised, now>>

ReloadStarted(d) ==
    LET c == timers.command
    IN  /\ At(d, "reloadStarted")
        /\ IF Reloads(c.timer) THEN SendReload(c.timer, Later(c.value, timers.period[c.timer]))
           ELSE UNCHANGED <<sched, queues>>
        /\ timers' = Applied(timers)
        /\ Goto(d, [pc |-> "receive"])
        /\ UNCHANGED <<program, groups, raised, now>>

\* The new period counts from now.
ApplyChangePeriod(d) ==
    LET h   == timers.command.timer
        new == [timers EXCEPT !.period[h] = timers.command.value, !.fired[h] = 0,
                              !.started[h] = timers.sampled]
    IN  /\ At(d, "apply")
        /\ timers.command.id = "changePeriod"
        /\ timers' = Applied(InsertTimer(new, h, Later(timers.timeNow, new.period[h]),
                                         timers.timeNow))
        /\ Goto(d, [pc |-> "receive"])
        /\ UNCHANGED <<program, sched, queues, groups, raised, now>>

\* STOP and DELETE: the timer has left its list already.
ApplyStop(d) ==
    LET c == timers.command
    IN  /\ At(d, "apply")
        /\ c.id \in {"stop", "delete"}
        /\ timers' = Applied([timers EXCEPT
                         !.started[c.timer] = None,
                         !.exists = IF c.id = "delete" THEN @ \ {c.timer} ELSE @])
        /\ Goto(d, [pc |-> "receive"])
        /\ UNCHANGED <<program, sched, queues, groups, raised, now>>

DaemonStep(d) ==
    \/ LookAtTimers(d) \/ AwaitCommand(d) \/ PlaceDaemon(d) \/ ResumeDaemon(d)
    \/ ExpireTimer(d) \/ Callback(d) \/ SwitchOne(d) \/ ReloadSwitched(d) \/ SwitchLists(d)
    \/ ReceiveCommand(d) \/ SampleTime(d)
    \/ ApplyStart(d) \/ ReloadStarted(d) \/ ApplyChangePeriod(d) \/ ApplyStop(d)

--------------------------------------------------------------------------
(* Properties.                                                            *)

Listed(h) == Contains(timers.current, h) \/ Contains(timers.overflow, h)

\* The moment a started timer expires next, whatever has delayed the timer
\* task, its commands and its callbacks so far.
Due(h) == timers.started[h] + (timers.fired[h] + 1) * timers.period[h]

\* A timer expires at the multiples of its period after its start: never
\* early, never twice for one period, without drift when the timer task is
\* late, and over a wrap of the tick count; only a timer that exists and was
\* not stopped expires; the timer task never sleeps past the first of them
\* (timers.c, prvInsertTimerInActiveList and prvProcessTimerOrBlockTask).
TimersAreExact ==
    /\ \A h \in TimerHandles :
          /\ Listed(h) =>
                /\ h \in timers.exists
                /\ timers.started[h] # None
                /\ timers.expiry[h] = Due(h) % TickCount
                /\ ~ (Contains(timers.current, h) /\ Contains(timers.overflow, h))
                /\ Due(h) \div TickCount =
                      timers.round + (IF Contains(timers.current, h) THEN 0 ELSE 1)
          /\ timers.started[h] # None => Due(h) - timers.period[h] <= Clock
    /\ \A d \in Tasks : local[d].pc = "callback" =>
          /\ timers.subject \in timers.exists
          /\ timers.started[timers.subject] # None
    /\ \A d \in Tasks : WaitsIn(sched, d, ToReceive(TimerQueue)) =>
          \A h \in TimerHandles : Listed(h) =>
              /\ IsDelayed(sched, d)
              /\ InitialTick + local[d].deadline <= Due(h)
=============================================================================
