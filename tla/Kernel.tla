------------------------------- MODULE Kernel -------------------------------
(***************************************************************************)
(* The FreeRTOS kernel under a client program: the tasks of the program     *)
(* call the kernel on one processor, and interrupts (the tick and the       *)
(* program's own) come between any two critical sections.  KernelTasks and  *)
(* KernelQueue say what a critical section does; the actions here are the   *)
(* critical sections of each call in the order the call takes them.         *)
(*                                                                          *)
(* A program gives each task a script, a sequence of calls it makes once;   *)
(* a task that has made its last call deletes itself, as the native routine *)
(* of a std::thread does.                                                   *)
(***************************************************************************)
EXTENDS KernelQueue

CONSTANTS
    Items,       \* what the queues carry
    Groups,      \* the event groups
    Daemon,      \* the timer task
    TimerQueue,  \* the queue of commands to it
    Programs     \* the client programs, one record each

VARIABLES
    program,  \* the program that runs
    sched,    \* the scheduler and the TCBs
    queues,   \* [Objects -> queue]
    groups,   \* [Groups -> bits and whether the group still exists]
    local,    \* [Tasks -> the local variables of the call a task is in]
    raised,   \* how many of its interrupts the program has raised
    now       \* the tick interrupts so far

vars == <<program, sched, queues, groups, local, raised, now>>

\* A record with some of its fields replaced, or added.
Updated(r, changes) ==
    [x \in DOMAIN r \cup DOMAIN changes |-> IF x \in DOMAIN changes THEN changes[x] ELSE r[x]]

\* Local variables at the start of a call; `received` outlives the call.
NewCall == [pc |-> "call", timed |-> FALSE, inherited |-> FALSE,
            placed |-> FALSE, expired |-> FALSE, timeout |-> None, deadline |-> None,
            message |-> None, room |-> 0,
            asked |-> None, asker |-> None, due |-> None, clock |-> None]

\* prvInitialiseNewTask
CreateTask(s, t, p) ==
    AddTaskToReadyList(
        [s EXCEPT !.priority[t] = p, !.basePriority[t] = p,
                  !.eventOrder[t] = TopPriority - p], t)

\* Before vTaskStartScheduler a new task becomes current unless the current
\* one has a higher priority; the idle task is created last, but for the timer
\* task where there is one.
StartTask(s, t) ==
    LET created == CreateTask(s, t, program.priority[t])
    IN  [created EXCEPT !.current =
            IF @ = None THEN t ELSE IF s.priority[@] <= created.priority[t] THEN t ELSE @]

Begins(p) == p.starts \o <<Idle>> \o p.services

NoScheduler ==
    [current |-> None, switchPending |-> FALSE, yieldPending |-> FALSE,
     suspended |-> 0, failed |-> None,
     ready |-> [p \in Priorities |-> EmptyRing], topReady |-> {},
     delayed |-> <<>>, overflowDelayed |-> <<>>, suspendedTasks |-> {},
     terminating |-> <<>>,
     waiting |-> [list \in EventLists \cup {Pending} |-> <<>>],
     tick |-> InitialTick, overflows |-> 0, nextUnblock |-> MaxDelay,
     pendedTicks |-> 0,
     priority |-> [t \in Tasks |-> 0], basePriority |-> [t \in Tasks |-> 0],
     mutexesHeld |-> [t \in Tasks |-> 0], wakeTime |-> [t \in Tasks |-> 0],
     eventOrder |-> [t \in Tasks |-> TopPriority], eventBits |-> [t \in Tasks |-> None],
     delayAborted |-> [t \in Tasks |-> FALSE],
     notifiedValue |-> [t \in Tasks |-> 0], notifyState |-> [t \in Tasks |-> "none"]]

Init ==
    /\ program \in Programs
    /\ sched = Each(StartTask, NoScheduler, Begins(program))
    /\ queues = program.queues
    /\ groups = [g \in Groups |-> [bits |-> {}, exists |-> TRUE]]
    /\ local = [t \in Tasks |-> Updated(NewCall,
                   [at |-> 1, received |-> None, lastWake |-> InitialTick, owns |-> {}])]
    /\ raised = 0
    /\ now = 0

--------------------------------------------------------------------------
(* Programs and control.                                                  *)

Running(t) == sched.current = t /\ ~ sched.switchPending /\ sched.failed = None
HasCall(t) == local[t].at <= Len(program.script[t])
Call(t) == program.script[t][local[t].at]
\* A command to the timer task is a send whose message is composed first; a
\* call with a deadline or a time converts it to ticks first.
Operation(t) ==
    CASE Call(t).op = "command" /\ local[t].message = None -> "compose"
      [] "until" \in DOMAIN Call(t) /\ local[t].asked = None -> "readClock"
      [] "span" \in DOMAIN Call(t) /\ local[t].asked = None -> "convert"
      [] OTHER -> Call(t).op
Calls(t, operations) ==
    Running(t) /\ local[t].pc = "call" /\ HasCall(t) /\ Operation(t) \in operations
At(t, label) == Running(t) /\ local[t].pc = label
Object(t) == Call(t).object
Queue(t) == queues[Object(t)]

Goto(t, changes) == local' = [local EXCEPT ![t] = Updated(@, changes)]
Return(t, changes) ==
    Goto(t, Updated(Updated(NewCall, [at |-> local[t].at + 1]), changes))

--------------------------------------------------------------------------
(* Queues, semaphores and mutexes: one blocking call.  The loop of the code *)
(* is attempt, lock the queue, check again, wait, unlock, resume, attempt.  *)

Sends    == {"send", "command"}
Gives    == {"give", "giveRecursive"}
Receives == {"receive", "peek"}
Takes    == {"take", "takeRecursive"}
Blocking == Sends \cup Receives \cup Takes

\* xTicksToWait as passed to the call, and reduced once a timeout has been set.
Asked(t) == IF local[t].asked = None THEN Call(t).wait ELSE local[t].asked
Wait(t) == IF local[t].timed THEN local[t].timeout.ticks ELSE Asked(t)

Possible(t) ==
    IF Call(t).op \in Sends THEN Accepts(Queue(t), Call(t).position) ELSE ~ IsEmpty(Queue(t))
WaitList(t) == IF Call(t).op \in Sends THEN ToSend(Object(t)) ELSE ToReceive(Object(t))
Value(t) == IF Call(t).op = "command" THEN local[t].message ELSE Call(t).value
HoldsIt(t) == IsMutex(Queue(t)) /\ Queue(t).holder = t

\* The effect of the call, in the critical section that finds it possible.
SendNow(t) ==
    /\ Calls(t, Sends)
    /\ Possible(t)
    /\ queues' = [queues EXCEPT ![Object(t)] =
                     CopyDataToQueue(@, Value(t), Call(t).position)]
    /\ sched' = SendWakes(sched, Object(t), Queue(t))
    /\ Return(t, << >>)
    /\ UNCHANGED <<program, groups, raised, now>>

ReceiveNow(t) ==
    /\ Calls(t, {"receive"})
    /\ Possible(t)
    /\ queues' = [queues EXCEPT ![Object(t)] = Received(@)]
    /\ sched' = ReceiveWakes(sched, Object(t))
    /\ Return(t, [received |-> NextValue(Queue(t))])
    /\ UNCHANGED <<program, groups, raised, now>>

PeekNow(t) ==
    /\ Calls(t, {"peek"})
    /\ Possible(t)
    /\ sched' = PeekWakes(sched, Object(t))
    /\ Return(t, [received |-> NextValue(Queue(t))])
    /\ UNCHANGED <<program, queues, groups, raised, now>>

\* The call count of a recursive mutex changes outside the critical section,
\* but only its holder reads or writes it.
TakeNow(t) ==
    /\ Calls(t, Takes)
    /\ Possible(t)
    /\ queues' = [queues EXCEPT ![Object(t)] =
                     [Taken(Queue(t), t) EXCEPT !.calls =
                         IF Call(t).op = "takeRecursive" THEN 1 ELSE @]]
    /\ sched' = TakeWakes(sched, Object(t), Queue(t))
    /\ Return(t, [owns |-> local[t].owns \cup {Object(t)}])
    /\ UNCHANGED <<program, groups, raised, now>>

\* xQueueTakeMutexRecursive and xQueueGiveMutexRecursive by the holder.
TakeAgain(t) ==
    /\ Calls(t, {"takeRecursive"})
    /\ HoldsIt(t)
    /\ queues' = [queues EXCEPT ![Object(t)].calls = @ + 1]
    /\ Return(t, << >>)
    /\ UNCHANGED <<program, sched, groups, raised, now>>

GiveOnce(t) ==
    /\ Calls(t, {"giveRecursive"})
    /\ HoldsIt(t)
    /\ Queue(t).calls > 1
    /\ queues' = [queues EXCEPT ![Object(t)].calls = @ - 1]
    /\ Return(t, << >>)
    /\ UNCHANGED <<program, sched, groups, raised, now>>

\* xSemaphoreGive: a send that never waits; a full semaphore refuses it.
Give(t) ==
    /\ Calls(t, Gives)
    /\ IsMutex(Queue(t)) => Object(t) \in local[t].owns
    /\ Call(t).op = "giveRecursive" => HoldsIt(t) /\ Queue(t).calls = 1
    /\ ~ IsFull(Queue(t))
    /\ queues' = [queues EXCEPT ![Object(t)] =
                     [CopyDataToQueue(@, None, "back") EXCEPT !.calls = 0]]
    /\ sched' = SendWakes(sched, Object(t), Queue(t))
    /\ Return(t, [owns |-> local[t].owns \ {Object(t)}])
    /\ UNCHANGED <<program, groups, raised, now>>

\* Gives that change nothing: of a full semaphore, and those a program skips
\* because its take of the mutex failed.
GiveNothing(t) ==
    /\ Calls(t, Gives)
    /\ IF IsMutex(Queue(t)) THEN Object(t) \notin local[t].owns ELSE IsFull(Queue(t))
    /\ Return(t, << >>)
    /\ UNCHANGED <<program, sched, queues, groups, raised, now>>

\* A call that may not wait, or may not wait any longer, fails at once.  A
\* take asserts that no priority was inherited on the way.
Refuse(t) ==
    /\ Calls(t, Blocking)
    /\ ~ Possible(t)
    /\ ~ (Call(t).op = "takeRecursive" /\ HoldsIt(t))
    /\ Wait(t) = 0
    /\ sched' = IF local[t].inherited THEN Fail(sched, "no inheritance") ELSE sched
    /\ Return(t, << >>)
    /\ UNCHANGED <<program, queues, groups, raised, now>>

\* The timeout is set in the first critical section that finds the call
\* impossible; `deadline` is the moment the caller stops waiting, if ever.
Deadline(ticks) == IF ticks = MaxDelay THEN None ELSE now + ticks

GoWait(t) ==
    /\ Calls(t, Blocking)
    /\ ~ Possible(t)
    /\ ~ (Call(t).op = "takeRecursive" /\ HoldsIt(t))
    /\ Wait(t) > 0
    /\ IF local[t].timed THEN Goto(t, [pc |-> "lock"])
       ELSE Goto(t, [pc |-> "lock", timed |-> TRUE,
                     timeout |-> SetTimeOut(sched, Asked(t)),
                     deadline |-> Deadline(Asked(t))])
    /\ UNCHANGED <<program, sched, queues, groups, raised, now>>

\* vTaskSuspendAll, prvLockQueue and xTaskCheckForTimeOut: other tasks no
\* longer run, interrupts leave the event lists of the queue alone.
LockAndCheck(t) ==
    LET suspended == SuspendAll(sched)
        late == TimedOut(suspended, local[t].timeout)
    IN  /\ At(t, "lock")
        /\ sched' = ClearAborted(suspended)
        /\ queues' = [queues EXCEPT ![Object(t)] = LockQueue(@)]
        /\ Goto(t, [timeout |-> CheckForTimeOut(suspended, local[t].timeout),
                    expired |-> late, pc |-> IF late THEN "unlockTx" ELSE "check"])
        /\ UNCHANGED <<program, groups, raised, now>>

\* prvIsQueueFull, prvIsQueueEmpty
StillBlocked(t) == IF Call(t).op \in Sends THEN IsFull(Queue(t)) ELSE IsEmpty(Queue(t))

CheckStill(t) ==
    /\ At(t, "check")
    /\ Goto(t, [pc |-> IF StillBlocked(t) THEN "place" ELSE "unlockTx"])
    /\ UNCHANGED <<program, sched, queues, groups, raised, now>>

\* A taker of a mutex lends its priority to the holder first.
Place(t) ==
    LET lends == Call(t).op \in Takes /\ IsMutex(Queue(t))
        lent  == IF lends THEN PriorityInherit(sched, Queue(t).holder) ELSE sched
    IN  /\ At(t, "place")
        /\ Call(t).op \in Blocking
        /\ sched' = PlaceOnEventList(lent, WaitList(t), local[t].timeout.ticks)
        /\ Goto(t, [pc |-> "unlockTx", placed |-> TRUE,
                    inherited |-> IF lends THEN Inherits(sched, Queue(t).holder)
                                  ELSE local[t].inherited])
        /\ UNCHANGED <<program, queues, groups, raised, now>>

\* The two halves of prvUnlockQueue.
UnlockTx(t) ==
    /\ At(t, "unlockTx")
    /\ sched' = UnlockTxWakes(sched, Object(t), Queue(t))
    /\ queues' = [queues EXCEPT ![Object(t)].txLock = Unlocked]
    /\ Goto(t, [pc |-> "unlockRx"])
    /\ UNCHANGED <<program, groups, raised, now>>

UnlockRx(t) ==
    /\ At(t, "unlockRx")
    /\ sched' = UnlockRxWakes(sched, Object(t), Queue(t))
    /\ queues' = [queues EXCEPT ![Object(t)].rxLock = Unlocked]
    /\ Goto(t, [pc |-> "resume"])
    /\ UNCHANGED <<program, groups, raised, now>>

\* xTaskResumeAll, and the yield of a call that waits unless it has yielded;
\* xTaskDelayUntil yields even when it does not wait.
ResumeScheduler(t) ==
    sched' = IF local[t].placed \/ Call(t).op = "delayUntil" THEN Yield(ResumeAll(sched)) ELSE ResumeAll(sched)

Resume(t) ==
    /\ At(t, "resume")
    /\ Call(t).op \in Blocking
    /\ ResumeScheduler(t)
    /\ IF local[t].expired /\ Call(t).op \in Sends THEN Return(t, << >>)
       ELSE Goto(t, [placed |-> FALSE, expired |-> FALSE,
                     pc |-> IF local[t].expired THEN "expired" ELSE "call"])
    /\ UNCHANGED <<program, queues, groups, raised, now>>

\* After its timeout a receiver or taker looks once more before it gives up,
\* and goes round the loop again, its wait now zero, if it finds something.
GiveUp(t) ==
    /\ At(t, "expired")
    /\ IF ~ IsEmpty(Queue(t)) THEN Goto(t, [pc |-> "call"])
       ELSE IF local[t].inherited THEN Goto(t, [pc |-> "disinherit"])
       ELSE Return(t, << >>)
    /\ UNCHANGED <<program, sched, queues, groups, raised, now>>

DisinheritAfterTimeout(t) ==
    /\ At(t, "disinherit")
    /\ sched' = PriorityDisinheritAfterTimeout(sched, Queue(t).holder,
                                               HighestWaiting(sched, Object(t)))
    /\ Return(t, << >>)
    /\ UNCHANGED <<program, queues, groups, raised, now>>

--------------------------------------------------------------------------
(* The programs: what the assertions of queue.c, and the type of a handle,  *)
(* ask of the calls and interrupts of a program.                            *)

ProgramObjects == Objects \ {TimerQueue}
GroupCalls == {"waitBits", "setBits", "sync", "clearBits", "deleteGroup"}
TaskCalls  == {"suspend", "resume", "setPriority", "delete", "notifyGive", "create", "abortDelay"}

\* xQueueGenericCreate, xSemaphoreCreateCounting and xSemaphoreCreateMutex.
Created(q) ==
    /\ q.length \in Nat \ {0}
    /\ \/ q = NewQueue("queue", q.length)
       \/ q = NewSemaphore(q.length, q.count) /\ q.count \in 0 .. q.length
       \/ q = NewMutex

\* Items are sent to and received from queues, and overwritten in those of
\* length one; semaphores and mutexes are taken and given; commands go to the
\* timer task, and nobody else uses its queue.
Legal(call, objects) ==
    LET o == call.object
        q == objects[o]
    IN  /\ call.op \in {"send"} \cup Receives => o \in ProgramObjects /\ HoldsData(q)
        /\ call.op = "send" => call.value \in Items
        /\ call.op = "send" /\ call.position = "overwrite" => q.length = 1
        /\ call.op \in Takes \cup Gives => o \in ProgramObjects /\ ~ HoldsData(q)
        /\ call.op \in {"command", "daemon"} => o = TimerQueue
        /\ call.op \in GroupCalls => o \in Groups
        /\ call.op \in TaskCalls => call.task \in Tasks
        /\ call.op \in {"create", "setPriority"} => call.priority \in Priorities
        /\ call.op \in {"suspend", "delete"} => call.task # Idle
\* No interrupt takes or gives a mutex.
LegalInterrupt(call, objects) ==
    LET o == call.object
        q == objects[o]
    IN  /\ call.op \in {"send", "give", "receive"} => o \in ProgramObjects /\ ~ IsMutex(q)
        /\ call.op = "send" => call.value \in Items
        /\ call.op \in {"send", "receive"} => HoldsData(q)
        /\ call.op = "give" => ~ HoldsData(q)
        /\ call.op \in {"notify", "resume"} => call.task \in Tasks

\* A task is created once, before the scheduler starts or by a call, and nobody
\* suspends it before that; the idle task makes no calls.
LegalCreation(p, t, i) ==
    LET created == p.script[t][i].task
    IN  /\ created \notin Range(Begins(p))
        /\ \A u \in Tasks : \A j \in 1 .. Len(p.script[u]) :
              LET call == p.script[u][j]
              IN  /\ call.op = "create" /\ call.task = created => u = t /\ j = i
                  /\ call.op = "suspend" /\ call.task = created => u = created \/ (u = t /\ j > i)
LegalTasks(p) ==
    /\ p.starts \in Seq(Tasks) /\ p.services \in Seq(Tasks) /\ IsInjective(Begins(p))
    /\ p.priority \in [Tasks -> Priorities]
    /\ Len(p.script[Idle]) = 0
    /\ \A t \in Tasks : \A i \in 1 .. Len(p.script[t]) :
          /\ p.script[t][i].op = "create" => LegalCreation(p, t, i)
          /\ p.script[t][i].op = "daemon" => t = Daemon

ASSUME ListAssumption ==
    /\ End \notin Tasks /\ Pending \notin EventLists
    /\ TimerQueue \in Objects
    /\ \A o \in Objects : ToSend(o) \in EventLists /\ ToReceive(o) \in EventLists
    /\ \A g \in Groups : WaitingForBits(g) \in EventLists

ASSUME ProgramAssumption ==
    /\ None \notin Tasks \cup Items
    /\ \A p \in Programs :
          /\ DOMAIN p.queues = Objects /\ \A o \in Objects : Created(p.queues[o])
          /\ \A t \in Tasks :
                /\ Len(p.script[t]) \in Nat
                /\ \A i \in 1 .. Len(p.script[t]) : Legal(p.script[t][i], p.queues)
          /\ Len(p.interrupts) \in Nat
          /\ \A i \in 1 .. Len(p.interrupts) : LegalInterrupt(p.interrupts[i], p.queues)
          /\ LegalTasks(p)

--------------------------------------------------------------------------
(* Delays and notifications.                                              *)

\* vTaskDelay; a delay of zero is a yield (DelayNothing).
Delay(t) ==
    /\ Calls(t, {"delay"})
    /\ Asked(t) > 0
    /\ sched' = AddCurrentTaskToDelayedList(SuspendAll(sched), Asked(t), FALSE)
    /\ Goto(t, [pc |-> "resume", placed |-> TRUE, deadline |-> now + Asked(t)])
    /\ UNCHANGED <<program, queues, groups, raised, now>>

DelayNothing(t) ==
    /\ Calls(t, {"delay"})
    /\ Asked(t) = 0
    /\ sched' = Yield(sched)
    /\ Return(t, << >>)
    /\ UNCHANGED <<program, queues, groups, raised, now>>

\* The tick a task last woke at is kept, so that periods do not drift.
DelayUntil(t) ==
    LET wake == NextWake(local[t].lastWake, Call(t).wait)
        ticks == TicksTo(sched, wake)
        delays == StillToCome(sched, local[t].lastWake, wake)
        suspended == SuspendAll(sched)
    IN  /\ Calls(t, {"delayUntil"})
        /\ sched' = IF delays THEN AddCurrentTaskToDelayedList(suspended, ticks, FALSE)
                    ELSE suspended
        /\ Goto(t, [pc |-> "resume", placed |-> delays, lastWake |-> wake,
                    deadline |-> IF delays THEN now + ticks ELSE None])
        /\ UNCHANGED <<program, queues, groups, raised, now>>

\* A delayed task returns from its call once it runs again.
ReturnFromDelay(t) ==
    /\ At(t, "woken")
    /\ Return(t, << >>)
    /\ UNCHANGED <<program, sched, queues, groups, raised, now>>

WaitForNotification(t) ==
    /\ Calls(t, {"notifyTake"})
    /\ sched' = NotifyTakeWait(sched, Asked(t))
    /\ Goto(t, [pc |-> "notified", deadline |-> Deadline(Asked(t))])
    /\ UNCHANGED <<program, queues, groups, raised, now>>

NotifyTaken(t) ==
    /\ At(t, "notified")
    /\ sched' = NotifyTake(sched, Call(t).clear)
    /\ Return(t, << >>)
    /\ UNCHANGED <<program, queues, groups, raised, now>>

--------------------------------------------------------------------------
(* Event groups.                                                          *)

Bits(t) == groups[Object(t)].bits
Wanted(t) == WaitedFor(Call(t).bits, Call(t).all, Call(t).clear)
SetTo(t, bits) == groups' = [groups EXCEPT ![Object(t)].bits = bits]

\* The part of xEventGroupWaitBits and xEventGroupSync that waits.
WaitForBits(t, s, wanted) ==
    IF Call(t).wait = 0 THEN sched' = s /\ Goto(t, [pc |-> "resume"])
    ELSE /\ sched' = PlaceOnUnorderedEventList(s, WaitingForBits(Object(t)), wanted, Call(t).wait)
         /\ Goto(t, [pc |-> "resume", placed |-> TRUE, deadline |-> Deadline(Call(t).wait)])

WaitBits(t) ==
    LET suspended == SuspendAll(sched)
    IN  /\ Calls(t, {"waitBits"})
        /\ IF Satisfied(Bits(t), Wanted(t))
           THEN /\ SetTo(t, IF Call(t).clear THEN Bits(t) \ Call(t).bits ELSE Bits(t))
                /\ sched' = suspended
                /\ Goto(t, [pc |-> "resume"])
           ELSE WaitForBits(t, suspended, Wanted(t)) /\ UNCHANGED groups
        /\ UNCHANGED <<program, queues, raised, now>>

SetBits(t) ==
    LET suspended == SuspendAll(sched)
        bits == Bits(t) \cup Call(t).bits
    IN  /\ Calls(t, {"setBits"})
        /\ sched' = SetBitsWakes(suspended, Object(t), bits)
        /\ SetTo(t, bits \ ClearedBySet(suspended, Object(t), bits))
        /\ Goto(t, [pc |-> "resume"])
        /\ UNCHANGED <<program, queues, raised, now>>

\* xEventGroupSync sets its own bit, releases the others, and waits for the
\* rest of the rendezvous unless it is the last to come.
SyncBits(t) ==
    LET suspended == SuspendAll(sched)
        bits  == Bits(t) \cup Call(t).sets
        all   == WaitedFor(Call(t).bits, TRUE, TRUE)
        woken == SetBitsWakes(suspended, Object(t), bits)
        left  == bits \ ClearedBySet(suspended, Object(t), bits)
    IN  /\ Calls(t, {"sync"})
        /\ IF Call(t).bits \subseteq bits
           THEN SetTo(t, left \ Call(t).bits) /\ sched' = woken /\ Goto(t, [pc |-> "resume"])
           ELSE SetTo(t, left) /\ WaitForBits(t, woken, all)
        /\ UNCHANGED <<program, queues, raised, now>>

\* A waiter that timed out looks at the bits once more.  One that was
\* released reads its own event item only.
BitsCame(t) ==
    LET item   == sched.eventBits[t]
        wanted == [item EXCEPT !.set = FALSE]
    IN  /\ At(t, "bits")
        /\ sched' = ResetEventItemValue(sched, t)
        /\ IF ~ item.set /\ item.clear /\ Satisfied(Bits(t), wanted)
           THEN SetTo(t, Bits(t) \ item.bits) ELSE UNCHANGED groups
        /\ Return(t, << >>)
        /\ UNCHANGED <<program, queues, raised, now>>

\* xEventGroupSetBits returns what the group holds by then, without
\* protection: the group may be gone.
ReadBits(t) ==
    /\ At(t, "readBits")
    /\ Return(t, << >>)
    /\ UNCHANGED <<program, sched, queues, groups, raised, now>>

ClearBits(t) ==
    /\ Calls(t, {"clearBits"})
    /\ SetTo(t, Bits(t) \ Call(t).bits)
    /\ Return(t, << >>)
    /\ UNCHANGED <<program, sched, queues, raised, now>>

DeleteGroup(t) ==
    /\ Calls(t, {"deleteGroup"})
    /\ sched' = DeleteGroupWakes(SuspendAll(sched), Object(t))
    /\ groups' = [groups EXCEPT ![Object(t)] = [bits |-> {}, exists |-> FALSE]]
    /\ Goto(t, [pc |-> "resume"])
    /\ UNCHANGED <<program, queues, raised, now>>

\* The end of the calls that suspend the scheduler once.
ResumeOther(t) ==
    /\ At(t, "resume")
    /\ Call(t).op \notin Blocking \cup {"daemon"}
    /\ ResumeScheduler(t)
    /\ CASE Call(t).op = "setBits" -> Goto(t, [pc |-> "readBits"])
         [] Call(t).op \in {"delay", "delayUntil"} /\ local[t].placed -> Goto(t, [pc |-> "woken"])
         [] Call(t).op \in {"waitBits", "sync"} /\ local[t].placed -> Goto(t, [pc |-> "bits"])
         [] OTHER -> Return(t, << >>)
    /\ UNCHANGED <<program, queues, groups, raised, now>>

--------------------------------------------------------------------------
(* Tasks.                                                                 *)

\* A call about another task, in one critical section.
OnTask(s, call) ==
    CASE call.op = "suspend"     -> SuspendTask(s, call.task)
      [] call.op = "resume"      -> ResumeTask(s, call.task)
      [] call.op = "setPriority" -> PrioritySet(s, call.task, call.priority)
      [] call.op = "delete"      -> DeleteTask(s, call.task)
      [] call.op = "notifyGive"  -> Notify(s, call.task, Counted(s, call.task))
      [] call.op = "yield"       -> Yield(s)
      [] call.op = "create"      ->
            YieldIf(CreateTask(s, call.task, call.priority),
                    s.priority[s.current] < call.priority)

TaskCall(t) ==
    /\ Calls(t, (TaskCalls \ {"abortDelay"}) \cup {"yield"})
    /\ sched' = OnTask(sched, Call(t))
    /\ Return(t, << >>)
    /\ UNCHANGED <<program, queues, groups, raised, now>>

AbortDelayOf(t) ==
    /\ Calls(t, {"abortDelay"})
    /\ sched' = AbortDelay(SuspendAll(sched), Call(t).task)
    /\ Goto(t, [pc |-> "resume"])
    /\ UNCHANGED <<program, queues, groups, raised, now>>

\* vTaskDelete(NULL), the end of every task.
Exit(t) ==
    /\ Running(t)
    /\ t # Idle
    /\ local[t].pc = "call" /\ ~ HasCall(t)
    /\ sched' = DeleteTask(sched, t)
    /\ UNCHANGED <<program, queues, groups, local, raised, now>>

\* prvCheckTasksWaitingTermination
IdleCleansUp ==
    /\ Running(Idle)
    /\ sched.terminating # <<>>
    /\ sched' = [sched EXCEPT !.terminating = Tail(@)]
    /\ UNCHANGED <<program, queues, groups, local, raised, now>>

--------------------------------------------------------------------------
(* Interrupts and the context switch.                                     *)

\* Ticks come while a task is delayed and the scheduler runs, for the timer task
\* alone only when nothing else runs; the first few, a bound, come at any time.
TickInterrupt ==
    /\ sched.failed = None
    /\ \/ now < program.ticks
       \/ sched.suspended = 0 /\ \E t \in Tasks \ {Daemon} : IsDelayed(sched, t)
       \/ Running(Idle) /\ IsDelayed(sched, Daemon)
    /\ now' = now + 1
    /\ sched' = IncrementTick(sched)
    /\ UNCHANGED <<program, queues, groups, local, raised>>

Interrupts == program.interrupts
Raise(operations) ==
    /\ sched.failed = None
    /\ raised < Len(Interrupts)
    /\ Interrupts[raised + 1].op \in operations
    /\ raised' = raised + 1
    /\ UNCHANGED <<program, groups, local, now>>
Raised == Interrupts[raised + 1]

SendInterrupt ==
    LET o == Raised.object
        q == queues[o]
    IN  /\ Raise({"send", "give"})
        /\ IF IsFull(q) THEN UNCHANGED <<sched, queues>>
           ELSE /\ queues' = [queues EXCEPT ![o] = CountTx(CopyDataToQueue(q, Raised.value, "back"))]
                /\ sched' = SendFromISRWakes(sched, o, q)

ReceiveInterrupt ==
    LET o == Raised.object
        q == queues[o]
    IN  /\ Raise({"receive"})
        /\ IF IsEmpty(q) THEN UNCHANGED <<sched, queues>>
           ELSE /\ queues' = [queues EXCEPT ![o] = CountRx(Received(q))]
                /\ sched' = ReceiveFromISRWakes(sched, o, q)

TaskInterrupt ==
    /\ Raise({"notify", "resume"})
    /\ sched' = IF Raised.op = "notify" THEN NotifyFromISR(sched, Raised.task, Counted(sched, Raised.task))
                ELSE ResumeTaskFromISR(sched, Raised.task)
    /\ UNCHANGED queues

Switch ==
    /\ sched.switchPending
    /\ sched.failed = None
    /\ sched' = SwitchContext(sched)
    /\ UNCHANGED <<program, queues, groups, local, raised, now>>

--------------------------------------------------------------------------
QueueStep(t) ==
    \/ SendNow(t) \/ ReceiveNow(t) \/ PeekNow(t)
    \/ TakeNow(t) \/ TakeAgain(t) \/ GiveOnce(t) \/ Give(t) \/ GiveNothing(t)
    \/ Refuse(t) \/ GoWait(t) \/ LockAndCheck(t) \/ CheckStill(t) \/ Place(t)
    \/ UnlockTx(t) \/ UnlockRx(t) \/ Resume(t) \/ GiveUp(t) \/ DisinheritAfterTimeout(t)

OtherStep(t) ==
    \/ Delay(t) \/ DelayNothing(t) \/ DelayUntil(t) \/ ReturnFromDelay(t)
    \/ WaitForNotification(t) \/ NotifyTaken(t)
    \/ WaitBits(t) \/ SetBits(t) \/ SyncBits(t) \/ BitsCame(t) \/ ReadBits(t)
    \/ ClearBits(t) \/ DeleteGroup(t) \/ ResumeOther(t)
    \/ TaskCall(t) \/ AbortDelayOf(t) \/ Exit(t)

Processor == Switch \/ IdleCleansUp \/ \E t \in Tasks : QueueStep(t) \/ OtherStep(t)
Interrupt == SendInterrupt \/ ReceiveInterrupt \/ TaskInterrupt

Next == Processor \/ TickInterrupt \/ Interrupt

--------------------------------------------------------------------------
(* Properties.                                                            *)

Script(t) == program.script[t]
Makes(operations) ==
    \E t \in Tasks : \E i \in DOMAIN Script(t) : Script(t)[i].op \in operations

\* The state list a task is in; none before it is created and after its end.
Homes(t) ==
    {<<"ready", p>> : p \in {r \in Priorities : Contains(sched.ready[r], t)}}
    \cup {<<list>> : list \in {l \in {"delayed", "overflowDelayed", "terminating"} :
                                   Contains(sched[l], t)}}
    \cup (IF t \in sched.suspendedTasks THEN {<<"suspendedTasks">>} ELSE {})

\* Every task is in one state list at most, in the ready list of its own
\* priority, in one event list at most and there only while it is blocked.
TasksAreListedOnce ==
    \A t \in Tasks :
        /\ Cardinality(Homes(t)) <= 1
        /\ \A p \in Priorities : <<"ready", p>> \in Homes(t) => p = sched.priority[t]
        /\ Cardinality(EventContainer(sched, t)) <= 1
        /\ EventContainer(sched, t) \subseteq EventLists => EventContainer(sched, t) = {}
              \/ Homes(t) \subseteq {<<"delayed">>, <<"overflowDelayed">>, <<"suspendedTasks">>}

\* The lists of the scheduler: those tasks are in; the bit map a task is selected
\* with has the bits of the ready lists that are not empty; the delayed lists
\* are sorted, hold only times still to come, and xNextTaskUnblockTime is not
\* later than the first (tasks.c).
ListsAgree ==
    /\ sched.topReady = {p \in Priorities : RingLength(sched.ready[p]) > 0}
    /\ TasksAreListedOnce
    /\ \A i \in DOMAIN sched.delayed :
          /\ sched.wakeTime[sched.delayed[i]] > sched.tick
          /\ sched.wakeTime[sched.delayed[i]] >= sched.nextUnblock
          /\ i > 1 => sched.wakeTime[sched.delayed[i]] >= sched.wakeTime[sched.delayed[i - 1]]
    /\ \A i \in DOMAIN sched.overflowDelayed :
          /\ sched.wakeTime[sched.overflowDelayed[i]] < sched.tick
          /\ i > 1 => sched.wakeTime[sched.overflowDelayed[i]]
                         >= sched.wakeTime[sched.overflowDelayed[i - 1]]

\* Task code runs with the scheduler running only in a task that is ready: one
\* that blocked, suspended or deleted itself has been switched out.
RunningTaskIsReady ==
    sched.suspended = 0 /\ ~ sched.switchPending /\ sched.failed = None =>
        IsReady(sched, sched.current)

\* And no ready task has a higher priority: every call and interrupt that readies
\* one, or lowers the running task, also asks for the switch.
HighestPriorityRuns ==
    /\ RunningTaskIsReady
    /\ sched.suspended = 0 /\ ~ sched.switchPending /\ sched.failed = None =>
          \A t \in Tasks : IsReady(sched, t) => ~ Outranks(sched, t)

\* No configASSERT of the scheduler and of the queues fails, in particular the
\* one that the list of the highest priority selected is not empty (tasks.c:176).
AssertionsHold == sched.failed = None

\* An item in an unlocked queue that a task waits to receive has a task on its
\* way to it, and so has a free slot a task waits to fill: whatever interrupts
\* and timeouts do between the check and the wait, no wake-up is lost
\* (queue.c, prvLockQueue and prvUnlockQueue).
OnItsWay(o, operations, list) ==
    \E t \in Tasks :
        /\ HasCall(t) /\ local[t].timed
        /\ Call(t).op \in operations /\ Call(t).object = o
        /\ ~ WaitsIn(sched, t, list)
NoLostWakeup ==
    \A o \in Objects :
        /\ ~ IsEmpty(queues[o]) /\ queues[o].txLock = Unlocked
              /\ sched.waiting[ToReceive(o)] # <<>>
              => OnItsWay(o, Receives \cup Takes, ToReceive(o))
        /\ ~ IsFull(queues[o]) /\ queues[o].rxLock = Unlocked
              /\ sched.waiting[ToSend(o)] # <<>>
              => OnItsWay(o, Sends, ToSend(o))

\* The holder of a mutex runs at no lower a priority than the base priority of
\* any task that waits for it (xTaskPriorityInherit), and once it holds none,
\* by a count that never drifts from the mutexes that name it, it is back at
\* its base priority (the two ways to disinherit).
PriorityIsInherited ==
    /\ \A m \in Objects : \A t \in Range(sched.waiting[ToReceive(m)]) :
          queues[m].holder # None =>
              sched.priority[queues[m].holder] >= sched.basePriority[t]
    /\ \A t \in Tasks :
          /\ sched.mutexesHeld[t] = Cardinality({m \in Objects : queues[m].holder = t})
          /\ sched.mutexesHeld[t] = 0 => sched.priority[t] = sched.basePriority[t]

\* The reasons a call can have to give up.
GaveUp(t) ==
    \/ local[t].expired
    \/ local[t].pc = "woken"
    \/ local[t].pc = "waited" /\ sched.notifyState[t] = "waiting"
    \/ local[t].pc = "notified" /\ sched.notifiedValue[t] = 0
    \/ local[t].pc = "bits" /\ ~ sched.eventBits[t].set

\* No tick is lost, over a wrap of the tick count and while the scheduler is
\* suspended (xTaskIncrementTick, xTaskResumeAll).
TicksAreCounted ==
    sched.overflows * TickCount + sched.tick + sched.pendedTicks = InitialTick + now

\* A call waits exactly as long as it was asked to: a delayed task wakes at the
\* moment its call stops waiting, however often it was woken before and went
\* back to wait, and across a wrap of the tick count; no call gives up sooner,
\* unless its task was woken by xTaskAbortDelay or vTaskResume.
WaitsAreExact ==
    /\ TicksAreCounted
    /\ \A t \in Tasks : IsDelayed(sched, t) =>
          /\ local[t].deadline # None
          /\ local[t].deadline - (now - sched.pendedTicks) = TicksTo(sched, sched.wakeTime[t])
    /\ ~ Makes({"resume", "abortDelay"}) =>
          \A t \in Tasks : IsReady(sched, t) /\ GaveUp(t) =>
              /\ local[t].deadline # None
              /\ now >= local[t].deadline

\* No task waits for bits its event group already has (xEventGroupSetBits
\* releases all it should, and the clear of one waiter hides no bit from
\* another).
BitsDelivered ==
    sched.suspended = 0 =>
        \A g \in Groups : \A t \in Range(sched.waiting[WaitingForBits(g)]) :
            ~ Satisfied(groups[g].bits, sched.eventBits[t])

\* What reads or writes an event group: the calls, up to the end of the section
\* they suspend the scheduler for, and the second look of a waiter whose time is
\* over.  A waiter that was released reads its own item.
UsesGroup(t) ==
    \/ Calls(t, GroupCalls)
    \/ At(t, "resume") /\ Call(t).op \in GroupCalls \ {"deleteGroup"}
    \/ At(t, "bits") /\ ~ sched.eventBits[t].set

HasDeleted(t, group) ==
    \E i \in 1 .. local[t].at - 1 :
        Script(t)[i].op = "deleteGroup" /\ Script(t)[i].object = group

\* An event group is not deleted while a call uses it, with one exception:
\* xEventGroupSetBits reads the group again after it has let the scheduler go on,
\* for its result (event_groups.c:622), and then the group may be gone.  That takes
\* a task of at least the setter's priority which deletes it in between, as the
\* creator that a notification of gthr_freertos wakes may do.
GroupUsesAreLive ==
    \A t \in Tasks :
        /\ UsesGroup(t) => groups[Object(t)].exists
        /\ At(t, "readBits") /\ ~ groups[Object(t)].exists =>
              \E u \in Tasks \ {t} :
                  HasDeleted(u, Object(t)) /\ sched.priority[u] >= sched.priority[t]

\* Each call on a queue, semaphore or mutex of the program is one step of the contract.
Contract == INSTANCE QueueContract WITH
    Objects  <- ProgramObjects,
    Values   <- Items \cup {None},
    length   <- [o \in ProgramObjects |-> queues[o].length],
    mutexes  <- {o \in ProgramObjects : IsMutex(queues[o])},
    contents <- [o \in ProgramObjects |-> Contents(queues[o])],
    owner    <- [o \in ProgramObjects |-> queues[o].holder],
    received <- [t \in Tasks |-> local[t].received]
ImplementsContract == Contract!Spec

=============================================================================
