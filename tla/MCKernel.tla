------------------------------ MODULE MCKernel ------------------------------
(* Client programs and constants for TLC.                                  *)
EXTENDS Services, TLC

CONSTANTS high, mid, low, idle, daemon

TheTasks   == {high, mid, low, idle, daemon}
TheObjects == {"queue", "mailbox", "mutex", "other", "semaphore", "timers"}
TheTimers  == {"one", "two"}
TheStreams == {"stream", "messages"}
TheItems   == {"a", "b"}
TheGroups  == {"group"}
TheEventLists == {WaitingForBits(g) : g \in TheGroups} \cup {ToSend(o) : o \in TheObjects} \cup {ToReceive(o) : o \in TheObjects}

\* The calls.
send(v, w)      == [op |-> "send", object |-> "queue", value |-> v, position |-> "back", wait |-> w]
sendFront(v, w) == [send(v, w) EXCEPT !.position = "front"]
overwrite(v)    == [send(v, 0) EXCEPT !.object = "mailbox", !.position = "overwrite"]
receive(w)      == [op |-> "receive", object |-> "queue", wait |-> w]
peek(w)         == [op |-> "peek", object |-> "queue", wait |-> w]
fromMailbox(op, w) == [op |-> op, object |-> "mailbox", wait |-> w]
take(o, w)      == [op |-> "take", object |-> o, wait |-> w]
give(o)         == [op |-> "give", object |-> o]
takeAgain(o, w) == [op |-> "takeRecursive", object |-> o, wait |-> w]
giveAgain(o)    == [op |-> "giveRecursive", object |-> o]
delay(w)        == [op |-> "delay", wait |-> w]
period(w)       == [op |-> "delayUntil", wait |-> w]
notifyTake(w)   == [op |-> "notifyTake", wait |-> w, clear |-> TRUE]
notifyOne(w)    == [notifyTake(w) EXCEPT !.clear = FALSE]
waitBits(b, all, clear, w) ==
    [op |-> "waitBits", object |-> "group", bits |-> b, all |-> all, clear |-> clear, wait |-> w]
setBits(b)      == [op |-> "setBits", object |-> "group", bits |-> b]
clearBits(b)    == [op |-> "clearBits", object |-> "group", bits |-> b]
sync(b, all, w) == [op |-> "sync", object |-> "group", sets |-> b, bits |-> all, wait |-> w]
deleteGroup     == [op |-> "deleteGroup", object |-> "group"]
on(op, t)       == [op |-> op, task |-> t]
create(t, p)    == [op |-> "create", task |-> t, priority |-> p]
setPriority(t, p) == [op |-> "setPriority", task |-> t, priority |-> p]
yield           == [op |-> "yield"]
raiseSend(v)    == [op |-> "send", object |-> "queue", value |-> v]
raiseGive       == [op |-> "give", object |-> "semaphore", value |-> None]
raiseReceive    == [op |-> "receive", object |-> "queue"]
command(id, h, v, w) ==
    [op |-> "command", id |-> id, timer |-> h, value |-> v, object |-> "timers",
     position |-> "back", wait |-> w]
raiseStart(h)   == [op |-> "command", id |-> "start", timer |-> h, value |-> 0]
takeUntil(o, d) == [op |-> "take", object |-> o, until |-> d]
againUntil(o, d) == [op |-> "takeRecursive", object |-> o, until |-> d]
notifyUntil(d)  == [op |-> "notifyTake", until |-> d, clear |-> TRUE]
sleepFor(n)     == [op |-> "delay", span |-> n]
setClock(n)     == [op |-> "setClock", time |-> n]
stream(op, b, n, w) == [op |-> op, stream |-> b, bytes |-> n, wait |-> w]
nextLength(b)   == [op |-> "nextLength", stream |-> b]
raiseStream(op, b, n) == [op |-> op, stream |-> b, bytes |-> n]

InitialQueues ==
    [o \in TheObjects |->
        CASE o \in {"queue", "timers"} -> NewQueue("queue", 2)
          [] o = "mailbox" -> NewQueue("queue", 1)
          [] o = "semaphore" -> NewSemaphore(2, 0)
          [] OTHER -> NewMutex]

Program(starts, scripts, interrupts, ticks) ==
    [starts |-> starts, interrupts |-> interrupts, ticks |-> ticks, queues |-> InitialQueues,
     priority |-> (high :> 3) @@ (mid :> 2) @@ (low :> 1) @@ (idle :> 0) @@ (daemon :> 3),
     script |-> scripts @@ (daemon :> <<[op |-> "daemon", object |-> "timers"]>>)
                @@ [t \in TheTasks |-> <<>>],
     services |-> <<>>, reloads |-> {},
     periods |-> [h \in TheTimers |-> 1], tells |-> [t \in TheTasks |-> {}],
     streams |-> [b \in TheStreams |-> NewStream(b = "messages", 4, 1)]]

\* A program with timers: their periods, those that reload, those that notify.
WithTimers(p, periods, reloads, tells) ==
    [p EXCEPT !.services = <<daemon>>, !.periods = periods, !.reloads = reloads,
              !.tells = tells @@ @]

All == <<low, mid, high>>

\* Interrupts fill and drain the queue while two tasks wait for it.
Messages == Program(All,
    (low  :> <<send("a", MaxDelay), send("b", 2), send("a", 1)>>) @@
    (mid  :> <<receive(2), receive(0)>>) @@
    (high :> <<receive(MaxDelay)>>), <<raiseSend("b"), raiseReceive>>, 2)

Peeks == Program(All,
    (low  :> <<send("a", 0), sendFront("b", 0), send("b", 3)>>) @@
    (mid  :> <<peek(3), receive(MaxDelay)>>) @@
    (high :> <<peek(MaxDelay), delay(1), receive(2)>>), <<raiseReceive>>, 0)

Mailbox == Program(All,
    (low  :> <<overwrite("a"), yield, overwrite("b")>>) @@
    (mid  :> <<fromMailbox("receive", 2)>>) @@
    (high :> <<delay(1), fromMailbox("peek", 1)>>), <<>>, 3)

\* Two takers of a semaphore that interrupts give.
Semaphore == Program(All,
    (low  :> <<take("semaphore", 2)>>) @@
    (mid  :> <<take("semaphore", MaxDelay), give("semaphore")>>) @@
    (high :> <<take("semaphore", 1), give("semaphore")>>), <<raiseGive, raiseGive>>, 3)

\* Priority inversion: the waiter times out, retries or gets the mutex.
Inversion == Program(All,
    (low  :> <<take("mutex", MaxDelay), delay(2), give("mutex")>>) @@
    (mid  :> <<delay(1), take("mutex", MaxDelay), give("mutex")>>) @@
    (high :> <<delay(1), take("mutex", 2), give("mutex")>>), <<>>, 2)

\* Nested mutexes, taken in one order by both tasks.
Nested == Program(All,
    (low  :> <<take("mutex", 0), take("other", MaxDelay), delay(0), give("other"), give("mutex")>>) @@
    (mid  :> <<delay(1), take("other", 1), give("other")>>) @@
    (high :> <<delay(1), take("mutex", MaxDelay), give("mutex")>>), <<>>, 4)

Recursive == Program(All,
    (low  :> <<takeAgain("mutex", MaxDelay), takeAgain("mutex", 0),
               giveAgain("mutex"), giveAgain("mutex")>>) @@
    (mid  :> <<delay(1), takeAgain("mutex", 3), giveAgain("mutex")>>) @@
    (high :> <<delay(2), takeAgain("mutex", 0), giveAgain("mutex")>>), <<>>, 4)

\* Delays over the wrap of the tick count.
Delays == Program(All,
    (low  :> <<delay(1), period(3)>>) @@
    (mid  :> <<period(2), period(2)>>) @@
    (high :> <<delay(4), delay(4)>>), <<>>, 0)

Notifications == Program(All,
    (low  :> <<on("notifyGive", high), on("notifyGive", mid)>>) @@
    (mid  :> <<notifyOne(2), notifyTake(MaxDelay)>>) @@
    (high :> <<notifyTake(MaxDelay), notifyOne(1)>>),
    <<on("notify", mid), on("notify", mid)>>, 2)

\* A rendezvous, a wait for one of two bits that times out, a cleared bit.
Rendezvous == Program(All,
    (low  :> <<sync({1}, {1, 2, 3}, MaxDelay), setBits({4})>>) @@
    (mid  :> <<sync({2}, {1, 2, 3}, MaxDelay), waitBits({4, 5}, FALSE, TRUE, 2)>>) @@
    (high :> <<sync({3}, {1, 2, 3}, 3), clearBits({4}), waitBits({4}, TRUE, FALSE, 1)>>), <<>>, 4)

\* Polls, and a waiter whose time is over when its bits come.
Flags == Program(All,
    (low  :> <<waitBits({1}, TRUE, FALSE, 0), setBits({1, 2}), waitBits({1}, TRUE, TRUE, 0),
               sync({3}, {3, 4}, 0)>>) @@
    (mid  :> <<waitBits({2, 3}, FALSE, FALSE, 2), waitBits({3, 5}, FALSE, TRUE, 2)>>) @@
    (high :> <<waitBits({2, 6}, FALSE, FALSE, 2), delay(2), setBits({3})>>), <<>>, 3)

\* gthr_freertos: the creator waits for the start, joins and deletes the group
\* the thread has just set.
Detach == Program(<<mid>>,
    (low  :> <<setBits({1}), delay(1), setBits({2})>>) @@
    (mid  :> <<create(low, 1), waitBits({1}, FALSE, TRUE, MaxDelay),
               create(high, 3), waitBits({2, 3}, TRUE, TRUE, MaxDelay), deleteGroup>>) @@
    (high :> <<setBits({3}), waitBits({4}, FALSE, TRUE, MaxDelay)>>), <<>>, 3)

\* The other way round: the one that deletes the group has a lower priority than
\* the one that sets it, and a third still waits for bits that never come.
Disposal == Program(All,
    (low  :> <<waitBits({1}, FALSE, TRUE, MaxDelay), deleteGroup>>) @@
    (mid  :> <<waitBits({2}, FALSE, FALSE, 2), setBits({1})>>) @@
    (high :> <<delay(1), setBits({2}), waitBits({3}, FALSE, FALSE, MaxDelay)>>), <<>>, 2)

\* Tasks suspended, resumed, deleted, woken early and given other priorities.
Control == Program(All,
    (low  :> <<on("suspend", high), setPriority(mid, 1), on("resume", high)>>) @@
    (mid  :> <<delay(2), setPriority(mid, 3), on("abortDelay", high), setPriority(low, 2)>>) @@
    (high :> <<delay(1), notifyTake(3)>>), <<on("resume", high)>>, 1)

Deletions == Program(All,
    (low  :> <<take("mutex", 1), on("delete", mid), on("resume", high), give("mutex")>>) @@
    (mid  :> <<take("semaphore", 3)>>) @@
    (high :> <<on("suspend", high)>>), <<raiseGive, on("resume", high)>>, 2)

\* Timers that expire once, over the wrap; an interrupt starts one.
OneShots == WithTimers(Program(<<low>>,
    (low :> <<command("start", "one", 0, 0), delay(1), command("changePeriod", "one", 2, 1),
              notifyTake(MaxDelay)>>), <<raiseStart("two")>>, 2),
    ("one" :> 3) @@ ("two" :> 5), {}, low :> {"two"})

\* A timer that reloads, with a timer task that is late by several periods.
Reloads1 == WithTimers(Program(<<low>>,
    (low :> <<command("start", "one", 0, 0), notifyOne(MaxDelay), notifyOne(MaxDelay),
              command("stop", "one", 0, 0), command("delete", "one", 0, 0)>>), <<>>, 3),
    ("one" :> 1) @@ ("two" :> 2), {"one"}, low :> {"one"})

\* A timer task of low priority: its queue is full, its commands are late.
Late == [WithTimers(Program(<<mid>>,
    (mid :> <<command("start", "two", 0, 0), command("start", "one", 0, 0),
              command("start", "one", 0, 1), delay(1), command("stop", "one", 0, 0)>>),
    <<>>, 2),
    ("one" :> 2) @@ ("two" :> 1), {}, <<>>) EXCEPT !.priority[daemon] = 1]

\* A stream of bytes with a trigger level.
Bytes == [Program(<<low, high>>,
    (low  :> <<stream("streamSend", "stream", 2, 2), stream("streamSend", "stream", 3, 3),
               stream("streamSend", "stream", 1, 0)>>) @@
    (high :> <<stream("streamReceive", "stream", 2, MaxDelay), delay(1),
               stream("streamReceive", "stream", 1, 2), stream("streamReceive", "stream", 3, 1)>>),
    <<>>, 2) EXCEPT !.streams["stream"].trigger = 2]

\* An interrupt writes, a task reads; and the other way round.
FromInterrupt == [Program(<<low>>,
    (low :> <<stream("streamReceive", "stream", 2, 2), stream("streamReceive", "stream", 3, 2),
              stream("streamReceive", "messages", 2, 2)>>),
    <<raiseStream("streamSend", "stream", 1), raiseStream("streamSend", "stream", 2),
      raiseStream("streamSend", "messages", 2), raiseStream("streamSend", "messages", 1)>>, 1) EXCEPT !.streams["stream"].trigger = 2]
ToInterrupt == Program(<<low>>,
    (low :> <<stream("streamSend", "stream", 2, 2), stream("streamSend", "stream", 2, 2),
              stream("streamSend", "messages", 2, 0), stream("streamSend", "messages", 1, 2)>>),
    <<raiseStream("streamReceive", "stream", 2), raiseStream("streamReceive", "messages", 1),
      raiseStream("streamReceive", "messages", 2)>>, 2)

\* Messages; one is too long for the first read of it.
Letters == Program(<<low, high>>,
    (high :> <<stream("streamSend", "messages", 2, 0), delay(1),
               stream("streamSend", "messages", 1, 2), stream("streamSend", "messages", 4, 2)>>) @@
    (low  :> <<nextLength("messages"), stream("streamReceive", "messages", 1, 0),
               stream("streamReceive", "messages", 2, 1), stream("streamReceive", "messages", 2, 2),
               nextLength("messages")>>), <<>>, 2)

\* Deadlines in the time of day, which starts at 10 units; the holder of a mutex
\* sets the clock back, to an offset below zero, while another waits for it.
Deadlines == Program(<<low, high>>,
    (low  :> <<take("mutex", MaxDelay), setClock(7), sleepFor(3), give("mutex")>>) @@
    (high :> <<sleepFor(1), takeUntil("mutex", 13), give("mutex")>>), <<>>, 1)

\* Two tasks set the clock, one between the two halves of the other.
Clocks == Program(<<low, mid>>,
    (low  :> <<setClock(41), againUntil("mutex", 44), giveAgain("mutex")>>) @@
    (mid  :> <<sleepFor(2), setClock(38), notifyUntil(43)>>),
    <<on("notify", mid)>>, 1)

TestPrograms ==
    {Deadlines, Clocks, OneShots, Reloads1, Late, Bytes, FromInterrupt, ToInterrupt, Letters,
     Messages, Peeks, Mailbox, Semaphore, Inversion, Nested, Recursive, Delays, Notifications,
     Rendezvous, Flags, Detach, Disposal, Control, Deletions}

--------------------------------------------------------------------------
(* Programs that break a property; each is legal and short.                *)

\* mid waits for the mutex of low, is lent the priority of high and times
\* out; low leaves its ready list to the lower one.
StaleBit == Program(All,
    (low  :> <<take("mutex", MaxDelay), yield, give("mutex")>>) @@
    (mid  :> <<delay(1), take("other", 0), take("mutex", 2), delay(1), give("other")>>) @@
    (high :> <<delay(2), take("other", MaxDelay), give("other")>>), <<>>, 4)

\* low gives two mutexes, the one high waits for first; mid, no higher than low,
\* waits for the second.
MissedYield ==
    [Program(All,
        (low  :> <<take("mutex", MaxDelay), take("other", MaxDelay), yield,
                   give("other"), give("mutex")>>) @@
        (mid  :> <<take("mutex", MaxDelay), give("mutex")>>) @@
        (high :> <<delay(1), take("other", MaxDelay), give("other")>>), <<>>, 3)
     EXCEPT !.priority[mid] = 1]

\* The mutex mid timed out on is given, and taken by high, before mid has
\* looked again.
LateTake == Program(All,
    (low  :> <<take("mutex", MaxDelay), yield, yield, give("mutex")>>) @@
    (mid  :> <<delay(1), take("mutex", 1), give("mutex")>>) @@
    (high :> <<delay(4), take("mutex", 0), delay(1), give("mutex")>>), <<>>, 6)

OnlyStaleBit    == {StaleBit}
OnlyMissedYield == {MissedYield}
OnlyLateTake    == {LateTake}
=============================================================================
