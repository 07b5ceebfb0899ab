----------------------------- MODULE WallClock -----------------------------
(***************************************************************************)
(* The time of day (freertos_time.cpp) and the waits that end at a moment   *)
(* of it or after a time: the timed locks and the timed wait of gthreads    *)
(* and sleep_for, each of which turns its time into ticks and then makes    *)
(* one kernel call.  A task may be interrupted between reading the clock    *)
(* and that call, and between the two halves of setting the clock.          *)
(*                                                                          *)
(* A second has PerSecond milliseconds (1000) and a millisecond has Fine    *)
(* units (the microseconds and nanoseconds of the code).  As in all the     *)
(* configurations of the repository, one tick is one millisecond.           *)
(***************************************************************************)
EXTENDS Kernel

CONSTANTS PerSecond, Fine

ASSUME ClockAssumption == PerSecond \in Nat \ {0} /\ Fine \in Nat \ {0}

\* The offset of the clock; for the property, also what the time of day is
\* beyond the moment `now`, and how often the tick count had wrapped when the
\* clock was set.
VARIABLE wall

TickRate == PerSecond                                  \* configTICK_RATE_HZ

\* Division as in C++, and the two parts of a time.
Quotient(a, b) == IF a < 0 THEN -((-a) \div b) ELSE a \div b
Parts(time) ==
    LET sec == Quotient(time, PerSecond * Fine)
    IN  [sec |-> sec, frac |-> time - sec * PerSecond * Fine]

\* pdTICKS_TO_MS, pdMS_TO_TICKS: the second computes in the width of a tick.
TicksToMs(ticks) == (ticks * TickRate) \div PerSecond
MsToTicks(ms) == (((ms % TickCount) * TickRate) % TickCount) \div PerSecond

\* operator+ on timeval, which carries once, and _gettimeofday.
Plus(l, r) ==
    LET frac == l.frac + r.frac
    IN  IF frac >= PerSecond * Fine
        THEN [sec |-> l.sec + r.sec + 1, frac |-> frac - PerSecond * Fine]
        ELSE [sec |-> l.sec + r.sec, frac |-> frac]
TimeOfDay(s) ==
    LET ms  == TicksToMs(s.tick)
        sec == ms \div PerSecond
    IN  Plus(wall.offset, [sec |-> sec, frac |-> (ms - sec * PerSecond) * Fine])

\* operator- and milliseconds() of __gthread_time_t; each part is rounded on its own.
Minus(l, r) == [sec |-> l.sec - r.sec, frac |-> l.frac - r.frac]
Milliseconds(time) == time.sec * PerSecond + Quotient(time.frac, Fine)

\* The waits whose milliseconds do not wrap in pdMS_TO_TICKS: 71 minutes with
\* 32 bits.  A deadline that has passed is a negative number, which does.
Convertible(left) == left >= 0 /\ (left \div Fine) + 1 < TickCount \div PerSecond

\* gettimeofday and the conversion of __gthread_mutex_timedlock and its kin.
WaitUntil(until) ==
    LET left == until - (wall.epoch + now * Fine)
    IN  [asked |-> MsToTicks(Milliseconds(Minus(Parts(until), TimeOfDay(sched)))),
         asker |-> now,
         due   |-> IF wall.round = sched.overflows /\ Convertible(left)
                   THEN now * Fine + left ELSE None]
ReadClock(t) ==
    /\ Calls(t, {"readClock"})
    /\ Goto(t, WaitUntil(Call(t).until))
    /\ UNCHANGED <<program, sched, queues, groups, raised, now, wall>>

\* this_thread::__sleep_for: a short sleep is one millisecond.
WaitFor(span) ==
    LET time == Parts(span)
        ms == IF time.sec = 0 /\ time.frac \in 1..(Fine - 1) THEN 1 ELSE Quotient(time.frac, Fine)
    IN  [asked |-> MsToTicks(time.sec * PerSecond + ms), asker |-> now,
         due |-> IF Convertible(span) THEN now * Fine + span ELSE None]
SleepFor(t) ==
    /\ Calls(t, {"convert"})
    /\ Goto(t, WaitFor(Call(t).span))
    /\ UNCHANGED <<program, sched, queues, groups, raised, now, wall>>

\* SetSystemClockTime looks at the tick count, and stores the offset later.
\* Mutant: the ticks so far are not taken off.
TimeItself(time, ticks) == time
Delta(time, ticks) == time - TicksToMs(ticks) * Fine
ClockSetTo(time) ==
    [offset |-> Parts(Delta(time, sched.tick)),
     epoch  |-> time - now * Fine, round |-> sched.overflows]
BeginSetClock(t) ==
    /\ Calls(t, {"setClock"})
    /\ Goto(t, [pc |-> "storeClock", clock |-> ClockSetTo(Call(t).time)])
    /\ UNCHANGED <<program, sched, queues, groups, raised, now, wall>>

StoreClock(t) ==
    /\ At(t, "storeClock")
    /\ wall' = local[t].clock
    /\ Return(t, << >>)
    /\ UNCHANGED <<program, sched, queues, groups, raised, now>>

ClockStart ==
    [offset |-> [sec |-> 0, frac |-> 0], epoch |-> InitialTick * Fine, round |-> 0]

ClockStep(t) == ReadClock(t) \/ SleepFor(t) \/ BeginSetClock(t) \/ StoreClock(t)

--------------------------------------------------------------------------
(* Properties.                                                            *)

\* A timed lock, a timed wait and a sleep ask the kernel for the time that is
\* left on the clock, to within a millisecond, and give up less than a
\* millisecond before their deadline at the earliest: also when another task
\* sets the clock in the middle of it, to an earlier time or with an offset
\* below zero, and when the caller runs late (gthr-default.h:173-191 and 282-287,
\* thread.cpp:105, freertos_time.cpp).
DeadlinesAreKept ==
    \A t \in Tasks : local[t].due # None =>
        /\ (local[t].asker + local[t].asked) * Fine - local[t].due \in (1 - Fine)..(Fine - 1)
        /\ IsReady(sched, t) /\ GaveUp(t) => now * Fine > local[t].due - Fine
=============================================================================
