------------------------------ MODULE Services ------------------------------
(***************************************************************************)
(* The kernel with what is built on it: stream and message buffers,         *)
(* software timers, and the time of day with the waits that use it.  Their  *)
(* steps interleave with those of the kernel, and they share its scheduler, *)
(* its queues and its notifications.                                        *)
(***************************************************************************)
EXTENDS StreamBuffer, Timers, WallClock

systemVars == <<vars, streams, timers, wall>>

SystemInit ==
    /\ Init
    /\ streams = program.streams
    /\ timers = NoTimers
    /\ wall = ClockStart

SystemProcessor ==
    \/ Processor /\ UNCHANGED <<streams, timers, wall>>
    \/ (\E t \in Tasks : StreamStep(t)) /\ UNCHANGED <<timers, wall>>
    \/ (\E t \in Tasks : ComposeCommand(t) \/ DaemonStep(t)) /\ UNCHANGED <<streams, wall>>
    \/ (\E t \in Tasks : ClockStep(t)) /\ UNCHANGED <<streams, timers>>

SystemInterrupt ==
    \/ Interrupt /\ UNCHANGED <<streams, timers, wall>>
    \/ StreamInterrupt /\ UNCHANGED <<timers, wall>>
    \/ CommandInterrupt /\ UNCHANGED <<streams, wall>>

Tick == TickInterrupt /\ UNCHANGED <<streams, timers, wall>>

SystemNext == SystemProcessor \/ SystemInterrupt \/ Tick

SystemSpec == SystemInit /\ [][SystemNext]_systemVars

\* As long as a task, an interrupt or the tick can take a step, one of them does.
FairSystemSpec == SystemSpec /\ WF_systemVars(SystemNext)

--------------------------------------------------------------------------
(* Properties.                                                            *)

\* Every task makes its last call and is cleaned up, and the timer task carries
\* out every command and runs out of timers: no wait, lock, wake-up, yield or
\* tick is lost for good in any of the programs.
ProgramsFinish ==
    <>[](/\ \A t \in Tasks \ {Idle, Daemon} : Homes(t) = {}
         /\ timers.current = <<>> /\ timers.overflow = <<>>
         /\ IsEmpty(queues[TimerQueue]))
=============================================================================
