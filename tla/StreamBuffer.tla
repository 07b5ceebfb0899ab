---------------------------- MODULE StreamBuffer ----------------------------
(***************************************************************************)
(* Stream and message buffers (stream_buffer.c) between one writer and one  *)
(* reader, each a task or an interrupt.  The positions in the ring are not  *)
(* protected: the writer moves the head, the reader the tail, and either    *)
(* may be preempted between two memory accesses.  Tasks wait by means of    *)
(* their notification.                                                      *)
(*                                                                          *)
(* Data is numbered in the order it is sent, from 1 on.  The word that      *)
(* holds the length of a message takes LengthSize places of the ring.       *)
(***************************************************************************)
EXTENDS Kernel

CONSTANTS Streams   \* the stream and message buffers

VARIABLES streams   \* [Streams -> the control block of a buffer]

LengthSize == 1

\* prvInitialiseNewStreamBuffer.  `sent` and `got` record, for the properties,
\* what the calls have sent and received.
NewStream(isMessage, length, trigger) ==
    [isMessage |-> isMessage, length |-> length, trigger |-> trigger,
     tail |-> 0, head |-> 0, slots |-> [i \in 0 .. length - 1 |-> 0],
     waitingToReceive |-> None, waitingToSend |-> None,
     sent |-> <<>>, got |-> <<>>]

\* prvBytesInBuffer, xStreamBufferSpacesAvailable
BytesIn(s) == (s.length + s.head - s.tail) % s.length
\* Mutant: the place that tells a full ring from an empty one is given away.
SpaceToTheTail(s) == IF s.head = s.tail THEN s.length ELSE s.length - BytesIn(s)
SpaceIn(s) == (s.length + s.tail - s.head - 1) % s.length

LengthBytes(s) == IF s.isMessage THEN LengthSize ELSE 0

\* prvWriteBytesToBuffer
Written(s, values) ==
    [s EXCEPT !.slots = [i \in DOMAIN @ |->
                            LET k == ((i + s.length - s.head) % s.length) + 1
                            IN  IF k <= Len(values) THEN values[k] ELSE @[i]],
              !.head = (@ + Len(values)) % s.length]

\* prvReadBytesFromBuffer: what is copied out, and the new tail.
Oldest(s, n) == [i \in 1 .. n |-> s.slots[(s.tail + i - 1) % s.length]]
Advanced(s, n) == [s EXCEPT !.tail = (@ + n) % s.length]

NewData(s, n) == [i \in 1 .. n |-> Len(FlattenSeq(s.sent)) + i]
Sent(s, n) == [Written(s, NewData(s, n)) EXCEPT !.sent = Append(@, NewData(s, n))]
Got(s, n) == [Advanced(s, n) EXCEPT !.got = Append(@, Oldest(s, n))]

Stream(t) == streams[Call(t).stream]
SetStream(t, s) == streams' = [streams EXCEPT ![Call(t).stream] = s]

\* xRequiredSpace; a message that can never fit is not waited for.
Required(s, n) == IF s.isMessage THEN n + LengthSize ELSE Min({n, s.length - 1})
MayWait(t) ==
    /\ Call(t).wait > 0
    /\ Stream(t).isMessage => Required(Stream(t), Call(t).bytes) <= Stream(t).length - 1

--------------------------------------------------------------------------
(* xStreamBufferSend.                                                     *)

\* vTaskSetTimeOutState, for a sender that may wait.  `room` is xSpace.
StreamSend(t) ==
    /\ Calls(t, {"streamSend"})
    /\ IF MayWait(t)
       THEN Goto(t, [pc |-> "space", room |-> 0, timeout |-> SetTimeOut(sched, Call(t).wait)])
       ELSE Goto(t, [pc |-> "write", room |-> 0])
    /\ UNCHANGED <<program, sched, queues, groups, raised, now, streams>>

\* One critical section looks for the space, clears the notification and
\* announces the writer that is going to wait.
CheckSpace(t) ==
    LET space == SpaceIn(Stream(t))
        alone == IF Stream(t).waitingToSend = None THEN sched ELSE Fail(sched, "one writer")
    IN  /\ At(t, "space")
        /\ IF space < Required(Stream(t), Call(t).bytes)
           THEN /\ sched' = NotifyStateClear(alone)
                /\ SetStream(t, [Stream(t) EXCEPT !.waitingToSend = t])
                /\ Goto(t, [pc |-> "wait", room |-> space])
           ELSE /\ Goto(t, [pc |-> "write", room |-> space])
                /\ UNCHANGED <<sched, streams>>
        /\ UNCHANGED <<program, queues, groups, raised, now>>

\* xTaskNotifyWait of writer and reader.
TicksToWait(t) == IF Call(t).op = "streamSend" THEN local[t].timeout.ticks ELSE Call(t).wait
StreamWait(t) ==
    /\ At(t, "wait")
    /\ sched' = NotifyWait(sched, TicksToWait(t))
    /\ Goto(t, [pc |-> "waited", deadline |-> Deadline(TicksToWait(t))])
    /\ UNCHANGED <<program, queues, groups, raised, now, streams>>

StreamWaited(t) ==
    /\ At(t, "waited")
    /\ sched' = NotifyEnd(sched)
    /\ Goto(t, [pc |-> "forget"])
    /\ UNCHANGED <<program, queues, groups, raised, now, streams>>

Forget(t) ==
    /\ At(t, "forget")
    /\ IF Call(t).op = "streamSend"
       THEN SetStream(t, [Stream(t) EXCEPT !.waitingToSend = None]) /\ Goto(t, [pc |-> "time"])
       ELSE SetStream(t, [Stream(t) EXCEPT !.waitingToReceive = None]) /\ Goto(t, [pc |-> "recheck"])
    /\ UNCHANGED <<program, sched, queues, groups, raised, now>>

SendTimeout(t) ==
    /\ At(t, "time")
    /\ sched' = ClearAborted(sched)
    /\ Goto(t, [timeout |-> CheckForTimeOut(sched, local[t].timeout),
                pc |-> IF TimedOut(sched, local[t].timeout) THEN "write" ELSE "space"])
    /\ UNCHANGED <<program, queues, groups, raised, now, streams>>

\* prvWriteMessageToBuffer with the space seen last, or seen now when that was
\* none: a stream takes what fits, a message all or nothing, its length first.
WriteStream(t) ==
    LET s == Stream(t)
        space == IF local[t].room = 0 THEN SpaceIn(s) ELSE local[t].room
    IN  /\ At(t, "write")
        /\ IF space = 0 \/ (s.isMessage /\ space < Required(s, Call(t).bytes))
           THEN Return(t, << >>) /\ UNCHANGED streams
           ELSE IF s.isMessage
           THEN SetStream(t, Written(s, <<Call(t).bytes>>)) /\ Goto(t, [pc |-> "writeData"])
           ELSE SetStream(t, Sent(s, Min({Call(t).bytes, space}))) /\ Goto(t, [pc |-> "trigger"])
        /\ UNCHANGED <<program, sched, queues, groups, raised, now>>

WriteData(t) ==
    /\ At(t, "writeData")
    /\ SetStream(t, Sent(Stream(t), Call(t).bytes))
    /\ Goto(t, [pc |-> "trigger"])
    /\ UNCHANGED <<program, sched, queues, groups, raised, now>>

\* Mutant: the level itself does not count.
AboveTrigger(s) == BytesIn(s) > s.trigger
Triggers(s) == BytesIn(s) >= s.trigger
TestTrigger(t) ==
    /\ At(t, "trigger")
    /\ IF Triggers(Stream(t)) THEN Goto(t, [pc |-> "complete"]) ELSE Return(t, << >>)
    /\ UNCHANGED <<program, sched, queues, groups, raised, now, streams>>

\* sbSEND_COMPLETED and sbRECEIVE_COMPLETED: with the scheduler suspended, the
\* other side is notified, then forgotten.
Peer(t) == IF Call(t).op = "streamSend" THEN Stream(t).waitingToReceive
           ELSE Stream(t).waitingToSend
Complete(t) ==
    /\ At(t, "complete")
    /\ sched' = SuspendAll(sched)
    /\ Goto(t, [pc |-> "notifyPeer"])
    /\ UNCHANGED <<program, queues, groups, raised, now, streams>>

NotifyPeer(t) ==
    /\ At(t, "notifyPeer")
    /\ IF Peer(t) = None THEN Goto(t, [pc |-> "resume"]) /\ UNCHANGED sched
       ELSE /\ sched' = Notify(sched, Peer(t), Signalled(sched, Peer(t)))
            /\ Goto(t, [pc |-> "forgetPeer"])
    /\ UNCHANGED <<program, queues, groups, raised, now, streams>>

ForgetPeer(t) ==
    /\ At(t, "forgetPeer")
    /\ SetStream(t, IF Call(t).op = "streamSend"
                    THEN [Stream(t) EXCEPT !.waitingToReceive = None]
                    ELSE [Stream(t) EXCEPT !.waitingToSend = None])
    /\ Goto(t, [pc |-> "resume"])
    /\ UNCHANGED <<program, sched, queues, groups, raised, now>>

--------------------------------------------------------------------------
(* xStreamBufferReceive and xStreamBufferNextMessageLengthBytes.          *)

\* A reader waits once, and only for an empty buffer.
StreamReceive(t) ==
    LET s == Stream(t)
        alone == IF s.waitingToReceive = None THEN sched ELSE Fail(sched, "one reader")
    IN  /\ Calls(t, {"streamReceive"})
        /\ IF Call(t).wait > 0 /\ BytesIn(s) <= LengthBytes(s)
           THEN /\ sched' = NotifyStateClear(alone)
                /\ SetStream(t, [s EXCEPT !.waitingToReceive = t])
                /\ Goto(t, [pc |-> "wait"])
           ELSE /\ Goto(t, [pc |-> "read", room |-> BytesIn(s)])
                /\ UNCHANGED <<sched, streams>>
        /\ UNCHANGED <<program, queues, groups, raised, now>>

Recheck(t) ==
    /\ At(t, "recheck")
    /\ Goto(t, [pc |-> "read", room |-> BytesIn(Stream(t))])
    /\ UNCHANGED <<program, sched, queues, groups, raised, now, streams>>

\* prvReadMessageFromBuffer: `room` becomes what is to be read of a message,
\* nothing when it is longer than the memory it is to be copied to.
ReadStream(t) ==
    LET s == Stream(t)
        length == Head(Oldest(s, 1))
    IN  /\ At(t, "read")
        /\ IF local[t].room <= LengthBytes(s) THEN Return(t, << >>) /\ UNCHANGED streams
           ELSE IF s.isMessage
           THEN /\ SetStream(t, Advanced(s, LengthSize))
                /\ Goto(t, [pc |-> "readData",
                            room |-> IF length > Call(t).bytes THEN 0
                                     ELSE Min({length, local[t].room - LengthSize})])
           ELSE /\ SetStream(t, Got(s, Min({Call(t).bytes, local[t].room})))
                /\ Goto(t, [pc |-> "complete"])
        /\ UNCHANGED <<program, sched, queues, groups, raised, now>>

PutLengthBack(s) == [s EXCEPT !.tail = (@ + s.length - LengthSize) % s.length]
ReadData(t) ==
    /\ At(t, "readData")
    /\ IF local[t].room = 0 THEN SetStream(t, PutLengthBack(Stream(t))) /\ Return(t, << >>)
       ELSE SetStream(t, Got(Stream(t), local[t].room)) /\ Goto(t, [pc |-> "complete"])
    /\ UNCHANGED <<program, sched, queues, groups, raised, now>>

\* The length of the next message is read like a message, and put back.
NextLength(t) ==
    /\ Calls(t, {"nextLength"})
    /\ IF BytesIn(Stream(t)) > LengthSize
       THEN /\ SetStream(t, Advanced(Stream(t), LengthSize))
            /\ Goto(t, [pc |-> "readData"])
            /\ UNCHANGED sched
       ELSE /\ sched' = IF BytesIn(Stream(t)) = 0 THEN sched
                        ELSE Fail(sched, "a length without its message")
            /\ Return(t, << >>)
            /\ UNCHANGED streams
    /\ UNCHANGED <<program, queues, groups, raised, now>>

--------------------------------------------------------------------------
(* The calls from interrupts, which no task interrupts.                   *)

SetRaised(s) == streams' = [streams EXCEPT ![Raised.stream] = s]

StreamSendInterrupt ==
    LET s     == streams[Raised.stream]
        space == SpaceIn(s)
        n     == Raised.bytes
        sent  == IF s.isMessage THEN Sent(Written(s, <<n>>), n) ELSE Sent(s, Min({n, space}))
        peer  == s.waitingToReceive
    IN  /\ Raise({"streamSend"})
        /\ IF space = 0 \/ (s.isMessage /\ space < n + LengthSize)
           THEN UNCHANGED <<sched, streams>>
           ELSE IF peer # None /\ Triggers(sent)
           THEN /\ SetRaised([sent EXCEPT !.waitingToReceive = None])
                /\ sched' = NotifyFromISR(sched, peer, Signalled(sched, peer))
           ELSE SetRaised(sent) /\ UNCHANGED sched
        /\ UNCHANGED queues

StreamReceiveInterrupt ==
    LET s    == streams[Raised.stream]
        got  == IF s.isMessage THEN Got(Advanced(s, LengthSize), Head(Oldest(s, 1)))
                ELSE Got(s, Min({BytesIn(s), Raised.bytes}))
        peer == s.waitingToSend
    IN  /\ Raise({"streamReceive"})
        /\ IF BytesIn(s) <= LengthBytes(s) \/ (s.isMessage /\ Head(Oldest(s, 1)) > Raised.bytes)
           THEN UNCHANGED <<sched, streams>>
           ELSE IF peer # None
           THEN /\ SetRaised([got EXCEPT !.waitingToSend = None])
                /\ sched' = NotifyFromISR(sched, peer, Signalled(sched, peer))
           ELSE SetRaised(got) /\ UNCHANGED sched
        /\ UNCHANGED queues

StreamStep(t) ==
    \/ StreamSend(t) \/ CheckSpace(t) \/ SendTimeout(t) \/ WriteStream(t) \/ WriteData(t)
    \/ TestTrigger(t) \/ StreamWait(t) \/ StreamWaited(t) \/ Forget(t)
    \/ Complete(t) \/ NotifyPeer(t) \/ ForgetPeer(t)
    \/ StreamReceive(t) \/ Recheck(t) \/ ReadStream(t) \/ ReadData(t) \/ NextLength(t)
StreamInterrupt == StreamSendInterrupt \/ StreamReceiveInterrupt

--------------------------------------------------------------------------
(* What programs may do with a buffer: stream_buffer.h allows one writer    *)
(* and one reader, each a task or the interrupts, which are called None.    *)

Reads == {"streamReceive", "nextLength"}
CallsOn(script, b, operations) ==
    {i \in 1 .. Len(script) : script[i].op \in operations /\ script[i].stream = b}
Users(p, b, operations) ==
    {t \in Tasks : CallsOn(p.script[t], b, operations) # {}}
    \cup {x \in {None} : CallsOn(p.interrupts, b, operations) # {}}

LegalStreamCall(call, buffers) ==
    /\ call.op \in {"streamSend"} \cup Reads => call.stream \in Streams
    /\ call.op = "streamSend" => call.bytes \in Nat \ {0}
    /\ call.op = "streamReceive" => call.bytes \in Nat
    /\ call.op = "nextLength" => buffers[call.stream].isMessage

ASSUME StreamAssumption ==
    \A p \in Programs :
        /\ DOMAIN p.streams = Streams
        /\ \A b \in Streams :
              LET s == p.streams[b]
              IN  /\ s.isMessage \in BOOLEAN /\ s.length \in Nat \ {0}
                  /\ s = NewStream(s.isMessage, s.length, s.trigger)
                  /\ s.isMessage => s.trigger = 1
        /\ \A t \in Tasks : \A i \in 1 .. Len(p.script[t]) :
              LegalStreamCall(p.script[t][i], p.streams)
        /\ \A i \in 1 .. Len(p.interrupts) : LegalStreamCall(p.interrupts[i], p.streams)
        /\ \A b \in Streams : \A operations \in {{"streamSend"}, Reads} :
              \A x, y \in Users(p, b, operations) : x = y

--------------------------------------------------------------------------
(* Properties.                                                            *)

InCall(b, operations, labels) ==
    \E t \in Tasks : /\ HasCall(t) /\ Call(t).op \in operations /\ Call(t).stream = b
                     /\ local[t].pc \in labels

\* What was received and what is in the ring are, in order, all that was sent,
\* and a message is received whole or not at all, although neither side locks
\* the ring (stream_buffer.c, xHead and xTail).
Packed(messages) == FlattenSeq([i \in DOMAIN messages |-> <<Len(messages[i])>> \o messages[i]])
StreamsDeliver ==
    \A b \in Streams :
        LET s == streams[b]
            left == Oldest(s, BytesIn(s))
        IN  IF s.isMessage
            THEN /\ IsPrefix(s.got, s.sent)
                 /\ ~ InCall(b, {"streamSend", "streamReceive", "nextLength"}, {"writeData", "readData"})
                    => left = Packed(SubSeq(s.sent, Len(s.got) + 1, Len(s.sent)))
            ELSE FlattenSeq(s.got) \o left = FlattenSeq(s.sent)

\* A reader sleeps on data, or a writer on space, it waits for only while the
\* other side is on its way to notify it: no notification is lost between the
\* look and the wait, and none goes to another wait (sbSEND_COMPLETED,
\* sbRECEIVE_COMPLETED).
Sleeps(t) == t # None /\ ~ IsReady(sched, t) /\ sched.notifyState[t] = "waiting"
StreamWaitersWake ==
    \A b \in Streams :
        LET s == streams[b]
        IN  /\ Sleeps(s.waitingToReceive) /\ BytesIn(s) > LengthBytes(s) /\ BytesIn(s) >= s.trigger
               => InCall(b, {"streamSend"}, {"trigger", "complete", "notifyPeer"})
            /\ Sleeps(s.waitingToSend)
                  /\ SpaceIn(s) >= Required(s, Call(s.waitingToSend).bytes)
               => InCall(b, {"streamReceive"}, {"readData", "complete", "notifyPeer"})
=============================================================================
