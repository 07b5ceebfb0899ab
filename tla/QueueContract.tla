--------------------------- MODULE QueueContract ---------------------------
(***************************************************************************)
(* What queues, semaphores and mutexes promise their callers, whatever the  *)
(* scheduler does: a bounded sequence of values, each call one atomic step. *)
(* A mutex is a sequence that is empty exactly while it has an owner.       *)
(***************************************************************************)
EXTENDS Naturals, Sequences

CONSTANTS Tasks, Objects, Values, None

VARIABLES
    length,    \* [Objects -> Nat]: how many values an object may hold
    mutexes,   \* the objects that are mutexes
    contents,  \* [Objects -> Seq(Values)]: the next value to receive first
    owner,     \* [Objects -> Tasks or None]
    received   \* [Tasks -> Values]: the value a task received last

vars == <<length, mutexes, contents, owner, received>>

Init ==
    /\ contents \in [Objects -> Seq(Values)]
    /\ \A o \in Objects : Len(contents[o]) <= length[o]
    /\ \A m \in mutexes : Len(contents[m]) = 1
    /\ owner = [o \in Objects |-> None]
    /\ received = [t \in Tasks |-> None]

Becomes(o, sequence) == contents' = [contents EXCEPT ![o] = sequence]

Send(o) ==
    /\ o \notin mutexes
    /\ Len(contents[o]) < length[o]
    /\ \E v \in Values : \/ Becomes(o, Append(contents[o], v))
                         \/ Becomes(o, <<v>> \o contents[o])
    /\ UNCHANGED <<length, mutexes, owner, received>>

Overwrite(o) ==
    /\ o \notin mutexes
    /\ length[o] = 1
    /\ \E v \in Values : Becomes(o, <<v>>)
    /\ UNCHANGED <<length, mutexes, owner, received>>

\* An interrupt that receives keeps the value to itself.
Receive(o) ==
    /\ o \notin mutexes
    /\ contents[o] # <<>>
    /\ Becomes(o, Tail(contents[o]))
    /\ \/ \E t \in Tasks : received' = [received EXCEPT ![t] = Head(contents[o])]
       \/ UNCHANGED received
    /\ UNCHANGED <<length, mutexes, owner>>

Peek(o) ==
    /\ o \notin mutexes
    /\ contents[o] # <<>>
    /\ \E t \in Tasks : received' = [received EXCEPT ![t] = Head(contents[o])]
    /\ UNCHANGED <<length, mutexes, contents, owner>>

Lock(t, m) ==
    /\ m \in mutexes
    /\ owner[m] = None
    /\ contents[m] # <<>>
    /\ Becomes(m, <<>>)
    /\ owner' = [owner EXCEPT ![m] = t]
    /\ UNCHANGED <<length, mutexes, received>>

\* Only its owner gives a mutex back.
Unlock(t, m) ==
    /\ m \in mutexes
    /\ owner[m] = t
    /\ Becomes(m, <<None>>)
    /\ owner' = [owner EXCEPT ![m] = None]
    /\ UNCHANGED <<length, mutexes, received>>

\* A call that changes nothing is a stuttering step.
Next ==
    /\ vars' # vars
    /\ \E o \in Objects :
          \/ Send(o) \/ Overwrite(o) \/ Receive(o) \/ Peek(o)
          \/ \E t \in Tasks : Lock(t, o) \/ Unlock(t, o)

Spec == Init /\ [][Next]_vars
=============================================================================
