------------------------------ MODULE CallOnce ------------------------------
(***************************************************************************)
(* std::call_once: __gthread_once (bits/gthr-default.h) under the proxy of *)
(* libstdc++_gcc/v13/mutex.cc, in the form it has without thread-local     *)
(* variables: the callable and the caller's lock travel from call_once to  *)
(* the proxy in two globals, guarded by one global mutex.                  *)
(*                                                                         *)
(* A frame is one call_once: a task has one for each flag it is calling    *)
(* for, more than one if a callable itself calls call_once.                *)
(***************************************************************************)
EXTENDS Naturals

CONSTANTS
  Tasks,
  Flags,     (* std::once_flag objects                                     *)
  Inner,     (* flag -> the flag its callable calls call_once for, or Null *)
  Null,
  MaxCalls   (* bound: calls a task makes itself                           *)

Frames == Tasks \X Flags

ASSUME InnerFlags == Inner \in [Flags -> Flags \cup {Null}]
ASSUME NullIsNoFrame == Null \notin Tasks \cup Flags \cup Frames
ASSUME CallsAreBounded == MaxCalls \in Nat

(* A callable that calls call_once, itself or through others, for its own  *)
(* flag would wait for itself.                                             *)
ASSUME InnerEnds == \A S \in SUBSET Flags : S # {} => \E f \in S : Inner[f] \notin S

VARIABLES
  global,    (* the task that holds __get_once_mutex(), or Null            *)
  functor,   (* __once_functor: the frame whose callable it is, or Null    *)
  lockPtr,   (* __once_functor_lock_ptr: the frame whose lock it points to *)
  owns,      (* frame -> whether its unique_lock owns the global mutex     *)
  v,         (* flag -> Once::v                                            *)
  m,         (* flag -> the task that holds Once::m, or Null               *)
  callable,  (* frame -> the proxy's local: the frame whose callable it is *)
  pc,        (* frame -> where the call is                                 *)
  runs,      (* flag -> how often its callable was started                 *)
  calls      (* task -> how many calls it still makes                      *)

vars == <<global, functor, lockPtr, owns, v, m, callable, pc, runs, calls>>
globals == <<global, functor, lockPtr, owns>>
once == <<v, m>>

PC == {"idle", "lock", "prepare", "take", "swap", "proxy", "unlock", "call",
       "running", "nested", "give", "leave"}

Init ==
  /\ global = Null
  /\ functor = Null
  /\ lockPtr = Null
  /\ owns = [c \in Frames |-> FALSE]
  /\ v = [f \in Flags |-> FALSE]
  /\ m = [f \in Flags |-> Null]
  /\ callable = [c \in Frames |-> Null]
  /\ pc = [c \in Frames |-> "idle"]
  /\ runs = [f \in Flags |-> 0]
  /\ calls = [t \in Tasks |-> MaxCalls]

Step(t, f, from, to) == pc[<<t, f>>] = from /\ pc' = [pc EXCEPT ![<<t, f>>] = to]

(* The program calls call_once.                                            *)
Enter(t, f) ==
  /\ \A g \in Flags : pc[<<t, g>>] = "idle"
  /\ calls[t] > 0
  /\ Step(t, f, "idle", "lock")
  /\ calls' = [calls EXCEPT ![t] = @ - 1]
  /\ UNCHANGED <<globals, once, callable, runs>>

(***************************************************************************)
(* std::call_once, in the header <mutex>: _Prepare_execution.              *)
(***************************************************************************)

(* Mutant: the globals are used without the mutex.                         *)
LockNothing(t, f) ==
  /\ Step(t, f, "lock", "prepare")
  /\ owns' = [owns EXCEPT ![<<t, f>>] = TRUE]
  /\ UNCHANGED <<global, functor, lockPtr, once, callable, runs, calls>>

LockGlobal(t, f) ==
  /\ Step(t, f, "lock", "prepare")
  /\ global = Null
  /\ global' = t
  /\ owns' = [owns EXCEPT ![<<t, f>>] = TRUE]
  /\ UNCHANGED <<functor, lockPtr, once, callable, runs, calls>>

(* __set_once_functor_lock_ptr                                             *)
SetLockPtr(c) == lockPtr' = c

Prepare(t, f) ==
  /\ Step(t, f, "prepare", "take")
  /\ functor' = <<t, f>>
  /\ SetLockPtr(<<t, f>>)
  /\ UNCHANGED <<global, owns, once, callable, runs, calls>>

(***************************************************************************)
(* __gthread_once                                                          *)
(***************************************************************************)
Take(t, f) ==
  /\ Step(t, f, "take", "swap")
  /\ m[f] = Null
  /\ m' = [m EXCEPT ![f] = t]
  /\ UNCHANGED <<globals, v, callable, runs, calls>>

Swap(t, f) ==
  /\ \/ Step(t, f, "swap", "proxy") /\ ~v[f]
     \/ Step(t, f, "swap", "give") /\ v[f]
  /\ v' = [v EXCEPT ![f] = TRUE]
  /\ UNCHANGED <<globals, m, callable, runs, calls>>

(* Mutant: the mutex is kept.                                              *)
GiveForgotten(t, f) ==
  /\ Step(t, f, "give", "leave")
  /\ UNCHANGED <<globals, once, callable, runs, calls>>

Give(t, f) ==
  /\ Step(t, f, "give", "leave")
  /\ m' = [m EXCEPT ![f] = Null]
  /\ UNCHANGED <<globals, v, callable, runs, calls>>

(***************************************************************************)
(* __once_proxy                                                            *)
(***************************************************************************)
MoveFunctor(t, f) ==
  /\ Step(t, f, "proxy", "unlock")
  /\ callable' = [callable EXCEPT ![<<t, f>>] = functor]
  /\ functor' = Null
  /\ UNCHANGED <<global, lockPtr, owns, once, runs, calls>>

(* set_lock_ptr(nullptr), then unlock what it returns.                     *)
UnlockGlobal(t, f) ==
  /\ Step(t, f, "unlock", "call")
  /\ lockPtr # Null
  /\ owns' = [owns EXCEPT ![lockPtr] = FALSE]
  /\ SetLockPtr(Null)
  /\ global' = Null
  /\ UNCHANGED <<functor, once, callable, runs, calls>>

(* Mutant: the mutex is given before func, as it once was.                 *)
CallUnlocked(t, f) ==
  /\ Step(t, f, "call", "running")
  /\ runs' = [runs EXCEPT ![callable[<<t, f>>][2]] = @ + 1]
  /\ m' = [m EXCEPT ![f] = Null]
  /\ UNCHANGED <<globals, v, callable, calls>>

CallCallable(t, f) ==
  /\ Step(t, f, "call", "running")
  /\ runs' = [runs EXCEPT ![callable[<<t, f>>][2]] = @ + 1]
  /\ UNCHANGED <<globals, once, callable, calls>>

(* The callable may call call_once itself; in the end it returns.          *)
CallableCalls(t, f) ==
  /\ Inner[f] # Null
  /\ pc[<<t, f>>] = "running"
  /\ pc' = [pc EXCEPT ![<<t, f>>] = "nested", ![<<t, Inner[f]>>] = "lock"]
  /\ UNCHANGED <<globals, once, callable, runs, calls>>

CallableEnds(t, f) ==
  /\ \/ Step(t, f, "running", "give") /\ Inner[f] = Null
     \/ Step(t, f, "nested", "give") /\ pc[<<t, Inner[f]>>] = "idle"
  /\ callable' = [callable EXCEPT ![<<t, f>>] = Null]
  /\ UNCHANGED <<globals, once, runs, calls>>

(***************************************************************************)
(* ~_Prepare_execution, and ~unique_lock; call_once returns.               *)
(***************************************************************************)

ReleaseLock(t, f) ==
  IF owns[<<t, f>>]
    THEN /\ owns' = [owns EXCEPT ![<<t, f>>] = FALSE]
         /\ global' = Null
         /\ SetLockPtr(Null)
    ELSE UNCHANGED <<owns, lockPtr, global>>

Leave(t, f) ==
  /\ Step(t, f, "leave", "idle")
  /\ ReleaseLock(t, f)
  /\ UNCHANGED <<functor, once, callable, runs, calls>>

(***************************************************************************)
(* The specification.                                                      *)
(***************************************************************************)
Library(t, f) ==
  \/ LockGlobal(t, f) \/ Prepare(t, f)
  \/ Take(t, f) \/ Swap(t, f) \/ Give(t, f)
  \/ MoveFunctor(t, f) \/ UnlockGlobal(t, f)
  \/ CallCallable(t, f) \/ CallableEnds(t, f) \/ CallableCalls(t, f)
  \/ Leave(t, f)

Next == \E t \in Tasks, f \in Flags : Enter(t, f) \/ Library(t, f)

Spec == Init /\ [][Next]_vars

(* Tasks that can run are run, and callables return.                       *)
FairSpec == Spec /\ \A t \in Tasks, f \in Flags : WF_vars(Library(t, f))

(***************************************************************************)
(* Properties.                                                             *)
(***************************************************************************)
TypeOK ==
  /\ global \in Tasks \cup {Null}
  /\ functor \in Frames \cup {Null}
  /\ lockPtr \in Frames \cup {Null}
  /\ owns \in [Frames -> BOOLEAN]
  /\ v \in [Flags -> BOOLEAN]
  /\ m \in [Flags -> Tasks \cup {Null}]
  /\ callable \in [Frames -> Frames \cup {Null}]
  /\ pc \in [Frames -> PC]
  /\ runs \in [Flags -> Nat]
  /\ calls \in [Tasks -> 0..MaxCalls]

Runs(c) == pc[c] \in {"running", "nested"}

(* The callable of a flag is started at most once, whoever calls when      *)
(* (test_once.h:67, `assert(cnt == 1)').                                   *)
RunsOnce == \A f \in Flags : runs[f] <= 1

(* The callable a task runs is the one it passed itself: what comes out of *)
(* the global is neither another caller's nor one left by a call that is   *)
(* over.  So is the lock that the proxy unlocks.                           *)
RunsOwnCallable ==
  \A c \in Frames :
    /\ pc[c] \in {"unlock", "call", "running"} => callable[c] = c
    /\ pc[c] = "unlock" => lockPtr = c /\ owns[c] /\ global = c[1]

(* call_once returns only when the callable of its flag has returned.      *)
ReturnsAfterRun ==
  \A t \in Tasks, f \in Flags :
    pc[<<t, f>>] = "leave" => runs[f] > 0 /\ \A u \in Tasks : ~Runs(<<u, f>>)

(* The global pointer never outlives the lock it points to: that is a      *)
(* local of a call that still owns the mutex.                              *)
LockPtrIsValid == lockPtr # Null => owns[lockPtr] /\ pc[lockPtr] # "idle"

(* What the contract sees of the flags and of the calls.                   *)
Contract == INSTANCE OnceContract WITH
  state <- [f \in Flags |->
              IF runs[f] = 0 THEN "new"
              ELSE IF \E t \in Tasks : Runs(<<t, f>>) THEN "active" ELSE "done"],
  frame <- [c \in Frames |->
              IF pc[c] = "idle" THEN "idle" ELSE IF Runs(c) THEN "running" ELSE "called"]

(* The two mutexes, the flag and the globals behave as the contract says.  *)
ImplementsContract == Contract!Spec

(* A caller of the flag f has the global mutex and waits for Once::m of f, *)
(* which is held by a task that waits for the global mutex.                *)
Crossed ==
  \E f, g \in Flags : \E t, u \in Tasks :
    /\ pc[<<t, f>>] = "take" /\ global = t
    /\ m[f] = u /\ pc[<<u, g>>] = "lock"

(* Every call_once returns, unless two tasks wait for each other in that   *)
(* one way: no other order of the two mutexes, and no flag whose mutex is  *)
(* left behind, ever stops a caller.                                       *)
CallsReturn == \A c \in Frames : pc[c] # "idle" ~> pc[c] = "idle" \/ Crossed
=============================================================================
