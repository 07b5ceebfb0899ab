------------------------------ MODULE CondVar ------------------------------
(***************************************************************************)
(* std::condition_variable on FreeRTOS: __gthread_cond_wait, _timedwait,   *)
(* _signal and _broadcast (src/FreeRTOS/cpp11_gcc/bits/gthr-default.h) on  *)
(* a queue of task handles, guarded by a binary semaphore (cv_task_list,   *)
(* condition_variable.h), and on the notification count of each task,      *)
(* which is one for all the condition variables the task ever waits on.    *)
(*                                                                         *)
(* A task takes and gives the program's mutexes between the calls.         *)
(***************************************************************************)
EXTENDS Naturals, Sequences

CONSTANTS
  Tasks,
  CVs,         (* condition variables                                      *)
  Mutexes,
  MutexOf,     (* condition variable -> the mutex all its waiters hold     *)
  Null,
  TimedWaits,  (* TRUE: the program also calls __gthread_cond_timedwait    *)
  MaxCalls     (* bound: task -> the calls on condition variables it makes *)

ASSUME MutexOfCVs == MutexOf \in [CVs -> Mutexes]
ASSUME NullIsNoTask == Null \notin Tasks \cup CVs
ASSUME CallsAreBounded == MaxCalls \in [Tasks -> Nat] /\ TimedWaits \in BOOLEAN

VARIABLES
  que,       (* cv -> the handles in cv_task_list::_que                    *)
  avail,     (* cv -> whether cv_task_list::_sem can be taken              *)
  holder,    (* mutex -> the task that holds it, or Null                   *)
  notified,  (* task -> ulNotifiedValue[0]                                 *)
  pc,        (* task -> where it is in its call                            *)
  call,      (* task -> its call                                           *)
  target,    (* task -> `t', the handle a notifier has popped              *)
  calls      (* task -> how many calls it still makes                      *)

vars == <<que, avail, holder, notified, pc, call, target, calls>>

WaitKinds == {"wait", "timedwait"}
NotifyKinds == {"signal", "broadcast"}
NoCall == [kind |-> "none", cv |-> Null]
Calls == [kind : WaitKinds \cup NotifyKinds, cv : CVs]

PC == {"idle", "lock", "push", "unlock", "take", "blocked", "took", "relock",
       "relock_timeout", "remove_lock", "remove", "front", "pop", "give",
       "release"}

Init ==
  /\ que = [v \in CVs |-> <<>>]
  /\ avail = [v \in CVs |-> TRUE]
  /\ holder = [m \in Mutexes |-> Null]
  /\ notified = [t \in Tasks |-> 0]
  /\ pc = [t \in Tasks |-> "idle"]
  /\ call = [t \in Tasks |-> NoCall]
  /\ target = [t \in Tasks |-> Null]
  /\ calls = MaxCalls

Queued(v) == {que[v][i] : i \in DOMAIN que[v]}

Step(t, from, to) == pc[t] = from /\ pc' = [pc EXCEPT ![t] = to]

Finish(t, from) == Step(t, from, "idle") /\ call' = [call EXCEPT ![t] = NoCall]

SetAvail(v, b) == avail' = [avail EXCEPT ![v] = b]

(***************************************************************************)
(* The program: it locks, unlocks and calls.                               *)
(***************************************************************************)
Lock(t, m) ==
  /\ pc[t] = "idle" /\ holder[m] = Null
  /\ holder' = [holder EXCEPT ![m] = t]
  /\ UNCHANGED <<que, avail, notified, pc, call, target, calls>>

Unlock(t, m) ==
  /\ pc[t] = "idle" /\ holder[m] = t
  /\ holder' = [holder EXCEPT ![m] = Null]
  /\ UNCHANGED <<que, avail, notified, pc, call, target, calls>>

(* A waiter holds the mutex; a notifier may.                               *)
Enter(t, k, v) ==
  /\ Step(t, "idle", "lock")
  /\ calls[t] > 0
  /\ k \in WaitKinds => holder[MutexOf[v]] = t
  /\ k = "timedwait" => TimedWaits
  /\ call' = [call EXCEPT ![t] = [kind |-> k, cv |-> v]]
  /\ calls' = [calls EXCEPT ![t] = @ - 1]
  /\ UNCHANGED <<que, avail, holder, notified, target>>

(***************************************************************************)
(* cv_task_list::lock                                                      *)
(***************************************************************************)
ToCritical(t) ==
  \/ Step(t, "lock", "push") /\ call[t].kind \in WaitKinds
  \/ Step(t, "lock", "front") /\ call[t].kind \in NotifyKinds
  \/ Step(t, "remove_lock", "remove")

(* Mutant: the semaphore lets everybody in.                                *)
CondLockOpen(t) ==
  /\ ToCritical(t)
  /\ UNCHANGED <<que, avail, holder, notified, call, target, calls>>

CondLock(t) ==
  /\ ToCritical(t)
  /\ avail[call[t].cv]
  /\ SetAvail(call[t].cv, FALSE)
  /\ UNCHANGED <<que, holder, notified, call, target, calls>>

(***************************************************************************)
(* __gthread_cond_wait and __gthread_cond_timedwait                        *)
(***************************************************************************)

(* push, unlock                                                            *)
Push(t) ==
  LET v == call[t].cv
  IN  /\ Step(t, "push", "unlock")
      /\ que' = [que EXCEPT ![v] = Append(@, t)]
      /\ SetAvail(v, TRUE)
      /\ UNCHANGED <<holder, notified, call, target, calls>>

MutexGive(t) ==
  /\ Step(t, "unlock", "take")
  /\ holder' = [holder EXCEPT ![MutexOf[call[t].cv]] = Null]
  /\ UNCHANGED <<que, avail, notified, call, target, calls>>

(* The first critical section of ulTaskNotifyTake: it blocks only if the   *)
(* count is zero.                                                          *)
TakeEnter(t) ==
  /\ IF notified[t] > 0 THEN Step(t, "take", "took") ELSE Step(t, "take", "blocked")
  /\ UNCHANGED <<que, avail, holder, notified, call, target, calls>>

(* The tick that ends a timed wait.                                        *)
Timeout(t) ==
  /\ call[t].kind = "timedwait"
  /\ Step(t, "blocked", "took")
  /\ UNCHANGED <<que, avail, holder, notified, call, target, calls>>

(* The second critical section of ulTaskNotifyTake reads and clears the    *)
(* count; a timed wait has timed out if it is zero, a plain wait ignores it. *)
TakeExit(t) ==
  /\ \/ Step(t, "took", "relock_timeout") /\ call[t].kind = "timedwait" /\ notified[t] = 0
     \/ Step(t, "took", "relock") /\ ~(call[t].kind = "timedwait" /\ notified[t] = 0)
  /\ notified' = [notified EXCEPT ![t] = 0]
  /\ UNCHANGED <<que, avail, holder, call, target, calls>>

(* __gthread_mutex_lock; then a wait returns, unless it timed out.         *)
MutexTake(t) ==
  LET m == MutexOf[call[t].cv]
  IN  /\ pc[t] \in {"relock", "relock_timeout"}
      /\ holder[m] = Null
      /\ holder' = [holder EXCEPT ![m] = t]
      /\ \/ Finish(t, "relock")
         \/ Step(t, "relock_timeout", "remove_lock") /\ UNCHANGED call
      /\ UNCHANGED <<que, avail, notified, target, calls>>

(* After a timeout: every entry of the task is removed, unlock, ETIMEDOUT. *)
Remove(t) ==
  LET v == call[t].cv
      Other(u) == u # t
  IN  /\ Finish(t, "remove")
      /\ que' = [que EXCEPT ![v] = SelectSeq(@, Other)]
      /\ SetAvail(v, TRUE)
      /\ UNCHANGED <<holder, notified, target, calls>>

(***************************************************************************)
(* __gthread_cond_signal and __gthread_cond_broadcast                      *)
(***************************************************************************)

(* if / while (!cond->empty()): front                                      *)
Front(t) ==
  LET v == call[t].cv
  IN  /\ \/ Step(t, "front", "release") /\ que[v] = <<>> /\ UNCHANGED target
         \/ /\ Step(t, "front", "pop") /\ que[v] # <<>>
            /\ target' = [target EXCEPT ![t] = Head(que[v])]
      /\ UNCHANGED <<que, avail, holder, notified, call, calls>>

(* Mutant: pop_back.                                                       *)
PopBack(t) ==
  /\ Step(t, "pop", "give")
  /\ que' = [que EXCEPT ![call[t].cv] = SubSeq(@, 1, Len(@) - 1)]
  /\ UNCHANGED <<avail, holder, notified, call, target, calls>>

(* pop                                                                     *)
Pop(t) ==
  /\ Step(t, "pop", "give")
  /\ que' = [que EXCEPT ![call[t].cv] = SubSeq(@, 2, Len(@))]
  /\ UNCHANGED <<avail, holder, notified, call, target, calls>>

(* Mutant: the task is woken if it is blocked, but nothing is counted.     *)
GiveUncounted(t) ==
  LET u == target[t]
  IN  /\ pc[t] = "give"
      /\ pc' = [pc EXCEPT ![t] = IF call[t].kind = "signal" THEN "release" ELSE "front",
                          ![u] = IF @ = "blocked" THEN "took" ELSE @]
      /\ target' = [target EXCEPT ![t] = Null]
      /\ UNCHANGED <<que, avail, holder, notified, call, calls>>

(* Mutant: broadcast is signal.                                            *)
GiveOnce(t) ==
  LET u == target[t]
  IN  /\ pc[t] = "give"
      /\ pc' = [pc EXCEPT ![t] = "release",
                          ![u] = IF @ = "blocked" THEN "took" ELSE @]
      /\ notified' = [notified EXCEPT ![u] = @ + 1]
      /\ target' = [target EXCEPT ![t] = Null]
      /\ UNCHANGED <<que, avail, holder, call, calls>>

(* xTaskNotifyGive(t): count, and wake the task if it waits for a          *)
(* notification.  A stale handle may even be the caller's own.             *)
Give(t) ==
  LET u == target[t]
  IN  /\ pc[t] = "give"
      /\ pc' = [pc EXCEPT ![t] = IF call[t].kind = "signal" THEN "release" ELSE "front",
                          ![u] = IF @ = "blocked" THEN "took" ELSE @]
      /\ notified' = [notified EXCEPT ![u] = @ + 1]
      /\ target' = [target EXCEPT ![t] = Null]
      /\ UNCHANGED <<que, avail, holder, call, calls>>

(* Mutant: the semaphore is not given back.                                *)
ReleaseKeeps(t) ==
  /\ Finish(t, "release")
  /\ UNCHANGED <<que, avail, holder, notified, target, calls>>

(* cv_task_list::unlock                                                    *)
Release(t) ==
  /\ Finish(t, "release")
  /\ SetAvail(call[t].cv, TRUE)
  /\ UNCHANGED <<que, holder, notified, target, calls>>

(***************************************************************************)
(* The specification.                                                      *)
(***************************************************************************)
Library(t) ==
  \/ CondLock(t) \/ Push(t) \/ MutexGive(t) \/ TakeEnter(t) \/ TakeExit(t)
  \/ MutexTake(t) \/ Remove(t) \/ Front(t) \/ Pop(t) \/ Give(t) \/ Release(t)

Program(t) ==
  \/ \E m \in Mutexes : Lock(t, m) \/ Unlock(t, m)
  \/ \E k \in WaitKinds \cup NotifyKinds, v \in CVs : Enter(t, k, v)

Next == \E t \in Tasks : Library(t) \/ Timeout(t) \/ Program(t)

Spec == Init /\ [][Next]_vars

(* Tasks that can run are run, the tick comes, and the program does not    *)
(* keep a mutex for ever.  A task blocked on a semaphore or mutex gets it  *)
(* when it is free long enough: the bounded calls of the others see to it. *)
Fairness ==
  \A t \in Tasks :
    /\ WF_vars(Library(t))
    /\ WF_vars(Timeout(t))
    /\ SF_vars(MutexTake(t))
    /\ \A m \in Mutexes : WF_vars(Unlock(t, m))

FairSpec == Spec /\ Fairness

(***************************************************************************)
(* Properties.                                                             *)
(***************************************************************************)
TypeOK ==
  /\ que \in [CVs -> Seq(Tasks)]
  /\ avail \in [CVs -> BOOLEAN]
  /\ holder \in [Mutexes -> Tasks \cup {Null}]
  /\ notified \in [Tasks -> Nat]
  /\ pc \in [Tasks -> PC]
  /\ call \in [Tasks -> Calls \cup {NoCall}]
  /\ target \in [Tasks -> Tasks \cup {Null}]
  /\ calls \in [Tasks -> Nat] /\ \A t \in Tasks : calls[t] <= MaxCalls[t]

(* No lost wakeup: a task asleep in a wait can still be reached.  Its      *)
(* handle is in the queue of the variable it waits on, or a notifier that  *)
(* popped it is about to notify it, however waits, timeouts and            *)
(* notifications on this and on other variables interleave.                *)
NoLostWaiter ==
  \A t \in Tasks : pc[t] = "blocked" =>
    \/ t \in Queued(call[t].cv)
    \/ \E s \in Tasks : pc[s] = "give" /\ target[s] = t

(* A handle in a queue is that of a task that is in a wait on that very    *)
(* variable and was not woken yet, and it is there once: a signal that     *)
(* pops it wakes a waiter (README.md:457-458: signal and broadcast "remove *)
(* a task from the queue and wake that task").                             *)
QueuedTasksWait ==
  \A v \in CVs :
    /\ \A t \in Queued(v) :
         /\ call[t].cv = v
         /\ \/ pc[t] \in {"unlock", "take", "blocked"}
            \/ call[t].kind = "timedwait" /\ pc[t] \in {"took", "relock_timeout", "remove_lock", "remove"}
    /\ \A i, j \in DOMAIN que[v] : i # j => que[v][i] # que[v][j]

(* A plain wait returns only because a notification was meant for this     *)
(* very wait: nothing is left over from an earlier one.                    *)
NoStaleNotification ==
  \A t \in Tasks :
    /\ notified[t] > 0 => call[t].kind \in WaitKinds /\ t \notin Queued(call[t].cv)
    /\ notified[t] <= 1

(* What the contract of a condition variable sees.  A broadcast takes      *)
(* effect on all waiters when it has the semaphore.                        *)
Inside(t) == pc[t] \in {"unlock", "take", "blocked", "took", "relock"}

BroadcastRuns(v) ==
  \E s \in Tasks : call[s] = [kind |-> "broadcast", cv |-> v] /\ pc[s] \in {"front", "pop", "give", "release"}

Waiting == [v \in CVs |-> IF BroadcastRuns(v) THEN {} ELSE Queued(v)]

Woken == [v \in CVs |-> {t \in Tasks : call[t].cv = v /\ Inside(t)} \ Waiting[v]]

Owner ==
  [m \in Mutexes |->
     IF \E t \in Tasks : holder[m] = t /\ pc[t] = "unlock" /\ MutexOf[call[t].cv] = m
       THEN Null ELSE holder[m]]

Notifying ==
  [t \in Tasks |->
     IF \/ pc[t] = "lock" /\ call[t].kind \in NotifyKinds
        \/ pc[t] \in {"front", "pop"} /\ call[t].kind = "signal"
       THEN call[t] ELSE NoCall]

Contract == INSTANCE CondVarContract WITH
  owner <- Owner, waiting <- Waiting, woken <- Woken, notifying <- Notifying

(* The queue, the semaphore and the notification counts behave as an       *)
(* atomic condition variable.                                              *)
ImplementsContract == Contract!Spec

(* Every signal and broadcast returns.                                     *)
NotifiersReturn ==
  \A t \in Tasks : call[t].kind \in NotifyKinds ~> call[t] = NoCall

(* A waiter that was popped returns from its wait, and a timed wait returns *)
(* whether it was popped or not.                                           *)
WaitersReturn ==
  \A t \in Tasks :
    /\ (\E s \in Tasks : target[s] = t) /\ Inside(t) ~> ~Inside(t)
    /\ call[t].kind = "timedwait" ~> call[t] = NoCall
=============================================================================
