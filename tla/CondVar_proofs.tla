--------------------------- MODULE CondVar_proofs ---------------------------
(***************************************************************************)
(* Proofs about CondVar, for any number of tasks, condition variables and  *)
(* mutexes, of programs that call wait, signal and broadcast: its          *)
(* invariants, and that it implements CondVarContract.  With timed waits   *)
(* QueuedTasksWait is false (the run cv_stale_entry), so the theorems      *)
(* assume that there are none.                                             *)
(***************************************************************************)
EXTENDS CondVar, TLAPS

(***************************************************************************)
(* Sequences of tasks, seen as the set of their elements.                  *)
(***************************************************************************)
Elems(q) == {q[i] : i \in DOMAIN q}
Distinct(q) == \A i, j \in DOMAIN q : i # j => q[i] # q[j]

LEMMA PushedQueue ==
  ASSUME NEW S, NEW q \in Seq(S), NEW t \in S
  PROVE  /\ Append(q, t) \in Seq(S)
         /\ Elems(Append(q, t)) = Elems(q) \cup {t}
         /\ Append(q, t) # <<>>
         /\ q # <<>> => Head(Append(q, t)) = Head(q)
         /\ Distinct(q) /\ t \notin Elems(q) => Distinct(Append(q, t))
<1> DEFINE r == Append(q, t)
<1>1. /\ r \in Seq(S) /\ Len(r) = Len(q) + 1 /\ r[Len(r)] = t
      /\ \A i \in 1..Len(q) : r[i] = q[i]
      /\ DOMAIN r = 1..Len(r) /\ DOMAIN q = 1..Len(q) /\ Len(q) \in Nat
  OBVIOUS
<1> HIDE DEF r
<1>2. Elems(r) = Elems(q) \cup {t}
  BY <1>1 DEF Elems
<1>3. q # <<>> => Head(r) = Head(q)
  BY <1>1
<1>4. Distinct(q) /\ t \notin Elems(q) => Distinct(r)
  BY <1>1 DEF Elems, Distinct
<1>5. r # <<>>
  BY <1>1
<1> QED
  BY <1>1, <1>2, <1>3, <1>4, <1>5 DEF r

LEMMA PoppedQueue ==
  ASSUME NEW S, NEW q \in Seq(S), q # <<>>
  PROVE  /\ SubSeq(q, 2, Len(q)) \in Seq(S)
         /\ Head(q) \in Elems(q)
         /\ Elems(SubSeq(q, 2, Len(q))) \subseteq Elems(q)
         /\ Elems(q) \subseteq Elems(SubSeq(q, 2, Len(q))) \cup {Head(q)}
         /\ Distinct(q) => /\ Distinct(SubSeq(q, 2, Len(q)))
                           /\ Head(q) \notin Elems(SubSeq(q, 2, Len(q)))
<1> DEFINE r == SubSeq(q, 2, Len(q))
<1>1. /\ r \in Seq(S) /\ Len(q) \in Nat /\ Len(q) > 0
      /\ DOMAIN q = 1..Len(q) /\ Head(q) = q[1]
  OBVIOUS
<1>2. Len(r) = Len(q) - 1 /\ DOMAIN r = 1..Len(r)
  BY <1>1
<1>3. \A i \in 1..Len(r) : r[i] = q[i + 1]
  BY <1>1, <1>2
<1> HIDE DEF r
<1>4. Head(q) \in Elems(q) /\ Elems(r) \subseteq Elems(q)
  BY <1>1, <1>2, <1>3 DEF Elems
<1>5. Elems(q) \subseteq Elems(r) \cup {Head(q)}
  <2> SUFFICES ASSUME NEW i \in 1..Len(q), i # 1 PROVE q[i] \in Elems(r)
    BY <1>1 DEF Elems
  <2> QED
    BY <1>1, <1>2, <1>3, i - 1 \in 1..Len(r), r[i - 1] = q[i] DEF Elems
<1>6. ASSUME Distinct(q) PROVE Distinct(r)
  <2> SUFFICES ASSUME NEW i \in 1..Len(r), NEW j \in 1..Len(r), i # j PROVE r[i] # r[j]
    BY <1>2 DEF Distinct
  <2> QED
    BY <1>1, <1>2, <1>3, <1>6, i + 1 \in 1..Len(q), j + 1 \in 1..Len(q), i + 1 # j + 1, SMTT(30) DEF Distinct
<1>7. ASSUME Distinct(q), NEW i \in 1..Len(r) PROVE r[i] # Head(q)
  BY <1>1, <1>2, <1>3, <1>7, i + 1 \in 1..Len(q), 1 \in 1..Len(q), i + 1 # 1 DEF Distinct
<1> QED
  BY <1>1, <1>2, <1>4, <1>5, <1>6, <1>7 DEF r, Elems

(***************************************************************************)
(* The inductive invariant, of programs without timed waits.               *)
(***************************************************************************)

(* Where a task is tells what it has called.                               *)
Waits == {"push", "unlock", "take", "blocked", "took", "relock"}
Notifies == {"front", "pop", "give", "release"}
CallInv ==
  \A t \in Tasks :
    /\ call[t] = NoCall <=> pc[t] = "idle"
    /\ pc[t] \in Waits => call[t].kind = "wait"
    /\ pc[t] \in Notifies => call[t].kind \in NotifyKinds
    /\ call[t].kind # "timedwait" /\ pc[t] \in {"idle", "lock"} \cup Waits \cup Notifies

(* The semaphore of a queue lets one task in.                              *)
Critical == {"push"} \cup Notifies
LockInv ==
  /\ \A t \in Tasks : pc[t] \in Critical => ~avail[call[t].cv]
  /\ \A s, t \in Tasks :
       pc[s] \in Critical /\ pc[t] \in Critical /\ call[s].cv = call[t].cv => s = t

(* A waiter holds the mutex until it gives it.                             *)
HoldInv ==
  \A t \in Tasks :
    pc[t] \in {"lock", "push", "unlock"} /\ call[t].kind = "wait" =>
      holder[MutexOf[call[t].cv]] = t

(* A notifier pops the handle it has read; a broadcast ends with an empty  *)
(* queue.                                                                  *)
TargetInv ==
  \A t \in Tasks :
    /\ pc[t] = "pop" => que[call[t].cv] # <<>> /\ target[t] = Head(que[call[t].cv])
    /\ pc[t] = "give" => target[t] \in Tasks
    /\ pc[t] = "release" /\ call[t].kind = "broadcast" => que[call[t].cv] = <<>>

Asleep == {"unlock", "take", "blocked"}
QueueInv ==
  \A v \in CVs :
    /\ \A t \in Elems(que[v]) : call[t].cv = v /\ pc[t] \in Asleep
    /\ Distinct(que[v])

(* A task that was popped has not been notified yet and has one notifier;  *)
(* one that was notified is neither queued nor popped.                     *)
Given(s, t) == pc[s] = "give" /\ target[s] = t
NoteInv ==
  \A t \in Tasks :
    /\ notified[t] \in {0, 1}
    /\ \A s \in Tasks : Given(s, t) => pc[t] \in Asleep /\ notified[t] = 0
    /\ \A s \in Tasks : Given(s, t) => \A v \in CVs : t \notin Elems(que[v])
    /\ \A s, r \in Tasks : Given(s, t) /\ Given(r, t) => s = r
    /\ notified[t] = 1 => pc[t] \in {"unlock", "take", "took"}
    /\ notified[t] = 1 => \A v \in CVs : t \notin Elems(que[v])

(* A task in a wait is queued, popped or notified.                         *)
ReachInv ==
  \A t \in Tasks :
    /\ pc[t] \in Asleep /\ notified[t] = 0 =>
         t \in Elems(que[call[t].cv]) \/ \E s \in Tasks : Given(s, t)

IInv ==
  /\ TypeOK /\ CallInv /\ LockInv /\ HoldInv /\ TargetInv
  /\ QueueInv /\ NoteInv /\ ReachInv

LEMMA InitIInv == Init => IInv
<1> SUFFICES ASSUME Init PROVE IInv
  OBVIOUS
<1> USE DEF Init
<1>1. \A v \in CVs : que[v] = <<>> /\ que[v] \in Seq(Tasks) /\ Elems(que[v]) = {}
  BY DEF Elems
<1>2. TypeOK
  BY CallsAreBounded DEF TypeOK, PC
<1>3. CallInv /\ LockInv /\ HoldInv /\ TargetInv
  BY DEF CallInv, LockInv, HoldInv, TargetInv, Critical, Waits, Notifies, NoCall
<1>4. QueueInv
  BY <1>1 DEF QueueInv, Distinct
<1>5. NoteInv /\ ReachInv
  BY DEF NoteInv, ReachInv, Given, Asleep
<1> QED
  BY <1>2, <1>3, <1>4, <1>5 DEF IInv

LEMMA StepOf ==
  ASSUME TypeOK, NEW t \in Tasks, NEW from, NEW to \in PC, Step(t, from, to)
  PROVE  /\ pc[t] = from /\ pc'[t] = to
         /\ pc' \in [Tasks -> PC]
         /\ \A u \in Tasks : u # t => pc'[u] = pc[u]
BY DEF TypeOK, Step

(* The call a task has made names a condition variable.                    *)
LEMMA CallOf ==
  ASSUME IInv, NEW t \in Tasks, pc[t] # "idle"
  PROVE  /\ call[t] \in Calls /\ call[t].cv \in CVs /\ MutexOf[call[t].cv] \in Mutexes
         /\ que[call[t].cv] \in Seq(Tasks)
BY MutexOfCVs DEF IInv, CallInv, TypeOK, Calls

LEMMA QueuedAreTasks ==
  ASSUME IInv, NEW v \in CVs
  PROVE  que[v] \in Seq(Tasks) /\ Elems(que[v]) \subseteq Tasks
BY DEF IInv, TypeOK, Elems

(***************************************************************************)
(* The program's steps.                                                    *)
(***************************************************************************)
LEMMA LockInvStep ==
  ASSUME IInv, NEW t \in Tasks, NEW m \in Mutexes, Lock(t, m) \/ Unlock(t, m)
  PROVE  IInv'
<1>1. /\ UNCHANGED <<que, avail, notified, pc, call, target, calls>>
      /\ pc[t] = "idle"
      /\ holder' \in [Mutexes -> Tasks \cup {Null}]
      /\ \A n \in Mutexes : holder'[n] # holder[n] => holder[n] \in {t, Null}
  BY DEF Lock, Unlock, IInv, TypeOK
<1>2. TypeOK'
  BY <1>1 DEF IInv, TypeOK
<1>3. HoldInv'
  BY <1>1, CallOf, NullIsNoTask DEF IInv, HoldInv
<1>4. CallInv' /\ LockInv' /\ TargetInv'
  BY <1>1 DEF IInv, CallInv, LockInv, TargetInv
<1>5. QueueInv' /\ NoteInv' /\ ReachInv'
  BY <1>1 DEF IInv, QueueInv, NoteInv, ReachInv, Given
<1> QED
  BY <1>2, <1>3, <1>4, <1>5 DEF IInv

LEMMA EnterInv ==
  ASSUME IInv, ~TimedWaits, NEW t \in Tasks, NEW k \in WaitKinds \cup NotifyKinds,
         NEW v \in CVs, Enter(t, k, v)
  PROVE  IInv'
<1>1. /\ pc[t] = "idle" /\ pc'[t] = "lock" /\ pc' \in [Tasks -> PC]
      /\ \A u \in Tasks : u # t => pc'[u] = pc[u]
  BY StepOf DEF Enter, IInv, PC
<1>2. /\ k # "timedwait" /\ (k = "wait" => holder[MutexOf[v]] = t)
      /\ call'[t] = [kind |-> k, cv |-> v] /\ call' \in [Tasks -> Calls \cup {NoCall}]
      /\ \A u \in Tasks : u # t => call'[u] = call[u]
      /\ UNCHANGED <<que, avail, holder, notified, target>>
  BY DEF Enter, IInv, TypeOK, WaitKinds, Calls
<1>3. /\ calls' \in [Tasks -> Nat] /\ \A u \in Tasks : calls'[u] <= MaxCalls[u]
  <2>1. /\ calls[t] \in Nat /\ calls[t] > 0 /\ MaxCalls[t] \in Nat /\ calls[t] <= MaxCalls[t]
        /\ calls' = [calls EXCEPT ![t] = calls[t] - 1]
    BY CallsAreBounded DEF Enter, IInv, TypeOK
  <2>2. calls[t] - 1 \in Nat /\ calls[t] - 1 <= MaxCalls[t]
    BY <2>1
  <2> QED
    BY <2>1, <2>2 DEF IInv, TypeOK
<1>4. TypeOK'
  BY <1>1, <1>2, <1>3 DEF IInv, TypeOK
<1>5. CallInv'
  BY <1>1, <1>2 DEF IInv, CallInv, Waits, Notifies, NoCall, WaitKinds, NotifyKinds
<1>6. LockInv'
  BY <1>1, <1>2 DEF IInv, LockInv, Critical, Notifies
<1>7. HoldInv' /\ TargetInv'
  BY <1>1, <1>2 DEF IInv, HoldInv, TargetInv
<1>8. \A w \in CVs : t \notin Elems(que[w])
  BY <1>1 DEF IInv, QueueInv, Asleep
<1>9. \A w \in CVs : Elems(que[w]) \subseteq Tasks
  BY QueuedAreTasks
<1>10. QueueInv'
  BY <1>1, <1>2, <1>8, <1>9 DEF IInv, QueueInv
<1>11. NoteInv' /\ ReachInv'
  BY <1>1, <1>2 DEF IInv, NoteInv, ReachInv, Given, Asleep
<1> QED
  BY <1>4, <1>5, <1>6, <1>7, <1>10, <1>11 DEF IInv

(***************************************************************************)
(* The steps of the library.                                               *)
(***************************************************************************)

(* The semaphore is taken.                                                 *)
LEMMA CondLockInv ==
  ASSUME IInv, NEW t \in Tasks, CondLock(t)
  PROVE  IInv'
<1> DEFINE v == call[t].cv
<1>1. PICK to \in {"push", "front"} :
        /\ Step(t, "lock", to)
        /\ \/ to = "push" /\ call[t].kind = "wait"
           \/ to = "front" /\ call[t].kind \in NotifyKinds
  <2>2. CASE Step(t, "lock", "push") /\ call[t].kind \in WaitKinds
    <3>1. call[t].kind = "wait"
      BY <2>2 DEF IInv, CallInv, WaitKinds
    <3> QED
      BY <2>2, <3>1
  <2>3. CASE Step(t, "lock", "front") /\ call[t].kind \in NotifyKinds
    BY <2>3
  <2>4. ~ Step(t, "remove_lock", "remove")
    BY DEF IInv, CallInv, Step, Waits, Notifies
  <2> QED
    BY <2>2, <2>3, <2>4 DEF CondLock, ToCritical
<1>2. /\ pc[t] = "lock" /\ pc'[t] = to /\ pc' \in [Tasks -> PC]
      /\ \A u \in Tasks : u # t => pc'[u] = pc[u]
  BY <1>1, StepOf DEF IInv, PC
<1>3. /\ v \in CVs /\ avail[v] /\ ~avail'[v] /\ avail' \in [CVs -> BOOLEAN]
      /\ \A w \in CVs : w # v => avail'[w] = avail[w]
      /\ UNCHANGED <<que, holder, notified, call, target, calls>>
  BY <1>2, CallOf DEF CondLock, SetAvail, IInv, TypeOK
<1>4. TypeOK'
  BY <1>2, <1>3 DEF IInv, TypeOK
<1>5. CallInv'
  BY <1>1, <1>2, <1>3 DEF IInv, CallInv, Waits, Notifies
<1>6. LockInv'
  <2>1. \A u \in Tasks : u # t /\ pc[u] \in Critical => call[u].cv # v
    BY <1>3 DEF IInv, LockInv
  <2> HIDE DEF v
  <2>2. \A u \in Tasks : u # t /\ pc[u] \in Critical => call[u].cv \in CVs
    BY CallOf DEF Critical, Notifies
  <2>3. \A u \in Tasks : pc'[u] \in Critical => u = t \/ pc[u] \in Critical
    BY <1>2
  <2> QED
    BY <1>2, <1>3, <2>1, <2>2, <2>3 DEF IInv, LockInv, v
<1>7. HoldInv' /\ TargetInv'
  BY <1>1, <1>2, <1>3 DEF IInv, HoldInv, TargetInv, NotifyKinds
<1>8. QueueInv'
  BY <1>1, <1>2, <1>3, QueuedAreTasks DEF IInv, QueueInv, Asleep
<1>9. NoteInv' /\ ReachInv'
  BY <1>1, <1>2, <1>3 DEF IInv, NoteInv, ReachInv, Given, Asleep
<1> QED
  BY <1>4, <1>5, <1>6, <1>7, <1>8, <1>9 DEF IInv

(* The caller is appended to the queue, whose semaphore is given back.     *)
LEMMA PushInv ==
  ASSUME IInv, NEW t \in Tasks, Push(t)
  PROVE  IInv'
<1>0. PICK v \in CVs : v = call[t].cv
  BY CallOf DEF Push, Step
<1>1. /\ pc[t] = "push" /\ pc'[t] = "unlock" /\ pc' \in [Tasks -> PC]
      /\ \A u \in Tasks : u # t => pc'[u] = pc[u]
  BY StepOf DEF Push, IInv, PC
<1>2. /\ que' = [que EXCEPT ![v] = Append(que[v], t)]
      /\ avail' \in [CVs -> BOOLEAN]
      /\ \A w \in CVs : w # v => avail'[w] = avail[w]
      /\ UNCHANGED <<holder, notified, call, target, calls>>
  BY <1>0 DEF Push, SetAvail, IInv, TypeOK
<1>3. /\ que' \in [CVs -> Seq(Tasks)]
      /\ que'[v] = Append(que[v], t) /\ \A w \in CVs : w # v => que'[w] = que[w]
  BY <1>2, PushedQueue DEF IInv, TypeOK
<1>4. /\ Elems(que'[v]) = Elems(que[v]) \cup {t}
      /\ Distinct(que[v]) /\ t \notin Elems(que[v]) => Distinct(que'[v])
  BY <1>3, PushedQueue, QueuedAreTasks
<1>5. TypeOK'
  BY <1>1, <1>2, <1>3 DEF IInv, TypeOK
<1>6. CallInv'
  BY <1>1, <1>2 DEF IInv, CallInv, Waits, Notifies
<1>7. \A u \in Tasks : u # t /\ pc[u] \in Critical => call[u].cv # v
  BY <1>0, <1>1 DEF IInv, LockInv, Critical
<1>8. \A u \in Tasks : u # t /\ pc[u] \in Critical => call[u].cv \in CVs
  BY CallOf DEF Critical, Notifies
<1>9. LockInv'
  BY <1>1, <1>2, <1>7, <1>8 DEF IInv, LockInv, Critical, Notifies
<1>10. HoldInv'
  BY <1>1, <1>2 DEF IInv, HoldInv
<1>11. TargetInv'
  BY <1>1, <1>2, <1>3, <1>7, <1>8 DEF IInv, TargetInv, Critical, Notifies
<1>12. \A w \in CVs : t \notin Elems(que[w])
  BY <1>1 DEF IInv, QueueInv, Asleep
<1>13. QueueInv'
  <2> SUFFICES ASSUME NEW w \in CVs
               PROVE  /\ \A u \in Elems(que'[w]) : call[u].cv = w /\ pc'[u] \in Asleep
                      /\ Distinct(que'[w])
    BY <1>2 DEF QueueInv
  <2>1. CASE w = v
    BY <2>1, <1>0, <1>1, <1>4, <1>12, QueuedAreTasks DEF IInv, QueueInv, Asleep
  <2>2. CASE w # v
    BY <2>2, <1>1, <1>3, <1>12, QueuedAreTasks DEF IInv, QueueInv, Asleep
  <2> QED
    BY <2>1, <2>2
<1>14. notified[t] = 0 /\ \A s \in Tasks : ~Given(s, t)
  BY <1>1 DEF IInv, NoteInv, Asleep
<1>15. \A s, u \in Tasks : Given(s, u)' <=> Given(s, u)
  BY <1>1, <1>2 DEF Given
<1>16. \A u \in Tasks, w \in CVs : u # t => (u \in Elems(que'[w]) <=> u \in Elems(que[w]))
  BY <1>3, <1>4
<1>17. NoteInv'
  BY <1>1, <1>2, <1>14, <1>15, <1>16 DEF IInv, NoteInv
<1>18. ReachInv'
  BY <1>0, <1>1, <1>2, <1>4, <1>15, <1>16, CallOf DEF IInv, ReachInv, Asleep
<1> QED
  BY <1>5, <1>6, <1>9, <1>10, <1>11, <1>13, <1>17, <1>18 DEF IInv

(* The waiter gives the mutex.                                             *)
LEMMA MutexGiveInv ==
  ASSUME IInv, NEW t \in Tasks, MutexGive(t)
  PROVE  IInv'
<1>1. /\ pc[t] = "unlock" /\ pc'[t] = "take" /\ pc' \in [Tasks -> PC]
      /\ \A u \in Tasks : u # t => pc'[u] = pc[u]
  BY StepOf DEF MutexGive, IInv, PC
<1>2. /\ holder' \in [Mutexes -> Tasks \cup {Null}]
      /\ \A m \in Mutexes : holder'[m] # holder[m] => holder[m] = t
      /\ UNCHANGED <<que, avail, notified, call, target, calls>>
  BY <1>1, CallOf DEF MutexGive, IInv, HoldInv, TypeOK, CallInv, Waits
<1>3. TypeOK'
  BY <1>1, <1>2 DEF IInv, TypeOK
<1>4. CallInv' /\ LockInv'
  BY <1>1, <1>2 DEF IInv, CallInv, LockInv, Waits, Notifies, Critical
<1>5. HoldInv'
  BY <1>1, <1>2, CallOf DEF IInv, HoldInv
<1>6. TargetInv'
  BY <1>1, <1>2 DEF IInv, TargetInv
<1>7. QueueInv'
  BY <1>1, <1>2, QueuedAreTasks DEF IInv, QueueInv, Asleep
<1>8. NoteInv' /\ ReachInv'
  BY <1>1, <1>2 DEF IInv, NoteInv, ReachInv, Given, Asleep
<1> QED
  BY <1>3, <1>4, <1>5, <1>6, <1>7, <1>8 DEF IInv

(* ulTaskNotifyTake blocks, or finds the notification.                     *)
LEMMA TakeEnterInv ==
  ASSUME IInv, NEW t \in Tasks, TakeEnter(t)
  PROVE  IInv'
<1>1. PICK to \in {"took", "blocked"} :
        Step(t, "take", to) /\ (to = "took" <=> notified[t] > 0)
  BY DEF TakeEnter
<1>2. /\ pc[t] = "take" /\ pc'[t] = to /\ pc' \in [Tasks -> PC]
      /\ \A u \in Tasks : u # t => pc'[u] = pc[u]
      /\ UNCHANGED <<que, avail, holder, notified, call, target, calls>>
  BY <1>1, StepOf DEF IInv, PC, TakeEnter
<1>3. notified[t] \in {0, 1} /\ (to = "took" <=> notified[t] = 1)
  BY <1>1 DEF IInv, NoteInv
<1>4. TypeOK'
  BY <1>2 DEF IInv, TypeOK
<1>5. CallInv' /\ LockInv' /\ HoldInv' /\ TargetInv'
  BY <1>2 DEF IInv, CallInv, LockInv, HoldInv, TargetInv, Waits, Notifies, Critical
<1>6. QueueInv'
  BY <1>2, <1>3, QueuedAreTasks DEF IInv, QueueInv, NoteInv, Asleep
<1>7. NoteInv' /\ ReachInv'
  BY <1>2, <1>3 DEF IInv, NoteInv, ReachInv, Given, Asleep
<1> QED
  BY <1>4, <1>5, <1>6, <1>7 DEF IInv

(* The count is cleared.                                                   *)
LEMMA TakeExitInv ==
  ASSUME IInv, NEW t \in Tasks, TakeExit(t)
  PROVE  IInv'
<1>1. Step(t, "took", "relock")
  BY DEF TakeExit, IInv, CallInv
<1>2. /\ pc[t] = "took" /\ pc'[t] = "relock" /\ pc' \in [Tasks -> PC]
      /\ \A u \in Tasks : u # t => pc'[u] = pc[u]
      /\ notified'[t] = 0 /\ notified' \in [Tasks -> Nat]
      /\ \A u \in Tasks : u # t => notified'[u] = notified[u]
      /\ UNCHANGED <<que, avail, holder, call, target, calls>>
  BY <1>1, StepOf DEF IInv, PC, TakeExit, TypeOK
<1>3. TypeOK'
  BY <1>2 DEF IInv, TypeOK
<1>4. CallInv' /\ LockInv' /\ HoldInv' /\ TargetInv'
  BY <1>2 DEF IInv, CallInv, LockInv, HoldInv, TargetInv, Waits, Notifies, Critical
<1>5. QueueInv'
  BY <1>2, QueuedAreTasks DEF IInv, QueueInv, Asleep
<1>6. NoteInv' /\ ReachInv'
  BY <1>2 DEF IInv, NoteInv, ReachInv, Given, Asleep
<1> QED
  BY <1>3, <1>4, <1>5, <1>6 DEF IInv

(* The waiter has the mutex again and returns.                             *)
LEMMA MutexTakeInv ==
  ASSUME IInv, NEW t \in Tasks, MutexTake(t)
  PROVE  IInv'
<1>0. pc[t] = "relock"
  BY DEF MutexTake, IInv, CallInv, Waits, Notifies
<1>1. Finish(t, "relock")
  BY <1>0 DEF MutexTake, Step
<1>2. /\ pc'[t] = "idle" /\ pc' \in [Tasks -> PC]
      /\ \A u \in Tasks : u # t => pc'[u] = pc[u]
      /\ call'[t] = NoCall /\ call' \in [Tasks -> Calls \cup {NoCall}]
      /\ \A u \in Tasks : u # t => call'[u] = call[u]
  BY <1>1, StepOf DEF IInv, PC, Finish, TypeOK
<1>3. /\ holder' \in [Mutexes -> Tasks \cup {Null}]
      /\ \A m \in Mutexes : holder'[m] # holder[m] => holder[m] = Null
      /\ UNCHANGED <<que, avail, notified, target, calls>>
  BY <1>0, CallOf DEF MutexTake, IInv, TypeOK
<1>4. TypeOK'
  BY <1>2, <1>3 DEF IInv, TypeOK
<1>5. CallInv' /\ LockInv'
  BY <1>2, <1>3 DEF IInv, CallInv, LockInv, NoCall, Waits, Notifies, Critical
<1>6. HoldInv'
  BY <1>2, <1>3, CallOf, NullIsNoTask DEF IInv, HoldInv
<1>7. TargetInv'
  BY <1>2, <1>3 DEF IInv, TargetInv
<1>8. QueueInv'
  BY <1>0, <1>2, <1>3, QueuedAreTasks DEF IInv, QueueInv, Asleep
<1>9. NoteInv' /\ ReachInv'
  BY <1>0, <1>2, <1>3 DEF IInv, NoteInv, ReachInv, Given, Asleep
<1> QED
  BY <1>4, <1>5, <1>6, <1>7, <1>8, <1>9 DEF IInv

(* The notifier reads the first handle, or finds the queue empty.          *)
LEMMA FrontInv ==
  ASSUME IInv, NEW t \in Tasks, Front(t)
  PROVE  IInv'
<1>0. PICK v \in CVs : v = call[t].cv
  BY CallOf DEF Front, Step
<1>1. PICK to \in {"release", "pop"} :
        /\ Step(t, "front", to)
        /\ \/ to = "release" /\ que[v] = <<>> /\ UNCHANGED target
           \/ to = "pop" /\ que[v] # <<>> /\ target' = [target EXCEPT ![t] = Head(que[v])]
  BY <1>0 DEF Front
<1>2. /\ pc[t] = "front" /\ pc'[t] = to /\ pc' \in [Tasks -> PC]
      /\ \A u \in Tasks : u # t => pc'[u] = pc[u]
      /\ UNCHANGED <<que, avail, holder, notified, call, calls>>
  BY <1>1, StepOf DEF IInv, PC, Front
<1>3. que[v] # <<>> => Head(que[v]) \in Tasks
  BY QueuedAreTasks
<1>4. /\ target' \in [Tasks -> Tasks \cup {Null}]
      /\ to = "pop" => target'[t] = Head(que[v])
      /\ \A u \in Tasks : u # t => target'[u] = target[u]
  BY <1>1, <1>3 DEF IInv, TypeOK
<1>5. TypeOK'
  BY <1>2, <1>4 DEF IInv, TypeOK
<1>6. CallInv' /\ LockInv' /\ HoldInv'
  BY <1>2 DEF IInv, CallInv, LockInv, HoldInv, Waits, Notifies, Critical
<1>7. TargetInv'
  BY <1>0, <1>1, <1>2, <1>4 DEF IInv, TargetInv
<1>8. QueueInv'
  BY <1>2, QueuedAreTasks DEF IInv, QueueInv, Asleep
<1>9. \A s, u \in Tasks : Given(s, u)' <=> Given(s, u)
  BY <1>2, <1>4 DEF Given
<1>10. NoteInv' /\ ReachInv'
  BY <1>2, <1>9 DEF IInv, NoteInv, ReachInv, Asleep
<1> QED
  BY <1>5, <1>6, <1>7, <1>8, <1>10 DEF IInv

(* The handle is popped: the task waits for its notification.              *)
LEMMA PopInv ==
  ASSUME IInv, NEW t \in Tasks, Pop(t)
  PROVE  IInv'
<1>0. PICK v \in CVs : v = call[t].cv
  BY CallOf DEF Pop, Step
<1>1. /\ pc[t] = "pop" /\ pc'[t] = "give" /\ pc' \in [Tasks -> PC]
      /\ \A u \in Tasks : u # t => pc'[u] = pc[u]
      /\ UNCHANGED <<avail, holder, notified, call, target, calls>>
  BY StepOf DEF Pop, IInv, PC
<1>2. que[v] \in Seq(Tasks) /\ que[v] # <<>> /\ target[t] = Head(que[v])
  BY <1>0, <1>1, QueuedAreTasks DEF IInv, TargetInv
<1>3. que' = [que EXCEPT ![v] = SubSeq(que[v], 2, Len(que[v]))]
  BY <1>0 DEF Pop
<1>4. /\ que' \in [CVs -> Seq(Tasks)]
      /\ que'[v] = SubSeq(que[v], 2, Len(que[v]))
      /\ \A w \in CVs : w # v => que'[w] = que[w]
  BY <1>2, <1>3, PoppedQueue DEF IInv, TypeOK
<1>5. PICK h \in Elems(que[v]) : h = target[t]
  BY <1>2, PoppedQueue
<1>6. /\ Elems(que'[v]) = Elems(que[v]) \ {h}
      /\ Distinct(que'[v])
  BY <1>2, <1>4, <1>5, PoppedQueue DEF IInv, QueueInv
<1>7. h \in Tasks /\ call[h].cv = v /\ pc[h] \in Asleep /\ h # t
  BY <1>1, <1>5, QueuedAreTasks DEF IInv, QueueInv, Asleep
<1>8. notified[h] = 0 /\ \A s \in Tasks : ~Given(s, h)
  BY <1>5, <1>7 DEF IInv, NoteInv
<1>9. \A w \in CVs : h \notin Elems(que'[w])
  BY <1>4, <1>5, <1>6, <1>7 DEF IInv, QueueInv
<1>10. \A w \in CVs, u \in Tasks : u # h => (u \in Elems(que'[w]) <=> u \in Elems(que[w]))
  BY <1>4, <1>6
<1>11. /\ Given(t, h)'
       /\ \A u \in Tasks : Given(t, u)' => u = h
       /\ \A s, u \in Tasks : s # t => (Given(s, u)' <=> Given(s, u))
       /\ \A u \in Tasks : ~Given(t, u)
  BY <1>1, <1>5 DEF Given
<1>12. TypeOK'
  BY <1>1, <1>4 DEF IInv, TypeOK
<1>13. CallInv' /\ LockInv' /\ HoldInv'
  BY <1>1 DEF IInv, CallInv, LockInv, HoldInv, Waits, Notifies, Critical
<1>14. \A u \in Tasks : u # t /\ pc[u] \in Critical => call[u].cv # v
  BY <1>0, <1>1 DEF IInv, LockInv, Critical, Notifies
<1>15. \A u \in Tasks : u # t /\ pc[u] \in Critical => call[u].cv \in CVs
  BY CallOf DEF Critical, Notifies
<1>16. TargetInv'
  BY <1>1, <1>4, <1>5, <1>7, <1>14, <1>15 DEF IInv, TargetInv, Critical, Notifies
<1>17. QueueInv'
  <2> SUFFICES ASSUME NEW w \in CVs
               PROVE  /\ \A u \in Elems(que'[w]) : call[u].cv = w /\ pc'[u] \in Asleep
                      /\ Distinct(que'[w])
    BY <1>1 DEF QueueInv
  <2>1. Elems(que'[w]) \subseteq Elems(que[w]) /\ Distinct(que'[w])
    BY <1>4, <1>6 DEF IInv, QueueInv
  <2> QED
    BY <2>1, <1>1, QueuedAreTasks DEF IInv, QueueInv, Asleep
<1>18. NoteInv'
  <2> SUFFICES ASSUME NEW u \in Tasks
               PROVE  /\ notified[u] \in {0, 1}
                      /\ \A s \in Tasks : Given(s, u)' => pc'[u] \in Asleep /\ notified[u] = 0
                      /\ \A s \in Tasks : Given(s, u)' => \A w \in CVs : u \notin Elems(que'[w])
                      /\ \A s, r \in Tasks : Given(s, u)' /\ Given(r, u)' => s = r
                      /\ notified[u] = 1 => pc'[u] \in {"unlock", "take", "took"}
                      /\ notified[u] = 1 => \A w \in CVs : u \notin Elems(que'[w])
    BY <1>1 DEF NoteInv
  <2>1. CASE u = h
    BY <2>1, <1>1, <1>7, <1>8, <1>9, <1>11 DEF Asleep
  <2>2. CASE u # h
    BY <2>2, <1>1, <1>10, <1>11 DEF IInv, NoteInv, Asleep
  <2> QED
    BY <2>1, <2>2
<1>19. ReachInv'
  <2> SUFFICES ASSUME NEW u \in Tasks, pc'[u] \in Asleep, notified[u] = 0
               PROVE  u \in Elems(que'[call[u].cv]) \/ \E s \in Tasks : Given(s, u)'
    BY <1>1 DEF ReachInv
  <2>1. CASE u = h
    BY <2>1, <1>11
  <2>2. CASE u # h
    <3>1. pc[u] \in Asleep /\ call[u].cv \in CVs
      BY <1>1, CallOf DEF Asleep
    <3> QED
      BY <2>2, <3>1, <1>10, <1>11 DEF IInv, ReachInv
  <2> QED
    BY <2>1, <2>2
<1> QED
  BY <1>12, <1>13, <1>16, <1>17, <1>18, <1>19 DEF IInv

(* The popped task is notified, and woken if it sleeps.                    *)
LEMMA GiveInv ==
  ASSUME IInv, NEW t \in Tasks, Give(t)
  PROVE  IInv'
<1>0. PICK u \in Tasks : u = target[t]
  BY DEF Give, IInv, TargetInv
<1>1. pc[t] = "give" /\ Given(t, u)
  BY <1>0 DEF Give, Given
<1>2. /\ pc[u] \in Asleep /\ notified[u] = 0 /\ u # t
      /\ \A w \in CVs : u \notin Elems(que[w])
      /\ \A s \in Tasks : Given(s, u) => s = t
  BY <1>1 DEF IInv, NoteInv, Asleep
<1>3. PICK to \in {"release", "front"} : to = IF call[t].kind = "signal" THEN "release" ELSE "front"
  OBVIOUS
<1>4. pc' = [pc EXCEPT ![t] = to, ![u] = IF pc[u] = "blocked" THEN "took" ELSE pc[u]]
  BY <1>0, <1>2, <1>3 DEF Give, IInv, TypeOK
<1>5. /\ pc' \in [Tasks -> PC] /\ pc'[t] = to
      /\ pc'[u] = IF pc[u] = "blocked" THEN "took" ELSE pc[u]
      /\ \A s \in Tasks : s # t /\ s # u => pc'[s] = pc[s]
  BY <1>2, <1>4 DEF IInv, TypeOK, PC, Asleep
<1>6. /\ notified' \in [Tasks -> Nat] /\ notified'[u] = 1
      /\ \A s \in Tasks : s # u => notified'[s] = notified[s]
      /\ target' \in [Tasks -> Tasks \cup {Null}]
      /\ \A s \in Tasks : s # t => target'[s] = target[s]
      /\ UNCHANGED <<que, avail, holder, call, calls>>
  BY <1>0, <1>2 DEF Give, IInv, TypeOK
<1>7. TypeOK'
  BY <1>5, <1>6 DEF IInv, TypeOK
<1>8. /\ call[t].kind \in NotifyKinds /\ call[u].kind = "wait"
      /\ to = "release" => call[t].kind # "broadcast"
  BY <1>1, <1>2, <1>3 DEF IInv, CallInv, Asleep, Waits, Notifies
<1>9. CallInv'
  <2> SUFFICES ASSUME NEW s \in Tasks
               PROVE  /\ call[s] = NoCall <=> pc'[s] = "idle"
                      /\ pc'[s] \in Waits => call[s].kind = "wait"
                      /\ pc'[s] \in Notifies => call[s].kind \in NotifyKinds
                      /\ call[s].kind # "timedwait" /\ pc'[s] \in {"idle", "lock"} \cup Waits \cup Notifies
    BY <1>6 DEF CallInv
  <2>1. CASE s = t
    BY <2>1, <1>1, <1>5, <1>8 DEF IInv, CallInv, Waits, Notifies
  <2>2. CASE s = u
    BY <2>2, <1>2, <1>5, <1>8 DEF IInv, CallInv, Waits, Notifies, Asleep
  <2>3. CASE s # t /\ s # u
    BY <2>3, <1>5 DEF IInv, CallInv
  <2> QED
    BY <2>1, <2>2, <2>3
<1>10. \A s \in Tasks : pc'[s] \in Critical => pc[s] \in Critical
  BY <1>1, <1>2, <1>5 DEF Critical, Notifies, Asleep
<1>11. LockInv'
  BY <1>6, <1>10 DEF IInv, LockInv
<1>12. HoldInv'
  BY <1>2, <1>5, <1>6 DEF IInv, HoldInv, Asleep
<1>13. TargetInv'
  BY <1>2, <1>5, <1>6, <1>8 DEF IInv, TargetInv, Asleep
<1>14. QueueInv'
  <2>1. \A w \in CVs : \A s \in Elems(que[w]) : s \in Tasks /\ s # u /\ s # t
    BY <1>1, <1>2, QueuedAreTasks DEF IInv, QueueInv, Asleep
  <2> QED
    BY <2>1, <1>5, <1>6 DEF IInv, QueueInv
<1>15. /\ \A s, r \in Tasks : s # t => (Given(s, r)' <=> Given(s, r))
       /\ \A r \in Tasks : ~Given(t, r)'
       /\ \A r \in Tasks : Given(t, r) => r = u
  BY <1>0, <1>2, <1>5, <1>6 DEF Given, Asleep
<1>16. NoteInv'
  <2> SUFFICES ASSUME NEW r \in Tasks
               PROVE  /\ notified'[r] \in {0, 1}
                      /\ \A s \in Tasks : Given(s, r)' => pc'[r] \in Asleep /\ notified'[r] = 0
                      /\ \A s \in Tasks : Given(s, r)' => \A w \in CVs : r \notin Elems(que[w])
                      /\ \A s, q \in Tasks : Given(s, r)' /\ Given(q, r)' => s = q
                      /\ notified'[r] = 1 => pc'[r] \in {"unlock", "take", "took"}
                      /\ notified'[r] = 1 => \A w \in CVs : r \notin Elems(que[w])
    BY <1>6 DEF NoteInv
  <2>1. CASE r = u
    BY <2>1, <1>2, <1>5, <1>6, <1>15 DEF Asleep
  <2>2. CASE r = t
    BY <2>2, <1>1, <1>2, <1>5, <1>6, <1>15 DEF IInv, NoteInv, Asleep
  <2>3. CASE r # u /\ r # t
    BY <2>3, <1>5, <1>6, <1>15 DEF IInv, NoteInv
  <2> QED
    BY <2>1, <2>2, <2>3
<1>17. ReachInv'
  <2> SUFFICES ASSUME NEW r \in Tasks, pc'[r] \in Asleep, notified'[r] = 0
               PROVE  r \in Elems(que[call[r].cv]) \/ \E s \in Tasks : Given(s, r)'
    BY <1>6 DEF ReachInv
  <2>1. r # u /\ r # t
    BY <1>3, <1>5, <1>6 DEF Asleep
  <2>2. pc[r] \in Asleep /\ notified[r] = 0
    BY <2>1, <1>5, <1>6
  <2> QED
    BY <2>1, <2>2, <1>15 DEF IInv, ReachInv
<1> QED
  BY <1>7, <1>9, <1>11, <1>12, <1>13, <1>14, <1>16, <1>17 DEF IInv

(* The notifier gives the semaphore back and returns.                      *)
LEMMA ReleaseInv ==
  ASSUME IInv, NEW t \in Tasks, Release(t)
  PROVE  IInv'
<1>0. PICK v \in CVs : v = call[t].cv
  BY CallOf DEF Release, Finish, Step
<1>1. /\ pc[t] = "release" /\ pc'[t] = "idle" /\ pc' \in [Tasks -> PC]
      /\ \A u \in Tasks : u # t => pc'[u] = pc[u]
  BY StepOf DEF Release, Finish, IInv, PC
<1>2. /\ call'[t] = NoCall /\ call' \in [Tasks -> Calls \cup {NoCall}]
      /\ \A u \in Tasks : u # t => call'[u] = call[u]
      /\ avail' \in [CVs -> BOOLEAN]
      /\ \A w \in CVs : w # v => avail'[w] = avail[w]
      /\ UNCHANGED <<que, holder, notified, target, calls>>
  BY <1>0 DEF Release, Finish, SetAvail, IInv, TypeOK
<1>3. TypeOK'
  BY <1>1, <1>2 DEF IInv, TypeOK
<1>4. CallInv'
  BY <1>1, <1>2 DEF IInv, CallInv, NoCall, Waits, Notifies
<1>5. \A u \in Tasks : u # t /\ pc[u] \in Critical => call[u].cv # v
  BY <1>0, <1>1 DEF IInv, LockInv, Critical, Notifies
<1>6. \A u \in Tasks : u # t /\ pc[u] \in Critical => call[u].cv \in CVs
  BY CallOf DEF Critical, Notifies
<1>7. LockInv'
  BY <1>1, <1>2, <1>5, <1>6 DEF IInv, LockInv, Critical, Notifies
<1>8. HoldInv' /\ TargetInv'
  BY <1>1, <1>2 DEF IInv, HoldInv, TargetInv
<1>9. QueueInv'
  BY <1>1, <1>2, QueuedAreTasks DEF IInv, QueueInv, Asleep
<1>10. NoteInv' /\ ReachInv'
  BY <1>1, <1>2 DEF IInv, NoteInv, ReachInv, Given, Asleep
<1> QED
  BY <1>3, <1>4, <1>7, <1>8, <1>9, <1>10 DEF IInv

(* Nothing times out.                                                      *)
LEMMA NoTimeouts ==
  ASSUME IInv, NEW t \in Tasks
  PROVE  ~Timeout(t) /\ ~Remove(t)
BY DEF IInv, CallInv, Timeout, Remove, Finish, Step, Waits, Notifies

LEMMA NextInv == IInv /\ ~TimedWaits /\ [Next]_vars => IInv'
<1> SUFFICES ASSUME IInv, ~TimedWaits, [Next]_vars PROVE IInv'
  OBVIOUS
<1>1. ASSUME NEW t \in Tasks, Program(t) PROVE IInv'
  BY <1>1, LockInvStep, EnterInv DEF Program
<1>2. ASSUME NEW t \in Tasks, Library(t) PROVE IInv'
  BY <1>2, CondLockInv, PushInv, MutexGiveInv, TakeEnterInv, TakeExitInv, MutexTakeInv,
     FrontInv, PopInv, GiveInv, ReleaseInv, NoTimeouts DEF Library
<1>3. ASSUME UNCHANGED vars PROVE IInv'
  BY <1>3 DEF vars, IInv, TypeOK, CallInv, LockInv, HoldInv, TargetInv, QueueInv, NoteInv,
     ReachInv, Given
<1> QED
  BY <1>1, <1>2, <1>3, NoTimeouts DEF Next

(***************************************************************************)
(* The invariants of the module.                                           *)
(***************************************************************************)

(* The queue, its semaphore, the notification counts and the places of the *)
(* tasks stay in step.                                                     *)
THEOREM InductiveInvariant == ASSUME ~TimedWaits PROVE Spec => []IInv
BY InitIInv, NextInv, PTL DEF Spec

(* Every variable keeps its type.                                          *)
THEOREM TypesCorrect == ASSUME ~TimedWaits PROVE Spec => []TypeOK
<1>1. IInv => TypeOK
  BY DEF IInv
<1> QED
  BY InductiveInvariant, <1>1, PTL

(* No wakeup is lost: a task that sleeps is queued, or popped by a         *)
(* notifier that is about to notify it.                                    *)
THEOREM NoWakeupIsLost == ASSUME ~TimedWaits PROVE Spec => []NoLostWaiter
<1>1. IInv => NoLostWaiter
  BY DEF IInv, ReachInv, NoteInv, NoLostWaiter, Given, Asleep, Elems, Queued
<1> QED
  BY InductiveInvariant, <1>1, PTL

(* The queues hold tasks that wait, once each.                             *)
THEOREM QueuesHoldWaiters == ASSUME ~TimedWaits PROVE Spec => []QueuedTasksWait
<1>1. IInv => QueuedTasksWait
  BY DEF IInv, QueueInv, QueuedTasksWait, Distinct, Asleep, Elems, Queued
<1> QED
  BY InductiveInvariant, <1>1, PTL

(* A notification is meant for the wait that takes it.                     *)
THEOREM NotificationsAreFresh == ASSUME ~TimedWaits PROVE Spec => []NoStaleNotification
<1>1. ASSUME IInv PROVE NoStaleNotification
  <2> SUFFICES ASSUME NEW t \in Tasks, notified[t] > 0
               PROVE  /\ call[t].kind \in WaitKinds /\ t \notin Queued(call[t].cv)
                      /\ notified[t] <= 1
    <3>1. \A t \in Tasks : notified[t] \in {0, 1}
      BY <1>1 DEF IInv, NoteInv
    <3>2. \A n \in {0, 1} : n <= 1
      OBVIOUS
    <3> QED
      BY <3>1, <3>2 DEF NoStaleNotification
  <2>1. notified[t] = 1 /\ pc[t] \in {"unlock", "take", "took"}
    BY <1>1 DEF IInv, NoteInv
  <2>2. call[t].kind = "wait" /\ call[t].cv \in CVs
    BY <1>1, <2>1, CallOf DEF IInv, CallInv, Waits
  <2> QED
    BY <1>1, <2>1, <2>2 DEF IInv, NoteInv, Elems, Queued, WaitKinds
<1> QED
  BY InductiveInvariant, <1>1, PTL

(***************************************************************************)
(* What each step changes of what the contract sees.                       *)
(***************************************************************************)
In(t, v) == call[t].cv = v /\ Inside(t)
Broadcasts(t, v) == call[t] = [kind |-> "broadcast", cv |-> v] /\ pc[t] \in Notifies
Releases(t, m) == pc[t] = "unlock" /\ MutexOf[call[t].cv] = m

LEMMA OwnerSeen ==
  IInv => Owner = [m \in Mutexes |-> IF \E t \in Tasks : Releases(t, m) THEN Null ELSE holder[m]]
<1> SUFFICES ASSUME IInv
             PROVE  Owner = [m \in Mutexes |-> IF \E t \in Tasks : Releases(t, m) THEN Null ELSE holder[m]]
  OBVIOUS
<1>1. \A m \in Mutexes :
        (\E t \in Tasks : holder[m] = t /\ pc[t] = "unlock" /\ MutexOf[call[t].cv] = m)
          <=> \E t \in Tasks : Releases(t, m)
  BY DEF IInv, HoldInv, CallInv, Waits, Releases
<1> QED
  BY <1>1 DEF Owner

LEMMA WhatIsSeen ==
  ASSUME IInv
  PROVE  /\ \A v \in CVs : BroadcastRuns(v) <=> \E t \in Tasks : Broadcasts(t, v)
         /\ Waiting = [v \in CVs |-> IF BroadcastRuns(v) THEN {} ELSE Elems(que[v])]
         /\ Woken = [v \in CVs |-> {t \in Tasks : In(t, v)} \ Waiting[v]]
         /\ Owner = [m \in Mutexes |-> IF \E t \in Tasks : Releases(t, m) THEN Null ELSE holder[m]]
<1>1. \A v \in CVs : BroadcastRuns(v) <=> \E t \in Tasks : Broadcasts(t, v)
  BY DEF BroadcastRuns, Broadcasts, Notifies
<1> QED
  BY <1>1, OwnerSeen DEF Waiting, Woken, In, Queued, Elems

(* A task that waits, for the contract, is in a wait.                      *)
LEMMA InWaitIsInside ==
  ASSUME IInv, NEW t \in Tasks, Contract!InWait(t)
  PROVE  Inside(t)
<1>1. \A v \in CVs : t \in Elems(que[v]) => Inside(t)
  BY DEF IInv, QueueInv, Asleep, Inside
<1> QED
  BY <1>1, WhatIsSeen DEF Contract!InWait, In

LEMMA WaitersSame ==
  ASSUME IInv, IInv',
         \A v \in CVs : BroadcastRuns(v)' <=> BroadcastRuns(v),
         \A v \in CVs : BroadcastRuns(v) \/ que'[v] = que[v],
         \A t \in Tasks, v \in CVs : In(t, v)' <=> In(t, v)
  PROVE  Waiting' = Waiting /\ Woken' = Woken
<1>1. Waiting' = [v \in CVs |-> IF BroadcastRuns(v)' THEN {} ELSE Elems(que'[v])]
  BY DEF Waiting, Queued, Elems
<1>2. Woken' = [v \in CVs |-> {t \in Tasks : In(t, v)'} \ Waiting'[v]]
  BY DEF Woken, In
<1>3. Waiting' = Waiting
  BY <1>1, WhatIsSeen
<1> QED
  BY <1>2, <1>3, WhatIsSeen

LEMMA RunsSame ==
  ASSUME \A t \in Tasks, v \in CVs : Broadcasts(t, v)' <=> Broadcasts(t, v)
  PROVE  \A v \in CVs : BroadcastRuns(v)' <=> BroadcastRuns(v)
<1>1. \A v \in CVs : BroadcastRuns(v) <=> \E t \in Tasks : Broadcasts(t, v)
  BY DEF BroadcastRuns, Broadcasts, Notifies
<1>2. \A v \in CVs : BroadcastRuns(v)' <=> \E t \in Tasks : Broadcasts(t, v)'
  BY DEF BroadcastRuns, Broadcasts, Notifies
<1> QED
  BY <1>1, <1>2

LEMMA OwnerSame ==
  ASSUME IInv, IInv', holder' = holder,
         \A t \in Tasks, m \in Mutexes : Releases(t, m)' <=> Releases(t, m)
  PROVE  Owner' = Owner
<1>1. (Owner = [m \in Mutexes |-> IF \E t \in Tasks : Releases(t, m) THEN Null ELSE holder[m]])'
  BY OwnerSeen, PTL
<1> QED
  BY <1>1, WhatIsSeen

LEMMA OwnerNext ==
  ASSUME IInv'
  PROVE  Owner' = [m \in Mutexes |-> IF \E t \in Tasks : Releases(t, m)' THEN Null ELSE holder'[m]]
<1>1. (Owner = [m \in Mutexes |-> IF \E t \in Tasks : Releases(t, m) THEN Null ELSE holder[m]])'
  BY OwnerSeen, PTL
<1> QED
  BY <1>1

LEMMA ReleasesHold ==
  ASSUME IInv, NEW t \in Tasks, NEW m \in Mutexes, Releases(t, m)
  PROVE  holder[m] = t
BY DEF IInv, HoldInv, CallInv, Waits, Releases

LEMMA WaitersNext ==
  /\ Waiting' = [v \in CVs |-> IF BroadcastRuns(v)' THEN {} ELSE Elems(que'[v])]
  /\ Woken' = [v \in CVs |-> {t \in Tasks : In(t, v)'} \ Waiting'[v]]
BY DEF Waiting, Woken, Queued, Elems, In

Notifier(t) ==
  \/ pc[t] = "lock" /\ call[t].kind \in NotifyKinds
  \/ pc[t] \in {"front", "pop"} /\ call[t].kind = "signal"

LEMMA NotifyingSeen ==
  /\ Notifying = [t \in Tasks |-> IF Notifier(t) THEN call[t] ELSE NoCall]
  /\ Notifying' = [t \in Tasks |-> IF Notifier(t)' THEN call'[t] ELSE NoCall]
BY DEF Notifying, Notifier

(* While a task has the semaphore of a queue, the only broadcast that runs *)
(* on it is its own; while nobody has it, none does.                       *)
LEMMA WhoBroadcasts ==
  ASSUME IInv, NEW t \in Tasks, pc[t] \in Critical, ~Broadcasts(t, call[t].cv)
  PROVE  ~BroadcastRuns(call[t].cv)
BY WhatIsSeen, CallOf DEF IInv, LockInv, Broadcasts, Critical, Notifies

(***************************************************************************)
(* The program's steps are those of the contract.                          *)
(***************************************************************************)
LEMMA MutexRefines ==
  ASSUME IInv, IInv', NEW t \in Tasks, NEW m \in Mutexes, Lock(t, m) \/ Unlock(t, m)
  PROVE  Contract!Lock(t, m) \/ Contract!Unlock(t, m)
<1>1. PICK new \in {t, Null} :
        /\ pc[t] = "idle" /\ holder' = [holder EXCEPT ![m] = new]
        /\ new = t => holder[m] = Null
        /\ new = Null => holder[m] = t
        /\ UNCHANGED <<que, avail, notified, pc, call, target, calls>>
  BY DEF Lock, Unlock
<1>2. Waiting' = Waiting /\ Woken' = Woken /\ Notifying' = Notifying
  BY <1>1 DEF Waiting, Woken, Notifying, Queued, Inside, BroadcastRuns
<1>3. ~Contract!InWait(t)
  BY <1>1, InWaitIsInside DEF Inside
<1>4. \A u \in Tasks : ~Releases(u, m)
  BY <1>1, ReleasesHold, NullIsNoTask DEF Releases
<1>5. \A u \in Tasks, n \in Mutexes : Releases(u, n)' <=> Releases(u, n)
  BY <1>1 DEF Releases
<1>6. holder'[m] = new /\ \A n \in Mutexes : n # m => holder'[n] = holder[n]
  BY <1>1 DEF IInv, TypeOK
<1>7. Owner' = [Owner EXCEPT ![m] = new]
  BY <1>4, <1>5, <1>6, OwnerNext, OwnerSeen
<1>8. Owner[m] = holder[m]
  BY <1>4, OwnerSeen
<1> QED
  BY <1>1, <1>2, <1>3, <1>7, <1>8 DEF Contract!Lock, Contract!Unlock

LEMMA EnterRefines ==
  ASSUME IInv, IInv', ~TimedWaits, NEW t \in Tasks, NEW k \in WaitKinds \cup NotifyKinds,
         NEW v \in CVs, Enter(t, k, v)
  PROVE  \/ k \in NotifyKinds /\ Contract!CallNotify(t, k, v)
         \/ UNCHANGED <<Owner, Waiting, Woken, Notifying>>
<1>1. /\ pc[t] = "idle" /\ pc'[t] = "lock"
      /\ \A u \in Tasks : u # t => pc'[u] = pc[u]
      /\ call'[t] = [kind |-> k, cv |-> v]
      /\ \A u \in Tasks : u # t => call'[u] = call[u]
      /\ UNCHANGED <<que, holder>>
  BY StepOf DEF Enter, IInv, PC, TypeOK
<1>2. \A u \in Tasks, w \in CVs : Broadcasts(u, w)' <=> Broadcasts(u, w)
  BY <1>1 DEF Broadcasts, Notifies
<1>3. \A u \in Tasks, w \in CVs : In(u, w)' <=> In(u, w)
  BY <1>1 DEF In, Inside
<1>4. Waiting' = Waiting /\ Woken' = Woken
  BY <1>1, <1>2, <1>3, RunsSame, WaitersSame
<1>5. \A u \in Tasks, m \in Mutexes : Releases(u, m)' <=> Releases(u, m)
  BY <1>1 DEF Releases
<1>6. Owner' = Owner
  BY <1>1, <1>5, OwnerSame
<1>7. /\ ~Notifier(t) /\ (Notifier(t)' <=> k \in NotifyKinds)
      /\ \A u \in Tasks : u # t => (Notifier(u)' <=> Notifier(u))
  BY <1>1 DEF Notifier
<1>8. CASE k \in NotifyKinds
  <2>1. Notifying[t] = NoCall /\ Notifying' = [Notifying EXCEPT ![t] = [kind |-> k, cv |-> v]]
    BY <1>1, <1>7, <1>8, NotifyingSeen
  <2> QED
    BY <1>4, <1>6, <1>8, <2>1 DEF Contract!CallNotify, Contract!NoCall, NoCall
<1>9. CASE k \notin NotifyKinds
  BY <1>1, <1>4, <1>6, <1>7, <1>9, NotifyingSeen
<1> QED
  BY <1>8, <1>9

(***************************************************************************)
(* The steps of the library.                                               *)
(***************************************************************************)

(* A broadcast takes effect when it has the semaphore.                     *)
LEMMA CondLockRefines ==
  ASSUME IInv, IInv', NEW t \in Tasks, CondLock(t)
  PROVE  Contract!Notify(t) \/ UNCHANGED <<Owner, Waiting, Woken, Notifying>>
<1>0. PICK v \in CVs : v = call[t].cv
  BY CallOf DEF CondLock, ToCritical, Step
<1>1. /\ pc[t] = "lock" /\ pc'[t] \in {"push", "front"}
      /\ pc'[t] = "push" => call[t].kind = "wait"
      /\ pc'[t] = "front" => call[t].kind \in NotifyKinds
      /\ \A u \in Tasks : u # t => pc'[u] = pc[u]
  <2>1. CASE Step(t, "lock", "push") /\ call[t].kind \in WaitKinds
    BY <2>1, StepOf DEF IInv, PC, CallInv, WaitKinds
  <2>2. CASE Step(t, "lock", "front") /\ call[t].kind \in NotifyKinds
    BY <2>2, StepOf DEF IInv, PC
  <2>3. ~Step(t, "remove_lock", "remove")
    BY DEF IInv, CallInv, Step, Waits, Notifies
  <2> QED
    BY <2>1, <2>2, <2>3 DEF CondLock, ToCritical
<1>2. avail[v] /\ UNCHANGED <<que, holder, call>>
  BY <1>0 DEF CondLock
<1>3. \A u \in Tasks, w \in CVs : In(u, w)' <=> In(u, w)
  BY <1>1, <1>2 DEF In, Inside
<1>4. \A u \in Tasks, m \in Mutexes : Releases(u, m)' <=> Releases(u, m)
  BY <1>1, <1>2 DEF Releases
<1>5. Owner' = Owner
  BY <1>2, <1>4, OwnerSame
<1>6. \A u \in Tasks : u # t => (Notifier(u)' <=> Notifier(u))
  BY <1>1, <1>2 DEF Notifier
<1>7. CASE call[t].kind # "broadcast"
  <2>1. \A u \in Tasks, w \in CVs : Broadcasts(u, w)' <=> Broadcasts(u, w)
    BY <1>1, <1>2, <1>7 DEF Broadcasts, Notifies
  <2>2. Waiting' = Waiting /\ Woken' = Woken
    BY <1>2, <1>3, <2>1, RunsSame, WaitersSame
  <2>3. Notifier(t)' <=> Notifier(t)
    BY <1>1, <1>2, <1>7 DEF Notifier, NotifyKinds
  <2>4. Notifying' = Notifying
    BY <1>2, <1>6, <2>3, NotifyingSeen
  <2> QED
    BY <1>5, <2>2, <2>4
<1>8. CASE call[t].kind = "broadcast"
  <2>1. call[t] = [kind |-> "broadcast", cv |-> v] /\ pc'[t] = "front"
    BY <1>0, <1>1, <1>8, CallOf DEF Calls
  <2>2. /\ \A u \in Tasks, w \in CVs : u # t \/ w # v => (Broadcasts(u, w)' <=> Broadcasts(u, w))
        /\ Broadcasts(t, v)'
    BY <1>1, <1>2, <2>1 DEF Broadcasts, Notifies
  <2>3. ~BroadcastRuns(v)
    <3>1. \A u \in Tasks : Broadcasts(u, v) => call[u].cv = v /\ pc[u] \in Critical
      BY DEF Broadcasts, Critical
    <3>2. \A u \in Tasks : pc[u] \in Critical => ~avail[call[u].cv]
      BY DEF IInv, LockInv
    <3> QED
      BY <1>2, <3>1, <3>2, WhatIsSeen
  <2>4. /\ \A w \in CVs : BroadcastRuns(w) <=> \E u \in Tasks : Broadcasts(u, w)
        /\ \A w \in CVs : BroadcastRuns(w)' <=> \E u \in Tasks : Broadcasts(u, w)'
    BY DEF BroadcastRuns, Broadcasts, Notifies
  <2>5. BroadcastRuns(v)' /\ \A w \in CVs : w # v => (BroadcastRuns(w)' <=> BroadcastRuns(w))
    BY <2>2, <2>4
  <2>6. Waiting' = [Waiting EXCEPT ![v] = Waiting[v] \ Waiting[v]]
    BY <1>2, <2>5, WaitersNext, WhatIsSeen
  <2>7. \A u \in Elems(que[v]) : u \in Tasks /\ In(u, v)
    BY QueuedAreTasks DEF IInv, QueueInv, In, Inside, Asleep
  <2>8. Waiting[v] \subseteq {u \in Tasks : In(u, v)}
    BY <2>7, WhatIsSeen
  <2>9. Woken' = [Woken EXCEPT ![v] = Woken[v] \cup Waiting[v]]
    <3>1. Woken'[v] = Woken[v] \cup Waiting[v]
      BY <1>3, <2>6, <2>8, WaitersNext, WhatIsSeen
    <3>2. \A w \in CVs : w # v => Woken'[w] = Woken[w]
      BY <1>3, <2>6, WaitersNext, WhatIsSeen
    <3> QED
      BY <3>1, <3>2, WaitersNext, WhatIsSeen
  <2>10. Notifier(t) /\ ~Notifier(t)'
    BY <1>1, <1>2, <2>1 DEF Notifier, NotifyKinds
  <2>11. Notifying[t] = call[t] /\ Notifying' = [Notifying EXCEPT ![t] = NoCall]
    BY <1>2, <1>6, <2>10, NotifyingSeen
  <2> QED
    BY <1>5, <2>1, <2>6, <2>9, <2>11 DEF Contract!Notify, Contract!Wake, Contract!NoCall, NoCall
<1> QED
  BY <1>7, <1>8

(* wait: the mutex is free, and the task waits, at once.                   *)
LEMMA PushRefines ==
  ASSUME IInv, IInv', NEW t \in Tasks, Push(t)
  PROVE  \E v \in CVs : Contract!Wait(t, v)
<1>0. PICK v \in CVs : v = call[t].cv
  BY CallOf DEF Push, Step
<1>1. /\ pc[t] = "push" /\ pc'[t] = "unlock" /\ call[t].kind = "wait"
      /\ \A u \in Tasks : u # t => pc'[u] = pc[u]
      /\ UNCHANGED <<holder, call>>
  BY StepOf DEF Push, IInv, PC, CallInv, Waits
<1>2. /\ que' = [que EXCEPT ![v] = Append(que[v], t)]
      /\ \A w \in CVs : w # v => que'[w] = que[w]
      /\ Elems(que'[v]) = Elems(que[v]) \cup {t}
  BY <1>0, QueuedAreTasks, PushedQueue DEF Push, IInv, TypeOK
<1>3. \A u \in Tasks, w \in CVs : Broadcasts(u, w)' <=> Broadcasts(u, w)
  BY <1>1 DEF Broadcasts, Notifies
<1>4. \A w \in CVs : BroadcastRuns(w)' <=> BroadcastRuns(w)
  BY <1>3, RunsSame
<1>5. ~BroadcastRuns(v)
  <2>1. call[t] # [kind |-> "broadcast", cv |-> v]
    BY <1>1
  <2> QED
    BY <1>0, <1>1, <2>1, WhoBroadcasts DEF Critical, Broadcasts
<1>6. Waiting' = [Waiting EXCEPT ![v] = Waiting[v] \cup {t}]
  <2>1. Waiting[v] = Elems(que[v]) /\ Waiting'[v] = Elems(que[v]) \cup {t}
    BY <1>2, <1>4, <1>5, WaitersNext, WhatIsSeen
  <2>2. \A w \in CVs : w # v => Waiting'[w] = Waiting[w]
    BY <1>2, <1>4, WaitersNext, WhatIsSeen
  <2> QED
    BY <2>1, <2>2, WaitersNext, WhatIsSeen
<1>7. /\ \A u \in Tasks, w \in CVs : u # t \/ w # v => (In(u, w)' <=> In(u, w))
      /\ ~In(t, v)
  BY <1>0, <1>1 DEF In, Inside
<1>8. Woken' = Woken
  BY <1>6, <1>7, WaitersNext, WhatIsSeen
<1>9. \A u \in Tasks : Notifier(u)' <=> Notifier(u)
  BY <1>1 DEF Notifier, NotifyKinds
<1>10. Notifying' = Notifying
  BY <1>1, <1>9, NotifyingSeen
<1>11. MutexOf[v] \in Mutexes /\ holder[MutexOf[v]] = t
  BY <1>0, <1>1, CallOf DEF IInv, HoldInv
<1>12. /\ Releases(t, MutexOf[v])'
       /\ \A u \in Tasks, m \in Mutexes : u # t \/ m # MutexOf[v] => (Releases(u, m)' <=> Releases(u, m))
       /\ \A m \in Mutexes : ~Releases(t, m)
  BY <1>0, <1>1 DEF Releases
<1>13. \A u \in Tasks : ~Releases(u, MutexOf[v])
  BY <1>11, <1>12, ReleasesHold
<1>14. Owner[MutexOf[v]] = t
  BY <1>11, <1>13, OwnerSeen
<1>15. Owner' = [Owner EXCEPT ![MutexOf[v]] = Null]
  BY <1>1, <1>11, <1>12, OwnerNext, OwnerSeen
<1>16. ~Contract!InWait(t)
  BY <1>1, InWaitIsInside DEF Inside
<1> QED
  BY <1>6, <1>8, <1>10, <1>14, <1>15, <1>16 DEF Contract!Wait

(* The rest of wait, until it has the mutex again, is not seen.            *)
LEMMA WaitNotSeen ==
  ASSUME IInv, IInv', NEW t \in Tasks, MutexGive(t) \/ TakeEnter(t) \/ TakeExit(t)
  PROVE  UNCHANGED <<Owner, Waiting, Woken, Notifying>>
<1>1. PICK from \in {"unlock", "take", "took"}, to \in {"take", "took", "blocked", "relock"} :
        Step(t, from, to)
  BY DEF MutexGive, TakeEnter, TakeExit, IInv, CallInv
<1>2. /\ pc[t] = from /\ pc'[t] = to
      /\ \A u \in Tasks : u # t => pc'[u] = pc[u]
      /\ UNCHANGED <<que, call>>
  BY <1>1, StepOf DEF MutexGive, TakeEnter, TakeExit, IInv, PC
<1>3. \A u \in Tasks, w \in CVs : Broadcasts(u, w)' <=> Broadcasts(u, w)
  BY <1>2 DEF Broadcasts, Notifies
<1>4. \A u \in Tasks, w \in CVs : In(u, w)' <=> In(u, w)
  BY <1>2 DEF In, Inside
<1>5. Waiting' = Waiting /\ Woken' = Woken
  BY <1>2, <1>3, <1>4, RunsSame, WaitersSame
<1>6. \A u \in Tasks : Notifier(u)' <=> Notifier(u)
  BY <1>2 DEF Notifier
<1>7. Notifying' = Notifying
  BY <1>2, <1>6, NotifyingSeen
<1>8. CASE MutexGive(t)
  <2>1. pc[t] = "unlock" /\ pc'[t] = "take" /\ MutexOf[call[t].cv] \in Mutexes
    BY <1>2, <1>8, StepOf, CallOf DEF MutexGive, IInv, PC
  <2>2. PICK m \in Mutexes : m = MutexOf[call[t].cv]
    BY <2>1
  <2>3. /\ Releases(t, m)
        /\ \A u \in Tasks, n \in Mutexes : u # t \/ n # m => (Releases(u, n)' <=> Releases(u, n))
    BY <1>2, <2>1, <2>2 DEF Releases
  <2>4. holder'[m] = Null /\ \A n \in Mutexes : n # m => holder'[n] = holder[n]
    BY <1>8, <2>2 DEF MutexGive, IInv, TypeOK
  <2>5. Owner' = Owner
    BY <2>3, <2>4, OwnerNext, OwnerSeen
  <2> QED
    BY <1>5, <1>7, <2>5
<1>9. CASE TakeEnter(t) \/ TakeExit(t)
  <2>1. holder' = holder /\ from # "unlock"
    BY <1>2, <1>9 DEF TakeEnter, TakeExit, Step
  <2>2. \A u \in Tasks, m \in Mutexes : Releases(u, m)' <=> Releases(u, m)
    BY <1>2, <2>1 DEF Releases
  <2>3. Owner' = Owner
    BY <2>1, <2>2, OwnerSame
  <2> QED
    BY <1>5, <1>7, <2>3
<1> QED
  BY <1>8, <1>9

(* wait returns with the mutex.                                            *)
LEMMA MutexTakeRefines ==
  ASSUME IInv, IInv', NEW t \in Tasks, MutexTake(t)
  PROVE  \E v \in CVs : Contract!Return(t, v)
<1>1. /\ pc[t] = "relock" /\ Finish(t, "relock")
      /\ UNCHANGED que
  BY DEF MutexTake, IInv, CallInv, Waits, Notifies, Step
<1>2. PICK v \in CVs : v = call[t].cv
  BY <1>1, CallOf
<1>3. /\ pc'[t] = "idle" /\ call'[t] = NoCall /\ call[t].kind = "wait"
      /\ \A u \in Tasks : u # t => pc'[u] = pc[u] /\ call'[u] = call[u]
  BY <1>1, StepOf DEF Finish, IInv, PC, TypeOK, CallInv, Waits
<1>4. PICK m \in Mutexes : m = MutexOf[v]
  BY <1>1, <1>2, CallOf
<1>5. holder[m] = Null /\ holder'[m] = t /\ \A n \in Mutexes : n # m => holder'[n] = holder[n]
  BY <1>2, <1>4 DEF MutexTake, IInv, TypeOK
<1>6. \A u \in Tasks, w \in CVs : Broadcasts(u, w)' <=> Broadcasts(u, w)
  BY <1>1, <1>3 DEF Broadcasts, Notifies
<1>7. \A w \in CVs : BroadcastRuns(w)' <=> BroadcastRuns(w)
  BY <1>6, RunsSame
<1>8. Waiting' = Waiting
  BY <1>1, <1>7, WaitersNext, WhatIsSeen
<1>9. t \notin Elems(que[v])
  BY <1>1 DEF IInv, QueueInv, Asleep
<1>10. /\ \A u \in Tasks, w \in CVs : u # t \/ w # v => (In(u, w)' <=> In(u, w))
       /\ In(t, v) /\ ~In(t, v)'
  BY <1>1, <1>2, <1>3 DEF In, Inside
<1>11. t \in Woken[v]
  BY <1>9, <1>10, WhatIsSeen
<1>12. Woken' = [Woken EXCEPT ![v] = Woken[v] \ {t}]
  <2>1. Woken'[v] = Woken[v] \ {t}
    BY <1>8, <1>10, WaitersNext, WhatIsSeen
  <2>2. \A w \in CVs : w # v => Woken'[w] = Woken[w]
    BY <1>8, <1>10, WaitersNext, WhatIsSeen
  <2> QED
    BY <2>1, <2>2, WaitersNext, WhatIsSeen
<1>13. \A u \in Tasks : ~Releases(u, m)
  BY <1>5, ReleasesHold, NullIsNoTask
<1>14. \A u \in Tasks, n \in Mutexes : Releases(u, n)' <=> Releases(u, n)
  BY <1>1, <1>3 DEF Releases
<1>15. Owner[m] = Null /\ Owner' = [Owner EXCEPT ![m] = t]
  BY <1>5, <1>13, <1>14, OwnerNext, OwnerSeen
<1>16. \A u \in Tasks : /\ Notifier(u)' <=> Notifier(u)
                        /\ Notifier(u) => u # t
  BY <1>1, <1>3 DEF Notifier
<1>17. Notifying' = Notifying
  BY <1>3, <1>16, NotifyingSeen
<1> QED
  BY <1>4, <1>8, <1>11, <1>12, <1>15, <1>17 DEF Contract!Return

(* A signal that finds the queue empty is over.                            *)
LEMMA FrontRefines ==
  ASSUME IInv, IInv', NEW t \in Tasks, Front(t)
  PROVE  Contract!Notify(t) \/ UNCHANGED <<Owner, Waiting, Woken, Notifying>>
<1>0. PICK v \in CVs : v = call[t].cv
  BY CallOf DEF Front, Step
<1>1. /\ pc[t] = "front" /\ pc'[t] \in {"release", "pop"}
      /\ pc'[t] = "release" => que[v] = <<>>
      /\ \A u \in Tasks : u # t => pc'[u] = pc[u]
      /\ UNCHANGED <<que, holder, call>>
  BY <1>0, StepOf DEF Front, IInv, PC
<1>2. \A u \in Tasks, w \in CVs : Broadcasts(u, w)' <=> Broadcasts(u, w)
  BY <1>1 DEF Broadcasts, Notifies
<1>3. \A u \in Tasks, w \in CVs : In(u, w)' <=> In(u, w)
  BY <1>1 DEF In, Inside
<1>4. Waiting' = Waiting /\ Woken' = Woken
  BY <1>1, <1>2, <1>3, RunsSame, WaitersSame
<1>5. \A u \in Tasks, m \in Mutexes : Releases(u, m)' <=> Releases(u, m)
  BY <1>1 DEF Releases
<1>6. Owner' = Owner
  BY <1>1, <1>5, OwnerSame
<1>7. \A u \in Tasks : u # t => (Notifier(u)' <=> Notifier(u))
  BY <1>1 DEF Notifier
<1>8. CASE call[t].kind = "signal" /\ pc'[t] = "release"
  <2>1. Notifier(t) /\ ~Notifier(t)'
    BY <1>1, <1>8 DEF Notifier
  <2>2. Notifying[t] = call[t] /\ Notifying' = [Notifying EXCEPT ![t] = NoCall]
    BY <1>1, <1>7, <2>1, NotifyingSeen
  <2>3. Waiting[v] = {}
    BY <1>1, <1>8, WhatIsSeen DEF Elems
  <2>4. call[t] # NoCall
    BY <1>8 DEF NoCall
  <2> QED
    BY <1>0, <1>4, <1>6, <2>2, <2>3, <2>4 DEF Contract!Notify, Contract!NoCall, NoCall
<1>9. CASE ~(call[t].kind = "signal" /\ pc'[t] = "release")
  <2>1. Notifier(t)' <=> Notifier(t)
    BY <1>1, <1>9 DEF Notifier
  <2>2. Notifying' = Notifying
    BY <1>1, <1>7, <2>1, NotifyingSeen
  <2> QED
    BY <1>4, <1>6, <2>2
<1> QED
  BY <1>8, <1>9

(* A signal takes effect when it pops a handle.                            *)
LEMMA PopRefines ==
  ASSUME IInv, IInv', NEW t \in Tasks, Pop(t)
  PROVE  Contract!Notify(t) \/ UNCHANGED <<Owner, Waiting, Woken, Notifying>>
<1>0. PICK v \in CVs : v = call[t].cv
  BY CallOf DEF Pop, Step
<1>1. /\ pc[t] = "pop" /\ pc'[t] = "give"
      /\ \A u \in Tasks : u # t => pc'[u] = pc[u]
      /\ UNCHANGED <<holder, call>>
  BY StepOf DEF Pop, IInv, PC
<1>2. que[v] \in Seq(Tasks) /\ que[v] # <<>>
  BY <1>0, <1>1, QueuedAreTasks DEF IInv, TargetInv
<1>3. /\ que'[v] = SubSeq(que[v], 2, Len(que[v]))
      /\ \A w \in CVs : w # v => que'[w] = que[w]
  BY <1>0 DEF Pop, IInv, TypeOK
<1>4. PICK h \in Elems(que[v]) : Elems(que'[v]) = Elems(que[v]) \ {h}
  BY <1>2, <1>3, PoppedQueue DEF IInv, QueueInv
<1>5. \A u \in Tasks, w \in CVs : Broadcasts(u, w)' <=> Broadcasts(u, w)
  BY <1>1 DEF Broadcasts, Notifies
<1>6. \A w \in CVs : BroadcastRuns(w)' <=> BroadcastRuns(w)
  BY <1>5, RunsSame
<1>7. \A u \in Tasks, w \in CVs : In(u, w)' <=> In(u, w)
  BY <1>1 DEF In, Inside
<1>8. \A u \in Tasks, m \in Mutexes : Releases(u, m)' <=> Releases(u, m)
  BY <1>1 DEF Releases
<1>9. Owner' = Owner
  BY <1>1, <1>8, OwnerSame
<1>10. \A u \in Tasks : u # t => (Notifier(u)' <=> Notifier(u))
  BY <1>1 DEF Notifier
<1>11. call[t].kind \in NotifyKinds
  BY <1>1 DEF IInv, CallInv, Notifies
<1>12. CASE call[t].kind = "signal"
  <2>1. ~BroadcastRuns(v)
    <3>1. call[t] # [kind |-> "broadcast", cv |-> v]
      BY <1>12
    <3> QED
      BY <1>0, <1>1, <3>1, WhoBroadcasts DEF Critical, Notifies, Broadcasts
  <2>2. Waiting[v] = Elems(que[v]) /\ Waiting'[v] = Waiting[v] \ {h}
    BY <1>4, <1>6, <2>1, WaitersNext, WhatIsSeen
  <2>3. \A w \in CVs : w # v => Waiting'[w] = Waiting[w]
    BY <1>3, <1>6, WaitersNext, WhatIsSeen
  <2>4. Waiting' = [Waiting EXCEPT ![v] = Waiting[v] \ {h}]
    BY <2>2, <2>3, WaitersNext, WhatIsSeen
  <2>5. h \in Tasks /\ In(h, v)
    BY QueuedAreTasks DEF IInv, QueueInv, In, Inside, Asleep
  <2>6. Woken'[v] = Woken[v] \cup {h}
    BY <1>7, <2>2, <2>5, WaitersNext, WhatIsSeen
  <2>7. \A w \in CVs : w # v => Woken'[w] = Woken[w]
    BY <1>7, <2>3, WaitersNext, WhatIsSeen
  <2>8. Woken' = [Woken EXCEPT ![v] = Woken[v] \cup {h}]
    BY <2>6, <2>7, WaitersNext, WhatIsSeen
  <2>9. Notifier(t) /\ ~Notifier(t)'
    BY <1>1, <1>12 DEF Notifier
  <2>10. Notifying[t] = call[t] /\ Notifying' = [Notifying EXCEPT ![t] = NoCall]
    BY <1>1, <1>10, <2>9, NotifyingSeen
  <2>11. call[t] # NoCall
    BY <1>12 DEF NoCall
  <2>12. h \in Waiting[v]
    BY <2>2
  <2>13. Contract!Wake(v, {h})
    BY <2>4, <2>8 DEF Contract!Wake
  <2> QED
    BY <1>0, <1>9, <1>12, <2>10, <2>11, <2>12, <2>13 DEF Contract!Notify, Contract!NoCall, NoCall
<1>13. CASE call[t].kind = "broadcast"
  <2>1. Broadcasts(t, v)
    BY <1>0, <1>1, <1>13, CallOf DEF Broadcasts, Calls, Notifies
  <2>2. BroadcastRuns(v)
    BY <2>1, WhatIsSeen
  <2>3. \A w \in CVs : BroadcastRuns(w) \/ que'[w] = que[w]
    BY <1>3, <2>2
  <2>4. Waiting' = Waiting /\ Woken' = Woken
    BY <1>6, <1>7, <2>3, WaitersSame
  <2>5. Notifier(t)' <=> Notifier(t)
    BY <1>1, <1>13 DEF Notifier
  <2>6. Notifying' = Notifying
    BY <1>1, <1>10, <2>5, NotifyingSeen
  <2> QED
    BY <1>9, <2>4, <2>6
<1> QED
  BY <1>11, <1>12, <1>13 DEF NotifyKinds

(* The task that was popped is woken already.                              *)
LEMMA GiveNotSeen ==
  ASSUME IInv, IInv', NEW t \in Tasks, Give(t)
  PROVE  UNCHANGED <<Owner, Waiting, Woken, Notifying>>
<1>0. PICK u \in Tasks : u = target[t]
  BY DEF Give, IInv, TargetInv
<1>1. pc[t] = "give" /\ pc[u] \in Asleep /\ u # t
  BY <1>0 DEF Give, Given, IInv, NoteInv, Asleep
<1>2. PICK to \in {"release", "front"} : to = IF call[t].kind = "signal" THEN "release" ELSE "front"
  OBVIOUS
<1>3. /\ pc'[t] = to
      /\ pc'[u] = IF pc[u] = "blocked" THEN "took" ELSE pc[u]
      /\ \A s \in Tasks : s # t /\ s # u => pc'[s] = pc[s]
      /\ UNCHANGED <<que, holder, call>>
  BY <1>0, <1>1, <1>2 DEF Give, IInv, TypeOK
<1>4. \A s \in Tasks, w \in CVs : Broadcasts(s, w)' <=> Broadcasts(s, w)
  BY <1>1, <1>3 DEF Broadcasts, Notifies, Asleep
<1>5. \A s \in Tasks, w \in CVs : In(s, w)' <=> In(s, w)
  BY <1>1, <1>3 DEF In, Inside, Asleep
<1>6. Waiting' = Waiting /\ Woken' = Woken
  BY <1>3, <1>4, <1>5, RunsSame, WaitersSame
<1>7. \A s \in Tasks, m \in Mutexes : Releases(s, m)' <=> Releases(s, m)
  BY <1>1, <1>3 DEF Releases, Asleep
<1>8. Owner' = Owner
  BY <1>3, <1>7, OwnerSame
<1>9. \A s \in Tasks : Notifier(s)' <=> Notifier(s)
  BY <1>1, <1>2, <1>3 DEF Notifier, Asleep
<1>10. Notifying' = Notifying
  BY <1>3, <1>9, NotifyingSeen
<1> QED
  BY <1>6, <1>8, <1>10

(* A broadcast leaves an empty queue.                                      *)
LEMMA ReleaseNotSeen ==
  ASSUME IInv, IInv', NEW t \in Tasks, Release(t)
  PROVE  UNCHANGED <<Owner, Waiting, Woken, Notifying>>
<1>0. PICK v \in CVs : v = call[t].cv
  BY CallOf DEF Release, Finish, Step
<1>1. /\ pc[t] = "release" /\ pc'[t] = "idle"
      /\ call'[t] = NoCall
      /\ \A u \in Tasks : u # t => pc'[u] = pc[u] /\ call'[u] = call[u]
      /\ UNCHANGED <<que, holder>>
  BY StepOf DEF Release, Finish, IInv, PC, TypeOK
<1>2. \A u \in Tasks, w \in CVs : u # t \/ w # v => (Broadcasts(u, w)' <=> Broadcasts(u, w))
  <2>1. \A w \in CVs : w # v => call[t] # [kind |-> "broadcast", cv |-> w]
    BY <1>0
  <2> QED
    BY <1>1, <2>1 DEF Broadcasts, NoCall, Notifies
<1>3. /\ \A w \in CVs : BroadcastRuns(w) <=> \E u \in Tasks : Broadcasts(u, w)
      /\ \A w \in CVs : BroadcastRuns(w)' <=> \E u \in Tasks : Broadcasts(u, w)'
  BY DEF BroadcastRuns, Broadcasts, Notifies
<1>4. \A w \in CVs : w # v => (BroadcastRuns(w)' <=> BroadcastRuns(w))
  BY <1>2, <1>3
<1>5. Waiting'[v] = Waiting[v]
  <2>1. CASE call[t].kind = "broadcast"
    <3>1. que[v] = <<>> /\ que'[v] = <<>>
      BY <1>0, <1>1, <2>1 DEF IInv, TargetInv
    <3>2. Elems(que[v]) = {} /\ Elems(que'[v]) = {}
      BY <3>1 DEF Elems
    <3> QED
      BY <3>2, WaitersNext, WhatIsSeen
  <2>2. CASE call[t].kind # "broadcast"
    <3>1. ~Broadcasts(t, v) /\ ~Broadcasts(t, v)'
      BY <1>1, <2>2 DEF Broadcasts, NoCall
    <3> QED
      BY <1>1, <1>2, <1>3, <3>1, WaitersNext, WhatIsSeen
  <2> QED
    BY <2>1, <2>2
<1>6. Waiting' = Waiting
  BY <1>1, <1>4, <1>5, WaitersNext, WhatIsSeen
<1>7. \A u \in Tasks, w \in CVs : In(u, w)' <=> In(u, w)
  BY <1>1 DEF In, Inside
<1>8. Woken' = Woken
  BY <1>6, <1>7, WaitersNext, WhatIsSeen
<1>9. \A u \in Tasks, m \in Mutexes : Releases(u, m)' <=> Releases(u, m)
  BY <1>1 DEF Releases
<1>10. Owner' = Owner
  BY <1>1, <1>9, OwnerSame
<1>11. \A u \in Tasks : /\ Notifier(u)' <=> Notifier(u)
                        /\ Notifier(u) => u # t
  BY <1>1 DEF Notifier
<1>12. Notifying' = Notifying
  BY <1>1, <1>11, NotifyingSeen
<1> QED
  BY <1>6, <1>8, <1>10, <1>12

(***************************************************************************)
(* The refinement.                                                         *)
(***************************************************************************)
LEMMA InitRefines == Init => Contract!Init
<1> SUFFICES ASSUME Init PROVE Contract!Init
  OBVIOUS
<1>1. \A v \in CVs : Queued(v) = {}
  BY DEF Init, Queued
<1>2. Waiting = [v \in CVs |-> {}]
  BY <1>1 DEF Waiting
<1>3. Woken = [v \in CVs |-> {}]
  BY DEF Init, Woken, Inside
<1>4. Owner = [m \in Mutexes |-> Null] /\ Notifying = [t \in Tasks |-> NoCall]
  BY DEF Init, Owner, Notifying
<1> QED
  BY <1>2, <1>3, <1>4 DEF Contract!Init, Contract!NoCall, NoCall

LEMMA NextRefines ==
  IInv /\ IInv' /\ ~TimedWaits /\ [Next]_vars => [Contract!Next]_<<Owner, Waiting, Woken, Notifying>>
<1> SUFFICES ASSUME IInv, IInv', ~TimedWaits, [Next]_vars,
                    ~UNCHANGED <<Owner, Waiting, Woken, Notifying>>
             PROVE  Contract!Next
  OBVIOUS
<1>1. ASSUME NEW t \in Tasks, Program(t) PROVE Contract!Next
  <2>1. ASSUME NEW m \in Mutexes, Lock(t, m) \/ Unlock(t, m) PROVE Contract!Next
    BY <2>1, MutexRefines DEF Contract!Next
  <2>2. ASSUME NEW k \in WaitKinds \cup NotifyKinds, NEW v \in CVs, Enter(t, k, v) PROVE Contract!Next
    BY <2>2, EnterRefines DEF Contract!Next, NotifyKinds
  <2> QED
    BY <1>1, <2>1, <2>2 DEF Program
<1>2. ASSUME NEW t \in Tasks, Library(t) PROVE Contract!Next
  <2>1. ASSUME CondLock(t) \/ Front(t) \/ Pop(t) PROVE Contract!Next
    BY <2>1, CondLockRefines, FrontRefines, PopRefines DEF Contract!Next
  <2>2. ASSUME Push(t) \/ MutexTake(t) PROVE Contract!Next
    BY <2>2, PushRefines, MutexTakeRefines DEF Contract!Next
  <2>3. ~(MutexGive(t) \/ TakeEnter(t) \/ TakeExit(t) \/ Give(t) \/ Release(t))
    BY WaitNotSeen, GiveNotSeen, ReleaseNotSeen
  <2> QED
    BY <1>2, <2>1, <2>2, <2>3, NoTimeouts DEF Library
<1>3. ASSUME UNCHANGED vars PROVE FALSE
  BY <1>3 DEF vars, Owner, Waiting, Woken, Notifying, Queued, Inside, BroadcastRuns
<1> QED
  BY <1>1, <1>2, <1>3, NoTimeouts DEF Next

(* The queue of handles, its semaphore and the notification counts behave  *)
(* as a condition variable whose wait releases the mutex and starts to     *)
(* wait in one step, and whose notifications take effect in one step.      *)
THEOREM CondVarImplementsContract == ASSUME ~TimedWaits PROVE Spec => ImplementsContract
<1>1. IInv /\ IInv' /\ [Next]_vars => [Contract!Next]_(Contract!cvars)
  BY NextRefines DEF Contract!cvars
<1> QED
  BY InitRefines, InductiveInvariant, <1>1, PTL DEF Spec, ImplementsContract, Contract!Spec
=============================================================================
