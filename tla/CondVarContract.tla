-------------------------- MODULE CondVarContract --------------------------
(***************************************************************************)
(* What a condition variable promises: wait releases the mutex and starts  *)
(* to wait in one step; a notification, in one step, wakes one of the      *)
(* tasks that wait at that moment, or all of them; a task returns from     *)
(* wait with the mutex, and only after it was woken.                       *)
(***************************************************************************)
CONSTANTS Tasks, CVs, Mutexes, MutexOf, Null

VARIABLES
  owner,      (* mutex -> the task that holds it, or Null                  *)
  waiting,    (* cv -> the tasks that wait on it                           *)
  woken,      (* cv -> the tasks woken and not yet back from wait          *)
  notifying   (* task -> the notification it has called for                *)

cvars == <<owner, waiting, woken, notifying>>

NoCall == [kind |-> "none", cv |-> Null]

Init ==
  /\ owner = [m \in Mutexes |-> Null]
  /\ waiting = [v \in CVs |-> {}]
  /\ woken = [v \in CVs |-> {}]
  /\ notifying = [t \in Tasks |-> NoCall]

InWait(t) == \E v \in CVs : t \in waiting[v] \cup woken[v]

Lock(t, m) ==
  /\ owner[m] = Null /\ ~InWait(t)
  /\ owner' = [owner EXCEPT ![m] = t]
  /\ UNCHANGED <<waiting, woken, notifying>>

Unlock(t, m) ==
  /\ owner[m] = t /\ ~InWait(t)
  /\ owner' = [owner EXCEPT ![m] = Null]
  /\ UNCHANGED <<waiting, woken, notifying>>

Wait(t, v) ==
  /\ owner[MutexOf[v]] = t /\ ~InWait(t)
  /\ owner' = [owner EXCEPT ![MutexOf[v]] = Null]
  /\ waiting' = [waiting EXCEPT ![v] = @ \cup {t}]
  /\ UNCHANGED <<woken, notifying>>

CallNotify(t, kind, v) ==
  /\ notifying[t] = NoCall
  /\ notifying' = [notifying EXCEPT ![t] = [kind |-> kind, cv |-> v]]
  /\ UNCHANGED <<owner, waiting, woken>>

Wake(v, W) ==
  /\ waiting' = [waiting EXCEPT ![v] = @ \ W]
  /\ woken' = [woken EXCEPT ![v] = @ \cup W]

Notify(t) ==
  LET v == notifying[t].cv
  IN  /\ notifying[t] # NoCall
      /\ \/ notifying[t].kind = "broadcast" /\ Wake(v, waiting[v])
         \/ notifying[t].kind = "signal" /\ \E u \in waiting[v] : Wake(v, {u})
         \/ waiting[v] = {} /\ UNCHANGED <<waiting, woken>>
      /\ notifying' = [notifying EXCEPT ![t] = NoCall]
      /\ UNCHANGED owner

Return(t, v) ==
  /\ t \in woken[v]
  /\ owner[MutexOf[v]] = Null
  /\ owner' = [owner EXCEPT ![MutexOf[v]] = t]
  /\ woken' = [woken EXCEPT ![v] = @ \ {t}]
  /\ UNCHANGED <<waiting, notifying>>

Next ==
  \E t \in Tasks :
    \/ \E m \in Mutexes : Lock(t, m) \/ Unlock(t, m)
    \/ \E v \in CVs : Wait(t, v) \/ Return(t, v)
    \/ \E kind \in {"signal", "broadcast"}, v \in CVs : CallNotify(t, kind, v)
    \/ Notify(t)

Spec == Init /\ [][Next]_cvars
=============================================================================
