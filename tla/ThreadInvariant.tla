-------------------------- MODULE ThreadInvariant --------------------------
(***************************************************************************)
(* The inductive invariant of ThreadLifecycle, for a heap that does not    *)
(* give out a TCB address while an object stores it and a kernel that does *)
(* not switch tasks inside a critical section.                             *)
(***************************************************************************)
EXTENDS ThreadLifecycle

(* The four things a place can store.                                      *)
Empty(p) == obj[p] = NoHandle

(* create_thread has made the event group but not the task.                *)
BeingCreated(p) ==
  /\ obj[p].task = Null /\ ~obj[p].owner
  /\ obj[p].arg \in Threads /\ pc[obj[p].arg] = "creating"
  /\ obj[p].ev \in live /\ bits[obj[p].ev] = {}

RefersTo(p, states) ==
  /\ obj[p].task \in TaskAddr
  /\ obj[p].arg \in Threads
  /\ at[obj[p].arg] = obj[p].task
  /\ pc[obj[p].arg] \in states

Owner(p) == obj[p].owner /\ RefersTo(p, Alive \cup {"dead"}) /\ obj[p].ev \in live

(* detach has released the group, but not yet cleared the handle.          *)
LetGo(p) == ~obj[p].owner /\ RefersTo(p, (Alive \cup {"dead"}) \ {"ready", "copied"})

HasGroup(p) == obj[p].arg # Null /\ (obj[p].owner \/ obj[p].task = Null)

(* What each call knows about its objects.                                 *)
CallInv(c) ==
  /\ op[c] = "idle" => dst[c] = Null /\ src[c] = Null
  /\ op[c] # "idle" => dst[c] \in Objects /\ src[c] \in Objects
  /\ op[c] # "publish"
  /\ op[c] = "create" => BeingCreated(dst[c])
  /\ op[c] \in {"join", "joined", "detach", "started"} => Owner(dst[c])
  /\ op[c] = "joined" => pc[obj[dst[c]].arg] \in {"notified", "dead"}
  /\ op[c] = "started" => pc[obj[dst[c]].arg] \notin {"ready", "copied"}
  /\ op[c] = "detached" => \/ LetGo(dst[c])
                           \/ Owner(dst[c]) /\ pc[obj[dst[c]].arg] = "dead"
  /\ op[c] = "swap2" => Empty(dst[c])
  /\ op[c] = "swap3" => Empty(src[c])
  /\ op[c] \notin {"swap2", "swap3"} => Empty(c)

CallsApart ==
  \A c, d \in Clients : c # d /\ op[c] # "idle" /\ op[d] # "idle" =>
    /\ dst[c] # dst[d]
    /\ dst[c] # src[d]
    /\ src[c] # src[d]

PlaceInv(p) ==
  \/ Empty(p)
  \/ Owner(p)
  \/ BeingCreated(p) /\ \E c \in Clients : op[c] = "create" /\ dst[c] = p
  \/ LetGo(p) /\ \E c \in Clients : op[c] = "detached" /\ dst[c] = p

(* No two places hold one thread, one task or one group.                   *)
PlacesApart ==
  \A p, q \in Places : p # q =>
    /\ obj[p].arg # Null => obj[p].arg # obj[q].arg
    /\ obj[p].task # Null => obj[p].task # obj[q].task
    /\ HasGroup(p) /\ HasGroup(q) => obj[p].ev # obj[q].ev

GroupsHeld == \A e \in live : \E p \in Places : HasGroup(p) /\ obj[p].ev = e

(* Tasks and threads point at each other.                                  *)
TaskInv(a) ==
  tcb[a].st # "free" =>
    /\ tcb[a].thr \in Threads
    /\ at[tcb[a].thr] = a
    /\ tcb[a].st = "live" => pc[tcb[a].thr] \in Alive
    /\ tcb[a].st = "dying" => pc[tcb[a].thr] = "dead"

(* A stored TCB address never came to belong to another thread.            *)
AddressesFresh ==
  \A p \in Places : obj[p].task # Null /\ tcb[obj[p].task].st # "free"
                      => tcb[obj[p].task].thr = obj[p].arg

ThreadInv(t) ==
  /\ pc[t] # "killed"
  /\ pc[t] \in Alive => at[t] \in TaskAddr /\ tcb[at[t]].st = "live" /\ tcb[at[t]].thr = t
  /\ pc[t] \in {"ready", "copied"} =>
       /\ param[t] \in Objects
       /\ Owner(param[t]) /\ obj[param[t]].arg = t
       /\ "started" \notin bits[obj[param[t]].ev]
       /\ pc[t] = "copied" => local[t].ev = obj[param[t]].ev
  /\ pc[t] \in Alive \ {"ready"} => local[t].task = at[t] /\ local[t].arg = t
  /\ pc[t] \in Alive /\ tcb[at[t]].tls # Null => \E p \in Places : obj[p].owner /\ obj[p].arg = t
  /\ pc[t] \in {"exiting", "notified", "dead"} => functor[t] = "freed"

OwnerInv(p) ==
  obj[p].owner =>
    /\ pc[obj[p].arg] \in Alive => tcb[obj[p].task].tls = obj[p].ev
    /\ "join" \in bits[obj[p].ev] => pc[obj[p].arg] \in {"notified", "dead"}

(* What every step preserves: the four forms of a stored handle, what each *)
(* call in progress knows about its objects (thread_gthread.h:144-368),    *)
(* and what the tasks and their routines know (thread.cpp:41-55).          *)
IInv ==
  /\ TypeOK
  /\ \A c \in Clients : CallInv(c)
  /\ CallsApart
  /\ \A p \in Places : PlaceInv(p)
  /\ PlacesApart
  /\ GroupsHeld
  /\ \A a \in TaskAddr : TaskInv(a)
  /\ AddressesFresh
  /\ \A t \in Threads : ThreadInv(t)
  /\ \A p \in Places : OwnerInv(p)
=============================================================================
