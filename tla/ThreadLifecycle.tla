-------------------------- MODULE ThreadLifecycle --------------------------
(***************************************************************************)
(* The life of std::thread on FreeRTOS: the handle class gthr_freertos     *)
(* (src/FreeRTOS/cpp11_gcc/thread_gthread.h), the glue of std::thread      *)
(* (thread.cpp) and, of the kernel, what they call: task creation,         *)
(* deletion and reaping, thread local storage slot 0 and event groups.     *)
(*                                                                         *)
(* A client is an application task that operates on std::thread objects.   *)
(* The objects may be used by every client, but by one at a time: the      *)
(* C++ library asks that of the program.  A place is anything that stores  *)
(* a gthr_freertos: an object, or the local of a client's current call     *)
(* (the tmp of std::swap, the `invalid' of join and detach).               *)
(***************************************************************************)
EXTENDS Naturals, FiniteSets

CONSTANTS
  Clients,       (* application tasks                                      *)
  Objects,       (* addresses of std::thread objects                       *)
  Threads,       (* thread functors (thread::_State); each is started once *)
  TaskAddr,      (* addresses the heap can give to a TCB                   *)
  EvAddr,        (* addresses the heap can give to an event group          *)
  Null,
  AddressReuse,  (* TRUE: the heap may hand out a TCB address that a       *)
                 (* std::thread object still stores                        *)
  Urgent         (* threads of a higher priority than their creator, on a  *)
                 (* port whose portYIELD switches at once, inside a        *)
                 (* critical section too (CA9, RISC-V)                     *)

ASSUME PlacesDisjoint == Clients \cap Objects = {}
ASSUME NullIsFresh ==
  Null \notin Clients \cup Objects \cup Threads \cup TaskAddr \cup EvAddr
ASSUME EnvironmentIsChosen == AddressReuse \in BOOLEAN /\ Urgent \subseteq Threads

VARIABLES
  obj,      (* place -> the gthr_freertos stored there                     *)
  tcb,      (* TCB address -> task control block                           *)
  live,     (* addresses of the event groups that exist                    *)
  bits,     (* event group address -> event bits in that memory            *)
  pc,       (* thread -> where its native routine is                       *)
  at,       (* thread -> address of the TCB it runs on (pxCurrentTCB)      *)
  param,    (* thread -> pvParameters: `this' of create_thread             *)
  local,    (* thread -> `local', the routine's copy of the handle         *)
  functor,  (* thread -> its heap allocated thread::_State                 *)
  op,       (* client -> the library call it is in, and where              *)
  dst, src  (* client -> the object(s) of that call                        *)

vars == <<obj, tcb, live, bits, pc, at, param, local, functor, op, dst, src>>
taskVars == <<tcb, pc>>
evVars == <<live, bits>>
threadVars == <<at, param, local, functor>>

Places == Objects \cup Clients
Bits == {"started", "join"}
Handle == [task: TaskAddr \cup {Null}, ev: EvAddr \cup {Null},
           arg: Threads \cup {Null}, owner: BOOLEAN]
NoHandle == [task |-> Null, ev |-> Null, arg |-> Null, owner |-> FALSE]
Tcb == [st: {"free", "live", "dying"}, thr: Threads \cup {Null}, tls: EvAddr \cup {Null}]
FreeTcb == [st |-> "free", thr |-> Null, tls |-> Null]

(* Where a thread's routine is.  Up to "notified" its task exists.  "killed": *)
(* another task deleted it before it had signalled that it was finished.      *)
Alive == {"ready", "copied", "running", "returned", "exiting", "notified"}
ThreadPC == {"unborn", "creating"} \cup Alive \cup {"dead", "killed"}
OpPC == {"idle", "create", "publish", "join", "joined", "detach", "started",
         "detached", "swap1", "swap2", "swap3"}

Init ==
  /\ obj = [p \in Places |-> NoHandle]
  /\ tcb = [a \in TaskAddr |-> FreeTcb]
  /\ live = {}
  /\ bits = [e \in EvAddr |-> {}]
  /\ pc = [t \in Threads |-> "unborn"]
  /\ at = [t \in Threads |-> Null]
  /\ param = [t \in Threads |-> Null]
  /\ local = [t \in Threads |-> NoHandle]
  /\ functor = [t \in Threads |-> "none"]
  /\ op = [c \in Clients |-> "idle"]
  /\ dst = [c \in Clients |-> Null]
  /\ src = [c \in Clients |-> Null]

(***************************************************************************)
(* Kernel services.                                                        *)
(***************************************************************************)

(* xEventGroupWaitBits(h.ev, need, pdFALSE, pdTRUE, portMAX_DELAY), looped  *)
(* until it returns non-zero: enabled when the wait is over.                *)
Signalled(h, need) == h.ev # Null /\ need \subseteq bits[h.ev]

(* Mutant: the bit replaces the others.                                    *)
SetBitOverwrites(e, b) == bits' = [bits EXCEPT ![e] = {b}]

(* xEventGroupSetBits: a write to that memory, whoever owns it now.         *)
SetBit(e, b) == bits' = [bits EXCEPT ![e] = @ \cup {b}]

(* eTaskGetState(a) # eDeleted.  A TCB that was freed still reads as        *)
(* deleted (heap_4 leaves its list pointers alone) until it is given to a   *)
(* new task; the call then answers for that task.                           *)
TaskExists(a) == a # Null /\ tcb[a].st = "live"

(* vTaskDelete(a) from another task: the TCB is freed at once.              *)
DeleteTask(a) ==
  /\ tcb' = [tcb EXCEPT ![a] = FreeTcb]
  /\ pc' = [pc EXCEPT ![tcb[a].thr] = IF @ = "notified" THEN "dead" ELSE "killed"]

(* vEventGroupDelete(e)                                                     *)
DeleteGroup(e) == live' = live \ {e}

(***************************************************************************)
(* Moving handles: the move constructor and the move assignment.           *)
(***************************************************************************)

(* Mutant: the source keeps its handles and its ownership.                 *)
MoveKeepsSource(p, q) == obj' = [obj EXCEPT ![q] = obj[p]]

(* move(): q takes what p stores; p becomes empty.                          *)
Move(p, q) == obj' = [obj EXCEPT ![q] = obj[p], ![p] = NoHandle]

(* An owner is moved from only after its thread has made its own copies.    *)
WaitForStart(p) == obj[p].owner => Signalled(obj[p], {"started"})

(* Mutant: xClearOnExit is pdTRUE in the wait for the start.               *)
MoveConstructClearsEvent(p, q) ==
  /\ WaitForStart(p)
  /\ Move(p, q)
  /\ bits' = [e \in EvAddr |-> IF e = obj[p].ev THEN bits[e] \ {"started"} ELSE bits[e]]
  /\ UNCHANGED <<taskVars, live>>

(* gthr_freertos(gthr_freertos &&) into the empty place q                   *)
MoveConstruct(p, q) ==
  /\ WaitForStart(p)
  /\ Move(p, q)
  /\ UNCHANGED <<taskVars, evVars>>

(* operator=(gthr_freertos &&): an owner that is overwritten deletes its    *)
(* task, unless that is deleted already, and its event group.               *)
DropOwned(q) ==
  /\ IF TaskExists(obj[q].task) THEN DeleteTask(obj[q].task) ELSE UNCHANGED taskVars
  /\ IF obj[q].ev # Null THEN DeleteGroup(obj[q].ev) ELSE UNCHANGED live
  /\ UNCHANGED bits

MoveAssign(p, q) ==
  \/ p = q /\ UNCHANGED <<obj, taskVars, evVars>>
  \/ p # q /\ obj[q].owner /\ DropOwned(q) /\ Move(p, q)
  \/ p # q /\ ~obj[q].owner /\ WaitForStart(p) /\ Move(p, q)
     /\ UNCHANGED <<taskVars, evVars>>

(***************************************************************************)
(* Client calls.                                                           *)
(***************************************************************************)
InUse(o) == \E c \in Clients : op[c] # "idle" /\ o \in {dst[c], src[c]}

Goto(c, from, to) == op[c] = from /\ op' = [op EXCEPT ![c] = to]

Begin(c, name, x, y) ==
  /\ Goto(c, "idle", name)
  /\ ~InUse(x) /\ ~InUse(y)
  /\ dst' = [dst EXCEPT ![c] = x]
  /\ src' = [src EXCEPT ![c] = y]

SameCall(c, from, to) == Goto(c, from, to) /\ UNCHANGED <<dst, src>>

End(c, from) ==
  /\ Goto(c, from, "idle")
  /\ dst' = [dst EXCEPT ![c] = Null]
  /\ src' = [src EXCEPT ![c] = Null]

(* std::thread{f}: the State t is allocated, _M_start_thread calls         *)
(* create_thread, which stores arg and a new event group in the object.    *)
CreateEventGroup(c, o, t) ==
  /\ Begin(c, "create", o, o)
  /\ obj[o] = NoHandle
  /\ pc[t] = "unborn"
  /\ \E e \in EvAddr \ live :
       /\ live' = live \cup {e}
       /\ bits' = [bits EXCEPT ![e] = {}]
       /\ obj' = [obj EXCEPT ![o] = [@ EXCEPT !.ev = e, !.arg = t]]
  /\ pc' = [pc EXCEPT ![t] = "creating"]
  /\ functor' = [functor EXCEPT ![t] = "live"]
  /\ UNCHANGED <<tcb, at, param, local>>

(* xTaskCreate(foo, ..., this, ...): what the routine gets is the object.  *)
TaskParameter(c) == dst[c]

(* xTaskCreate switches to the new task before it returns.                 *)
CreateYields(c) == obj[dst[c]].arg \in Urgent

(* Slot 0 of the local storage when the new task can first run.            *)
SlotAtStart(c) == IF CreateYields(c) THEN Null ELSE obj[dst[c]].ev

(* The critical section of create_thread: xTaskCreate, then slot 0 of the  *)
(* local storage and the ownership flag.  If the kernel switches to the    *)
(* new task inside xTaskCreate, the last two come later (PublishHandle).   *)
CreateTask(c) ==
  LET o == dst[c]
      t == obj[o].arg
  IN  /\ op[c] = "create"
      /\ IF CreateYields(c) THEN SameCall(c, "create", "publish") ELSE End(c, "create")
      /\ \E a \in TaskAddr :
           /\ tcb[a].st = "free"
           /\ AddressReuse \/ \A p \in Places : obj[p].task # a
           /\ tcb' = [tcb EXCEPT ![a] = [st |-> "live", thr |-> t, tls |-> SlotAtStart(c)]]
           /\ obj' = [obj EXCEPT ![o] = [@ EXCEPT !.task = a, !.owner = ~CreateYields(c)]]
           /\ at' = [at EXCEPT ![t] = a]
      /\ param' = [param EXCEPT ![t] = TaskParameter(c)]
      /\ pc' = [pc EXCEPT ![t] = "ready"]
      /\ UNCHANGED <<evVars, local, functor>>

(* The creator resumes once the new task, of higher priority, is blocked   *)
(* in its function or gone.                                                *)
PublishHandle(c) ==
  LET o == dst[c]
  IN  /\ End(c, "publish")
      /\ pc[obj[o].arg] \in {"running", "dead"}
      /\ tcb' = [tcb EXCEPT ![obj[o].task].tls = obj[o].ev]
      /\ obj' = [obj EXCEPT ![o].owner = TRUE]
      /\ UNCHANGED <<evVars, pc, threadVars>>

(* Mutant: join waits for the start only.                                  *)
JoinBitsStartOnly == {"started"}

(* The bits join waits for, both of them.                                  *)
JoinBits == {"join", "started"}

(* thread::join: EINVAL unless the object is joinable; then wait.          *)
JoinCall(c, o) ==
  /\ Begin(c, "join", o, o)
  /\ obj[o].task # obj[c].task
  /\ UNCHANGED <<obj, taskVars, evVars, threadVars>>

JoinWait(c) ==
  /\ SameCall(c, "join", "joined")
  /\ Signalled(obj[dst[c]], JoinBits)
  /\ UNCHANGED <<obj, taskVars, evVars, threadVars>>

(* thread::detach: EINVAL unless joinable; wait_for_start; then take the   *)
(* event group away from the thread.                                       *)
DetachCall(c, o) ==
  /\ Begin(c, "detach", o, o)
  /\ obj[o].task # obj[c].task
  /\ UNCHANGED <<obj, taskVars, evVars, threadVars>>

DetachWait(c) ==
  /\ SameCall(c, "detach", "started")
  /\ Signalled(obj[dst[c]], {"started"})
  /\ UNCHANGED <<obj, taskVars, evVars, threadVars>>

(* Mutant: the thread is left with the handle of the deleted group.        *)
KeepSlot(a) == UNCHANGED tcb

(* vTaskSetThreadLocalStoragePointer(a, eEvStoragePos, nullptr)            *)
ClearSlot(a) == tcb' = [tcb EXCEPT ![a].tls = Null]

(* Mutant: ownership is given up also when the task is gone.               *)
DetachDropsOwnership(c) ==
  LET o == dst[c]
  IN  /\ SameCall(c, "started", "detached")
      /\ IF TaskExists(obj[o].task)
           THEN ClearSlot(obj[o].task) /\ DeleteGroup(obj[o].ev)
           ELSE UNCHANGED <<tcb, live>>
      /\ obj' = [obj EXCEPT ![o].owner = FALSE]
      /\ UNCHANGED <<bits, pc, threadVars>>

(* The critical section of detach.                                         *)
DetachCritical(c) ==
  LET o == dst[c]
  IN  /\ SameCall(c, "started", "detached")
      /\ IF TaskExists(obj[o].task)
           THEN /\ ClearSlot(obj[o].task)
                /\ DeleteGroup(obj[o].ev)
                /\ obj' = [obj EXCEPT ![o].owner = FALSE]
           ELSE UNCHANGED <<tcb, live, obj>>
      /\ UNCHANGED <<bits, pc, threadVars>>

(* `_M_id = std::move(invalid)', the last statement of join and detach.    *)
AssignInvalid(c) ==
  /\ \/ End(c, "joined")
     \/ End(c, "detached")
  /\ MoveAssign(c, dst[c])
  /\ UNCHANGED threadVars

(* thread::swap, which is also what the move constructor and the move      *)
(* assignment of std::thread do:                                           *)
(*   tmp = move(x); x = move(y); y = move(tmp)                             *)
SwapCall(c, x, y) ==
  /\ Begin(c, "swap1", x, y)
  /\ UNCHANGED <<obj, taskVars, evVars, threadVars>>

Swap1(c) ==
  /\ SameCall(c, "swap1", "swap2")
  /\ MoveConstruct(dst[c], c)
  /\ UNCHANGED threadVars

Swap2(c) ==
  /\ SameCall(c, "swap2", "swap3")
  /\ MoveAssign(src[c], dst[c])
  /\ UNCHANGED threadVars

Swap3(c) ==
  /\ End(c, "swap3")
  /\ MoveAssign(c, src[c])
  /\ UNCHANGED threadVars

(***************************************************************************)
(* The native routine of a thread, __execute_native_thread_routine.        *)
(***************************************************************************)
Step(t, from, to) == pc[t] = from /\ pc' = [pc EXCEPT ![t] = to]

(* `local{*__p}': the copy constructor, from the object it was created in. *)
CopyHandle(t) ==
  /\ Step(t, "ready", "copied")
  /\ local' = [local EXCEPT ![t] = [obj[param[t]] EXCEPT !.owner = FALSE]]
  /\ UNCHANGED <<obj, tcb, evVars, at, param, functor, op, dst, src>>

NotifyStarted(t) ==
  /\ Step(t, "copied", "running")
  /\ SetBit(local[t].ev, "started")
  /\ UNCHANGED <<obj, tcb, live, threadVars, op, dst, src>>

(* The user's function returns.                                            *)
Return(t) ==
  /\ Step(t, "running", "returned")
  /\ UNCHANGED <<obj, tcb, evVars, threadVars, op, dst, src>>

(* The end of the block that owns the State; then the at-exit callbacks.   *)
DeleteState(t) ==
  /\ Step(t, "returned", "exiting")
  /\ functor' = [functor EXCEPT ![local[t].arg] = "freed"]
  /\ UNCHANGED <<obj, tcb, evVars, at, param, local, op, dst, src>>

(* notify_joined's critical section: slot 0 says whom to tell, if anyone.  *)
NotifyJoined(t) ==
  LET e == tcb[local[t].task].tls
  IN  /\ Step(t, "exiting", "notified")
      /\ IF e # Null THEN SetBit(e, "join") ELSE UNCHANGED bits
      /\ UNCHANGED <<obj, tcb, live, threadVars, op, dst, src>>

(* Mutant: the routine returns to the kernel without deleting its task.    *)
DeleteSelfForgotten(t) ==
  /\ Step(t, "notified", "dead")
  /\ UNCHANGED <<obj, tcb, evVars, threadVars, op, dst, src>>

(* vTaskDelete(nullptr): onto xTasksWaitingTermination.                    *)
DeleteSelf(t) ==
  /\ Step(t, "notified", "dead")
  /\ tcb' = [tcb EXCEPT ![at[t]].st = "dying"]
  /\ UNCHANGED <<obj, evVars, threadVars, op, dst, src>>

(* The idle task, of the lowest priority, frees the TCBs of tasks that     *)
(* deleted themselves.  It runs when the others are blocked: application   *)
(* code may block at any time, library code only where it waits.           *)
Waits(c) ==
  \/ op[c] = "join" /\ ~Signalled(obj[dst[c]], JoinBits)
  \/ op[c] = "detach" /\ ~Signalled(obj[dst[c]], {"started"})
  \/ op[c] = "swap1" /\ ~WaitForStart(dst[c])
  \/ op[c] = "swap2" /\ ~WaitForStart(src[c])

IdleTaskRuns ==
  /\ \A c \in Clients : op[c] = "idle" \/ Waits(c)
  /\ \A t \in Threads : pc[t] \notin {"ready", "copied", "notified"}

Reap(a) ==
  /\ tcb[a].st = "dying"
  /\ IdleTaskRuns
  /\ tcb' = [tcb EXCEPT ![a] = FreeTcb]
  /\ UNCHANGED <<obj, evVars, pc, threadVars, op, dst, src>>

(***************************************************************************)
(* The specification.                                                      *)
(***************************************************************************)
Call(c) ==
  \/ \E o \in Objects, t \in Threads : CreateEventGroup(c, o, t)
  \/ \E o \in Objects : JoinCall(c, o) \/ DetachCall(c, o)
  \/ \E x, y \in Objects : SwapCall(c, x, y)

Continue(c) ==
  \/ CreateTask(c) \/ PublishHandle(c)
  \/ JoinWait(c) \/ DetachWait(c) \/ DetachCritical(c) \/ AssignInvalid(c)
  \/ Swap1(c) \/ Swap2(c) \/ Swap3(c)

Routine(t) ==
  \/ CopyHandle(t) \/ NotifyStarted(t) \/ DeleteState(t)
  \/ NotifyJoined(t) \/ DeleteSelf(t)

Next ==
  \/ \E c \in Clients : Call(c) \/ Continue(c)
  \/ \E t \in Threads : Routine(t) \/ Return(t)
  \/ \E a \in TaskAddr : Reap(a)

Spec == Init /\ [][Next]_vars

(* Tasks of one priority are time sliced, so library code that can run is  *)
(* run.  The idle task reaps if the application blocks again and again.    *)
(* What the application does (Call) and whether a thread's function ever   *)
(* returns (Return) is its own affair: no fairness.                        *)
Fairness ==
  /\ \A c \in Clients : WF_vars(Continue(c))
  /\ \A t \in Threads : WF_vars(Routine(t))
  /\ \A a \in TaskAddr : SF_vars(Reap(a))

FairSpec == Spec /\ Fairness

(***************************************************************************)
(* Properties.                                                             *)
(***************************************************************************)
TypeOK ==
  /\ obj \in [Places -> Handle]
  /\ tcb \in [TaskAddr -> Tcb]
  /\ live \subseteq EvAddr
  /\ bits \in [EvAddr -> SUBSET Bits]
  /\ pc \in [Threads -> ThreadPC]
  /\ at \in [Threads -> TaskAddr \cup {Null}]
  /\ param \in [Threads -> Objects \cup {Null}]
  /\ local \in [Threads -> Handle]
  /\ functor \in [Threads -> {"none", "live", "freed"}]
  /\ op \in [Clients -> OpPC]
  /\ dst \in [Clients -> Objects \cup {Null}]
  /\ src \in [Clients -> Objects \cup {Null}]

(* No library call deletes a task before that task has said it is finished *)
(* (thread_gthread.h:330, `vTaskDelete(_taskHandle)').                     *)
NoThreadKilled == \A t \in Threads : pc[t] # "killed"

(* A client waits only for bits of an event group that exists and that its *)
(* own thread will signal; a thread signals only a group that still exists *)
(* and that the object holding this thread waits on.                       *)
GroupOf(t, e) == e \in live /\ \E p \in Places : obj[p].arg = t /\ obj[p].ev = e

EventsReachOwnGroup ==
  /\ \A c \in Clients : op[c] \in {"join", "detach"} => GroupOf(obj[dst[c]].arg, obj[dst[c]].ev)
  /\ \A t \in Threads :
       /\ pc[t] = "copied" => GroupOf(t, local[t].ev)
       /\ pc[t] = "exiting" /\ tcb[local[t].task].tls # Null
            => GroupOf(t, tcb[local[t].task].tls)

(* What the routine copied is the handle of its own task and its own State: *)
(* no move may empty or replace the object before the copy is made.         *)
CopyIsOwnHandle ==
  \A t \in Threads : pc[t] \in Alive \ {"ready"} => local[t].task = at[t] /\ local[t].arg = t

(* join() lets its caller go on only after the function has returned, its  *)
(* State is destroyed and the at-exit callbacks have run.                  *)
JoinedIsFinished ==
  \A c \in Clients : op[c] = "joined" =>
    LET t == obj[dst[c]].arg
    IN  t \in Threads /\ pc[t] \in {"notified", "dead"} /\ functor[t] = "freed"

(* At most one place owns a task and an event group, whatever moves are    *)
(* half done: a second owner would delete them twice.                      *)
SoleOwner ==
  \A p, q \in Places :
    p # q /\ obj[p].owner /\ obj[q].owner
      => obj[p].task # obj[q].task /\ obj[p].ev # obj[q].ev

(* No event group leaks: whichever call is under way, each one that exists *)
(* is stored in the place that will delete it.                             *)
NoGroupLeaks ==
  \A e \in live : \E p \in Places :
    /\ obj[p].ev = e
    /\ obj[p].owner \/ \E c \in Clients : op[c] \in {"create", "publish"} /\ dst[c] = p

(* While a started thread can be joined or detached, its local storage     *)
(* names the event group of the handle (README.md:846-849: the critical    *)
(* section makes sure the thread does not start before it is stored).      *)
HandleStoredBeforeStart ==
  \A p \in Places : \A t \in Threads :
    /\ obj[p].arg = t
    /\ pc[t] \in Alive \ {"ready"}
    /\ ~\E c \in Clients : op[c] = "detached" /\ dst[c] = p
    => tcb[at[t]].tls = obj[p].ev

(* Detach, swap and moves end even if no thread function ever returns.     *)
CallsComplete ==
  \A c \in Clients :
    op[c] \in {"create", "detach", "started", "detached", "swap1", "swap2", "swap3", "joined"}
      ~> op[c] = "idle"

(* A join ends once the function of the thread it waits for has returned,  *)
(* if the thread then finds whom to tell in its local storage or has told  *)
(* already, be it before the join began.                                   *)
Tells(t, e) ==
  \/ pc[t] \in {"returned", "exiting"} /\ tcb[at[t]].tls = e
  \/ pc[t] \in {"notified", "dead"} /\ "join" \in bits[e]

JoinsComplete ==
  \A c \in Clients :
    op[c] = "join" /\ Tells(obj[dst[c]].arg, obj[dst[c]].ev) ~> op[c] = "idle"

(* A finished thread's stack and control block are freed, joined or not.   *)
TasksReclaimed ==
  \A t \in Threads : pc[t] = "returned" ~> \A a \in TaskAddr : tcb[a].thr # t

(* What a place holds, how far a thread is and what call a client is in, as *)
(* the contract of std::thread sees them.                                   *)
Hold == [p \in Places |-> IF obj[p].task = Null THEN Null ELSE obj[p].arg]

Life ==
  [t \in Threads |->
     CASE pc[t] \in {"unborn", "creating"} -> "unborn"
       [] pc[t] \in {"notified", "dead"} -> "finished"
       [] pc[t] = "killed" -> "killed"
       [] OTHER -> "running"]

JoinOrDetach ==
  [c \in Clients |->
     CASE op[c] \in {"join", "joined"} -> [kind |-> "join", obj |-> dst[c]]
       [] op[c] \in {"detach", "started", "detached"} -> [kind |-> "detach", obj |-> dst[c]]
       [] OTHER -> [kind |-> "none", obj |-> Null]]

Contract == INSTANCE ThreadContract WITH hold <- Hold, life <- Life, call <- JoinOrDetach

(* The handles, tasks and event groups do what std::thread promises: every *)
(* step of theirs is one of the contract or invisible to it.               *)
ImplementsContract == Contract!Spec
=============================================================================
