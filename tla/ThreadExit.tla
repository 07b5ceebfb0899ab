----------------------------- MODULE ThreadExit -----------------------------
(***************************************************************************)
(* What runs when a thread ends: notify_all_at_thread_exit and             *)
(* set_value_at_thread_exit put an element on the list of their thread     *)
(* (__at_thread_exit, libstdc++_gcc/v13/condition_variable.cc); the list   *)
(* is the thread specific value of the one key there is (gthr_key.cpp),    *)
(* kept in a map from task handles (gthr_key_type.h); the native routine   *)
(* of the thread takes it out of the map and runs it (thread.cpp).         *)
(*                                                                         *)
(* A TCB address is given to a new task when the one before it is gone.    *)
(***************************************************************************)
EXTENDS Naturals

CONSTANTS
  Threads,
  Addrs,        (* TCB addresses, the task handles                         *)
  Null,
  MaxElements,  (* bound: calls of __at_thread_exit per thread             *)
  Reenter       (* TRUE: a callback may call __at_thread_exit itself       *)

Elements == Threads \X (1..MaxElements)

ASSUME NullIsFresh == Null \notin Threads \cup Addrs \cup Elements
ASSUME Bounds == MaxElements \in Nat /\ Reenter \in BOOLEAN

VARIABLES
  sKey,    (* whether s_key points to a Key                                *)
  key,     (* whether `key' of condition_variable.cc points to it          *)
  onceV, onceM,  (* the static once of __at_thread_exit: Once::v, and the
                    thread that holds Once::m, or Null                     *)
  value,   (* address -> Key::_specValue[address], or Null: no entry       *)
  next,    (* element -> _M_next                                           *)
  state,   (* element -> "new", "linked" or "deleted"; "late" if a         *)
           (* callback, not the function of the thread, linked it          *)
  elt,     (* thread -> what it works on: the element it registers         *)
  list,    (* thread -> the element that the loop of run runs next         *)
  cur,     (* thread -> the element whose callback it runs                 *)
  addr,    (* thread -> the address of its TCB                             *)
  pc       (* thread -> where it is                                        *)

vars == <<sKey, key, onceV, onceM, value, next, state, elt, list, cur, addr, pc>>
keys == <<sKey, key>>
once == <<onceV, onceM>>

PC == {"unborn", "function", "once", "swap", "create", "store", "give", "get", "set",
       "returned", "take", "loop", "callback", "joined", "gone"}

Init ==
  /\ sKey = FALSE /\ key = FALSE
  /\ onceV = FALSE /\ onceM = Null
  /\ value = [a \in Addrs |-> Null]
  /\ next = [e \in Elements |-> Null]
  /\ state = [e \in Elements |-> "new"]
  /\ elt = [t \in Threads |-> Null]
  /\ list = [t \in Threads |-> Null]
  /\ cur = [t \in Threads |-> Null]
  /\ addr = [t \in Threads |-> Null]
  /\ pc = [t \in Threads |-> "unborn"]

Step(t, from, to) == pc[t] = from /\ pc' = [pc EXCEPT ![t] = to]

(* Where __at_thread_exit returns to.                                      *)
Caller(t) == IF cur[t] = Null THEN "function" ELSE "callback"

(***************************************************************************)
(* The kernel and the program.                                             *)
(***************************************************************************)

(* xTaskCreate takes memory that no task uses.                             *)
Start(t, a) ==
  /\ Step(t, "unborn", "function")
  /\ \A u \in Threads : addr[u] = a => pc[u] = "gone"
  /\ addr' = [addr EXCEPT ![t] = a]
  /\ UNCHANGED <<keys, once, value, next, state, elt, list, cur>>

(* __at_thread_exit(e)                                                     *)
Register(t, e) ==
  /\ \/ Step(t, "function", "once")
     \/ Step(t, "callback", "once") /\ Reenter
  /\ e[1] = t /\ state[e] = "new"
  /\ \A i \in 1..(e[2] - 1) : state[<<t, i>>] # "new"
  /\ state' = [state EXCEPT ![e] = IF pc[t] = "function" THEN "linked" ELSE "late"]
  /\ elt' = [elt EXCEPT ![t] = e]
  /\ UNCHANGED <<keys, once, value, next, list, cur, addr>>

Return(t) ==
  /\ Step(t, "function", "returned")
  /\ UNCHANGED <<keys, once, value, next, state, elt, list, cur, addr>>

(***************************************************************************)
(* __gthread_once(&once, key_init)                                         *)
(***************************************************************************)

OnceTake(t) ==
  /\ Step(t, "once", "swap")
  /\ onceM = Null
  /\ onceM' = t
  /\ UNCHANGED <<keys, onceV, value, next, state, elt, list, cur, addr>>

OnceSwap(t) ==
  /\ \/ Step(t, "swap", "create") /\ ~onceV
     \/ Step(t, "swap", "give") /\ onceV
  /\ onceV' = TRUE
  /\ UNCHANGED <<keys, onceM, value, next, state, elt, list, cur, addr>>

(* key_init, freertos_gthread_key_create: s_key is seen by threads that    *)
(* end before `key' is stored.                                             *)
KeyCreate(t) ==
  /\ Step(t, "create", "store")
  /\ sKey' = TRUE
  /\ value' = [a \in Addrs |-> Null]
  /\ UNCHANGED <<key, once, next, state, elt, list, cur, addr>>

KeyStore(t) ==
  /\ Step(t, "store", "give")
  /\ key' = TRUE
  /\ UNCHANGED <<sKey, once, value, next, state, elt, list, cur, addr>>

OnceGive(t) ==
  /\ Step(t, "give", "get")
  /\ onceM' = Null
  /\ UNCHANGED <<keys, onceV, value, next, state, elt, list, cur, addr>>

(***************************************************************************)
(* The rest of __at_thread_exit: getspecific and setspecific, each with    *)
(* the key's mutex held.                                                   *)
(***************************************************************************)

(* Mutant: the old list is not linked to the new element.                  *)
GetSpecificDropsList(t) ==
  /\ Step(t, "get", "set")
  /\ UNCHANGED <<keys, once, value, next, state, elt, list, cur, addr>>

(* Mutant: _M_next is read after the value was set.                        *)
GetSpecificLate(t) ==
  /\ Step(t, "get", "set")
  /\ next' = [next EXCEPT ![elt[t]] = elt[t]]
  /\ UNCHANGED <<keys, once, value, state, elt, list, cur, addr>>

GetSpecific(t) ==
  /\ Step(t, "get", "set")
  /\ next' = [next EXCEPT ![elt[t]] = value[addr[t]]]
  /\ UNCHANGED <<keys, once, value, state, elt, list, cur, addr>>

SetSpecific(t) ==
  /\ pc[t] = "set"
  /\ pc' = [pc EXCEPT ![t] = Caller(t)]
  /\ value' = [value EXCEPT ![addr[t]] = elt[t]]
  /\ elt' = [elt EXCEPT ![t] = Null]
  /\ UNCHANGED <<keys, once, next, state, list, cur, addr>>

(***************************************************************************)
(* __execute_native_thread_routine after _M_run                            *)
(***************************************************************************)

(* if (s_key)                                                              *)
TestKey(t) ==
  /\ \/ Step(t, "returned", "take") /\ sKey
     \/ Step(t, "returned", "joined") /\ ~sKey
  /\ UNCHANGED <<keys, once, value, next, state, elt, list, cur, addr>>

(* Mutant: the value stays in the map.                                     *)
TakeValueKeepsEntry(t) ==
  /\ \/ Step(t, "take", "joined") /\ value[addr[t]] = Null
     \/ Step(t, "take", "loop") /\ value[addr[t]] # Null
  /\ list' = [list EXCEPT ![t] = value[addr[t]]]
  /\ UNCHANGED <<keys, once, value, next, state, elt, cur, addr>>

(* Key::CallDestructor: find and erase, with the mutex held.               *)
TakeValue(t) ==
  /\ \/ Step(t, "take", "joined") /\ value[addr[t]] = Null
     \/ Step(t, "take", "loop") /\ value[addr[t]] # Null
  /\ list' = [list EXCEPT ![t] = value[addr[t]]]
  /\ value' = [value EXCEPT ![addr[t]] = Null]
  /\ UNCHANGED <<keys, once, next, state, elt, cur, addr>>

(* _desFoo is run: the loop over the list.  A callback deletes its own      *)
(* element, so _M_next is read before.                                     *)
Loop(t) ==
  /\ \/ Step(t, "loop", "joined") /\ list[t] = Null /\ UNCHANGED <<list, cur>>
     \/ /\ Step(t, "loop", "callback") /\ list[t] # Null
        /\ cur' = [cur EXCEPT ![t] = list[t]]
        /\ list' = [list EXCEPT ![t] = next[list[t]]]
  /\ UNCHANGED <<keys, once, value, next, state, elt, addr>>

CallbackEnds(t) ==
  /\ Step(t, "callback", "loop")
  /\ state' = [state EXCEPT ![cur[t]] = "deleted"]
  /\ cur' = [cur EXCEPT ![t] = Null]
  /\ UNCHANGED <<keys, once, value, next, elt, list, addr>>

(* notify_joined is done; the task deletes itself or its joiner does.      *)
Vanish(t) ==
  /\ Step(t, "joined", "gone")
  /\ UNCHANGED <<keys, once, value, next, state, elt, list, cur, addr>>

(***************************************************************************)
(* The specification.                                                      *)
(***************************************************************************)
Library(t) ==
  \/ OnceTake(t) \/ OnceSwap(t) \/ KeyCreate(t) \/ KeyStore(t) \/ OnceGive(t)
  \/ GetSpecific(t) \/ SetSpecific(t)
  \/ TestKey(t) \/ TakeValue(t) \/ Loop(t) \/ CallbackEnds(t) \/ Vanish(t)

Next ==
  \E t \in Threads :
    \/ \E a \in Addrs : Start(t, a)
    \/ \E e \in Elements : Register(t, e)
    \/ Return(t)
    \/ Library(t)

Spec == Init /\ [][Next]_vars

(* Tasks that can run are run; callbacks return.  Each thread takes the    *)
(* mutex of the once a bounded number of times.                            *)
FairSpec == Spec /\ \A t \in Threads : WF_vars(Library(t))

(***************************************************************************)
(* Properties.                                                             *)
(***************************************************************************)
TypeOK ==
  /\ sKey \in BOOLEAN /\ key \in BOOLEAN
  /\ onceV \in BOOLEAN /\ onceM \in Threads \cup {Null}
  /\ value \in [Addrs -> Elements \cup {Null}]
  /\ next \in [Elements -> Elements \cup {Null}]
  /\ state \in [Elements -> {"new", "linked", "late", "deleted"}]
  /\ elt \in [Threads -> Elements \cup {Null}]
  /\ list \in [Threads -> Elements \cup {Null}]
  /\ cur \in [Threads -> Elements \cup {Null}]
  /\ addr \in [Threads -> Addrs \cup {Null}]
  /\ pc \in [Threads -> PC]

(* The key is created once (gthr_key.cpp:33, `assert(!s_key)'), and is     *)
(* there for every thread that stores a value, however the first calls of  *)
(* __at_thread_exit overlap.                                               *)
KeyIsReady ==
  \A t \in Threads :
    /\ pc[t] = "create" => ~sKey
    /\ pc[t] \in {"get", "set"} => key

(* What the function of a thread has registered has run when the thread    *)
(* can be joined: nothing is lost between the map, the links and the loop, *)
(* whatever callbacks register meanwhile.                                  *)
CallbacksRunBeforeJoin ==
  \A t \in Threads : pc[t] \in {"joined", "gone"} =>
    \A e \in Elements : e[1] = t => state[e] # "linked"

(* A thread runs callbacks once and while they exist.  They are its own,   *)
(* but for those that a callback has registered, which a later thread on  *)
(* the same address runs.                                                  *)
RunsOwnCallbacks ==
  \A t \in Threads : \A e \in {list[t], cur[t]} \ {Null} :
    \/ e[1] = t /\ state[e] = "linked"
    \/ state[e] = "late"

(* Every __at_thread_exit returns to its caller, and every thread whose    *)
(* function has returned comes to its end.                                 *)
ExitsComplete ==
  \A t \in Threads :
    /\ pc[t] = "once" ~> pc[t] \in {"function", "callback"}
    /\ pc[t] = "returned" ~> pc[t] = "gone"
=============================================================================
