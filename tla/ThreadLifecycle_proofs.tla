----------------------- MODULE ThreadLifecycle_proofs -----------------------
(***************************************************************************)
(* IInv is inductive, and implies the safety properties of ThreadLifecycle. *)
(* One lemma per action; each says which parts of IInv the action disturbs. *)
(***************************************************************************)
EXTENDS ThreadInvariant, TLAPS

(* The initial values are of the right type.                               *)
LEMMA TypeInit == Init => TypeOK
BY NullIsFresh DEF Init, TypeOK, Handle, NoHandle, Tcb, FreeTcb, ThreadPC, OpPC

(* Before any call every part of the invariant holds.                      *)
LEMMA InitInv == Init => IInv
<1> SUFFICES ASSUME Init PROVE IInv
  OBVIOUS
<1>1. TypeOK
  BY TypeInit
<1>2. \A c \in Clients : CallInv(c)
  BY DEF Init, CallInv, Empty, Places
<1>3. \A p \in Places : PlaceInv(p) /\ OwnerInv(p)
  BY DEF Init, PlaceInv, Empty, OwnerInv, NoHandle
<1>4. PlacesApart /\ AddressesFresh
  BY DEF Init, PlacesApart, AddressesFresh, HasGroup, NoHandle
<1>5. CallsApart /\ GroupsHeld
  BY DEF Init, CallsApart, GroupsHeld
<1>6. \A a \in TaskAddr : TaskInv(a)
  BY DEF Init, TaskInv, FreeTcb
<1>7. \A t \in Threads : ThreadInv(t)
  BY DEF Init, ThreadInv, Alive
<1> QED
  BY <1>1, <1>2, <1>3, <1>4, <1>5, <1>6, <1>7 DEF IInv

(* A place that refers to a group is in the middle of create_thread or owns *)
(* a task, and the group exists.                                           *)
LEMMA HasGroupIs ==
  ASSUME IInv, NEW p \in Places
  PROVE  HasGroup(p) <=> Owner(p) \/ BeingCreated(p)
BY NullIsFresh DEF IInv, PlaceInv, HasGroup, Owner, BeingCreated, LetGo, RefersTo, Empty, NoHandle

(* The event group of an owner, or of an object being created, exists.     *)
LEMMA GroupIsLive ==
  ASSUME IInv, NEW p \in Places, HasGroup(p)
  PROVE  obj[p].ev \in live /\ obj[p].ev \in EvAddr
BY HasGroupIs DEF Owner, BeingCreated, IInv, TypeOK

(* A copy of a handle without its ownership is a handle.                   *)
LEMMA CopyIsHandle ==
  ASSUME NEW h \in Handle
  PROVE  [h EXCEPT !.owner = FALSE] \in Handle
BY DEF Handle

(* Entering join preserves the invariant: a joinable object is an owner.   *)
LEMMA JoinCallInv ==
  ASSUME IInv, NEW c \in Clients, NEW o \in Objects, JoinCall(c, o)
  PROVE  IInv'
<1> USE DEF JoinCall, Begin, Goto, taskVars, evVars, threadVars
<1>0. Owner(o)
  BY NullIsFresh DEF IInv, PlaceInv, Empty, NoHandle, BeingCreated, LetGo, InUse, Places, CallInv
<1>1. TypeOK'
  BY DEF IInv, TypeOK, OpPC
<1>2. ASSUME NEW d \in Clients PROVE CallInv(d)'
  BY <1>0, NullIsFresh DEF IInv, TypeOK, CallInv, Empty, BeingCreated, Owner, LetGo, RefersTo
<1>3. CallsApart'
  BY DEF IInv, TypeOK, CallsApart, InUse
<1>4. ASSUME NEW p \in Places PROVE PlaceInv(p)'
  BY DEF IInv, TypeOK, PlaceInv, Empty, BeingCreated, Owner, LetGo, RefersTo
<1>5. PlacesApart' /\ GroupsHeld' /\ AddressesFresh'
  BY DEF IInv, PlacesApart, GroupsHeld, AddressesFresh, HasGroup
<1>6. ASSUME NEW a \in TaskAddr PROVE TaskInv(a)'
  BY DEF IInv, TaskInv
<1>7. ASSUME NEW t \in Threads PROVE ThreadInv(t)'
  BY DEF IInv, ThreadInv, Owner, RefersTo
<1>8. ASSUME NEW p \in Places PROVE OwnerInv(p)'
  BY DEF IInv, OwnerInv
<1> QED
  BY <1>1, <1>2, <1>3, <1>4, <1>5, <1>6, <1>7, <1>8 DEF IInv
(* Entering detach preserves the invariant.                                *)
LEMMA DetachCallInv ==
  ASSUME IInv, NEW c \in Clients, NEW o \in Objects, DetachCall(c, o)
  PROVE  IInv'
<1> USE DEF DetachCall, Begin, Goto, taskVars, evVars, threadVars
<1>0. Owner(o)
  BY NullIsFresh DEF IInv, PlaceInv, Empty, NoHandle, BeingCreated, LetGo, InUse, Places, CallInv
<1>1. TypeOK'
  BY DEF IInv, TypeOK, OpPC
<1>2. ASSUME NEW d \in Clients PROVE CallInv(d)'
  BY <1>0, NullIsFresh DEF IInv, TypeOK, CallInv, Empty, BeingCreated, Owner, LetGo, RefersTo
<1>3. CallsApart'
  BY DEF IInv, TypeOK, CallsApart, InUse
<1>4. ASSUME NEW p \in Places PROVE PlaceInv(p)'
  BY DEF IInv, TypeOK, PlaceInv, Empty, BeingCreated, Owner, LetGo, RefersTo
<1>5. PlacesApart' /\ GroupsHeld' /\ AddressesFresh'
  BY DEF IInv, PlacesApart, GroupsHeld, AddressesFresh, HasGroup
<1>6. ASSUME NEW a \in TaskAddr PROVE TaskInv(a)'
  BY DEF IInv, TaskInv
<1>7. ASSUME NEW t \in Threads PROVE ThreadInv(t)'
  BY DEF IInv, ThreadInv, Owner, RefersTo
<1>8. ASSUME NEW p \in Places PROVE OwnerInv(p)'
  BY DEF IInv, OwnerInv
<1> QED
  BY <1>1, <1>2, <1>3, <1>4, <1>5, <1>6, <1>7, <1>8 DEF IInv

(* Entering swap preserves the invariant: no other call uses its objects.  *)
LEMMA SwapCallInv ==
  ASSUME IInv, NEW c \in Clients, NEW x \in Objects, NEW y \in Objects, SwapCall(c, x, y)
  PROVE  IInv'
<1> USE DEF SwapCall, Begin, Goto, taskVars, evVars, threadVars
<1>1. TypeOK'
  BY DEF IInv, TypeOK, OpPC
<1>2. ASSUME NEW d \in Clients PROVE CallInv(d)'
  BY NullIsFresh DEF IInv, TypeOK, CallInv, Empty, BeingCreated, Owner, LetGo, RefersTo
<1>3. CallsApart'
  BY DEF IInv, TypeOK, CallsApart, InUse
<1>4. ASSUME NEW p \in Places PROVE PlaceInv(p)'
  BY DEF IInv, TypeOK, PlaceInv, Empty, BeingCreated, Owner, LetGo, RefersTo
<1>5. PlacesApart' /\ GroupsHeld' /\ AddressesFresh'
  BY DEF IInv, PlacesApart, GroupsHeld, AddressesFresh, HasGroup
<1>6. ASSUME NEW a \in TaskAddr PROVE TaskInv(a)'
  BY DEF IInv, TaskInv
<1>7. ASSUME NEW t \in Threads PROVE ThreadInv(t)'
  BY DEF IInv, ThreadInv, Owner, RefersTo
<1>8. ASSUME NEW p \in Places PROVE OwnerInv(p)'
  BY DEF IInv, OwnerInv
<1> QED
  BY <1>1, <1>2, <1>3, <1>4, <1>5, <1>6, <1>7, <1>8 DEF IInv

(* The end of the wait in join preserves the invariant: the bit `join' is  *)
(* set only by a thread that has finished.                                 *)
LEMMA JoinWaitInv ==
  ASSUME IInv, NEW c \in Clients, JoinWait(c)
  PROVE  IInv'
<1> USE DEF JoinWait, SameCall, Goto, taskVars, evVars, threadVars
<1>0. Owner(dst[c]) /\ dst[c] \in Places
  BY DEF IInv, CallInv, Places
<1>b. pc[obj[dst[c]].arg] \in {"notified", "dead"}
  BY <1>0 DEF IInv, Signalled, JoinBits, OwnerInv, Owner, RefersTo
<1>1. TypeOK'
  BY DEF IInv, TypeOK, OpPC
<1>2. ASSUME NEW d \in Clients PROVE CallInv(d)'
  BY <1>0, <1>b, NullIsFresh DEF IInv, TypeOK, CallInv, Empty, BeingCreated, Owner, LetGo, RefersTo
<1>3. CallsApart'
  BY DEF IInv, TypeOK, CallsApart, InUse
<1>4. ASSUME NEW p \in Places PROVE PlaceInv(p)'
  BY DEF IInv, TypeOK, PlaceInv, Empty, BeingCreated, Owner, LetGo, RefersTo
<1>5. PlacesApart' /\ GroupsHeld' /\ AddressesFresh'
  BY DEF IInv, PlacesApart, GroupsHeld, AddressesFresh, HasGroup
<1>6. ASSUME NEW a \in TaskAddr PROVE TaskInv(a)'
  BY DEF IInv, TaskInv
<1>7. ASSUME NEW t \in Threads PROVE ThreadInv(t)'
  BY DEF IInv, ThreadInv, Owner, RefersTo
<1>8. ASSUME NEW p \in Places PROVE OwnerInv(p)'
  BY DEF IInv, OwnerInv
<1> QED
  BY <1>1, <1>2, <1>3, <1>4, <1>5, <1>6, <1>7, <1>8 DEF IInv

(* The end of the wait in detach preserves the invariant: the thread has   *)
(* its copy.                                                               *)
LEMMA DetachWaitInv ==
  ASSUME IInv, NEW c \in Clients, DetachWait(c)
  PROVE  IInv'
<1> USE DEF DetachWait, SameCall, Goto, taskVars, evVars, threadVars
<1>0. Owner(dst[c]) /\ dst[c] \in Places
  BY DEF IInv, CallInv, Places
<1>a. "started" \in bits[obj[dst[c]].ev]
  BY DEF Signalled
<1>b. pc[obj[dst[c]].arg] \notin {"ready", "copied"}
  <2> DEFINE t == obj[dst[c]].arg
  <2> SUFFICES ASSUME pc[t] \in {"ready", "copied"} PROVE FALSE
    OBVIOUS
  <2>1. t \in Threads /\ param[t] \in Places /\ obj[param[t]].arg = t
    BY <1>0 DEF IInv, ThreadInv, Owner, RefersTo, Places
  <2>2. param[t] = dst[c]
    BY <1>0, <2>1, NullIsFresh DEF IInv, PlacesApart
  <2> QED
    BY <1>a, <2>1, <2>2 DEF IInv, ThreadInv
<1>1. TypeOK'
  BY DEF IInv, TypeOK, OpPC
<1>2. ASSUME NEW d \in Clients PROVE CallInv(d)'
  BY <1>0, <1>b, NullIsFresh DEF IInv, TypeOK, CallInv, Empty, BeingCreated, Owner, LetGo, RefersTo
<1>3. CallsApart'
  BY DEF IInv, TypeOK, CallsApart, InUse
<1>4. ASSUME NEW p \in Places PROVE PlaceInv(p)'
  BY DEF IInv, TypeOK, PlaceInv, Empty, BeingCreated, Owner, LetGo, RefersTo
<1>5. PlacesApart' /\ GroupsHeld' /\ AddressesFresh'
  BY DEF IInv, PlacesApart, GroupsHeld, AddressesFresh, HasGroup
<1>6. ASSUME NEW a \in TaskAddr PROVE TaskInv(a)'
  BY DEF IInv, TaskInv
<1>7. ASSUME NEW t \in Threads PROVE ThreadInv(t)'
  BY DEF IInv, ThreadInv, Owner, RefersTo
<1>8. ASSUME NEW p \in Places PROVE OwnerInv(p)'
  BY DEF IInv, OwnerInv
<1> QED
  BY <1>1, <1>2, <1>3, <1>4, <1>5, <1>6, <1>7, <1>8 DEF IInv

(* The object is still where create_thread was called on it: the copy is right. *)
LEMMA CopyHandleInv ==
  ASSUME IInv, NEW t \in Threads, CopyHandle(t)
  PROVE  IInv'
<1> USE DEF CopyHandle, Step, evVars, threadVars
<1>0. Owner(param[t]) /\ param[t] \in Places /\ obj[param[t]].arg = t
  BY DEF IInv, ThreadInv, Places
<1>a. local' \in [Threads -> Handle]
  <2>1. [obj[param[t]] EXCEPT !.owner = FALSE] \in Handle
    BY <1>0, CopyIsHandle DEF IInv, TypeOK
  <2> QED
    BY <2>1 DEF IInv, TypeOK
<1>p. ASSUME NEW p \in Places
      PROVE  /\ Owner(p) => Owner(p)'
             /\ BeingCreated(p) => BeingCreated(p)'
             /\ LetGo(p) => LetGo(p)'
  BY <1>0, <1>a, NullIsFresh DEF IInv, TypeOK, BeingCreated, Owner, LetGo, RefersTo, Alive
<1>1. TypeOK'
  BY <1>0, <1>a, NullIsFresh DEF IInv, TypeOK, ThreadPC, Alive, Handle, NoHandle, Tcb, FreeTcb, Bits, Places
<1>2. ASSUME NEW d \in Clients PROVE CallInv(d)'
  BY <1>p, <1>0, <1>a, NullIsFresh DEF IInv, TypeOK, CallInv, Empty, Alive, Places, Owner, LetGo, RefersTo
<1>3. CallsApart'
  BY DEF IInv, CallsApart
<1>4. ASSUME NEW p \in Places PROVE PlaceInv(p)'
  BY <1>p DEF IInv, PlaceInv, Empty
<1>5. PlacesApart' /\ GroupsHeld'
  BY DEF IInv, PlacesApart, GroupsHeld, HasGroup
<1>6. AddressesFresh'
  BY <1>0, <1>a, NullIsFresh DEF IInv, TypeOK, AddressesFresh, Tcb, FreeTcb, Handle
<1>7. ASSUME NEW a \in TaskAddr PROVE TaskInv(a)'
  BY <1>0, <1>a, NullIsFresh DEF IInv, TypeOK, TaskInv, ThreadInv, FreeTcb, Alive, Tcb
<1>8. ASSUME NEW u \in Threads PROVE ThreadInv(u)'
  BY <1>0, <1>a, NullIsFresh DEF IInv, TypeOK, ThreadInv, TaskInv, Owner, RefersTo, Alive, Places, PlacesApart, HasGroup
<1>9. ASSUME NEW p \in Places PROVE OwnerInv(p)'
  BY <1>0, <1>a, NullIsFresh DEF IInv, TypeOK, OwnerInv, PlaceInv, Owner, RefersTo, Alive, Empty, NoHandle, BeingCreated, LetGo, AddressesFresh, ThreadInv, Tcb
<1> QED
  BY <1>1, <1>2, <1>3, <1>4, <1>5, <1>6, <1>7, <1>8, <1>9 DEF IInv

(* The bit goes to the group of the thread's own object and to no other. *)
LEMMA NotifyStartedInv ==
  ASSUME IInv, NEW t \in Threads, NotifyStarted(t)
  PROVE  IInv'
<1> USE DEF NotifyStarted, SetBit, Step, evVars, threadVars
<1>0. Owner(param[t]) /\ param[t] \in Places /\ obj[param[t]].arg = t /\ obj[param[t]].ev = local[t].ev
  BY DEF IInv, ThreadInv, Places
<1>b. \A p \in Places : HasGroup(p) /\ p # param[t] => bits'[obj[p].ev] = bits[obj[p].ev]
  BY <1>0, NullIsFresh DEF IInv, TypeOK, PlacesApart, HasGroup, Owner, RefersTo
<1>c. \A p \in Places : Owner(p) \/ BeingCreated(p) => HasGroup(p)
  BY NullIsFresh DEF HasGroup, Owner, BeingCreated, RefersTo
<1>d. \A e \in EvAddr : "join" \in bits'[e] => "join" \in bits[e]
  BY DEF IInv, TypeOK
<1>e. \A u \in Threads \ {t} : pc[u] \in {"ready", "copied"} => param[u] # param[t]
  BY <1>0, NullIsFresh DEF IInv, ThreadInv
<1>p. ASSUME NEW p \in Places
      PROVE  /\ Owner(p) => Owner(p)'
             /\ BeingCreated(p) => BeingCreated(p)'
             /\ LetGo(p) => LetGo(p)'
  BY <1>0, <1>b, <1>c, <1>d, <1>e, NullIsFresh DEF IInv, TypeOK, BeingCreated, Owner, LetGo, RefersTo, Alive
<1>1. TypeOK'
  BY <1>0, <1>b, <1>c, <1>d, <1>e, NullIsFresh DEF IInv, TypeOK, ThreadPC, Alive, Handle, NoHandle, Tcb, FreeTcb, Bits, Places
<1>2. ASSUME NEW d \in Clients PROVE CallInv(d)'
  BY <1>p, <1>0, <1>b, <1>c, <1>d, <1>e, NullIsFresh DEF IInv, TypeOK, CallInv, Empty, Alive, Places, Owner, LetGo, RefersTo
<1>3. CallsApart'
  BY DEF IInv, CallsApart
<1>4. ASSUME NEW p \in Places PROVE PlaceInv(p)'
  BY <1>p DEF IInv, PlaceInv, Empty
<1>5. PlacesApart' /\ GroupsHeld'
  BY DEF IInv, PlacesApart, GroupsHeld, HasGroup
<1>6. AddressesFresh'
  BY <1>0, <1>b, <1>c, <1>d, <1>e, NullIsFresh DEF IInv, TypeOK, AddressesFresh, Tcb, FreeTcb, Handle
<1>7. ASSUME NEW a \in TaskAddr PROVE TaskInv(a)'
  BY <1>0, <1>b, <1>c, <1>d, <1>e, NullIsFresh DEF IInv, TypeOK, TaskInv, ThreadInv, FreeTcb, Alive, Tcb
<1>8. ASSUME NEW u \in Threads PROVE ThreadInv(u)'
  BY <1>0, <1>b, <1>c, <1>d, <1>e, NullIsFresh DEF IInv, TypeOK, ThreadInv, TaskInv, Owner, RefersTo, Alive, Places, PlacesApart, HasGroup
<1>9. ASSUME NEW p \in Places PROVE OwnerInv(p)'
  BY <1>0, <1>b, <1>c, <1>d, <1>e, NullIsFresh DEF IInv, TypeOK, OwnerInv, PlaceInv, Owner, RefersTo, Alive, Empty, NoHandle, BeingCreated, LetGo, AddressesFresh, ThreadInv, Tcb
<1> QED
  BY <1>1, <1>2, <1>3, <1>4, <1>5, <1>6, <1>7, <1>8, <1>9 DEF IInv

(* The function of a thread ends. *)
LEMMA ReturnInv ==
  ASSUME IInv, NEW t \in Threads, Return(t)
  PROVE  IInv'
<1> USE DEF Return, Step, evVars, threadVars
<1>p. ASSUME NEW p \in Places
      PROVE  /\ Owner(p) => Owner(p)'
             /\ BeingCreated(p) => BeingCreated(p)'
             /\ LetGo(p) => LetGo(p)'
  BY NullIsFresh DEF IInv, TypeOK, BeingCreated, Owner, LetGo, RefersTo, Alive
<1>1. TypeOK'
  BY NullIsFresh DEF IInv, TypeOK, ThreadPC, Alive, Handle, NoHandle, Tcb, FreeTcb, Bits, Places
<1>2. ASSUME NEW d \in Clients PROVE CallInv(d)'
  BY <1>p, NullIsFresh DEF IInv, TypeOK, CallInv, Empty, Alive, Places, Owner, LetGo, RefersTo
<1>3. CallsApart'
  BY DEF IInv, CallsApart
<1>4. ASSUME NEW p \in Places PROVE PlaceInv(p)'
  BY <1>p DEF IInv, PlaceInv, Empty
<1>5. PlacesApart' /\ GroupsHeld'
  BY DEF IInv, PlacesApart, GroupsHeld, HasGroup
<1>6. AddressesFresh'
  BY NullIsFresh DEF IInv, TypeOK, AddressesFresh, Tcb, FreeTcb, Handle
<1>7. ASSUME NEW a \in TaskAddr PROVE TaskInv(a)'
  BY NullIsFresh DEF IInv, TypeOK, TaskInv, ThreadInv, FreeTcb, Alive, Tcb
<1>8. ASSUME NEW u \in Threads PROVE ThreadInv(u)'
  BY NullIsFresh DEF IInv, TypeOK, ThreadInv, TaskInv, Owner, RefersTo, Alive, Places, PlacesApart, HasGroup
<1>9. ASSUME NEW p \in Places PROVE OwnerInv(p)'
  BY NullIsFresh DEF IInv, TypeOK, OwnerInv, PlaceInv, Owner, RefersTo, Alive, Empty, NoHandle, BeingCreated, LetGo, AddressesFresh, ThreadInv, Tcb
<1> QED
  BY <1>1, <1>2, <1>3, <1>4, <1>5, <1>6, <1>7, <1>8, <1>9 DEF IInv

(* The copy of the handle names the thread's own State. *)
LEMMA DeleteStateInv ==
  ASSUME IInv, NEW t \in Threads, DeleteState(t)
  PROVE  IInv'
<1> USE DEF DeleteState, Step, evVars, threadVars
<1>p. ASSUME NEW p \in Places
      PROVE  /\ Owner(p) => Owner(p)'
             /\ BeingCreated(p) => BeingCreated(p)'
             /\ LetGo(p) => LetGo(p)'
  BY NullIsFresh DEF IInv, TypeOK, BeingCreated, Owner, LetGo, RefersTo, Alive
<1>1. TypeOK'
  BY NullIsFresh DEF IInv, TypeOK, ThreadPC, Alive, Handle, NoHandle, Tcb, FreeTcb, Bits, Places
<1>2. ASSUME NEW d \in Clients PROVE CallInv(d)'
  BY <1>p, NullIsFresh DEF IInv, TypeOK, CallInv, Empty, Alive, Places, Owner, LetGo, RefersTo
<1>3. CallsApart'
  BY DEF IInv, CallsApart
<1>4. ASSUME NEW p \in Places PROVE PlaceInv(p)'
  BY <1>p DEF IInv, PlaceInv, Empty
<1>5. PlacesApart' /\ GroupsHeld'
  BY DEF IInv, PlacesApart, GroupsHeld, HasGroup
<1>6. AddressesFresh'
  BY NullIsFresh DEF IInv, TypeOK, AddressesFresh, Tcb, FreeTcb, Handle
<1>7. ASSUME NEW a \in TaskAddr PROVE TaskInv(a)'
  BY NullIsFresh DEF IInv, TypeOK, TaskInv, ThreadInv, FreeTcb, Alive, Tcb
<1>8. ASSUME NEW u \in Threads PROVE ThreadInv(u)'
  BY NullIsFresh DEF IInv, TypeOK, ThreadInv, TaskInv, Owner, RefersTo, Alive, Places, PlacesApart, HasGroup
<1>9. ASSUME NEW p \in Places PROVE OwnerInv(p)'
  BY NullIsFresh DEF IInv, TypeOK, OwnerInv, PlaceInv, Owner, RefersTo, Alive, Empty, NoHandle, BeingCreated, LetGo, AddressesFresh, ThreadInv, Tcb
<1> QED
  BY <1>1, <1>2, <1>3, <1>4, <1>5, <1>6, <1>7, <1>8, <1>9 DEF IInv

(* Slot 0 names a group only while the object of this very thread owns that group. *)
LEMMA NotifyJoinedInv ==
  ASSUME IInv, NEW t \in Threads, NotifyJoined(t)
  PROVE  IInv'
<1> USE DEF NotifyJoined, SetBit, Step, evVars, threadVars
<1>0. at[t] \in TaskAddr /\ local[t].task = at[t] /\ tcb[at[t]].tls \in EvAddr \cup {Null}
  BY DEF IInv, TypeOK, ThreadInv, Alive, Tcb
<1>a. \A e \in EvAddr : "started" \in bits'[e] => "started" \in bits[e]
  BY <1>0 DEF IInv, TypeOK
<1>d. bits' \in [EvAddr -> SUBSET Bits]
  BY <1>0 DEF IInv, TypeOK, Bits
<1>b. \A p \in Places : HasGroup(p) /\ obj[p].arg # t => bits'[obj[p].ev] = bits[obj[p].ev]
  <2> SUFFICES ASSUME NEW p \in Places, HasGroup(p), obj[p].arg # t, tcb[at[t]].tls # Null,
                      obj[p].ev = tcb[at[t]].tls
               PROVE  FALSE
    BY <1>0, GroupIsLive DEF IInv, TypeOK
  <2>1. PICK q \in Places : obj[q].owner /\ obj[q].arg = t
    BY DEF IInv, ThreadInv, Alive
  <2>2. Owner(q) /\ HasGroup(q)
    BY <2>1, NullIsFresh DEF IInv, PlaceInv, Empty, NoHandle, BeingCreated, LetGo, HasGroup
  <2>3. obj[q].ev = tcb[at[t]].tls
    BY <2>1, <2>2 DEF IInv, OwnerInv, Owner, RefersTo, Alive
  <2> QED
    BY <2>1, <2>2, <2>3 DEF IInv, PlacesApart
<1>c. \A p \in Places : Owner(p) \/ BeingCreated(p) => HasGroup(p)
  BY NullIsFresh DEF HasGroup, Owner, BeingCreated, RefersTo
<1>p. ASSUME NEW p \in Places
      PROVE  /\ Owner(p) => Owner(p)'
             /\ BeingCreated(p) => BeingCreated(p)'
             /\ LetGo(p) => LetGo(p)'
  BY <1>0, <1>a, <1>b, <1>c, <1>d, NullIsFresh DEF IInv, TypeOK, BeingCreated, Owner, LetGo, RefersTo, Alive
<1>1. TypeOK'
  BY <1>0, <1>a, <1>b, <1>c, <1>d, NullIsFresh DEF IInv, TypeOK, ThreadPC, Alive, Handle, NoHandle, Tcb, FreeTcb, Bits, Places
<1>2. ASSUME NEW d \in Clients PROVE CallInv(d)'
  BY <1>p, <1>0, <1>a, <1>b, <1>c, <1>d, NullIsFresh DEF IInv, TypeOK, CallInv, Empty, Alive, Places, Owner, LetGo, RefersTo
<1>3. CallsApart'
  BY DEF IInv, CallsApart
<1>4. ASSUME NEW p \in Places PROVE PlaceInv(p)'
  BY <1>p DEF IInv, PlaceInv, Empty
<1>5. PlacesApart' /\ GroupsHeld'
  BY DEF IInv, PlacesApart, GroupsHeld, HasGroup
<1>6. AddressesFresh'
  BY <1>0, <1>a, <1>b, <1>c, <1>d, NullIsFresh DEF IInv, TypeOK, AddressesFresh, Tcb, FreeTcb, Handle
<1>7. ASSUME NEW a \in TaskAddr PROVE TaskInv(a)'
  BY <1>0, <1>a, <1>b, <1>c, <1>d, NullIsFresh DEF IInv, TypeOK, TaskInv, ThreadInv, FreeTcb, Alive, Tcb
<1>8. ASSUME NEW u \in Threads PROVE ThreadInv(u)'
  BY <1>0, <1>a, <1>b, <1>c, <1>d, NullIsFresh DEF IInv, TypeOK, ThreadInv, TaskInv, Owner, RefersTo, Alive, Places, PlacesApart, HasGroup
<1>9. ASSUME NEW p \in Places PROVE OwnerInv(p)'
  BY <1>0, <1>a, <1>b, <1>c, <1>d, NullIsFresh DEF IInv, TypeOK, OwnerInv, PlaceInv, Owner, RefersTo, Alive, Empty, NoHandle, BeingCreated, LetGo, AddressesFresh, ThreadInv, Tcb
<1> QED
  BY <1>1, <1>2, <1>3, <1>4, <1>5, <1>6, <1>7, <1>8, <1>9 DEF IInv

(* The task is now the idle task's to free. *)
LEMMA DeleteSelfInv ==
  ASSUME IInv, NEW t \in Threads, DeleteSelf(t)
  PROVE  IInv'
<1> USE DEF DeleteSelf, Step, evVars, threadVars
<1>0. at[t] \in TaskAddr /\ tcb[at[t]].st = "live" /\ tcb[at[t]].thr = t
  BY DEF IInv, ThreadInv, Alive
<1>b. \A u \in Threads \ {t} : pc[u] \in Alive => at[u] # at[t]
  BY <1>0 DEF IInv, ThreadInv
<1>c. tcb' \in [TaskAddr -> Tcb]
  <2>1. [tcb[at[t]] EXCEPT !.st = "dying"] \in Tcb
    BY <1>0 DEF IInv, TypeOK, Tcb
  <2> QED
    BY <1>0, <2>1 DEF IInv, TypeOK
<1>p. ASSUME NEW p \in Places
      PROVE  /\ Owner(p) => Owner(p)'
             /\ BeingCreated(p) => BeingCreated(p)'
             /\ LetGo(p) => LetGo(p)'
  BY <1>0, <1>b, <1>c, NullIsFresh DEF IInv, TypeOK, BeingCreated, Owner, LetGo, RefersTo, Alive
<1>1. TypeOK'
  BY <1>0, <1>b, <1>c, NullIsFresh DEF IInv, TypeOK, ThreadPC, Alive, Handle, NoHandle, Tcb, FreeTcb, Bits, Places
<1>2. ASSUME NEW d \in Clients PROVE CallInv(d)'
  BY <1>p, <1>0, <1>b, <1>c, NullIsFresh DEF IInv, TypeOK, CallInv, Empty, Alive, Places, Owner, LetGo, RefersTo
<1>3. CallsApart'
  BY DEF IInv, CallsApart
<1>4. ASSUME NEW p \in Places PROVE PlaceInv(p)'
  BY <1>p DEF IInv, PlaceInv, Empty
<1>5. PlacesApart' /\ GroupsHeld'
  BY DEF IInv, PlacesApart, GroupsHeld, HasGroup
<1>6. AddressesFresh'
  BY <1>0, <1>b, <1>c, NullIsFresh DEF IInv, TypeOK, AddressesFresh, Tcb, FreeTcb, Handle
<1>7. ASSUME NEW a \in TaskAddr PROVE TaskInv(a)'
  BY <1>0, <1>b, <1>c, NullIsFresh DEF IInv, TypeOK, TaskInv, ThreadInv, FreeTcb, Alive, Tcb
<1>8. ASSUME NEW u \in Threads PROVE ThreadInv(u)'
  BY <1>0, <1>b, <1>c, NullIsFresh DEF IInv, TypeOK, ThreadInv, TaskInv, Owner, RefersTo, Alive, Places, PlacesApart, HasGroup
<1>9. ASSUME NEW p \in Places PROVE OwnerInv(p)'
  BY <1>0, <1>b, <1>c, NullIsFresh DEF IInv, TypeOK, OwnerInv, PlaceInv, Owner, RefersTo, Alive, Empty, NoHandle, BeingCreated, LetGo, AddressesFresh, ThreadInv, Tcb
<1> QED
  BY <1>1, <1>2, <1>3, <1>4, <1>5, <1>6, <1>7, <1>8, <1>9 DEF IInv

(* Only a dead thread's TCB is freed. *)
LEMMA ReapInv ==
  ASSUME IInv, NEW b \in TaskAddr, Reap(b)
  PROVE  IInv'
<1> USE DEF Reap, Step, evVars, threadVars
<1>p. ASSUME NEW p \in Places
      PROVE  /\ Owner(p) => Owner(p)'
             /\ BeingCreated(p) => BeingCreated(p)'
             /\ LetGo(p) => LetGo(p)'
  BY NullIsFresh DEF IInv, TypeOK, BeingCreated, Owner, LetGo, RefersTo, Alive
<1>1. TypeOK'
  BY NullIsFresh DEF IInv, TypeOK, ThreadPC, Alive, Handle, NoHandle, Tcb, FreeTcb, Bits, Places
<1>2. ASSUME NEW d \in Clients PROVE CallInv(d)'
  BY <1>p, NullIsFresh DEF IInv, TypeOK, CallInv, Empty, Alive, Places, Owner, LetGo, RefersTo
<1>3. CallsApart'
  BY DEF IInv, CallsApart
<1>4. ASSUME NEW p \in Places PROVE PlaceInv(p)'
  BY <1>p DEF IInv, PlaceInv, Empty
<1>5. PlacesApart' /\ GroupsHeld'
  BY DEF IInv, PlacesApart, GroupsHeld, HasGroup
<1>6. AddressesFresh'
  BY NullIsFresh DEF IInv, TypeOK, AddressesFresh, Tcb, FreeTcb, Handle
<1>7. ASSUME NEW a \in TaskAddr PROVE TaskInv(a)'
  BY NullIsFresh DEF IInv, TypeOK, TaskInv, ThreadInv, FreeTcb, Alive, Tcb
<1>8. ASSUME NEW u \in Threads PROVE ThreadInv(u)'
  BY NullIsFresh DEF IInv, TypeOK, ThreadInv, TaskInv, Owner, RefersTo, Alive, Places, PlacesApart, HasGroup
<1>9. ASSUME NEW p \in Places PROVE OwnerInv(p)'
  BY NullIsFresh DEF IInv, TypeOK, OwnerInv, PlaceInv, Owner, RefersTo, Alive, Empty, NoHandle, BeingCreated, LetGo, AddressesFresh, ThreadInv, Tcb
<1> QED
  BY <1>1, <1>2, <1>3, <1>4, <1>5, <1>6, <1>7, <1>8, <1>9 DEF IInv

(* The new thread and the new group are nowhere else.                      *)
LEMMA CreateEventGroupInv ==
  ASSUME IInv, NEW c \in Clients, NEW o \in Objects, NEW t \in Threads, CreateEventGroup(c, o, t)
  PROVE  IInv'
<1> USE DEF CreateEventGroup, Begin, Goto
<1>a. PICK e \in EvAddr \ live :
        /\ live' = live \cup {e}
        /\ bits' = [bits EXCEPT ![e] = {}]
        /\ obj' = [obj EXCEPT ![o] = [@ EXCEPT !.ev = e, !.arg = t]]
  OBVIOUS
<1>b. /\ o \in Places
      /\ obj'[o].task = Null /\ obj'[o].ev = e /\ obj'[o].arg = t /\ ~obj'[o].owner
      /\ obj'[o] \in Handle
      /\ \A q \in Places : q # o => obj'[q] = obj[q]
  <2>1. o \in Places /\ obj'[o] = [NoHandle EXCEPT !.ev = e, !.arg = t]
    BY <1>a DEF IInv, TypeOK, Places
  <2>2. ASSUME NEW h \in Handle, h = NoHandle, NEW r, r = [h EXCEPT !.ev = e, !.arg = t]
        PROVE  r.task = Null /\ r.ev = e /\ r.arg = t /\ ~r.owner /\ r \in Handle
    BY <1>a, <2>2 DEF Handle, NoHandle
  <2>3. NoHandle \in Handle
    BY DEF Handle, NoHandle
  <2> QED
    BY <1>a, <2>1, <2>2, <2>3 DEF IInv, TypeOK
<1>c. \A q \in Places : obj[q].arg # t
  BY NullIsFresh DEF IInv, PlaceInv, Empty, NoHandle, Owner, BeingCreated, LetGo, RefersTo, Alive
<1>d. \A q \in Places : HasGroup(q) => bits'[obj[q].ev] = bits[obj[q].ev] /\ obj[q].ev # e
  BY <1>a, GroupIsLive DEF IInv, TypeOK
<1>p. ASSUME NEW q \in Places, q # o
      PROVE  /\ Owner(q) => Owner(q)'
             /\ BeingCreated(q) => BeingCreated(q)'
             /\ LetGo(q) => LetGo(q)'
             /\ HasGroup(q)' <=> HasGroup(q)
  <2>1. HasGroup(q)' <=> HasGroup(q)
    BY <1>b, <1>p DEF HasGroup
  <2>2. \A u \in Threads : u # t => pc'[u] = pc[u]
    BY DEF IInv, TypeOK
  <2>3. Owner(q) => Owner(q)'
    BY <1>a, <1>b, <1>c, <1>p, <2>2 DEF Owner, RefersTo
  <2>4. BeingCreated(q) => BeingCreated(q)'
    BY <1>a, <1>b, <1>c, <1>d, <1>p, <2>2, HasGroupIs DEF BeingCreated
  <2>5. LetGo(q) => LetGo(q)'
    BY <1>a, <1>b, <1>c, <1>p, <2>2 DEF LetGo, RefersTo
  <2> QED
    BY <2>1, <2>3, <2>4, <2>5
<1>o. BeingCreated(o)'
  BY <1>a, <1>b DEF IInv, TypeOK, BeingCreated
<1>1. TypeOK'
  <2>1. obj' \in [Places -> Handle]
    BY <1>a, <1>b DEF IInv, TypeOK
  <2> QED
    BY <1>a, <2>1 DEF IInv, TypeOK, ThreadPC, OpPC
<1>2. ASSUME NEW d \in Clients PROVE CallInv(d)'
  <2>1. d # o /\ (op[d] # "idle" => dst[d] # o /\ src[d] # o)
    BY PlacesDisjoint DEF InUse
  <2>2. dst[d] \in Objects => dst[d] \in Places
    BY DEF Places
  <2>3. CASE d = c
    BY <1>b, <1>o, <2>1, <2>3 DEF IInv, TypeOK, CallInv, Empty, Places
  <2>4. CASE d # c
    <3>1. op'[d] = op[d] /\ dst'[d] = dst[d] /\ src'[d] = src[d]
      BY <2>4 DEF IInv, TypeOK
    <3>2. CallInv(d)
      BY DEF IInv
    <3>3. src[d] \in Objects => src[d] \in Places
      BY DEF Places
    <3> QED
      BY <1>b, <1>c, <1>p, <2>1, <2>2, <3>1, <3>2, <3>3, SMTT(60)
      DEF CallInv, Empty, Owner, LetGo, RefersTo, Places, IInv, TypeOK
  <2> QED
    BY <2>3, <2>4
<1>3. CallsApart'
  BY DEF IInv, TypeOK, CallsApart, InUse
<1>4. ASSUME NEW q \in Places PROVE PlaceInv(q)'
  BY <1>b, <1>o, <1>p DEF IInv, TypeOK, PlaceInv, Empty
<1>5. PlacesApart'
  <2>1. \A q \in Places : obj'[q].task = obj[q].task
    BY <1>b DEF NoHandle
  <2> QED
    BY <1>b, <1>c, <1>d, <1>p, <2>1, NullIsFresh DEF IInv, PlacesApart, HasGroup
<1>6. GroupsHeld'
  <2>1. HasGroup(o)'
    BY <1>b, NullIsFresh DEF HasGroup
  <2>2. ~HasGroup(o)
    BY <1>b DEF HasGroup, NoHandle
  <2> QED
    BY <1>a, <1>b, <1>p, <2>1, <2>2 DEF IInv, GroupsHeld
<1>7. AddressesFresh'
  BY <1>b DEF IInv, AddressesFresh
<1>8. ASSUME NEW a \in TaskAddr PROVE TaskInv(a)'
  BY DEF IInv, TypeOK, TaskInv, Alive
<1>9. ASSUME NEW u \in Threads PROVE ThreadInv(u)'
  <2>1. u # t => param[u] # o \/ pc[u] \notin {"ready", "copied"}
    BY NullIsFresh DEF IInv, ThreadInv, Owner, RefersTo, NoHandle
  <2>2. pc[u] \in {"ready", "copied"} => HasGroup(param[u]) /\ param[u] \in Places
    BY NullIsFresh DEF IInv, ThreadInv, Owner, RefersTo, HasGroup, Places
  <2> QED
    BY <1>b, <1>d, <1>p, <2>1, <2>2, PlacesDisjoint DEF IInv, TypeOK, ThreadInv, Alive, NoHandle
<1>10. ASSUME NEW q \in Places PROVE OwnerInv(q)'
  BY <1>b, <1>c, <1>d DEF IInv, TypeOK, OwnerInv, PlaceInv, Empty, NoHandle, Owner, RefersTo, HasGroup, BeingCreated, LetGo, Alive
<1> QED
  BY <1>1, <1>2, <1>3, <1>4, <1>5, <1>6, <1>7, <1>8, <1>9, <1>10 DEF IInv

(* The kernel services as this section assumes them.                       *)
Benign == ~AddressReuse /\ Urgent = {}

(* The new task's address is stored nowhere else and it starts with slot 0 *)
(* naming the group of its object.                                         *)
LEMMA CreateTaskInv ==
  ASSUME IInv, Benign, NEW c \in Clients, CreateTask(c)
  PROVE  IInv'
<1> USE DEF CreateTask, End, Goto, TaskParameter, SlotAtStart, CreateYields, evVars
<1>e0. End(c, "create")
  BY DEF Benign
<1>i. PICK o \in Objects, t \in Threads : o = dst[c] /\ t = obj[dst[c]].arg
  BY <1>e0 DEF IInv, CallInv, BeingCreated
<1>0. /\ o \in Objects /\ o \in Places /\ BeingCreated(o)
      /\ t \in Threads /\ pc[t] = "creating" /\ obj[o].ev \in EvAddr
  BY <1>e0, <1>i DEF IInv, TypeOK, CallInv, BeingCreated, Places
<1>a. PICK a \in TaskAddr :
        /\ tcb[a].st = "free"
        /\ \A p \in Places : obj[p].task # a
        /\ tcb' = [tcb EXCEPT ![a] = [st |-> "live", thr |-> t, tls |-> obj[o].ev]]
        /\ obj' = [obj EXCEPT ![o] = [@ EXCEPT !.task = a, !.owner = TRUE]]
        /\ at' = [at EXCEPT ![t] = a]
  BY <1>i DEF Benign
<1>b. /\ obj'[o].task = a /\ obj'[o].ev = obj[o].ev /\ obj'[o].arg = t /\ obj'[o].owner
      /\ obj'[o] \in Handle
      /\ \A q \in Places : q # o => obj'[q] = obj[q]
  <2>1. obj[o] \in Handle /\ obj'[o] = [obj[o] EXCEPT !.task = a, !.owner = TRUE] /\ obj[o].arg = t
    BY <1>0, <1>a, <1>i DEF IInv, TypeOK
  <2>2. ASSUME NEW h \in Handle, NEW r, r = [h EXCEPT !.task = a, !.owner = TRUE]
        PROVE  r.task = a /\ r.ev = h.ev /\ r.arg = h.arg /\ r.owner /\ r \in Handle
    BY <1>a, <2>2 DEF Handle
  <2> QED
    BY <1>0, <1>a, <2>1, <2>2, ZenonT(30) DEF IInv, TypeOK
<1>c. /\ \A q \in Places : q # o => obj[q].arg # t
      /\ \A q \in Places : obj'[q].arg = obj[q].arg /\ obj'[q].ev = obj[q].ev
  BY <1>0, <1>b, <1>i, NullIsFresh DEF IInv, PlacesApart
<1>d. \A b \in TaskAddr : tcb[b].st # "free" => tcb[b].thr # t /\ b # a
  BY <1>0, <1>a DEF IInv, TypeOK, TaskInv, Alive, Tcb
<1>e. \A u \in Threads \ {t} : pc'[u] = pc[u] /\ at'[u] = at[u] /\ param'[u] = param[u]
  BY <1>0, <1>a, <1>i DEF IInv, TypeOK
<1>f. pc'[t] = "ready" /\ at'[t] = a /\ param'[t] = o
  BY <1>0, <1>a, <1>i DEF IInv, TypeOK
<1>p. ASSUME NEW q \in Places, q # o
      PROVE  /\ Owner(q) => Owner(q)'
             /\ BeingCreated(q) => BeingCreated(q)'
             /\ LetGo(q) => LetGo(q)'
             /\ HasGroup(q)' <=> HasGroup(q)
  <2>0. obj'[q] = obj[q] /\ obj[q].arg # t
    BY <1>b, <1>c, <1>p
  <2>1. HasGroup(q)' <=> HasGroup(q)
    BY <2>0 DEF HasGroup
  <2>2. obj[q].arg \in Threads => pc'[obj[q].arg] = pc[obj[q].arg] /\ at'[obj[q].arg] = at[obj[q].arg]
    BY <1>e, <2>0
  <2>3. Owner(q) => Owner(q)'
    BY <2>0, <2>2 DEF Owner, RefersTo
  <2>4. BeingCreated(q) => BeingCreated(q)'
    BY <2>0, <2>2 DEF BeingCreated
  <2>5. LetGo(q) => LetGo(q)'
    BY <2>0, <2>2 DEF LetGo, RefersTo
  <2> QED
    BY <2>1, <2>3, <2>4, <2>5
<1>o. Owner(o)' /\ HasGroup(o) /\ HasGroup(o)'
  BY <1>0, <1>a, <1>b, <1>f, NullIsFresh DEF Owner, RefersTo, BeingCreated, HasGroup, Alive
<1>1. TypeOK'
  <2>1. obj' \in [Places -> Handle]
    BY <1>0, <1>a, <1>b DEF IInv, TypeOK
  <2>2. tcb' \in [TaskAddr -> Tcb]
    BY <1>0, <1>a DEF IInv, TypeOK, Tcb
  <2>3. pc' \in [Threads -> ThreadPC]
    BY <1>i DEF IInv, TypeOK, ThreadPC, Alive
  <2> QED
    BY <1>0, <1>a, <1>i, <2>1, <2>2, <2>3 DEF IInv, TypeOK, OpPC, Benign
<1>2. ASSUME NEW d \in Clients PROVE CallInv(d)'
  <2>0. d # o
    BY <1>0, PlacesDisjoint
  <2>1. CASE d = c
    BY <1>b, <2>0, <2>1 DEF IInv, TypeOK, CallInv, Empty, Places, Benign
  <2>2. CASE d # c
    <3>1. op'[d] = op[d] /\ dst'[d] = dst[d] /\ src'[d] = src[d]
      BY <2>2 DEF IInv, TypeOK, Benign
    <3>2. CallInv(d) /\ (op[d] # "idle" => dst[d] # o /\ src[d] # o)
      BY <1>e0, <1>i, <2>2 DEF IInv, CallsApart
    <3>3. /\ dst[d] \in Objects => dst[d] \in Places
          /\ src[d] \in Objects => src[d] \in Places
      BY DEF Places
    <3> QED
      BY <1>b, <1>c, <1>e, <1>p, <2>0, <3>1, <3>2, <3>3, SMTT(60)
      DEF CallInv, Empty, Owner, LetGo, RefersTo, Places
  <2> QED
    BY <2>1, <2>2
<1>3. CallsApart'
  BY DEF IInv, TypeOK, CallsApart, Benign
<1>4. ASSUME NEW q \in Places PROVE PlaceInv(q)'
  <2>1. CASE q = o
    BY <1>o, <2>1 DEF PlaceInv
  <2>2. CASE q # o
    BY <1>b, <1>i, <1>p, <2>2 DEF IInv, TypeOK, PlaceInv, Empty, Benign
  <2> QED
    BY <2>1, <2>2
<1>5. PlacesApart'
  <2>1. \A p, q \in Places : p # q /\ obj'[p].task # Null => obj'[p].task # obj'[q].task
    <3>1. \A q \in Places : q # o => obj'[q].task = obj[q].task /\ obj'[q].task # a
      BY <1>a, <1>b, ZenonT(30)
    <3> QED
      BY <1>b, <3>1 DEF IInv, PlacesApart
  <2> QED
    BY <1>c, <1>o, <1>p, <2>1 DEF IInv, PlacesApart
<1>6. GroupsHeld'
  BY <1>c, <1>o, <1>p DEF IInv, GroupsHeld
<1>7. AddressesFresh'
  BY <1>a, <1>b, <1>c, <1>0 DEF IInv, TypeOK, AddressesFresh, Handle
<1>8. ASSUME NEW b \in TaskAddr PROVE TaskInv(b)'
  BY <1>a, <1>d, <1>e, <1>f, <1>0 DEF IInv, TypeOK, TaskInv, Alive
<1>9. ASSUME NEW u \in Threads PROVE ThreadInv(u)'
  <2>1. CASE u = t
    <3>1. tcb'[a] = [st |-> "live", thr |-> t, tls |-> obj[o].ev]
      BY <1>a DEF IInv, TypeOK
    <3>2. bits'[obj'[o].ev] = {}
      BY <1>0, <1>b DEF BeingCreated
    <3> QED
      BY <1>0, <1>b, <1>f, <1>o, <2>1, <3>1, <3>2 DEF ThreadInv, Alive
  <2>2. CASE u # t
    <3>1. pc[u] \in {"ready", "copied"} => param[u] # o /\ param[u] \in Places
      BY <1>0, <1>i, <2>2 DEF IInv, ThreadInv, Places
    <3>2. pc[u] \in Alive => at[u] # a
      BY <1>a DEF IInv, ThreadInv
    <3>3. (\E p \in Places : obj[p].owner /\ obj[p].arg = u) => (\E p \in Places : obj'[p].owner /\ obj'[p].arg = u)
      <4> SUFFICES ASSUME NEW p \in Places, obj[p].owner, obj[p].arg = u
                   PROVE  obj'[p].owner /\ obj'[p].arg = u
        OBVIOUS
      <4>1. p # o
        BY <1>0 DEF BeingCreated
      <4> QED
        BY <1>b, <4>1
    <3> QED
      BY <1>a, <1>c, <1>e, <1>p, <2>2, <3>1, <3>2, <3>3 DEF IInv, TypeOK, ThreadInv, Alive
  <2> QED
    BY <2>1, <2>2
<1>10. ASSUME NEW q \in Places PROVE OwnerInv(q)'
  <2>1. CASE q = o
    BY <1>0, <1>a, <1>b, <2>1 DEF IInv, TypeOK, OwnerInv, BeingCreated
  <2>2. CASE q # o
    <3>1. obj[q].owner => Owner(q) /\ obj[q].task # a
      BY <1>a, NullIsFresh DEF IInv, PlaceInv, Empty, NoHandle, BeingCreated, LetGo
    <3> QED
      BY <1>a, <1>b, <1>c, <1>e, <2>2, <3>1 DEF IInv, TypeOK, OwnerInv, Owner, RefersTo
  <2> QED
    BY <2>1, <2>2
<1> QED
  BY <1>1, <1>2, <1>3, <1>4, <1>5, <1>6, <1>7, <1>8, <1>9, <1>10 DEF IInv

(* Moving a handle that is not being copied into an empty place exchanges  *)
(* the contents of the two places.                                         *)
LEMMA MoveInv ==
  ASSUME IInv, NEW p \in Places, NEW q \in Places, p # q, Move(p, q), Empty(q),
         Empty(p) \/ (Owner(p) /\ pc[obj[p].arg] \notin {"ready", "copied"}),
         UNCHANGED <<taskVars, evVars, threadVars>>
  PROVE  /\ obj' \in [Places -> Handle]
         /\ obj'[q] = obj[p] /\ Empty(p)'
         /\ \A r \in Places : r # p /\ r # q => obj'[r] = obj[r]
         /\ Empty(q)' \/ Owner(q)'
         /\ PlacesApart' /\ GroupsHeld' /\ AddressesFresh'
         /\ \A a \in TaskAddr : TaskInv(a)'
         /\ \A t \in Threads : ThreadInv(t)'
         /\ \A r \in Places : OwnerInv(r)'
<1> USE DEF taskVars, evVars, threadVars
<1>1. obj[q] = NoHandle /\ obj' = [obj EXCEPT ![q] = obj[p], ![p] = obj[q]]
  BY DEF Move, Empty
<1>2. obj' \in [Places -> Handle] /\ obj'[q] = obj[p] /\ obj'[p] = obj[q]
      /\ \A r \in Places : r # p /\ r # q => obj'[r] = obj[r]
  BY <1>1 DEF IInv, TypeOK
<1>3. Empty(p)'
  BY <1>1, <1>2 DEF Empty
<1>4. Empty(q)' \/ Owner(q)'
  BY <1>2 DEF Empty, Owner, RefersTo
<1>5. PlacesApart'
  BY <1>2 DEF IInv, PlacesApart, HasGroup
<1>6. GroupsHeld'
  BY <1>2 DEF IInv, GroupsHeld, HasGroup
<1>7. AddressesFresh'
  BY <1>2 DEF IInv, AddressesFresh
<1>8. ASSUME NEW a \in TaskAddr PROVE TaskInv(a)'
  BY DEF IInv, TaskInv
<1>9. ASSUME NEW t \in Threads PROVE ThreadInv(t)'
  <2>1. pc[t] \in {"ready", "copied"} => param[t] \in Places /\ param[t] # p /\ param[t] # q
    BY <1>1, NullIsFresh DEF IInv, ThreadInv, NoHandle, Empty, Places
  <2>2. (\E r \in Places : obj[r].owner /\ obj[r].arg = t) => (\E r \in Places : obj'[r].owner /\ obj'[r].arg = t)
    BY <1>2
  <2> QED
    BY <1>2, <2>1, <2>2 DEF IInv, ThreadInv, Owner, RefersTo
<1>10. ASSUME NEW r \in Places PROVE OwnerInv(r)'
  BY <1>2 DEF IInv, OwnerInv
<1> QED
  BY <1>2, <1>3, <1>4, <1>5, <1>6, <1>7, <1>8, <1>9, <1>10

(* An object that a client swaps is empty or owns a thread, and an owner   *)
(* whose start was signalled is no longer being copied.                    *)
LEMMA SwappedObject ==
  ASSUME IInv, NEW c \in Clients, op[c] \in {"swap1", "swap2", "swap3"},
         NEW p, p \in {dst[c], src[c], c}, WaitForStart(p)
  PROVE  p \in Places /\ (Empty(p) \/ (Owner(p) /\ pc[obj[p].arg] \notin {"ready", "copied"}))
<1>1. p \in Places
  BY DEF IInv, CallInv, Places
<1>2. Empty(p) \/ Owner(p)
  BY <1>1, PlacesDisjoint DEF IInv, PlaceInv, CallsApart, CallInv
<1>3. Owner(p) => "started" \in bits[obj[p].ev]
  BY DEF WaitForStart, Signalled, Owner
<1>4. Owner(p) => obj[p].arg \in Threads /\ HasGroup(p)
  BY NullIsFresh DEF Owner, RefersTo, HasGroup
<1>5. ASSUME Owner(p) PROVE pc[obj[p].arg] \notin {"ready", "copied"}
  <2> SUFFICES ASSUME pc[obj[p].arg] \in {"ready", "copied"} PROVE FALSE
    OBVIOUS
  <2>1. PICK t \in Threads : t = obj[p].arg
    BY <1>4, <1>5
  <2>2. param[t] \in Places /\ obj[param[t]].arg = t /\ "started" \notin bits[obj[param[t]].ev]
    BY <1>5, <2>1 DEF IInv, ThreadInv, Places
  <2>3. param[t] = p
    BY <1>1, <2>1, <2>2, NullIsFresh DEF IInv, PlacesApart
  <2> QED
    BY <1>3, <1>5, <2>2, <2>3
<1> QED
  BY <1>1, <1>2, <1>5

(* tmp = move(x): the object x is empty after it.                           *)
LEMMA Swap1Inv ==
  ASSUME IInv, NEW c \in Clients, Swap1(c)
  PROVE  IInv'
<1> USE DEF Swap1, SameCall, Goto, taskVars, evVars, threadVars
<1>0. PICK p \in Places, q \in Places :
        p = dst[c] /\ q = c /\ {p, q} \subseteq {dst[c], src[c], c}
  BY DEF IInv, CallInv, Places
<1>s. p # q /\ Empty(q)
  BY <1>0, PlacesDisjoint DEF IInv, CallInv
<1>m. /\ UNCHANGED <<tcb, pc, live, bits, at, param, local, functor>>
      /\ obj' \in [Places -> Handle]
      /\ Empty(p)' /\ (Empty(q)' \/ Owner(q)')
      /\ \A r \in Places : r # p /\ r # q => obj'[r] = obj[r]
      /\ PlacesApart' /\ GroupsHeld' /\ AddressesFresh'
      /\ \A a \in TaskAddr : TaskInv(a)'
      /\ \A t \in Threads : ThreadInv(t)'
      /\ \A r \in Places : OwnerInv(r)'
  <2>1. Move(p, q) /\ UNCHANGED <<taskVars, evVars, threadVars>>
    BY <1>0 DEF MoveConstruct
  <2>2. Empty(p) \/ (Owner(p) /\ pc[obj[p].arg] \notin {"ready", "copied"})
    BY <1>0, SwappedObject DEF MoveConstruct
  <2> QED
    BY <1>s, <2>1, <2>2, MoveInv
<1>1. TypeOK'
  BY <1>m DEF IInv, TypeOK, OpPC
<1>k. ASSUME NEW d \in Clients, d # c
      PROVE  /\ op'[d] = op[d] /\ dst'[d] = dst[d] /\ src'[d] = src[d]
             /\ obj'[d] = obj[d]
             /\ op[d] # "idle" => /\ obj'[dst[d]] = obj[dst[d]] /\ obj'[src[d]] = obj[src[d]]
                                 /\ dst[d] # dst[c] /\ dst[d] # src[c]
  <2>1. op'[d] = op[d] /\ dst'[d] = dst[d] /\ src'[d] = src[d]
    BY <1>k DEF IInv, TypeOK
  <2>2. d \in Places /\ d # p /\ d # q
    BY <1>0, <1>k, PlacesDisjoint DEF IInv, CallInv, Places
  <2>3. op[d] # "idle" => /\ dst[d] \in Places /\ src[d] \in Places
                          /\ dst[d] \notin {dst[c], src[c], c} /\ src[d] \notin {dst[c], src[c], c}
    BY <1>k, PlacesDisjoint DEF IInv, CallInv, CallsApart, Places
  <2> QED
    BY <1>0, <1>m, <2>1, <2>2, <2>3
<1>2. ASSUME NEW d \in Clients PROVE CallInv(d)'
  <2>1. CASE d = c
    <3>1. obj'[dst[c]] = NoHandle
      BY <1>0, <1>m, PlacesDisjoint DEF IInv, TypeOK, CallInv, Empty, Places
    <3>2. \/ dst'[c] = dst[c] /\ src'[c] = src[c]
          \/ op'[c] = "idle" /\ dst'[c] = Null /\ src'[c] = Null
      BY DEF IInv, TypeOK
    <3> QED
      BY <2>1, <3>1, <3>2 DEF IInv, TypeOK, CallInv, Empty
  <2>2. CASE d # c
    <3>1. CallInv(d)
      BY DEF IInv
    <3>2. /\ op'[d] = op[d] /\ dst'[d] = dst[d] /\ src'[d] = src[d] /\ obj'[d] = obj[d]
          /\ op[d] # "idle" => obj'[dst[d]] = obj[dst[d]] /\ obj'[src[d]] = obj[src[d]]
      BY <1>k, <2>2
    <3> QED
      BY <1>m, <3>1, <3>2 DEF CallInv, Empty, Owner, LetGo, BeingCreated, RefersTo
  <2> QED
    BY <2>1, <2>2
<1>3. CallsApart'
  <2> SUFFICES ASSUME NEW d \in Clients, NEW e \in Clients, d # e, op'[d] # "idle", op'[e] # "idle"
               PROVE  dst'[d] # dst'[e] /\ dst'[d] # src'[e] /\ src'[d] # src'[e]
    BY DEF CallsApart
  <2>1. /\ op[d] # "idle" /\ op[e] # "idle"
        /\ dst'[d] = dst[d] /\ src'[d] = src[d] /\ dst'[e] = dst[e] /\ src'[e] = src[e]
    BY <1>k DEF IInv, TypeOK
  <2> QED
    BY <2>1 DEF IInv, CallsApart
<1>4. ASSUME NEW r \in Places PROVE PlaceInv(r)'
  <2>1. CASE r = p \/ r = q
    BY <1>m, <2>1 DEF PlaceInv
  <2>2. CASE r # p /\ r # q
    <3>1. PlaceInv(r) /\ obj'[r] = obj[r]
      BY <1>m, <2>2 DEF IInv
    <3>2. ASSUME NEW d \in Clients, op[d] \in {"create", "detached"}
          PROVE  op'[d] = op[d] /\ dst'[d] = dst[d]
      BY <1>k, <3>2
    <3>3. Empty(r) => Empty(r)'
      BY <3>1 DEF Empty
    <3>4. Owner(r) => Owner(r)'
      BY <1>m, <3>1 DEF Owner, RefersTo
    <3>5. BeingCreated(r) => BeingCreated(r)'
      BY <1>m, <3>1 DEF BeingCreated
    <3>6. LetGo(r) => LetGo(r)'
      BY <1>m, <3>1 DEF LetGo, RefersTo
    <3> QED
      BY <3>1, <3>2, <3>3, <3>4, <3>5, <3>6 DEF PlaceInv
  <2> QED
    BY <2>1, <2>2
<1> QED
  BY <1>1, <1>2, <1>3, <1>4, <1>m DEF IInv

(* x = move(y): nothing is deleted, x being empty.                          *)
LEMMA Swap2Inv ==
  ASSUME IInv, NEW c \in Clients, Swap2(c)
  PROVE  IInv'
<1> USE DEF Swap2, SameCall, Goto, taskVars, evVars, threadVars
<1>0. PICK p \in Places, q \in Places :
        p = src[c] /\ q = dst[c] /\ {p, q} \subseteq {dst[c], src[c], c}
  BY DEF IInv, CallInv, Places
<1>s0. Empty(q)
  BY <1>0 DEF IInv, CallInv
<1>s. Empty(q) /\ ~obj[q].owner
  BY <1>s0 DEF Empty, NoHandle
<1>m. /\ UNCHANGED <<tcb, pc, live, bits, at, param, local, functor>>
      /\ obj' \in [Places -> Handle]
      /\ Empty(p)' /\ (Empty(q)' \/ Owner(q)')
      /\ \A r \in Places : r # p /\ r # q => obj'[r] = obj[r]
      /\ PlacesApart' /\ GroupsHeld' /\ AddressesFresh'
      /\ \A a \in TaskAddr : TaskInv(a)'
      /\ \A t \in Threads : ThreadInv(t)'
      /\ \A r \in Places : OwnerInv(r)'
  <2>1. CASE p = q
    <3>1. UNCHANGED <<obj, tcb, pc, live, bits, at, param, local, functor>>
      BY <1>0, <1>s, <2>1 DEF MoveAssign
    <3> QED
      BY <1>s, <2>1, <3>1 DEF IInv, TypeOK, Empty, PlacesApart, GroupsHeld, AddressesFresh, HasGroup,
         TaskInv, ThreadInv, OwnerInv, Owner, RefersTo
  <2>2. CASE p # q
    <3>1. WaitForStart(p) /\ Move(p, q) /\ UNCHANGED <<taskVars, evVars, threadVars>>
      BY <1>0, <1>s, <2>2 DEF MoveAssign
    <3>2. Empty(p) \/ (Owner(p) /\ pc[obj[p].arg] \notin {"ready", "copied"})
      BY <1>0, <3>1, SwappedObject
    <3> QED
      BY <1>s, <2>2, <3>1, <3>2, MoveInv
  <2> QED
    BY <2>1, <2>2
<1>1. TypeOK'
  BY <1>m DEF IInv, TypeOK, OpPC
<1>k. ASSUME NEW d \in Clients, d # c
      PROVE  /\ op'[d] = op[d] /\ dst'[d] = dst[d] /\ src'[d] = src[d]
             /\ obj'[d] = obj[d]
             /\ op[d] # "idle" => /\ obj'[dst[d]] = obj[dst[d]] /\ obj'[src[d]] = obj[src[d]]
                                 /\ dst[d] # dst[c] /\ dst[d] # src[c]
  <2>1. op'[d] = op[d] /\ dst'[d] = dst[d] /\ src'[d] = src[d]
    BY <1>k DEF IInv, TypeOK
  <2>2. d \in Places /\ d # p /\ d # q
    BY <1>0, <1>k, PlacesDisjoint DEF IInv, CallInv, Places
  <2>3. op[d] # "idle" => /\ dst[d] \in Places /\ src[d] \in Places
                          /\ dst[d] \notin {dst[c], src[c], c} /\ src[d] \notin {dst[c], src[c], c}
    BY <1>k, PlacesDisjoint DEF IInv, CallInv, CallsApart, Places
  <2> QED
    BY <1>0, <1>m, <2>1, <2>2, <2>3
<1>2. ASSUME NEW d \in Clients PROVE CallInv(d)'
  <2>1. CASE d = c
    <3>1. obj'[src[c]] = NoHandle
      BY <1>0, <1>m, PlacesDisjoint DEF IInv, TypeOK, CallInv, Empty, Places
    <3>2. \/ dst'[c] = dst[c] /\ src'[c] = src[c]
          \/ op'[c] = "idle" /\ dst'[c] = Null /\ src'[c] = Null
      BY DEF IInv, TypeOK
    <3> QED
      BY <2>1, <3>1, <3>2 DEF IInv, TypeOK, CallInv, Empty
  <2>2. CASE d # c
    <3>1. CallInv(d)
      BY DEF IInv
    <3>2. /\ op'[d] = op[d] /\ dst'[d] = dst[d] /\ src'[d] = src[d] /\ obj'[d] = obj[d]
          /\ op[d] # "idle" => obj'[dst[d]] = obj[dst[d]] /\ obj'[src[d]] = obj[src[d]]
      BY <1>k, <2>2
    <3> QED
      BY <1>m, <3>1, <3>2 DEF CallInv, Empty, Owner, LetGo, BeingCreated, RefersTo
  <2> QED
    BY <2>1, <2>2
<1>3. CallsApart'
  <2> SUFFICES ASSUME NEW d \in Clients, NEW e \in Clients, d # e, op'[d] # "idle", op'[e] # "idle"
               PROVE  dst'[d] # dst'[e] /\ dst'[d] # src'[e] /\ src'[d] # src'[e]
    BY DEF CallsApart
  <2>1. /\ op[d] # "idle" /\ op[e] # "idle"
        /\ dst'[d] = dst[d] /\ src'[d] = src[d] /\ dst'[e] = dst[e] /\ src'[e] = src[e]
    BY <1>k DEF IInv, TypeOK
  <2> QED
    BY <2>1 DEF IInv, CallsApart
<1>4. ASSUME NEW r \in Places PROVE PlaceInv(r)'
  <2>1. CASE r = p \/ r = q
    BY <1>m, <2>1 DEF PlaceInv
  <2>2. CASE r # p /\ r # q
    <3>1. PlaceInv(r) /\ obj'[r] = obj[r]
      BY <1>m, <2>2 DEF IInv
    <3>2. ASSUME NEW d \in Clients, op[d] \in {"create", "detached"}
          PROVE  op'[d] = op[d] /\ dst'[d] = dst[d]
      BY <1>k, <3>2
    <3>3. Empty(r) => Empty(r)'
      BY <3>1 DEF Empty
    <3>4. Owner(r) => Owner(r)'
      BY <1>m, <3>1 DEF Owner, RefersTo
    <3>5. BeingCreated(r) => BeingCreated(r)'
      BY <1>m, <3>1 DEF BeingCreated
    <3>6. LetGo(r) => LetGo(r)'
      BY <1>m, <3>1 DEF LetGo, RefersTo
    <3> QED
      BY <3>1, <3>2, <3>3, <3>4, <3>5, <3>6 DEF PlaceInv
  <2> QED
    BY <2>1, <2>2
<1> QED
  BY <1>1, <1>2, <1>3, <1>4, <1>m DEF IInv

(* y = move(tmp): the local is empty again.                                 *)
LEMMA Swap3Inv ==
  ASSUME IInv, NEW c \in Clients, Swap3(c)
  PROVE  IInv'
<1> USE DEF Swap3, End, Goto, taskVars, evVars, threadVars
<1>0. PICK p \in Places, q \in Places :
        p = c /\ q = src[c] /\ {p, q} \subseteq {dst[c], src[c], c}
  BY DEF IInv, CallInv, Places
<1>s0. p # q /\ Empty(q)
  BY <1>0, PlacesDisjoint DEF IInv, CallInv
<1>s. p # q /\ Empty(q) /\ ~obj[q].owner
  BY <1>s0 DEF Empty, NoHandle
<1>m. /\ UNCHANGED <<tcb, pc, live, bits, at, param, local, functor>>
      /\ obj' \in [Places -> Handle]
      /\ Empty(p)' /\ (Empty(q)' \/ Owner(q)')
      /\ \A r \in Places : r # p /\ r # q => obj'[r] = obj[r]
      /\ PlacesApart' /\ GroupsHeld' /\ AddressesFresh'
      /\ \A a \in TaskAddr : TaskInv(a)'
      /\ \A t \in Threads : ThreadInv(t)'
      /\ \A r \in Places : OwnerInv(r)'
  <2>1. WaitForStart(p) /\ Move(p, q) /\ UNCHANGED <<taskVars, evVars, threadVars>>
    BY <1>0, <1>s DEF MoveAssign
  <2>2. Empty(p) \/ (Owner(p) /\ pc[obj[p].arg] \notin {"ready", "copied"})
    BY <1>0, <2>1, SwappedObject
  <2> QED
    BY <1>s, <2>1, <2>2, MoveInv
<1>1. TypeOK'
  BY <1>m DEF IInv, TypeOK, OpPC
<1>k. ASSUME NEW d \in Clients, d # c
      PROVE  /\ op'[d] = op[d] /\ dst'[d] = dst[d] /\ src'[d] = src[d]
             /\ obj'[d] = obj[d]
             /\ op[d] # "idle" => /\ obj'[dst[d]] = obj[dst[d]] /\ obj'[src[d]] = obj[src[d]]
                                 /\ dst[d] # dst[c] /\ dst[d] # src[c]
  <2>1. op'[d] = op[d] /\ dst'[d] = dst[d] /\ src'[d] = src[d]
    BY <1>k DEF IInv, TypeOK
  <2>2. d \in Places /\ d # p /\ d # q
    BY <1>0, <1>k, PlacesDisjoint DEF IInv, CallInv, Places
  <2>3. op[d] # "idle" => /\ dst[d] \in Places /\ src[d] \in Places
                          /\ dst[d] \notin {dst[c], src[c], c} /\ src[d] \notin {dst[c], src[c], c}
    BY <1>k, PlacesDisjoint DEF IInv, CallInv, CallsApart, Places
  <2> QED
    BY <1>0, <1>m, <2>1, <2>2, <2>3
<1>2. ASSUME NEW d \in Clients PROVE CallInv(d)'
  <2>1. CASE d = c
    <3>1. obj'[c] = NoHandle /\ op'[c] = "idle"
      BY <1>0, <1>m, PlacesDisjoint DEF IInv, TypeOK, CallInv, Empty, Places
    <3>2. \/ dst'[c] = dst[c] /\ src'[c] = src[c]
          \/ op'[c] = "idle" /\ dst'[c] = Null /\ src'[c] = Null
      BY DEF IInv, TypeOK
    <3> QED
      BY <2>1, <3>1, <3>2 DEF IInv, TypeOK, CallInv, Empty
  <2>2. CASE d # c
    <3>1. CallInv(d)
      BY DEF IInv
    <3>2. /\ op'[d] = op[d] /\ dst'[d] = dst[d] /\ src'[d] = src[d] /\ obj'[d] = obj[d]
          /\ op[d] # "idle" => obj'[dst[d]] = obj[dst[d]] /\ obj'[src[d]] = obj[src[d]]
      BY <1>k, <2>2
    <3> QED
      BY <1>m, <3>1, <3>2 DEF CallInv, Empty, Owner, LetGo, BeingCreated, RefersTo
  <2> QED
    BY <2>1, <2>2
<1>3. CallsApart'
  <2> SUFFICES ASSUME NEW d \in Clients, NEW e \in Clients, d # e, op'[d] # "idle", op'[e] # "idle"
               PROVE  dst'[d] # dst'[e] /\ dst'[d] # src'[e] /\ src'[d] # src'[e]
    BY DEF CallsApart
  <2>1. /\ op[d] # "idle" /\ op[e] # "idle"
        /\ dst'[d] = dst[d] /\ src'[d] = src[d] /\ dst'[e] = dst[e] /\ src'[e] = src[e]
    BY <1>k DEF IInv, TypeOK
  <2> QED
    BY <2>1 DEF IInv, CallsApart
<1>4. ASSUME NEW r \in Places PROVE PlaceInv(r)'
  <2>1. CASE r = p \/ r = q
    BY <1>m, <2>1 DEF PlaceInv
  <2>2. CASE r # p /\ r # q
    <3>1. PlaceInv(r) /\ obj'[r] = obj[r]
      BY <1>m, <2>2 DEF IInv
    <3>2. ASSUME NEW d \in Clients, op[d] \in {"create", "detached"}
          PROVE  op'[d] = op[d] /\ dst'[d] = dst[d]
      BY <1>k, <3>2
    <3>3. Empty(r) => Empty(r)'
      BY <3>1 DEF Empty
    <3>4. Owner(r) => Owner(r)'
      BY <1>m, <3>1 DEF Owner, RefersTo
    <3>5. BeingCreated(r) => BeingCreated(r)'
      BY <1>m, <3>1 DEF BeingCreated
    <3>6. LetGo(r) => LetGo(r)'
      BY <1>m, <3>1 DEF LetGo, RefersTo
    <3> QED
      BY <3>1, <3>2, <3>3, <3>4, <3>5, <3>6 DEF PlaceInv
  <2> QED
    BY <2>1, <2>2
<1> QED
  BY <1>1, <1>2, <1>3, <1>4, <1>m DEF IInv

(* A task that still exists is the one of the thread in the object; if it  *)
(* does not exist any more the thread is dead.                             *)
LEMMA TaskExistsIs ==
  ASSUME IInv, NEW p \in Places, NEW t \in Threads, t = obj[p].arg,
         RefersTo(p, Alive \cup {"dead"})
  PROVE  LET a == obj[p].task
         IN  /\ a \in TaskAddr /\ at[t] = a
             /\ TaskExists(a) => tcb[a].thr = t /\ pc[t] \in Alive
             /\ ~TaskExists(a) => pc[t] = "dead"
<1> DEFINE a == obj[p].task
<1>1. a \in TaskAddr /\ at[t] = a /\ pc[t] \in Alive \cup {"dead"}
  BY DEF RefersTo
<1>2. ASSUME TaskExists(a) PROVE tcb[a].thr = t /\ pc[t] \in Alive
  <2>1. tcb[a].st = "live" /\ a # Null
    BY <1>2 DEF TaskExists
  <2>2. tcb[a].thr = t
    BY <2>1 DEF IInv, AddressesFresh
  <2> QED
    BY <1>1, <2>1, <2>2 DEF IInv, TaskInv
<1>3. ASSUME ~TaskExists(a) PROVE pc[t] = "dead"
  BY <1>1, <1>3, NullIsFresh DEF IInv, ThreadInv, TaskExists
<1> QED
  BY <1>1, <1>2, <1>3

(* detach takes the group away from an existing task; a thread that is     *)
(* dead keeps nothing that could still signal the group.                   *)
LEMMA DetachCriticalInv ==
  ASSUME IInv, NEW c \in Clients, DetachCritical(c)
  PROVE  IInv'
<1> USE DEF DetachCritical, SameCall, Goto, threadVars
<1>i. PICK o \in Objects, t \in Threads : o = dst[c] /\ t = obj[dst[c]].arg
  BY DEF IInv, CallInv, Owner, RefersTo
<1>0. o \in Places /\ Owner(o) /\ pc[t] \notin {"ready", "copied"} /\ HasGroup(o)
  BY <1>i, NullIsFresh DEF IInv, CallInv, HasGroup, Owner, RefersTo, Places
<1>t. PICK a \in TaskAddr :
        /\ a = obj[o].task /\ at[t] = a
        /\ TaskExists(a) => tcb[a].thr = t /\ pc[t] \in Alive
        /\ ~TaskExists(a) => pc[t] = "dead"
  BY <1>0, <1>i, TaskExistsIs DEF Owner
<1>1. CASE TaskExists(a)
  <2>a. /\ tcb' = [tcb EXCEPT ![a].tls = Null]
        /\ live' = live \ {obj[o].ev}
        /\ obj' = [obj EXCEPT ![o].owner = FALSE]
    BY <1>1, <1>i, <1>t DEF ClearSlot, DeleteGroup
  <2>b. /\ obj'[o].task = a /\ obj'[o].ev = obj[o].ev /\ obj'[o].arg = t /\ ~obj'[o].owner
        /\ obj'[o] \in Handle
        /\ \A q \in Places : q # o => obj'[q] = obj[q]
    <3>1. obj[o] \in Handle /\ obj'[o] = [obj[o] EXCEPT !.owner = FALSE] /\ obj[o].arg = t
      BY <1>0, <1>i, <2>a DEF IInv, TypeOK
    <3>2. ASSUME NEW h \in Handle, NEW r, r = [h EXCEPT !.owner = FALSE]
          PROVE  r.task = h.task /\ r.ev = h.ev /\ r.arg = h.arg /\ ~r.owner /\ r \in Handle
      BY <3>2 DEF Handle
    <3> QED
      BY <1>0, <1>t, <2>a, <3>1, <3>2 DEF IInv, TypeOK
  <2>c. /\ tcb'[a].st = "live" /\ tcb'[a].thr = t /\ tcb'[a].tls = Null
        /\ tcb' \in [TaskAddr -> Tcb]
        /\ \A b \in TaskAddr : b # a => tcb'[b] = tcb[b]
    <3>1. tcb[a] \in Tcb /\ tcb'[a] = [tcb[a] EXCEPT !.tls = Null] /\ tcb[a].st = "live" /\ tcb[a].thr = t
      BY <1>1, <1>t, <2>a DEF IInv, TypeOK, TaskExists
    <3>2. ASSUME NEW h \in Tcb, NEW r, r = [h EXCEPT !.tls = Null]
          PROVE  r.st = h.st /\ r.thr = h.thr /\ r.tls = Null /\ r \in Tcb
      BY <3>2 DEF Tcb
    <3> QED
      BY <2>a, <3>1, <3>2 DEF IInv, TypeOK
  <2>d. \A q \in Places : q # o => obj[q].arg # t /\ (HasGroup(q) => obj[q].ev # obj[o].ev)
    BY <1>0, <1>i, NullIsFresh DEF IInv, PlacesApart
  <2>e. \A q \in Places : obj'[q].arg = obj[q].arg /\ obj'[q].ev = obj[q].ev /\ obj'[q].task = obj[q].task
    BY <1>i, <1>t, <2>b
  <2>f. LetGo(o)' /\ ~HasGroup(o)'
    BY <1>0, <1>1, <1>i, <1>t, <2>b, NullIsFresh DEF LetGo, RefersTo, HasGroup
  <2>p. ASSUME NEW q \in Places, q # o
        PROVE  /\ Owner(q) => Owner(q)'
               /\ BeingCreated(q) => BeingCreated(q)'
               /\ LetGo(q) => LetGo(q)'
               /\ HasGroup(q)' <=> HasGroup(q)
    <3>0. obj'[q] = obj[q] /\ obj[q].arg # t /\ (HasGroup(q) => obj[q].ev # obj[o].ev)
      BY <2>b, <2>d, <2>p
    <3>1. HasGroup(q)' <=> HasGroup(q)
      BY <3>0 DEF HasGroup
    <3>3. Owner(q) => Owner(q)'
      BY <2>a, <3>0, HasGroupIs DEF Owner, RefersTo
    <3>4. BeingCreated(q) => BeingCreated(q)'
      BY <2>a, <3>0, HasGroupIs DEF BeingCreated
    <3>5. LetGo(q) => LetGo(q)'
      BY <3>0 DEF LetGo, RefersTo
    <3> QED
      BY <3>1, <3>3, <3>4, <3>5
  <2>1. TypeOK'
    <3>1. obj' \in [Places -> Handle]
      BY <1>0, <2>a, <2>b DEF IInv, TypeOK
    <3> QED
      BY <2>a, <2>c, <3>1 DEF IInv, TypeOK, OpPC
  <2>2. ASSUME NEW d \in Clients PROVE CallInv(d)'
    <3>0. d # o
      BY <1>i, PlacesDisjoint
    <3>1. CASE d = c
      <4>1. obj'[c] = obj[c] /\ op'[c] = "detached" /\ dst'[c] = o /\ src'[c] = src[c] /\ CallInv(c)
        BY <1>i, <2>b, <3>0, <3>1 DEF IInv, TypeOK, Places
      <4> QED
        BY <2>f, <3>1, <4>1, <1>i DEF CallInv, Empty
    <3>2. CASE d # c
      <4>1. op'[d] = op[d] /\ dst'[d] = dst[d] /\ src'[d] = src[d] /\ obj'[d] = obj[d]
        BY <2>b, <3>0, <3>2 DEF IInv, TypeOK, Places
      <4>2. CallInv(d) /\ (op[d] # "idle" => dst[d] # o /\ src[d] # o)
        BY <1>i, <3>2 DEF IInv, CallsApart
      <4>3. op[d] # "idle" => dst[d] \in Places /\ src[d] \in Places
        BY <4>2 DEF CallInv, Places
      <4> QED
        BY <2>b, <2>p, <4>1, <4>2, <4>3 DEF CallInv, Empty
    <3> QED
      BY <3>1, <3>2
  <2>3. CallsApart'
    BY DEF IInv, TypeOK, CallsApart
  <2>4. ASSUME NEW q \in Places PROVE PlaceInv(q)'
    <3>1. CASE q = o
      BY <1>i, <2>f, <3>1 DEF IInv, TypeOK, PlaceInv
    <3>2. CASE q # o
      BY <1>i, <2>b, <2>p, <3>2 DEF IInv, TypeOK, PlaceInv, Empty
    <3> QED
      BY <3>1, <3>2
  <2>5. PlacesApart'
    BY <2>e, <2>f, <2>p DEF IInv, PlacesApart
  <2>6. GroupsHeld'
    BY <2>a, <2>e, <2>p DEF IInv, GroupsHeld
  <2>7. AddressesFresh'
    <3>1. \A b \in TaskAddr : tcb'[b].thr = tcb[b].thr /\ (tcb'[b].st # "free" => tcb[b].st # "free")
      BY <1>1, <1>t, <2>c DEF TaskExists
    <3>2. \A q \in Places : obj[q].task \in TaskAddr \cup {Null}
      BY DEF IInv, TypeOK, Handle
    <3> QED
      BY <2>e, <3>1, <3>2 DEF IInv, AddressesFresh
  <2>8. ASSUME NEW b \in TaskAddr PROVE TaskInv(b)'
    BY <1>t, <1>1, <2>c DEF IInv, TaskInv
  <2>9. ASSUME NEW u \in Threads PROVE ThreadInv(u)'
    <3>1. CASE u = t
      BY <1>0, <1>t, <1>1, <2>c, <3>1 DEF IInv, ThreadInv
    <3>2. CASE u # t
      <4>1. pc[u] \in {"ready", "copied"} => param[u] # o /\ param[u] \in Places
        BY <1>i, <3>2 DEF IInv, ThreadInv, Places
      <4>2. pc[u] \in Alive => at[u] # a
        BY <1>t, <1>1, <3>2 DEF IInv, ThreadInv
      <4>3. ASSUME NEW p \in Places, obj[p].owner, obj[p].arg = u
            PROVE  obj'[p].owner /\ obj'[p].arg = u
        BY <1>i, <2>b, <3>2, <4>3
      <4> QED
        BY <2>c, <2>e, <2>p, <4>1, <4>2, <4>3 DEF IInv, ThreadInv, Alive
    <3> QED
      BY <3>1, <3>2
  <2>10. ASSUME NEW q \in Places PROVE OwnerInv(q)'
    <3>1. CASE q = o
      BY <2>b, <3>1 DEF OwnerInv
    <3>2. CASE q # o
      <4>1. obj[q].owner => Owner(q) /\ OwnerInv(q)
        BY DEF IInv, PlaceInv, Empty, NoHandle, BeingCreated, LetGo
      <4>2. Owner(q) /\ pc[obj[q].arg] \in Alive => obj[q].task # a
        BY <1>t, <1>1, <2>d, <3>2 DEF IInv, Owner, RefersTo, ThreadInv
      <4> QED
        BY <2>b, <2>c, <3>2, <4>1, <4>2 DEF OwnerInv, Owner, RefersTo
    <3> QED
      BY <3>1, <3>2
  <2> QED
    BY <2>1, <2>2, <2>3, <2>4, <2>5, <2>6, <2>7, <2>8, <2>9, <2>10 DEF IInv
<1>2. CASE ~TaskExists(a)
  <2>a. UNCHANGED <<tcb, live, obj, bits, pc, at, param, local, functor>> /\ pc[t] = "dead"
    BY <1>2, <1>i, <1>t
  <2>p. ASSUME NEW q \in Places
        PROVE  /\ Owner(q)' <=> Owner(q)
               /\ BeingCreated(q)' <=> BeingCreated(q)
               /\ LetGo(q)' <=> LetGo(q)
               /\ Empty(q)' <=> Empty(q)
    BY <2>a DEF Owner, BeingCreated, LetGo, RefersTo, Empty
  <2>1. TypeOK'
    BY <2>a DEF IInv, TypeOK, OpPC
  <2>2. ASSUME NEW d \in Clients PROVE CallInv(d)'
    <3>1. CASE d = c
      <4>1. op'[c] = "detached" /\ dst'[c] = o /\ src'[c] = src[c] /\ CallInv(c) /\ Empty(c)'
        BY <1>i, <2>p DEF IInv, TypeOK, CallInv, Places
      <4>2. Owner(o)' /\ pc'[obj'[o].arg] = "dead"
        BY <1>0, <1>i, <2>a, <2>p
      <4> QED
        BY <3>1, <4>1, <4>2, <1>i DEF CallInv
    <3>2. CASE d # c
      <4>1. op'[d] = op[d] /\ dst'[d] = dst[d] /\ src'[d] = src[d] /\ obj' = obj /\ pc' = pc
        BY <2>a, <3>2 DEF IInv, TypeOK
      <4>2. CallInv(d) /\ (op[d] # "idle" => dst[d] \in Places /\ src[d] \in Places) /\ d \in Places
        BY DEF IInv, CallInv, Places
      <4> QED
        BY <2>p, <4>1, <4>2 DEF CallInv
    <3> QED
      BY <3>1, <3>2
  <2>3. CallsApart'
    BY DEF IInv, TypeOK, CallsApart
  <2>4. ASSUME NEW q \in Places PROVE PlaceInv(q)'
    BY <2>p, <2>a, <1>i, <1>0 DEF IInv, TypeOK, PlaceInv
  <2>5. PlacesApart' /\ GroupsHeld' /\ AddressesFresh'
    BY <2>a DEF IInv, PlacesApart, GroupsHeld, AddressesFresh, HasGroup
  <2>6. ASSUME NEW b \in TaskAddr PROVE TaskInv(b)'
    BY <2>a DEF IInv, TaskInv
  <2>7. ASSUME NEW u \in Threads PROVE ThreadInv(u)'
    BY <2>a DEF IInv, ThreadInv, Owner, RefersTo
  <2>8. ASSUME NEW q \in Places PROVE OwnerInv(q)'
    BY <2>a DEF IInv, OwnerInv
  <2> QED
    BY <2>1, <2>2, <2>3, <2>4, <2>5, <2>6, <2>7, <2>8 DEF IInv
<1> QED
  BY <1>1, <1>2

(* The assignment that ends join and detach empties the object.  It deletes *)
(* the task only if that has signalled its end, and the group if owned.    *)
LEMMA AssignInvalidInv ==
  ASSUME IInv, NEW c \in Clients, AssignInvalid(c)
  PROVE  IInv'
<1> USE DEF AssignInvalid, End, Goto, threadVars
<1>i. PICK o \in Objects, t \in Threads : o = dst[c] /\ t = obj[dst[c]].arg
  BY DEF IInv, CallInv, Owner, LetGo, RefersTo
<1>0. /\ o \in Places /\ c \in Places /\ c # o /\ Empty(c) /\ op[c] \in {"joined", "detached"}
      /\ RefersTo(o, Alive \cup {"dead"})
      /\ obj[o].owner => Owner(o) /\ pc[t] \in {"notified", "dead"} /\ HasGroup(o)
      /\ ~obj[o].owner => pc[t] \notin {"ready", "copied"} /\ ~HasGroup(o)
  <2>1. op[c] \in {"joined", "detached"} /\ CallInv(c) /\ c # o
    BY <1>i, PlacesDisjoint DEF IInv
  <2>2. (Owner(o) /\ pc[t] \in {"notified", "dead"}) \/ LetGo(o)
    BY <1>i, <2>1 DEF CallInv
  <2> QED
    BY <1>i, <2>1, <2>2, NullIsFresh
    DEF CallInv, Owner, LetGo, RefersTo, HasGroup, Places, Alive
<1>t. PICK a \in TaskAddr :
        /\ a = obj[o].task /\ at[t] = a
        /\ TaskExists(a) => tcb[a].thr = t /\ pc[t] \in Alive
        /\ ~TaskExists(a) => pc[t] = "dead"
  BY <1>0, <1>i, TaskExistsIs
<1>a. /\ Move(c, o)
      /\ IF obj[o].owner THEN DropOwned(o) ELSE UNCHANGED <<taskVars, evVars>>
  <2>1. MoveAssign(c, o)
    BY <1>i
  <2> QED
    BY <1>0, <2>1 DEF MoveAssign
<1>b. /\ obj' \in [Places -> Handle]
      /\ Empty(o)' /\ Empty(c)'
      /\ \A q \in Places : q # o => obj'[q] = obj[q]
  <2>1. NoHandle \in Handle
    BY DEF NoHandle, Handle
  <2> QED
    BY <1>0, <1>a, <2>1 DEF Move, Empty, IInv, TypeOK
<1>c. UNCHANGED <<bits, at, param, local, functor>>
  BY <1>a DEF DropOwned, evVars
<1>d. /\ \A e \in EvAddr : e \in live' <=> e \in live /\ ~(obj[o].owner /\ e = obj[o].ev)
      /\ live' \subseteq live
  <2>1. CASE obj[o].owner
    BY <1>0, <1>a, <2>1, NullIsFresh DEF DropOwned, DeleteGroup, Owner, IInv, TypeOK
  <2>2. CASE ~obj[o].owner
    BY <1>a, <2>2 DEF evVars
  <2> QED
    BY <2>1, <2>2
<1>e. \/ UNCHANGED <<tcb, pc>> /\ (obj[o].owner => pc[t] = "dead")
      \/ /\ obj[o].owner /\ pc[t] = "notified" /\ tcb[a].thr = t
         /\ tcb' = [tcb EXCEPT ![a] = FreeTcb]
         /\ pc' = [pc EXCEPT ![t] = "dead"]
  <2>1. CASE obj[o].owner /\ TaskExists(a)
    <3>1. tcb[a].thr = t /\ pc[t] = "notified"
      BY <1>0, <1>t, <2>1 DEF Alive
    <3>2. DeleteTask(a)
      BY <1>a, <1>t, <2>1 DEF DropOwned
    <3> QED
      BY <2>1, <3>1, <3>2 DEF DeleteTask, IInv, TypeOK
  <2>2. CASE ~(obj[o].owner /\ TaskExists(a))
    BY <1>a, <1>t, <2>2 DEF DropOwned, taskVars
  <2> QED
    BY <2>1, <2>2
<1>f. /\ \A u \in Threads : u # t => pc'[u] = pc[u]
      /\ pc'[t] = pc[t] \/ (pc[t] = "notified" /\ pc'[t] = "dead")
      /\ pc'[t] \in Alive => ~obj[o].owner /\ UNCHANGED tcb /\ pc'[t] = pc[t]
      /\ \A b \in TaskAddr : b # a => tcb'[b] = tcb[b]
      /\ tcb'[a] = tcb[a] \/ (tcb'[a] = FreeTcb /\ pc'[t] = "dead")
      /\ tcb' \in [TaskAddr -> Tcb] /\ pc' \in [Threads -> ThreadPC]
  <2>1. FreeTcb \in Tcb /\ "dead" \in ThreadPC /\ "dead" \notin Alive
    BY DEF FreeTcb, Tcb, ThreadPC, Alive
  <2>2. "notified" \in Alive
    BY DEF Alive
  <2>3. CASE UNCHANGED <<tcb, pc>> /\ (obj[o].owner => pc[t] = "dead")
    BY <2>1, <2>3 DEF IInv, TypeOK
  <2>4. CASE tcb' = [tcb EXCEPT ![a] = FreeTcb] /\ pc' = [pc EXCEPT ![t] = "dead"] /\ pc[t] = "notified"
    BY <2>1, <2>4 DEF IInv, TypeOK
  <2> QED
    BY <1>e, <2>3, <2>4
<1>g. \A q \in Places : q # o => obj[q].arg # t /\ (HasGroup(q) /\ HasGroup(o) => obj[q].ev # obj[o].ev)
  BY <1>0, <1>i, NullIsFresh DEF IInv, PlacesApart
<1>h. ~HasGroup(o)' /\ ~obj'[o].owner /\ obj'[o].arg = Null /\ obj'[o].task = Null
  BY <1>b DEF Empty, HasGroup, NoHandle
<1>p. ASSUME NEW q \in Places, q # o
      PROVE  /\ Owner(q) => Owner(q)'
             /\ BeingCreated(q) => BeingCreated(q)'
             /\ LetGo(q) => LetGo(q)'
             /\ HasGroup(q)' <=> HasGroup(q)
  <2>0. obj'[q] = obj[q] /\ obj[q].arg # t
    BY <1>b, <1>g, <1>p
  <2>1. HasGroup(q) => (obj[q].ev \in live' /\ obj[q].ev \in EvAddr)
    BY <1>0, <1>d, <1>g, <1>p, GroupIsLive
  <2>2. HasGroup(q)' <=> HasGroup(q)
    BY <2>0 DEF HasGroup
  <2>3. Owner(q) => Owner(q)'
    BY <1>c, <1>f, <2>0, <2>1, HasGroupIs DEF Owner, RefersTo
  <2>4. BeingCreated(q) => BeingCreated(q)'
    BY <1>c, <1>f, <2>0, <2>1, HasGroupIs DEF BeingCreated
  <2>5. LetGo(q) => LetGo(q)'
    BY <1>c, <1>f, <2>0 DEF LetGo, RefersTo
  <2> QED
    BY <2>2, <2>3, <2>4, <2>5
<1>o. /\ op' = [op EXCEPT ![c] = "idle"] /\ dst' = [dst EXCEPT ![c] = Null]
      /\ src' = [src EXCEPT ![c] = Null]
  OBVIOUS
<1>1. TypeOK'
  BY <1>b, <1>c, <1>d, <1>f, <1>o DEF IInv, TypeOK, OpPC
<1>2. ASSUME NEW d \in Clients PROVE CallInv(d)'
  <2>1. CASE d = c
    BY <1>b, <1>o, <2>1 DEF IInv, TypeOK, CallInv
  <2>2. CASE d # c
    <3>0. d # o /\ d \in Places
      BY <1>i, PlacesDisjoint DEF Places
    <3>1. op'[d] = op[d] /\ dst'[d] = dst[d] /\ src'[d] = src[d] /\ obj'[d] = obj[d]
      BY <1>b, <1>o, <2>2, <3>0 DEF IInv, TypeOK
    <3>2. CallInv(d) /\ (op[d] # "idle" => dst[d] # o /\ src[d] # o)
      BY <1>0, <1>i, <2>2 DEF IInv, CallsApart
    <3>3. op[d] # "idle" => dst[d] \in Places /\ src[d] \in Places
      BY <3>2 DEF CallInv, Places
    <3>4. op[d] # "idle" => obj'[dst[d]] = obj[dst[d]] /\ obj'[src[d]] = obj[src[d]] /\ obj[dst[d]].arg # t
      BY <1>b, <1>g, <3>2, <3>3
    <3>5. Owner(dst[d]) => obj[dst[d]].arg \in Threads
      BY DEF Owner, RefersTo
    <3> QED
      BY <1>f, <1>p, <3>1, <3>2, <3>3, <3>4, <3>5 DEF CallInv, Empty
  <2> QED
    BY <2>1, <2>2
<1>3. CallsApart'
  BY <1>o DEF IInv, TypeOK, CallsApart
<1>4. ASSUME NEW q \in Places PROVE PlaceInv(q)'
  <2>1. CASE q = o
    BY <1>b, <2>1 DEF PlaceInv
  <2>2. CASE q # o
    <3>1. Empty(q) => Empty(q)'
      BY <1>b, <2>2 DEF Empty
    <3>2. \A d \in Clients : dst[d] = q => op'[d] = op[d] /\ dst'[d] = dst[d]
      BY <1>i, <1>o, <2>2 DEF IInv, TypeOK
    <3> QED
      BY <1>p, <2>2, <3>1, <3>2 DEF IInv, PlaceInv
  <2> QED
    BY <2>1, <2>2
<1>5. PlacesApart'
  <2> SUFFICES ASSUME NEW p \in Places, NEW q \in Places, p # q
               PROVE  /\ obj'[p].arg # Null => obj'[p].arg # obj'[q].arg
                      /\ obj'[p].task # Null => obj'[p].task # obj'[q].task
                      /\ HasGroup(p)' /\ HasGroup(q)' => obj'[p].ev # obj'[q].ev
    BY DEF PlacesApart
  <2>1. CASE p = o \/ q = o
    BY <1>h, <2>1
  <2>2. CASE p # o /\ q # o
    BY <1>b, <1>p, <2>2 DEF IInv, PlacesApart
  <2> QED
    BY <2>1, <2>2
<1>6. GroupsHeld'
  <2> SUFFICES ASSUME NEW e \in live' PROVE \E q \in Places : HasGroup(q)' /\ obj'[q].ev = e
    BY DEF GroupsHeld
  <2>1. PICK q \in Places : HasGroup(q) /\ obj[q].ev = e
    BY <1>d DEF IInv, GroupsHeld
  <2>2. q # o
    BY <1>0, <1>d, <2>1 DEF IInv, TypeOK
  <2> QED
    BY <1>b, <1>p, <2>1, <2>2
<1>7. AddressesFresh'
  <2> SUFFICES ASSUME NEW q \in Places, obj'[q].task # Null, tcb'[obj'[q].task].st # "free"
               PROVE  tcb'[obj'[q].task].thr = obj'[q].arg
    BY DEF AddressesFresh
  <2>1. q # o /\ obj'[q] = obj[q] /\ obj[q].task \in TaskAddr
    BY <1>b, <1>h DEF IInv, TypeOK, Handle
  <2>2. tcb'[obj[q].task] = tcb[obj[q].task]
    BY <1>f, <2>1 DEF FreeTcb
  <2> QED
    BY <2>1, <2>2 DEF IInv, AddressesFresh
<1>8. ASSUME NEW b \in TaskAddr PROVE TaskInv(b)'
  <2> SUFFICES ASSUME tcb'[b].st # "free"
               PROVE  /\ tcb'[b].thr \in Threads
                      /\ at'[tcb'[b].thr] = b
                      /\ tcb'[b].st = "live" => pc'[tcb'[b].thr] \in Alive
                      /\ tcb'[b].st = "dying" => pc'[tcb'[b].thr] = "dead"
    BY DEF TaskInv
  <2>1. tcb'[b] = tcb[b]
    BY <1>f DEF FreeTcb
  <2>2. TaskInv(b)
    BY DEF IInv
  <2>3. CASE tcb[b].thr # t
    BY <1>c, <1>f, <2>1, <2>2, <2>3 DEF TaskInv
  <2>4. CASE tcb[b].thr = t
    <3>1. b = a
      BY <1>t, <2>1, <2>2, <2>4 DEF TaskInv
    <3>2. UNCHANGED <<tcb, pc>>
      BY <1>e, <2>1, <3>1 DEF FreeTcb, IInv, TypeOK
    <3> QED
      BY <1>c, <2>2, <3>2 DEF TaskInv
  <2> QED
    BY <2>3, <2>4
<1>9. ASSUME NEW u \in Threads PROVE ThreadInv(u)'
  <2>1. ThreadInv(u)
    BY DEF IInv
  <2>2. CASE u = t
    <3>1. pc'[t] \notin {"ready", "copied", "killed"}
      BY <1>0, <1>f, <2>1, <2>2 DEF ThreadInv
    <3>2. ASSUME NEW p \in Places, obj[p].owner, obj[p].arg = t, pc'[t] \in Alive
          PROVE  obj'[p].owner /\ obj'[p].arg = t
      BY <1>b, <1>f, <3>2
    <3>3. pc'[t] \in {"exiting", "notified", "dead"} => functor'[t] = "freed"
      BY <1>c, <1>f, <2>1, <2>2 DEF ThreadInv
    <3> QED
      BY <1>c, <1>f, <2>1, <2>2, <3>1, <3>2, <3>3 DEF ThreadInv
  <2>3. CASE u # t
    <3>1. pc[u] \in {"ready", "copied"} => param[u] # o /\ param[u] \in Places
      BY <1>i, <2>1, <2>3 DEF ThreadInv, Places
    <3>2. pc[u] \in Alive => at[u] # a \/ tcb'[a] = tcb[a]
      BY <1>e, <2>1, <2>3 DEF ThreadInv
    <3>3. ASSUME NEW p \in Places, obj[p].owner, obj[p].arg = u
          PROVE  obj'[p].owner /\ obj'[p].arg = u
      BY <1>b, <1>i, <2>3, <3>3
    <3>4. pc[u] \in Alive => tcb'[at[u]] = tcb[at[u]]
      BY <1>f, <2>1, <3>2 DEF ThreadInv
    <3>5. pc'[u] = pc[u] /\ {"ready", "copied"} \subseteq Alive
      BY <1>f, <2>3 DEF Alive
    <3> QED
      BY <1>b, <1>c, <1>p, <2>1, <3>1, <3>3, <3>4, <3>5 DEF ThreadInv
  <2> QED
    BY <2>2, <2>3
<1>10. ASSUME NEW q \in Places PROVE OwnerInv(q)'
  <2>1. CASE q = o
    BY <1>h, <2>1 DEF OwnerInv
  <2>2. CASE q # o
    <3>1. obj[q].owner => Owner(q) /\ OwnerInv(q)
      BY DEF IInv, PlaceInv, Empty, NoHandle, BeingCreated, LetGo
    <3>2. Owner(q) /\ pc[obj[q].arg] \in Alive => tcb'[obj[q].task] = tcb[obj[q].task]
      BY <1>e, <1>f, <1>g, <2>2 DEF IInv, Owner, RefersTo, ThreadInv
    <3>3. Owner(q) => pc'[obj[q].arg] = pc[obj[q].arg]
      BY <1>f, <1>g, <2>2 DEF Owner, RefersTo
    <3> QED
      BY <1>b, <1>c, <2>2, <3>1, <3>2, <3>3 DEF OwnerInv
  <2> QED
    BY <2>1, <2>2
<1> QED
  BY <1>1, <1>2, <1>3, <1>4, <1>5, <1>6, <1>7, <1>8, <1>9, <1>10 DEF IInv

(* A step that changes nothing.                                            *)
LEMMA StutterInv ==
  ASSUME IInv, UNCHANGED vars
  PROVE  IInv'
<1> USE DEF vars
<1>1. TypeOK' /\ CallsApart' /\ PlacesApart' /\ GroupsHeld' /\ AddressesFresh'
  BY DEF IInv, TypeOK, CallsApart, PlacesApart, GroupsHeld, AddressesFresh, HasGroup
<1>2. ASSUME NEW c \in Clients PROVE CallInv(c)'
  BY DEF IInv, CallInv, Empty, Owner, BeingCreated, LetGo, RefersTo
<1>3. ASSUME NEW p \in Places PROVE PlaceInv(p)' /\ OwnerInv(p)'
  BY DEF IInv, PlaceInv, OwnerInv, Empty, Owner, BeingCreated, LetGo, RefersTo
<1>4. ASSUME NEW a \in TaskAddr PROVE TaskInv(a)'
  BY DEF IInv, TaskInv
<1>5. ASSUME NEW t \in Threads PROVE ThreadInv(t)'
  BY DEF IInv, ThreadInv, Owner, RefersTo
<1> QED
  BY <1>1, <1>2, <1>3, <1>4, <1>5 DEF IInv

(* A higher-priority thread is not run inside create_thread here.          *)
LEMMA PublishHandleNever ==
  ASSUME IInv, NEW c \in Clients
  PROVE  ~PublishHandle(c)
BY DEF IInv, CallInv, PublishHandle, End, Goto

(* IInv is inductive: every operation of every client, thread and of the   *)
(* idle task preserves it.                                                 *)
LEMMA NextInv ==
  ASSUME Benign, IInv, [Next]_vars
  PROVE  IInv'
<1>1. ASSUME NEW c \in Clients, Call(c) PROVE IInv'
  BY <1>1, CreateEventGroupInv, JoinCallInv, DetachCallInv, SwapCallInv DEF Call
<1>2. ASSUME NEW c \in Clients, Continue(c) PROVE IInv'
  BY <1>2, CreateTaskInv, PublishHandleNever, JoinWaitInv, DetachWaitInv, DetachCriticalInv,
     AssignInvalidInv, Swap1Inv, Swap2Inv, Swap3Inv DEF Continue
<1>3. ASSUME NEW t \in Threads, Routine(t) \/ Return(t) PROVE IInv'
  BY <1>3, CopyHandleInv, NotifyStartedInv, ReturnInv, DeleteStateInv, NotifyJoinedInv,
     DeleteSelfInv DEF Routine
<1>4. ASSUME NEW a \in TaskAddr, Reap(a) PROVE IInv'
  BY <1>4, ReapInv
<1>5. CASE UNCHANGED vars
  BY <1>5, StutterInv
<1> QED
  BY <1>1, <1>2, <1>3, <1>4, <1>5 DEF Next

(* With a heap that does not reuse a stored TCB address and no task switch *)
(* inside a critical section, IInv holds in every reachable state, for any *)
(* number of clients, objects, threads and addresses.                      *)
THEOREM InductiveInvariant ==
  ASSUME Benign
  PROVE  Spec => []IInv
<1>1. IInv /\ [Next]_vars => IInv'
  BY NextInv
<1> QED
  BY InitInv, <1>1, PTL DEF Spec

(* Every variable keeps its type.                                          *)
THEOREM TypeCorrect ==
  ASSUME Benign
  PROVE  Spec => []TypeOK
<1>1. IInv => TypeOK
  BY DEF IInv
<1> QED
  BY <1>1, InductiveInvariant, PTL

(* What a call reaches through a stored handle exists when it does: the    *)
(* owner's event group, which a wait, detach or an overwriting move uses,  *)
(* and the address of its task; what a new routine copies; and the TCB     *)
(* whose slot 0 an ending routine reads and which it gives back.           *)
OwnerIsValid(p) ==
  /\ obj[p].task \in TaskAddr /\ obj[p].ev \in live
  /\ obj[p].arg \in Threads /\ at[obj[p].arg] = obj[p].task

HandleIsValid ==
  /\ \A p \in Places : obj[p].owner => OwnerIsValid(p)
  /\ \A c \in Clients :
       /\ op[c] \in {"join", "joined", "detach", "started"} => obj[dst[c]].owner
       /\ op[c] = "create" => obj[dst[c]].ev \in live
  /\ \A t \in Threads :
       /\ pc[t] = "ready" =>
            param[t] \in Objects /\ obj[param[t]].owner /\ obj[param[t]].arg = t
       /\ pc[t] \in {"exiting", "notified"} =>
            local[t].task = at[t] /\ tcb[at[t]].st = "live" /\ tcb[at[t]].thr = t

(* No call of gthr_freertos uses a null handle, and none uses or deletes a *)
(* group a second time; a routine ends the task it runs on, once.          *)
THEOREM HandlesAreValid ==
  ASSUME Benign
  PROVE  Spec => []HandleIsValid
<1>1. ASSUME IInv PROVE HandleIsValid
  <2>1. ASSUME NEW p \in Places, obj[p].owner PROVE OwnerIsValid(p)
    <3>1. Owner(p)
      BY <1>1, <2>1 DEF IInv, PlaceInv, Empty, NoHandle, BeingCreated, LetGo
    <3> QED
      BY <3>1 DEF Owner, RefersTo, OwnerIsValid
  <2>2. ASSUME NEW c \in Clients
        PROVE  /\ op[c] \in {"join", "joined", "detach", "started"} => obj[dst[c]].owner
               /\ op[c] = "create" => obj[dst[c]].ev \in live
    BY <1>1 DEF IInv, CallInv, Owner, BeingCreated
  <2>3. ASSUME NEW t \in Threads
        PROVE  /\ pc[t] = "ready" =>
                    param[t] \in Objects /\ obj[param[t]].owner /\ obj[param[t]].arg = t
               /\ pc[t] \in {"exiting", "notified"} =>
                    local[t].task = at[t] /\ tcb[at[t]].st = "live" /\ tcb[at[t]].thr = t
    BY <1>1 DEF IInv, ThreadInv, Owner, Alive
  <2> QED
    BY <2>1, <2>2, <2>3 DEF HandleIsValid
<1> QED
  BY <1>1, InductiveInvariant, PTL

(* If no TCB address is given out again while a handle stores it, no call  *)
(* deletes a task that has not signalled its end.  heap_4 may give it out; *)
(* then the property is false (run thread_tcb_reuse).                      *)
THEOREM TasksEndThemselves ==
  ASSUME Benign
  PROVE  Spec => []NoThreadKilled
<1>1. IInv => NoThreadKilled
  BY DEF IInv, ThreadInv, NoThreadKilled
<1> QED
  BY <1>1, InductiveInvariant, PTL

(* Nobody waits on or signals an event group that was deleted or that      *)
(* belongs to another thread's object.                                     *)
THEOREM SignalsAreForTheJoiner ==
  ASSUME Benign
  PROVE  Spec => []EventsReachOwnGroup
<1>1. ASSUME IInv PROVE EventsReachOwnGroup
  <2>1. ASSUME NEW c \in Clients, op[c] \in {"join", "detach"}
        PROVE  GroupOf(obj[dst[c]].arg, obj[dst[c]].ev)
    BY <1>1, <2>1 DEF IInv, CallInv, Owner, GroupOf, Places
  <2>2. ASSUME NEW t \in Threads, pc[t] = "copied" PROVE GroupOf(t, local[t].ev)
    BY <1>1, <2>2 DEF IInv, ThreadInv, Owner, GroupOf, Places
  <2>3. ASSUME NEW t \in Threads, pc[t] = "exiting", tcb[local[t].task].tls # Null
        PROVE  GroupOf(t, tcb[local[t].task].tls)
    <3>1. local[t].task = at[t] /\ at[t] \in TaskAddr /\ pc[t] \in Alive
      BY <1>1, <2>3 DEF IInv, ThreadInv, Alive
    <3>2. PICK p \in Places : obj[p].owner /\ obj[p].arg = t
      BY <1>1, <2>3, <3>1 DEF IInv, ThreadInv
    <3>3. Owner(p)
      BY <1>1, <3>2 DEF IInv, PlaceInv, Empty, NoHandle, BeingCreated, LetGo
    <3>4. tcb[at[t]].tls = obj[p].ev
      BY <1>1, <3>1, <3>2, <3>3 DEF IInv, OwnerInv, Owner, RefersTo
    <3> QED
      BY <3>1, <3>2, <3>3, <3>4 DEF GroupOf, Owner
  <2> QED
    BY <2>1, <2>2, <2>3 DEF EventsReachOwnGroup
<1> QED
  BY <1>1, InductiveInvariant, PTL

(* A routine works on its own task and its own State.                      *)
THEOREM CopiesAreOwn ==
  ASSUME Benign
  PROVE  Spec => []CopyIsOwnHandle
<1>1. IInv => CopyIsOwnHandle
  BY DEF IInv, ThreadInv, CopyIsOwnHandle
<1> QED
  BY <1>1, InductiveInvariant, PTL

(* join returns only after the thread's function is done and its State and *)
(* thread specific values are destroyed.                                   *)
THEOREM JoinMeansFinished ==
  ASSUME Benign
  PROVE  Spec => []JoinedIsFinished
<1>1. IInv => JoinedIsFinished
  BY DEF IInv, CallInv, ThreadInv, Owner, RefersTo, JoinedIsFinished
<1> QED
  BY <1>1, InductiveInvariant, PTL

(* No two places own one task or one event group.                          *)
THEOREM OwnersAreUnique ==
  ASSUME Benign
  PROVE  Spec => []SoleOwner
<1>1. ASSUME IInv PROVE SoleOwner
  <2> SUFFICES ASSUME NEW p \in Places, NEW q \in Places, p # q, obj[p].owner, obj[q].owner
               PROVE  obj[p].task # obj[q].task /\ obj[p].ev # obj[q].ev
    BY DEF SoleOwner
  <2>1. Owner(p) /\ Owner(q)
    BY <1>1 DEF IInv, PlaceInv, Empty, NoHandle, BeingCreated, LetGo
  <2>2. obj[p].arg # obj[q].arg /\ obj[p].ev # obj[q].ev
    BY <1>1, <2>1, NullIsFresh DEF IInv, PlacesApart, HasGroup, Owner, RefersTo
  <2>3. obj[p].task # obj[q].task
    BY <1>1, <2>1, NullIsFresh DEF IInv, PlacesApart, Owner, RefersTo
  <2> QED
    BY <2>2, <2>3
<1> QED
  BY <1>1, InductiveInvariant, PTL

(* Every event group is stored where it will be deleted.                   *)
THEOREM GroupsNeverLeak ==
  ASSUME Benign
  PROVE  Spec => []NoGroupLeaks
<1>1. ASSUME IInv PROVE NoGroupLeaks
  <2> SUFFICES ASSUME NEW e \in live
               PROVE  \E p \in Places : /\ obj[p].ev = e
                                        /\ obj[p].owner \/ \E c \in Clients :
                                             op[c] \in {"create", "publish"} /\ dst[c] = p
    BY DEF NoGroupLeaks
  <2>1. PICK p \in Places : HasGroup(p) /\ obj[p].ev = e
    BY <1>1 DEF IInv, GroupsHeld
  <2>2. obj[p].owner \/ \E c \in Clients : op[c] = "create" /\ dst[c] = p
    BY <1>1, <2>1, NullIsFresh DEF IInv, PlaceInv, Empty, NoHandle, HasGroup, Owner, LetGo, RefersTo
  <2> QED
    BY <2>1, <2>2
<1> QED
  BY <1>1, InductiveInvariant, PTL

(* Slot 0 of a started thread's task names the group its object waits on.  *)
THEOREM SlotNamesGroup ==
  ASSUME Benign
  PROVE  Spec => []HandleStoredBeforeStart
<1>1. ASSUME IInv PROVE HandleStoredBeforeStart
  <2> SUFFICES ASSUME NEW p \in Places, NEW t \in Threads, obj[p].arg = t,
                      pc[t] \in Alive \ {"ready"},
                      ~\E c \in Clients : op[c] = "detached" /\ dst[c] = p
               PROVE  tcb[at[t]].tls = obj[p].ev
    BY DEF HandleStoredBeforeStart
  <2>1. Owner(p)
    BY <1>1, NullIsFresh DEF IInv, PlaceInv, Empty, NoHandle, BeingCreated, Alive
  <2> QED
    BY <1>1, <2>1 DEF IInv, OwnerInv, Owner, RefersTo
<1> QED
  BY <1>1, InductiveInvariant, PTL


(***************************************************************************)
(* ThreadLifecycle implements ThreadContract.                               *)
(***************************************************************************)

(* The refinement mapping, one argument at a time.                         *)
LEMMA Mapping ==
  /\ \A p \in Places : Hold[p] = IF obj[p].task = Null THEN Null ELSE obj[p].arg
  /\ \A t \in Threads :
       /\ pc[t] \in {"unborn", "creating"} => Life[t] = "unborn"
       /\ pc[t] \in {"notified", "dead"} => Life[t] = "finished"
       /\ pc[t] \in Alive \ {"notified"} => Life[t] = "running"
  /\ \A c \in Clients :
       /\ op[c] \in {"join", "joined"} => JoinOrDetach[c] = [kind |-> "join", obj |-> dst[c]]
       /\ op[c] \in {"detach", "started", "detached"} =>
            JoinOrDetach[c] = [kind |-> "detach", obj |-> dst[c]]
       /\ op[c] \in {"idle", "create", "publish", "swap1", "swap2", "swap3"} =>
            JoinOrDetach[c] = [kind |-> "none", obj |-> Null]
<1>1. \A p \in Places : Hold[p] = IF obj[p].task = Null THEN Null ELSE obj[p].arg
  BY DEF Hold
<1>2. ASSUME NEW t \in Threads
      PROVE  /\ pc[t] \in {"unborn", "creating"} => Life[t] = "unborn"
             /\ pc[t] \in {"notified", "dead"} => Life[t] = "finished"
             /\ pc[t] \in Alive \ {"notified"} => Life[t] = "running"
  BY DEF Life, Alive
<1>3. ASSUME NEW c \in Clients
      PROVE  /\ op[c] \in {"join", "joined"} => JoinOrDetach[c] = [kind |-> "join", obj |-> dst[c]]
             /\ op[c] \in {"detach", "started", "detached"} =>
                  JoinOrDetach[c] = [kind |-> "detach", obj |-> dst[c]]
             /\ op[c] \in {"idle", "create", "publish", "swap1", "swap2", "swap3"} =>
                  JoinOrDetach[c] = [kind |-> "none", obj |-> Null]
  BY DEF JoinOrDetach
<1> QED
  BY <1>1, <1>2, <1>3

(* Contract!Init                                                           *)
LEMMA InitRefines == Init => Contract!Init
<1> SUFFICES ASSUME Init PROVE Contract!Init
  OBVIOUS
<1>1. Hold = [p \in Places |-> Null]
  BY DEF Init, Hold, NoHandle
<1>2. Life = [t \in Threads |-> "unborn"]
  BY DEF Init, Life
<1>3. JoinOrDetach = [c \in Clients |-> [kind |-> "none", obj |-> Null]]
  BY DEF Init, JoinOrDetach
<1> QED
  BY <1>1, <1>2, <1>3 DEF Contract!Init, Contract!NoCall, Contract!Places, Places

(* A function that differs from another at one point.                      *)
LEMMA ExceptIs ==
  ASSUME NEW S, NEW x \in S, NEW v, NEW g, NEW h,
         g = [y \in S |-> g[y]], h = [y \in S |-> h[y]],
         g[x] = v, \A y \in S : y # x => g[y] = h[y]
  PROVE  g = [h EXCEPT ![x] = v]
OBVIOUS

(* The three are functions, before and after a step.                       *)
LEMMA Shapes ==
  /\ Hold = [p \in Places |-> Hold[p]] /\ Hold' = [p \in Places |-> Hold'[p]]
  /\ Life = [t \in Threads |-> Life[t]] /\ Life' = [t \in Threads |-> Life'[t]]
  /\ JoinOrDetach = [c \in Clients |-> JoinOrDetach[c]]
  /\ JoinOrDetach' = [c \in Clients |-> JoinOrDetach'[c]]
<1>1. Hold = [p \in Places |-> Hold[p]]
  BY DEF Hold
<1>2. Hold' = [p \in Places |-> Hold'[p]]
  BY DEF Hold
<1>3. Life = [t \in Threads |-> Life[t]]
  BY DEF Life
<1>4. Life' = [t \in Threads |-> Life'[t]]
  BY DEF Life
<1>5. JoinOrDetach = [c \in Clients |-> JoinOrDetach[c]]
  BY DEF JoinOrDetach
<1>6. JoinOrDetach' = [c \in Clients |-> JoinOrDetach'[c]]
  BY DEF JoinOrDetach
<1> QED
  BY <1>1, <1>2, <1>3, <1>4, <1>5, <1>6

(* What the contract sees is a function of pc, op, dst and of the places.  *)
LEMMA SameHold ==
  ASSUME \A p \in Places : obj'[p].task = obj[p].task /\ (obj[p].task = Null \/ obj'[p].arg = obj[p].arg)
  PROVE  Hold' = Hold
BY DEF Hold

(* A step that does not change which threads run or have finished changes  *)
(* no abstract life.                                                       *)
LEMMA SameLife ==
  ASSUME IInv, NEW t \in Threads, NEW s \in Alive \cup {"creating", "dead"},
         pc' = [pc EXCEPT ![t] = s],
         \/ pc[t] = "unborn" /\ s = "creating"
         \/ pc[t] \in Alive \ {"notified"} /\ s \in Alive \ {"notified"}
         \/ pc[t] \in {"notified", "dead"} /\ s = "dead"
  PROVE  Life' = Life
<1>1. \A u \in Threads : pc'[u] = IF u = t THEN s ELSE pc[u]
  BY DEF IInv, TypeOK
<1>2. ASSUME NEW u \in Threads PROVE Life'[u] = Life[u]
  BY <1>1 DEF Life, Alive
<1> QED
  BY <1>2 DEF Life

(* A step that does not change which joins and detaches are under way      *)
(* changes no abstract call.                                               *)
LEMMA SameCalls ==
  ASSUME IInv, NEW c \in Clients, op[c] # "idle", op'[c] # "idle",
         \A d \in Clients : d # c => op'[d] = op[d], dst' = dst,
         \/ op[c] \in {"join", "joined"} /\ op'[c] \in {"join", "joined"}
         \/ op[c] \in {"detach", "started", "detached"} /\ op'[c] \in {"detach", "started", "detached"}
         \/ op[c] \in {"swap1", "swap2", "swap3"} /\ op'[c] \in {"swap1", "swap2", "swap3"}
  PROVE  JoinOrDetach' = JoinOrDetach
<1>1. ASSUME NEW d \in Clients PROVE JoinOrDetach'[d] = JoinOrDetach[d]
  <2>1. CASE d = c
    BY <2>1 DEF JoinOrDetach
  <2>2. CASE d # c
    BY <2>2 DEF JoinOrDetach
  <2> QED
    BY <2>1, <2>2
<1> QED
  BY <1>1 DEF JoinOrDetach

(* Making the event group is invisible.                                    *)
LEMMA CreateEventGroupRefines ==
  ASSUME IInv, NEW c \in Clients, NEW o \in Objects, NEW t \in Threads, CreateEventGroup(c, o, t)
  PROVE  UNCHANGED <<Hold, Life, JoinOrDetach>>
<1> USE DEF CreateEventGroup, Begin, Goto
<1>1. PICK e \in EvAddr : obj' = [obj EXCEPT ![o] = [@ EXCEPT !.ev = e, !.arg = t]]
  OBVIOUS
<1>2. o \in Places /\ obj[o].task = Null /\ obj'[o].task = Null
  <2>1. o \in Places /\ obj'[o] = [NoHandle EXCEPT !.ev = e, !.arg = t]
    BY <1>1 DEF IInv, TypeOK, Places
  <2>2. [NoHandle EXCEPT !.ev = e, !.arg = t].task = Null
    BY DEF NoHandle
  <2> QED
    BY <2>1, <2>2 DEF NoHandle
<1>3. \A p \in Places : p # o => obj'[p] = obj[p]
  BY <1>1 DEF IInv, TypeOK
<1>4. Hold' = Hold
  BY <1>2, <1>3 DEF Hold
<1>5. Life' = Life
  BY SameLife
<1>6. JoinOrDetach' = JoinOrDetach
  <2>1. ASSUME NEW d \in Clients PROVE JoinOrDetach'[d] = JoinOrDetach[d]
    <3>1. CASE d = c
      BY <3>1 DEF JoinOrDetach, IInv, TypeOK
    <3>2. CASE d # c
      BY <3>2 DEF JoinOrDetach, IInv, TypeOK
    <3> QED
      BY <3>1, <3>2
  <2> QED
    BY <2>1 DEF JoinOrDetach
<1> QED
  BY <1>4, <1>5, <1>6

(* The task that create_thread makes is the thread of execution that the   *)
(* constructor of std::thread promises.                                    *)
LEMMA CreateTaskRefines ==
  ASSUME IInv, Benign, NEW c \in Clients, CreateTask(c)
  PROVE  \E o \in Objects, t \in Threads : Contract!Construct(o, t)
<1> USE DEF CreateTask, CreateYields, End, Goto
<1>0. op[c] = "create" /\ op' = [op EXCEPT ![c] = "idle"] /\ dst' = [dst EXCEPT ![c] = Null]
  BY DEF Benign
<1>i. PICK o \in Objects, t \in Threads : o = dst[c] /\ t = obj[dst[c]].arg
  BY <1>0 DEF IInv, CallInv, BeingCreated
<1>b. o \in Places /\ obj[o].task = Null /\ pc[t] = "creating" /\ obj[o].arg = t
  BY <1>0, <1>i DEF IInv, CallInv, BeingCreated, Places
<1>a. PICK a \in TaskAddr : obj' = [obj EXCEPT ![o] = [@ EXCEPT !.task = a, !.owner = TRUE]]
  BY <1>i DEF Benign
<1>c. obj'[o].task = a /\ obj'[o].arg = t /\ \A p \in Places : p # o => obj'[p] = obj[p]
  <2>1. obj[o] \in Handle /\ obj'[o] = [obj[o] EXCEPT !.task = a, !.owner = TRUE]
    BY <1>a, <1>b DEF IInv, TypeOK
  <2>2. ASSUME NEW h \in Handle, NEW r, r = [h EXCEPT !.task = a, !.owner = TRUE]
        PROVE  r.task = a /\ r.arg = h.arg
    BY <2>2 DEF Handle
  <2> QED
    BY <1>a, <1>b, <2>1, <2>2 DEF IInv, TypeOK
<1>1. Hold[o] = Null /\ Hold' = [Hold EXCEPT ![o] = t]
  <2>1. Hold[o] = Null /\ Hold'[o] = t
    BY <1>b, <1>c, NullIsFresh DEF Hold
  <2>2. \A p \in Places : p # o => Hold'[p] = Hold[p]
    BY <1>c DEF Hold
  <2>3. Hold' = [p \in Places |-> Hold'[p]] /\ Hold = [p \in Places |-> Hold[p]]
    BY Shapes
  <2> QED
    BY <1>b, <2>1, <2>2, <2>3, ExceptIs
<1>2. Life[t] = "unborn" /\ Life' = [Life EXCEPT ![t] = "running"]
  <2>1. \A u \in Threads : pc'[u] = IF u = t THEN "ready" ELSE pc[u]
    BY <1>i DEF IInv, TypeOK
  <2>2. Life[t] = "unborn" /\ Life'[t] = "running"
    BY <1>b, <2>1 DEF Life
  <2>3. \A u \in Threads : u # t => Life'[u] = Life[u]
    BY <2>1 DEF Life
  <2>4. Life' = [u \in Threads |-> Life'[u]] /\ Life = [u \in Threads |-> Life[u]]
    BY Shapes
  <2> QED
    BY <2>2, <2>3, <2>4, ExceptIs
<1>3. JoinOrDetach' = JoinOrDetach
  <2>1. ASSUME NEW d \in Clients PROVE JoinOrDetach'[d] = JoinOrDetach[d]
    <3>1. CASE d = c
      BY <1>0, <3>1 DEF JoinOrDetach, IInv, TypeOK
    <3>2. CASE d # c
      BY <1>0, <3>2 DEF JoinOrDetach, IInv, TypeOK
    <3> QED
      BY <3>1, <3>2
  <2> QED
    BY <2>1 DEF JoinOrDetach
<1> QED
  BY <1>1, <1>2, <1>3 DEF Contract!Construct

(* A joinable object is one that holds a thread.                           *)
LEMMA EnterRefines ==
  ASSUME IInv, NEW c \in Clients, NEW o \in Objects,
         JoinCall(c, o) \/ DetachCall(c, o)
  PROVE  \E kind \in {"join", "detach"} : Contract!Enter(c, o, kind)
<1> USE DEF JoinCall, DetachCall, Begin, Goto
<1>1. ASSUME NEW k \in {"join", "detach"}, op[c] = "idle", op' = [op EXCEPT ![c] = k],
             dst' = [dst EXCEPT ![c] = o], UNCHANGED <<obj, pc>>, obj[o].task # obj[c].task,
             ~InUse(o)
      PROVE  Contract!Enter(c, o, k)
  <2>1. o \in Places /\ c \in Places /\ obj[c].task = Null
    BY <1>1 DEF IInv, CallInv, Empty, NoHandle, Places
  <2>2. Hold[o] # Null
    <3>1. obj[o].task # Null /\ ~BeingCreated(o) /\ ~Empty(o)
      BY <1>1, <2>1 DEF BeingCreated, Empty, NoHandle
    <3>2. obj[o].arg \in Threads
      BY <2>1, <3>1 DEF IInv, PlaceInv, Owner, LetGo, RefersTo
    <3> QED
      BY <2>1, <3>1, <3>2, NullIsFresh DEF Hold
  <2>3. Hold' = Hold /\ Life' = Life
    BY <1>1 DEF Hold, Life
  <2>4. JoinOrDetach[c] = [kind |-> "none", obj |-> Null]
    BY <1>1, Mapping
  <2>5. JoinOrDetach' = [JoinOrDetach EXCEPT ![c] = [kind |-> k, obj |-> o]]
    <3>1. op'[c] = k /\ dst'[c] = o
      BY <1>1 DEF IInv, TypeOK
    <3>2. JoinOrDetach'[c] = [kind |-> k, obj |-> o]
      <4>1. CASE k = "join"
        BY <3>1, <4>1 DEF JoinOrDetach
      <4>2. CASE k = "detach"
        BY <3>1, <4>2 DEF JoinOrDetach
      <4> QED
        BY <4>1, <4>2
    <3>3. ASSUME NEW d \in Clients, d # c PROVE JoinOrDetach'[d] = JoinOrDetach[d]
      BY <1>1, <3>3 DEF JoinOrDetach, IInv, TypeOK
    <3> QED
      BY <3>2, <3>3 DEF JoinOrDetach
  <2> QED
    BY <2>2, <2>3, <2>4, <2>5 DEF Contract!Enter, Contract!NoCall
<1>2. CASE JoinCall(c, o)
  BY <1>1, <1>2 DEF taskVars
<1>3. CASE DetachCall(c, o)
  BY <1>1, <1>3 DEF taskVars
<1> QED
  BY <1>2, <1>3

(* The last statement of join and of detach is where the object lets go of *)
(* its thread; after a join that thread has finished.                      *)
LEMMA AssignInvalidRefines ==
  ASSUME IInv, NEW c \in Clients, AssignInvalid(c)
  PROVE  Contract!Join(c) \/ Contract!Detach(c)
<1> USE DEF AssignInvalid, End, Goto
<1>i. PICK o \in Objects, t \in Threads : o = dst[c] /\ t = obj[dst[c]].arg
  BY DEF IInv, CallInv, Owner, LetGo, RefersTo
<1>0. /\ o \in Places /\ c \in Places /\ c # o /\ Empty(c) /\ op[c] \in {"joined", "detached"}
      /\ RefersTo(o, Alive \cup {"dead"})
      /\ op[c] = "joined" => pc[t] \in {"notified", "dead"}
      /\ obj[o].owner => pc[t] \in {"notified", "dead"}
  <2>1. op[c] \in {"joined", "detached"} /\ CallInv(c) /\ c # o
    BY <1>i, PlacesDisjoint DEF IInv
  <2>2. (Owner(o) /\ pc[t] \in {"notified", "dead"}) \/ LetGo(o)
    BY <1>i, <2>1 DEF CallInv
  <2> QED
    BY <1>i, <2>1, <2>2 DEF CallInv, Owner, LetGo, RefersTo, Places, Alive
<1>t. PICK a \in TaskAddr :
        /\ a = obj[o].task
        /\ TaskExists(a) => tcb[a].thr = t /\ pc[t] \in Alive
  BY <1>0, <1>i, TaskExistsIs
<1>a. /\ Move(c, o)
      /\ IF obj[o].owner THEN DropOwned(o) ELSE UNCHANGED <<taskVars, evVars>>
  <2>1. MoveAssign(c, o)
    BY <1>i
  <2> QED
    BY <1>0, <2>1 DEF MoveAssign
<1>1. Hold' = [Hold EXCEPT ![o] = Null]
  <2>1. obj'[o] = NoHandle /\ \A p \in Places : p # o => obj'[p] = obj[p]
    BY <1>0, <1>a DEF Move, Empty, IInv, TypeOK
  <2>2. Hold'[o] = Null
    BY <1>0, <2>1 DEF Hold, NoHandle
  <2>3. \A p \in Places : p # o => Hold'[p] = Hold[p]
    BY <2>1 DEF Hold
  <2> QED
    BY <1>0, <2>2, <2>3, Shapes, ExceptIs
<1>2. Life' = Life
  <2>1. CASE obj[o].owner /\ TaskExists(a)
    <3>1. tcb[a].thr = t /\ pc[t] = "notified" /\ DeleteTask(a)
      BY <1>0, <1>a, <1>t, <2>1 DEF DropOwned, Alive
    <3>2. pc' = [pc EXCEPT ![t] = "dead"]
      BY <3>1 DEF DeleteTask, IInv, TypeOK
    <3> QED
      BY <3>1, <3>2, SameLife
  <2>2. CASE ~(obj[o].owner /\ TaskExists(a))
    <3>1. pc' = pc
      BY <1>a, <1>t, <2>2 DEF DropOwned, taskVars
    <3> QED
      BY <3>1 DEF Life
  <2> QED
    BY <2>1, <2>2
<1>3. JoinOrDetach' = [JoinOrDetach EXCEPT ![c] = [kind |-> "none", obj |-> Null]]
  <2>1. op'[c] = "idle" /\ \A d \in Clients : d # c => op'[d] = op[d] /\ dst'[d] = dst[d]
    BY DEF IInv, TypeOK
  <2>2. JoinOrDetach'[c] = [kind |-> "none", obj |-> Null]
    BY <2>1 DEF JoinOrDetach
  <2>3. \A d \in Clients : d # c => JoinOrDetach'[d] = JoinOrDetach[d]
    BY <2>1 DEF JoinOrDetach
  <2> QED
    BY <2>2, <2>3, Shapes, ExceptIs
<1>4. CASE op[c] = "joined"
  <2>1. JoinOrDetach[c] = [kind |-> "join", obj |-> o] /\ Life[t] = "finished"
    BY <1>0, <1>4, <1>i, Mapping
  <2>2. Hold[o] = t
    BY <1>0, <1>i, <1>t, NullIsFresh DEF Hold
  <2> QED
    BY <1>1, <1>2, <1>3, <2>1, <2>2 DEF Contract!Join, Contract!Leave, Contract!NoCall
<1>5. CASE op[c] = "detached"
  <2>1. JoinOrDetach[c] = [kind |-> "detach", obj |-> o]
    BY <1>5, <1>i, Mapping
  <2> QED
    BY <1>1, <1>2, <1>3, <2>1 DEF Contract!Detach, Contract!Leave, Contract!NoCall
<1> QED
  BY <1>0, <1>4, <1>5

(* Waiting, and the critical section of detach, are invisible.             *)
LEMMA WaitRefines ==
  ASSUME IInv, NEW c \in Clients, JoinWait(c) \/ DetachWait(c) \/ DetachCritical(c)
  PROVE  UNCHANGED <<Hold, Life, JoinOrDetach>>
<1>1. Hold' = Hold
  <2>1. CASE JoinWait(c) \/ DetachWait(c)
    BY <2>1 DEF JoinWait, DetachWait, Hold
  <2>2. CASE DetachCritical(c)
    <3>1. dst[c] \in Places
      BY <2>2 DEF IInv, CallInv, DetachCritical, SameCall, Goto, Places
    <3>2. ASSUME NEW h \in Handle, NEW r, r = [h EXCEPT !.owner = FALSE]
          PROVE  r.task = h.task /\ r.arg = h.arg
      BY <3>2 DEF Handle
    <3>3. obj' = obj \/ obj' = [obj EXCEPT ![dst[c]].owner = FALSE]
      BY <2>2 DEF DetachCritical
    <3>4. \A p \in Places : obj'[p].task = obj[p].task /\ obj'[p].arg = obj[p].arg
      BY <3>1, <3>2, <3>3 DEF IInv, TypeOK
    <3> QED
      BY <3>4 DEF Hold
  <2> QED
    BY <2>1, <2>2
<1>2. Life' = Life
  BY DEF JoinWait, DetachWait, DetachCritical, taskVars, Life
<1>3. JoinOrDetach' = JoinOrDetach
  BY SameCalls DEF JoinWait, DetachWait, DetachCritical, SameCall, Goto, IInv, TypeOK
<1> QED
  BY <1>1, <1>2, <1>3

(* A move of a handle is a transfer, unless it is a self-assignment.       *)
LEMMA TransferRefines ==
  ASSUME IInv, NEW p \in Places, NEW q \in Places, p # q, Empty(q), Move(p, q)
  PROVE  /\ Hold[q] = Null
         /\ Hold' = [Hold EXCEPT ![q] = Hold[p], ![p] = Null]
<1>1. obj'[p] = NoHandle /\ obj'[q] = obj[p] /\ \A r \in Places : r # p /\ r # q => obj'[r] = obj[r]
  BY DEF Move, IInv, TypeOK
<1>2. Hold[q] = Null /\ Hold'[p] = Null /\ Hold'[q] = Hold[p]
  BY <1>1 DEF Hold, Empty, NoHandle
<1>3. \A r \in Places : r # p /\ r # q => Hold'[r] = Hold[r]
  BY <1>1 DEF Hold
<1>4. ASSUME NEW g, NEW h, g = [y \in Places |-> g[y]], h = [y \in Places |-> h[y]],
             g[p] = Null, g[q] = h[p], \A r \in Places : r # p /\ r # q => g[r] = h[r]
      PROVE  g = [h EXCEPT ![q] = h[p], ![p] = Null]
  BY <1>4
<1> QED
  BY <1>2, <1>3, <1>4, Shapes

(* Each of the three moves of a swap is a Transfer or changes nothing.     *)
LEMMA SwapRefines ==
  ASSUME IInv, NEW c \in Clients, Swap1(c) \/ Swap2(c) \/ Swap3(c)
  PROVE  \/ \E p, q \in Places : Contract!Transfer(p, q)
         \/ UNCHANGED <<Hold, Life, JoinOrDetach>>
<1>0. op[c] \in {"swap1", "swap2", "swap3"} /\ CallInv(c) /\ c \notin {dst[c], src[c]}
      /\ dst[c] \in Places /\ src[c] \in Places /\ c \in Places
  BY PlacesDisjoint DEF IInv, CallInv, Swap1, Swap2, Swap3, SameCall, End, Goto, Places
<1>c. JoinOrDetach' = JoinOrDetach
  <2>1. \A d \in Clients : d # c => op'[d] = op[d] /\ dst'[d] = dst[d]
    BY DEF Swap1, Swap2, Swap3, SameCall, End, Goto, IInv, TypeOK
  <2>2. op'[c] \in {"idle", "swap2", "swap3"}
    BY DEF Swap1, Swap2, Swap3, SameCall, End, Goto, IInv, TypeOK
  <2>3. JoinOrDetach'[c] = JoinOrDetach[c]
    BY <1>0, <2>2 DEF JoinOrDetach
  <2>4. \A d \in Clients : d # c => JoinOrDetach'[d] = JoinOrDetach[d]
    BY <2>1 DEF JoinOrDetach
  <2>5. ASSUME NEW g, NEW h, g = [y \in Clients |-> g[y]], h = [y \in Clients |-> h[y]],
               \A d \in Clients : g[d] = h[d]
        PROVE  g = h
    BY <2>5
  <2> QED
    BY <2>3, <2>4, <2>5, Shapes
<1>m. ASSUME NEW p \in Places, NEW q \in Places, p # q, Empty(q), Move(p, q), pc' = pc
      PROVE  Contract!Transfer(p, q)
  <2>1. Life' = Life
    BY <1>m DEF Life
  <2> QED
    BY <1>c, <1>m, <2>1, TransferRefines DEF Contract!Transfer
<1>1. CASE Swap1(c)
  BY <1>0, <1>1, <1>m DEF Swap1, SameCall, Goto, CallInv, MoveConstruct, taskVars
<1>2. CASE Swap2(c)
  <2>0. Empty(dst[c]) /\ ~obj[dst[c]].owner
    BY <1>0, <1>2 DEF Swap2, SameCall, Goto, CallInv, Empty, NoHandle
  <2>1. CASE src[c] = dst[c]
    <3>1. obj' = obj /\ pc' = pc
      BY <1>2, <2>0, <2>1 DEF Swap2, MoveAssign, taskVars
    <3> QED
      BY <1>c, <3>1 DEF Hold, Life
  <2>2. CASE src[c] # dst[c]
    <3>1. Move(src[c], dst[c]) /\ pc' = pc
      BY <1>2, <2>0, <2>2 DEF Swap2, MoveAssign, taskVars
    <3> QED
      BY <1>0, <1>m, <2>0, <2>2, <3>1
  <2> QED
    BY <2>1, <2>2
<1>3. CASE Swap3(c)
  <2>0. Empty(src[c]) /\ ~obj[src[c]].owner
    BY <1>0, <1>3 DEF Swap3, End, Goto, CallInv, Empty, NoHandle
  <2>1. Move(c, src[c]) /\ pc' = pc
    BY <1>0, <1>3, <2>0 DEF Swap3, MoveAssign, taskVars
  <2> QED
    BY <1>0, <1>m, <2>0, <2>1
<1> QED
  BY <1>1, <1>2, <1>3

(* Of a thread's routine the contract sees one step, the signal at its end. *)
LEMMA RoutineRefines ==
  ASSUME IInv, NEW t \in Threads, Routine(t) \/ Return(t)
  PROVE  Contract!Finish(t) \/ UNCHANGED <<Hold, Life, JoinOrDetach>>
<1>0. UNCHANGED <<obj, op, dst>> /\ Hold' = Hold /\ JoinOrDetach' = JoinOrDetach
  BY DEF Routine, Return, CopyHandle, NotifyStarted, DeleteState, NotifyJoined, DeleteSelf, Hold, JoinOrDetach
<1>1. CASE NotifyJoined(t)
  <2>1. pc[t] = "exiting" /\ pc' = [pc EXCEPT ![t] = "notified"]
    BY <1>1 DEF NotifyJoined, Step
  <2>2. \A u \in Threads : pc'[u] = IF u = t THEN "notified" ELSE pc[u]
    BY <2>1 DEF IInv, TypeOK
  <2>3. Life[t] = "running" /\ Life'[t] = "finished" /\ \A u \in Threads : u # t => Life'[u] = Life[u]
    BY <2>1, <2>2 DEF Life
  <2>4. Life' = [Life EXCEPT ![t] = "finished"]
    BY <2>3, Shapes, ExceptIs
  <2> QED
    BY <1>0, <2>3, <2>4 DEF Contract!Finish
<1>2. CASE ~NotifyJoined(t)
  <2>1. Life' = Life
    BY <1>2, SameLife DEF Routine, Return, CopyHandle, NotifyStarted, DeleteState, DeleteSelf, Step, Alive
  <2> QED
    BY <1>0, <2>1
<1> QED
  BY <1>1, <1>2

(* Every step is a step of the contract or invisible to it.                *)
LEMMA NextRefines ==
  ASSUME Benign, IInv, [Next]_vars
  PROVE  [Contract!Next]_(Contract!cvars)
<1> USE DEF Contract!Next, Contract!cvars, Contract!Places, Places
<1>1. ASSUME NEW c \in Clients, Call(c) PROVE [Contract!Next]_(Contract!cvars)
  <2>1. CASE \E o \in Objects, t \in Threads : CreateEventGroup(c, o, t)
    BY <2>1, CreateEventGroupRefines
  <2>2. CASE \E o \in Objects : JoinCall(c, o) \/ DetachCall(c, o)
    BY <2>2, EnterRefines
  <2>3. CASE \E x, y \in Objects : SwapCall(c, x, y)
    <3>1. PICK x \in Objects, y \in Objects : SwapCall(c, x, y)
      BY <2>3
    <3>2. Hold' = Hold /\ Life' = Life
      BY <3>1 DEF SwapCall, taskVars, Hold, Life
    <3>3. op[c] = "idle" /\ op'[c] = "swap1" /\ \A d \in Clients : d # c => op'[d] = op[d] /\ dst'[d] = dst[d]
      BY <3>1 DEF SwapCall, Begin, Goto, IInv, TypeOK
    <3>4. JoinOrDetach'[c] = JoinOrDetach[c]
      BY <3>3 DEF JoinOrDetach
    <3>5. \A d \in Clients : d # c => JoinOrDetach'[d] = JoinOrDetach[d]
      BY <3>3 DEF JoinOrDetach
    <3>6. ASSUME NEW g, NEW h, g = [y_ \in Clients |-> g[y_]], h = [y_ \in Clients |-> h[y_]],
                 \A d \in Clients : g[d] = h[d]
          PROVE  g = h
      BY <3>6
    <3>7. JoinOrDetach' = JoinOrDetach
      BY <3>4, <3>5, <3>6, Shapes
    <3> QED
      BY <3>2, <3>7
  <2> QED
    BY <1>1, <2>1, <2>2, <2>3 DEF Call
<1>2. ASSUME NEW c \in Clients, Continue(c) PROVE [Contract!Next]_(Contract!cvars)
  <2>1. CASE CreateTask(c)
    BY <2>1, CreateTaskRefines
  <2>2. CASE JoinWait(c) \/ DetachWait(c) \/ DetachCritical(c)
    BY <2>2, WaitRefines
  <2>3. CASE AssignInvalid(c)
    BY <2>3, AssignInvalidRefines
  <2>4. CASE Swap1(c) \/ Swap2(c) \/ Swap3(c)
    BY <2>4, SwapRefines
  <2> QED
    BY <1>2, <2>1, <2>2, <2>3, <2>4, PublishHandleNever DEF Continue
<1>3. ASSUME NEW t \in Threads, Routine(t) \/ Return(t) PROVE [Contract!Next]_(Contract!cvars)
  BY <1>3, RoutineRefines
<1>4. ASSUME NEW a \in TaskAddr, Reap(a) PROVE [Contract!Next]_(Contract!cvars)
  BY <1>4 DEF Reap, Hold, Life, JoinOrDetach
<1>5. CASE UNCHANGED vars
  BY <1>5 DEF vars, Hold, Life, JoinOrDetach
<1> QED
  BY <1>1, <1>2, <1>3, <1>4, <1>5 DEF Next

(* With a heap that does not reuse a stored TCB address and no task switch *)
(* inside a critical section, gthr_freertos and std::thread's glue         *)
(* implement the contract of std::thread.                                  *)
THEOREM ThreadsImplementContract ==
  ASSUME Benign
  PROVE  Spec => ImplementsContract
<1>1. IInv /\ [Next]_vars => [Contract!Next]_(Contract!cvars)
  BY NextRefines
<1> QED
  BY InitRefines, InductiveInvariant, <1>1, PTL DEF Spec, ImplementsContract, Contract!Spec
=============================================================================
