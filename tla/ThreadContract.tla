--------------------------- MODULE ThreadContract ---------------------------
(***************************************************************************)
(* What std::thread promises its users, with no tasks, event groups or     *)
(* handles: an object holds at most one thread of execution and a thread   *)
(* is held by at most one place; join returns after the thread finished;   *)
(* detach lets it run on; nobody can stop a thread from the outside.       *)
(* ThreadLifecycle implements this specification.                          *)
(***************************************************************************)
CONSTANTS Clients, Objects, Threads, Null

VARIABLES
  hold,   (* place -> the thread it holds; a client is the place of the    *)
          (* temporary of its current call                                 *)
  life,   (* thread -> "unborn", "running" or "finished"                   *)
  call    (* client -> the join or detach it is in                         *)

cvars == <<hold, life, call>>

Places == Objects \cup Clients
NoCall == [kind |-> "none", obj |-> Null]

Init ==
  /\ hold = [p \in Places |-> Null]
  /\ life = [t \in Threads |-> "unborn"]
  /\ call = [c \in Clients |-> NoCall]

Construct(o, t) ==
  /\ hold[o] = Null
  /\ life[t] = "unborn"
  /\ hold' = [hold EXCEPT ![o] = t]
  /\ life' = [life EXCEPT ![t] = "running"]
  /\ UNCHANGED call

Finish(t) ==
  /\ life[t] = "running"
  /\ life' = [life EXCEPT ![t] = "finished"]
  /\ UNCHANGED <<hold, call>>

(* One move; a swap is three of them.                                      *)
Transfer(p, q) ==
  /\ p # q
  /\ hold[q] = Null
  /\ hold' = [hold EXCEPT ![q] = hold[p], ![p] = Null]
  /\ UNCHANGED <<life, call>>

Enter(c, o, kind) ==
  /\ call[c] = NoCall
  /\ hold[o] # Null
  /\ call' = [call EXCEPT ![c] = [kind |-> kind, obj |-> o]]
  /\ UNCHANGED <<hold, life>>

Leave(c, kind) ==
  /\ call[c].kind = kind
  /\ hold' = [hold EXCEPT ![call[c].obj] = Null]
  /\ call' = [call EXCEPT ![c] = NoCall]
  /\ UNCHANGED life

Join(c) ==
  /\ call[c].kind = "join"
  /\ life[hold[call[c].obj]] = "finished"
  /\ Leave(c, "join")
Detach(c) == Leave(c, "detach")

Next ==
  \/ \E o \in Objects, t \in Threads : Construct(o, t)
  \/ \E t \in Threads : Finish(t)
  \/ \E p, q \in Places : Transfer(p, q)
  \/ \E c \in Clients, o \in Objects, kind \in {"join", "detach"} : Enter(c, o, kind)
  \/ \E c \in Clients : Join(c) \/ Detach(c)

Spec == Init /\ [][Next]_cvars
=============================================================================
