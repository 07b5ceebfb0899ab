--------------------------- MODULE AtomicContract ---------------------------
(***************************************************************************)
(* What std::atomic promises of its operations: each takes effect at one   *)
(* instant between its call and its return, and answers with the value     *)
(* that the object had at that instant.                                    *)
(***************************************************************************)
EXTENDS AtomicValues

CONSTANTS Tasks, Objects, Calls, Null

VARIABLES
  reg,    (* object -> its value                                           *)
  todo,   (* task -> the operation it has called, before its effect        *)
  answer  (* task -> the answer, between the effect and the return         *)

avars == <<reg, todo, answer>>

Init ==
  /\ reg = [o \in Objects |-> Zero]
  /\ todo = [t \in Tasks |-> Null]
  /\ answer = [t \in Tasks |-> Null]

Invoke(t, o, c) ==
  /\ todo[t] = Null /\ answer[t] = Null
  /\ todo' = [todo EXCEPT ![t] = [obj |-> o, call |-> c]]
  /\ UNCHANGED <<reg, answer>>

TakeEffect(t) ==
  LET o == todo[t].obj
      c == todo[t].call
  IN  /\ todo[t] # Null
      /\ reg' = [reg EXCEPT ![o] = Effect(c, @)]
      /\ answer' = [answer EXCEPT ![t] = Answer(c, reg[o])]
      /\ todo' = [todo EXCEPT ![t] = Null]

Respond(t) ==
  /\ answer[t] # Null
  /\ answer' = [answer EXCEPT ![t] = Null]
  /\ UNCHANGED <<reg, todo>>

Next ==
  \E t \in Tasks :
    \/ \E o \in Objects, c \in Calls : Invoke(t, o, c)
    \/ TakeEffect(t) \/ Respond(t)

Spec == Init /\ [][Next]_avars
=============================================================================
