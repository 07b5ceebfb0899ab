---------------------------- MODULE OnceContract ----------------------------
(***************************************************************************)
(* What std::call_once promises: of all the calls for a flag exactly one   *)
(* runs its callable, and every call returns only after that one is done.  *)
(***************************************************************************)
CONSTANTS Tasks, Flags

VARIABLES
  state,  (* flag -> "new", "active" or "done"                             *)
  frame   (* <<task, flag>> -> "idle", "called" or "running"; a task    *)
          (* is in several calls if a callable calls call_once             *)

ovars == <<state, frame>>

Init ==
  /\ state = [f \in Flags |-> "new"]
  /\ frame = [c \in Tasks \X Flags |-> "idle"]

Call(t, f) ==
  /\ frame[<<t, f>>] = "idle"
  /\ frame' = [frame EXCEPT ![<<t, f>>] = "called"]
  /\ UNCHANGED state

Start(t, f) ==
  /\ frame[<<t, f>>] = "called" /\ state[f] = "new"
  /\ frame' = [frame EXCEPT ![<<t, f>>] = "running"]
  /\ state' = [state EXCEPT ![f] = "active"]

Finish(t, f) ==
  /\ frame[<<t, f>>] = "running"
  /\ frame' = [frame EXCEPT ![<<t, f>>] = "called"]
  /\ state' = [state EXCEPT ![f] = "done"]

Return(t, f) ==
  /\ frame[<<t, f>>] = "called" /\ state[f] = "done"
  /\ frame' = [frame EXCEPT ![<<t, f>>] = "idle"]
  /\ UNCHANGED state

Next ==
  \E t \in Tasks, f \in Flags :
    \/ Call(t, f) \/ Start(t, f) \/ Finish(t, f) \/ Return(t, f)

Spec == Init /\ [][Next]_ovars
=============================================================================
