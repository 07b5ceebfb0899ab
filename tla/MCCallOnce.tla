----------------------------- MODULE MCCallOnce -----------------------------
(* Small instances of CallOnce for TLC. *)
EXTENDS CallOnce

CONSTANTS t1, t2, t3, f1, f2

TwoTasks == {t1, t2}
ThreeTasks == {t1, t2, t3}
TwoFlags == {f1, f2}
(* The callable of f1 calls call_once for f2. *)
OneInner == [f \in Flags |-> IF f = f1 THEN f2 ELSE Null]
=============================================================================
