----------------------------- MODULE MCCondVar -----------------------------
(* Small instances of CondVar for TLC: every variable has the same mutex.  *)
EXTENDS CondVar, TLC

CONSTANTS t1, t2, t3, v1, v2, m1

TwoTasks == {t1, t2}
ThreeTasks == {t1, t2, t3}
OneCV == {v1}
TwoCVs == {v1, v2}
OneMutex == {m1}
OneMutexOf == [v \in CVs |-> m1]

TwoCalls == [t \in Tasks |-> 2]
ThreeCalls == [t \in Tasks |-> 3]
FewCalls == [t \in Tasks |-> IF t = t1 THEN 2 ELSE 1]

(* Tasks do not differ, nor do condition variables.                        *)
Symmetry == Permutations(Tasks) \cup Permutations(CVs)
=============================================================================
