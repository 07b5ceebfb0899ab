------------------------- MODULE MCThreadLifecycle -------------------------
(* Small instances of ThreadLifecycle for TLC. *)
EXTENDS ThreadInvariant, TLC

CONSTANTS c1, c2, o1, o2, t1, t2, t3, a1, a2, e1, e2

TwoClients == {c1, c2}
OneClient == {c1}
TwoObjects == {o1, o2}
TwoThreads == {t1, t2}
ThreeThreads == {t1, t2, t3}
TwoTasks == {a1, a2}
NoThread == {}
UrgentThread == {t2}
TwoGroups == {e1, e2}

(* Nothing but the identity of clients, objects, functors and addresses matters. *)
Symmetry ==
  Permutations(Clients) \cup Permutations(Objects) \cup Permutations(Threads)
    \cup Permutations(TaskAddr) \cup Permutations(EvAddr)
=============================================================================
