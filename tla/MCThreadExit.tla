---------------------------- MODULE MCThreadExit ----------------------------
(* Small instances of ThreadExit for TLC. *)
EXTENDS ThreadExit, TLC

CONSTANTS t1, t2, t3, a1, a2

TwoThreads == {t1, t2}
ThreeThreads == {t1, t2, t3}
TwoAddrs == {a1, a2}

Symmetry == Permutations(Threads) \cup Permutations(Addrs)
=============================================================================
