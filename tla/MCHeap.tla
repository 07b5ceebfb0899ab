------------------------------- MODULE MCHeap -------------------------------
(* A heap of a few blocks for TLC, in units of a word.                      *)
EXTENDS Heap, TLC

CONSTANTS t1, t2

TwoTasks == {t1, t2}
\* None, small ones, one with the allocated bit, and one that wraps in size_t.
SomeRequests == {0, 2, 6, 70, 127}
SomeGlueRequests == {0, 3}
SomeAlignments == {1, 4}
Symmetry == Permutations(Tasks)
=============================================================================
