------------------------- MODULE AllocatorContract -------------------------
(***************************************************************************)
(* What an allocator promises: the ranges of memory it hands out lie in its *)
(* memory and never overlap, and one that is given back may be handed out   *)
(* again.  It may refuse a request, by doing nothing.  An empty range has a *)
(* pointer of its own too.                                                  *)
(***************************************************************************)
EXTENDS Naturals

CONSTANTS Memory   \* the addresses the allocator may hand out

VARIABLES held     \* the ranges handed out, [pointer, size]

Range(r) == r.pointer .. r.pointer + r.size - 1

Init == held = {}

Allocate ==
    \E r \in held' \ held :
        /\ r.pointer \in Nat /\ r.size \in Nat
        /\ Range(r) \subseteq Memory
        /\ \A other \in held :
              Range(r) \cap Range(other) = {} /\ r.pointer # other.pointer
        /\ held' = held \cup {r}
Release == \E r \in held : held' = held \ {r}

Next == Allocate \/ Release

Spec == Init /\ [][Next]_held
=============================================================================
