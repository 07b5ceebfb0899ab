----------------------------- MODULE MCLibAtomic -----------------------------
(* Small instances of LibAtomic for TLC.                                   *)
EXTENDS LibAtomic, Integers

CONSTANTS t1, t2, t3, o1, o2, o3

ThreeTasks == {t1, t2, t3}
ThreeObjects == {o1, o2, o3}

(* o1 and o2 share a flag (ASSUME below), o3 has another one.              *)
Addresses == [o \in Objects |-> CASE o = o1 -> 536870912 [] o = o2 -> 536871016 [] OTHER -> 536870920]

ASSUME FlagsCollide == FlagForAddress(536870912) = FlagForAddress(536871016)
ASSUME FlagsDiffer == FlagForAddress(536870912) # FlagForAddress(536870920)

ObjectThree == {o3}

(* Two tasks share the processor, the third preempts them.                 *)
TwoPriorities == [t \in Tasks |-> IF t = t3 THEN 2 ELSE 1]

Low == [i \in WordIndex |-> IF i = 1 THEN 1 ELSE 0]
Ones == [i \in WordIndex |-> 1]

Op(kind, val) == [kind |-> kind, val |-> val, expect |-> Zero]
Compare(expect, val) == [kind |-> "compare_exchange", val |-> val, expect |-> expect]

SomeCalls ==
  {Op("load", Zero), Op("store", Ones), Op("exchange", Low), Op("add", Low),
   Op("nand", Low), Compare(Zero, Ones)}

(* The word by word operations are those of unsigned integers.             *)
Number(v) == LET sum[i \in 0..Words] == IF i = 0 THEN 0 ELSE sum[i - 1] + v[i] * 2^(i - 1)
             IN  sum[Words]

ASSUME FetchIsArithmetic ==
  \A a, b \in Value :
    /\ Number(Plus(a, b)) = (Number(a) + Number(b)) % 2^Words
    /\ Number(Minus(a, b)) = (Number(a) - Number(b)) % 2^Words
    /\ Number(Xor(a, b)) = Number(Or(a, b)) - Number(And(a, b))
=============================================================================
