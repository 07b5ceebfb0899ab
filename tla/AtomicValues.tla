---------------------------- MODULE AtomicValues ----------------------------
(***************************************************************************)
(* The values of an object that takes several machine words, and what the  *)
(* atomic operations do to them.  A word has one bit: enough for a carry   *)
(* from word to word and for a value half read or half written.            *)
(***************************************************************************)
EXTENDS Naturals

CONSTANT Words   (* number of machine words of an object                   *)

ASSUME WordsIsPositive == Words \in Nat \ {0}

Word == {0, 1}
WordIndex == 1..Words
Value == [WordIndex -> Word]
Zero == [i \in WordIndex |-> 0]

(* The carry into word i: a lower word makes it, those between pass it on. *)
Carry(a, b, i) ==
  IF \E j \in 1..(i - 1) :
       /\ a[j] = 1 /\ b[j] = 1
       /\ \A k \in (j + 1)..(i - 1) : a[k] # b[k]
    THEN 1 ELSE 0

Plus(a, b) == [i \in WordIndex |-> (a[i] + b[i] + Carry(a, b, i)) % 2]

Not(a) == [i \in WordIndex |-> 1 - a[i]]

Minus(a, b) == Not(Plus(Not(a), b))

And(a, b) == [i \in WordIndex |-> a[i] * b[i]]

Or(a, b) == Not(And(Not(a), Not(b)))

Xor(a, b) == [i \in WordIndex |-> (a[i] + b[i]) % 2]

FetchKinds == {"add", "sub", "and", "or", "xor", "nand"}

(* SYM of ATOMIC_FETCH: what is stored when old was there.                 *)
Combine(kind, old, val) ==
  CASE kind = "add" -> Plus(old, val)
    [] kind = "sub" -> Minus(old, val)
    [] kind = "and" -> And(old, val)
    [] kind = "or" -> Or(old, val)
    [] kind = "xor" -> Xor(old, val)
    [] kind = "nand" -> Not(And(old, val))

AtomicKinds == {"load", "store", "exchange", "compare_exchange"} \cup FetchKinds

AtomicCall == [kind : AtomicKinds, val : Value, expect : Value]

(* What one operation, alone, leaves in the object.                        *)
Effect(c, old) ==
  CASE c.kind = "load" -> old
    [] c.kind \in {"store", "exchange"} -> c.val
    [] c.kind = "compare_exchange" -> IF old = c.expect THEN c.val ELSE old
    [] OTHER -> Combine(c.kind, old, c.val)

(* What it gives its caller; a compare_exchange gives it in *expect.       *)
Answer(c, old) == IF c.kind = "store" THEN Zero ELSE old
=============================================================================
