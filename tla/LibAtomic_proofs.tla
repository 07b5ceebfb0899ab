-------------------------- MODULE LibAtomic_proofs --------------------------
(***************************************************************************)
(* Proofs about LibAtomic, for any number of tasks, priorities, objects    *)
(* and words, any placement of the objects and any program of operations:  *)
(* the flags are locks, and the operations are linearizable.               *)
(***************************************************************************)
EXTENDS LibAtomic, TLAPS

(***************************************************************************)
(* The values.                                                             *)
(***************************************************************************)
LEMMA ZeroIsValue == Zero \in Value
BY DEF Zero, Value, Word

LEMMA PlusIsValue == ASSUME NEW a \in Value, NEW b \in Value PROVE Plus(a, b) \in Value
<1>1. ASSUME NEW i \in WordIndex PROVE (a[i] + b[i] + Carry(a, b, i)) % 2 \in Word
  <2>1. a[i] \in {0, 1} /\ b[i] \in {0, 1} /\ Carry(a, b, i) \in {0, 1}
    BY DEF Value, Word, Carry
  <2>2. ASSUME NEW x \in {0, 1}, NEW y \in {0, 1}, NEW z \in {0, 1} PROVE (x + y + z) % 2 \in {0, 1}
    OBVIOUS
  <2> QED
    BY <2>1, <2>2 DEF Word
<1> QED
  BY <1>1 DEF Plus, Value

LEMMA NotIsValue == ASSUME NEW a \in Value PROVE Not(a) \in Value
BY DEF Not, Value, Word

LEMMA AndIsValue == ASSUME NEW a \in Value, NEW b \in Value PROVE And(a, b) \in Value
<1>1. ASSUME NEW x \in {0, 1}, NEW y \in {0, 1} PROVE x * y \in {0, 1}
  OBVIOUS
<1> QED
  BY <1>1 DEF And, Value, Word

LEMMA XorIsValue == ASSUME NEW a \in Value, NEW b \in Value PROVE Xor(a, b) \in Value
<1>1. ASSUME NEW x \in {0, 1}, NEW y \in {0, 1} PROVE (x + y) % 2 \in {0, 1}
  OBVIOUS
<1> QED
  BY <1>1 DEF Xor, Value, Word

LEMMA CombineIsValue ==
  ASSUME NEW kind \in FetchKinds, NEW a \in Value, NEW b \in Value
  PROVE  Combine(kind, a, b) \in Value
BY PlusIsValue, NotIsValue, AndIsValue, XorIsValue DEF Combine, FetchKinds, Minus, Or

LEMMA EffectIsValue ==
  ASSUME NEW c \in AtomicCall, NEW a \in Value
  PROVE  Effect(c, a) \in Value
<1>1. c.kind \in AtomicKinds /\ c.val \in Value
  BY DEF AtomicCall
<1>2. c.kind \in FetchKinds \/ c.kind \in {"load", "store", "exchange", "compare_exchange"}
  BY <1>1 DEF AtomicKinds
<1> QED
  BY <1>1, <1>2, CombineIsValue DEF Effect

(* Two values are the same if all their words are.                         *)
LEMMA SameWords ==
  ASSUME NEW a \in Value, NEW b \in Value, \A i \in WordIndex : a[i] = b[i]
  PROVE  a = b
BY DEF Value

(***************************************************************************)
(* The flags: addresses map to one of the sixteen.                         *)
(***************************************************************************)
LEMMA FlagInTable == ASSUME NEW a \in Nat PROVE FlagForAddress(a) \in 0..(N_LOCKS - 1)
<1>1. ASSUME NEW x \in Nat PROVE x % 16 \in 0..15
  OBVIOUS
<1> QED
  BY <1>1 DEF FlagForAddress, N_LOCKS, Shl, Bits30

(***************************************************************************)
(* The inductive invariant: the types, the locks, and how far each task    *)
(* has come.                                                               *)
(***************************************************************************)

(* The words before word[t] are read, found to be equal, or written.       *)
Done(t) == {i \in WordIndex : i < word[t]}

TaskInv(t) ==
  /\ pc[t] = "idle" <=> obj[t] = Null
  /\ pc[t] = "idle" <=> call[t] = Null
  /\ Locked(t) => obj[t] \notin LockFree
  /\ pc[t] \in {"read", "compare", "write"} => word[t] # 0
  /\ pc[t] = "called" =>
       ret[t] = IF call[t].kind = "compare_exchange" THEN call[t].expect ELSE Zero
  /\ pc[t] = "read" =>
       /\ call[t].kind # "store"
       /\ call[t].kind = "compare_exchange" => mem[obj[t]] # call[t].expect
       /\ \A i \in Done(t) : ret[t][i] = mem[obj[t]][i]
  /\ pc[t] = "compare" =>
       /\ call[t].kind = "compare_exchange" /\ ret[t] = call[t].expect
       /\ \A i \in Done(t) : mem[obj[t]][i] = call[t].expect[i]
  /\ pc[t] = "write" =>
       /\ call[t].kind # "load"
       /\ \A i \in Done(t) : mem[obj[t]][i] = NewValue(t)[i]

IInv == TypeOK /\ FlagsAreLocks /\ \A t \in Tasks : TaskInv(t)

LEMMA InitIInv == Init => IInv
<1> SUFFICES ASSUME Init PROVE IInv
  OBVIOUS
<1>1. TypeOK
  BY ZeroIsValue, CallsAreBounded, WordsIsPositive DEF Init, TypeOK, PC
<1>2. FlagsAreLocks
  BY DEF Init, FlagsAreLocks, Locked
<1>3. \A t \in Tasks : TaskInv(t)
  BY DEF Init, TaskInv, Locked
<1> QED
  BY <1>1, <1>2, <1>3 DEF IInv

(* A task in an operation has an object and a call, and writes a value.    *)
LEMMA Busy ==
  ASSUME IInv, NEW t \in Tasks, pc[t] # "idle"
  PROVE  /\ obj[t] \in Objects /\ call[t] \in Calls
         /\ call[t].kind \in AtomicKinds /\ call[t].val \in Value /\ call[t].expect \in Value
         /\ mem[obj[t]] \in Value /\ ret[t] \in Value /\ NewValue(t) \in Value
         /\ FlagOf[obj[t]] \in 0..(N_LOCKS - 1)
<1>1. obj[t] \in Objects /\ call[t] \in Calls
  BY DEF IInv, TypeOK, TaskInv
<1>2. call[t].kind \in AtomicKinds /\ call[t].val \in Value /\ call[t].expect \in Value
  BY <1>1, CallsAreBounded DEF AtomicCall
<1>3. mem[obj[t]] \in Value /\ ret[t] \in Value
  BY <1>1 DEF IInv, TypeOK
<1>4. NewValue(t) \in Value
  BY <1>2, <1>3, CombineIsValue DEF NewValue
<1>5. FlagOf[obj[t]] \in 0..(N_LOCKS - 1)
  BY <1>1, AddressesAreNatural, FlagInTable DEF FlagOf
<1> QED
  BY <1>1, <1>2, <1>3, <1>4, <1>5

(* Of the objects that tasks hold locks for, no two share a flag.          *)
LEMMA OneLocked ==
  ASSUME IInv, NEW t \in Tasks, NEW u \in Tasks, Locked(t), Locked(u),
         FlagOf[obj[t]] = FlagOf[obj[u]]
  PROVE  t = u
<1>1. FlagOf[obj[t]] \in 0..(N_LOCKS - 1)
  BY Busy DEF Locked
<1> QED
  BY <1>1 DEF IInv, TypeOK, FlagsAreLocks

(* A step of one task leaves the others where they are, if the memory that *)
(* they work on is left alone.                                             *)
StepOnly(t) ==
  \A u \in Tasks \ {t} :
    /\ pc'[u] = pc[u] /\ obj'[u] = obj[u] /\ call'[u] = call[u]
    /\ ret'[u] = ret[u] /\ word'[u] = word[u]
    /\ Locked(u) => mem'[obj[u]] = mem[obj[u]]

LEMMA OthersKept ==
  ASSUME IInv, NEW t \in Tasks, StepOnly(t)
  PROVE  \A u \in Tasks \ {t} : TaskInv(u)'
<1> SUFFICES ASSUME NEW u \in Tasks \ {t} PROVE TaskInv(u)'
  OBVIOUS
<1>1. /\ pc'[u] = pc[u] /\ obj'[u] = obj[u] /\ call'[u] = call[u]
      /\ ret'[u] = ret[u] /\ word'[u] = word[u]
      /\ pc[u] \in {"read", "compare", "write"} => mem'[obj[u]] = mem[obj[u]]
  BY DEF StepOnly, Locked
<1>2. Done(u)' = Done(u) /\ NewValue(u)' = NewValue(u) /\ (Locked(u)' <=> Locked(u))
  BY <1>1 DEF Done, NewValue, Locked
<1>3. TaskInv(u)
  BY DEF IInv
<1> QED
  BY <1>1, <1>2, <1>3 DEF TaskInv

(* No flag is taken or given.                                              *)
LEMMA FlagsKept ==
  ASSUME IInv, flag' = flag,
         \A u \in Tasks : (Locked(u)' <=> Locked(u)) /\ (Locked(u) => obj'[u] = obj[u])
  PROVE  FlagsAreLocks'
BY DEF IInv, FlagsAreLocks

(* An operation is called.                                                 *)
LEMMA InvokeKeeps ==
  ASSUME IInv, NEW t \in Tasks, NEW o \in Objects, NEW c \in Calls, Invoke(t, o, c)
  PROVE  IInv'
<1>1. /\ pc[t] = "idle" /\ pc'[t] = "called" /\ obj'[t] = o /\ call'[t] = c
      /\ ret'[t] = IF c.kind = "compare_exchange" THEN c.expect ELSE Zero
      /\ flag' = flag /\ mem' = mem /\ StepOnly(t)
  BY DEF Invoke, Step, StepOnly, IInv, TypeOK
<1>2. c \in AtomicCall /\ c.expect \in Value
  BY CallsAreBounded DEF AtomicCall
<1>3. TypeOK'
  BY <1>2, ZeroIsValue, CallsAreBounded DEF IInv, TypeOK, Invoke, Step, PC
<1>4. FlagsAreLocks'
  BY <1>1, FlagsKept DEF Locked, StepOnly
<1>5. TaskInv(t)'
  BY <1>1, <1>2, NullIsNothing DEF TaskInv, Locked
<1> QED
  BY <1>1, <1>3, <1>4, <1>5, OthersKept DEF IInv

(* One instruction on an object for which nobody takes a lock.             *)
LEMMA LockFreeOperationKeeps ==
  ASSUME IInv, NEW t \in Tasks, LockFreeOperation(t) PROVE IInv'
<1>1. /\ pc[t] = "called" /\ pc'[t] = "return" /\ obj[t] \in LockFree
      /\ obj' = obj /\ call' = call /\ flag' = flag /\ word' = word /\ calls' = calls
      /\ \A o \in Objects : o # obj[t] => mem'[o] = mem[o]
  BY DEF LockFreeOperation, Step, IInv, TypeOK
<1>2. StepOnly(t)
  <2>1. \A u \in Tasks : Locked(u) => obj[u] \in Objects /\ obj[u] # obj[t]
    BY <1>1, Busy DEF IInv, TaskInv, Locked
  <2> QED
    BY <1>1, <2>1 DEF StepOnly, LockFreeOperation, Step, IInv, TypeOK
<1>3. TypeOK'
  <2>1. call[t] \in AtomicCall /\ mem[obj[t]] \in Value /\ obj[t] \in Objects
    BY <1>1, Busy, CallsAreBounded
  <2>2. Effect(call[t], mem[obj[t]]) \in Value /\ Answer(call[t], mem[obj[t]]) \in Value
    BY <2>1, EffectIsValue, ZeroIsValue DEF Answer
  <2> QED
    BY <2>1, <2>2 DEF IInv, TypeOK, LockFreeOperation, Step, PC
<1>4. FlagsAreLocks'
  BY <1>1, <1>2, FlagsKept DEF Locked, StepOnly
<1>5. TaskInv(t)'
  BY <1>1 DEF IInv, TaskInv, Locked
<1> QED
  BY <1>2, <1>3, <1>4, <1>5, OthersKept DEF IInv

(* The flag is found clear: nobody holds the lock.                         *)
LEMMA GetLockKeeps == ASSUME IInv, NEW t \in Tasks, GetLock(t) PROVE IInv'
<1> DEFINE first == FirstStep(call[t].kind)
           f == FlagOf[obj[t]]
<1>1. /\ pc[t] = "called" /\ pc'[t] = first /\ word'[t] = 1
      /\ obj[t] \notin LockFree
      /\ obj' = obj /\ call' = call /\ ret' = ret /\ mem' = mem /\ calls' = calls
      /\ flag' = [flag EXCEPT ![f] = TRUE] /\ ~ flag[f] /\ StepOnly(t)
  BY DEF GetLock, Step, StepOnly, IInv, TypeOK
<1>2. /\ first \in {"read", "compare", "write"}
      /\ first = "write" <=> call[t].kind = "store"
      /\ first = "compare" <=> call[t].kind = "compare_exchange"
  BY DEF FirstStep
<1>3. f \in 0..(N_LOCKS - 1)
  BY <1>1, Busy
<1> HIDE DEF f, first
<1>4. TypeOK'
  <2>1. pc' = [pc EXCEPT ![t] = first] /\ word' = [word EXCEPT ![t] = 1] /\ first \in PC
    BY <1>2 DEF GetLock, Step, PC, first
  <2>2. 1 \in 0..Words
    BY WordsIsPositive
  <2> QED
    BY <2>1, <2>2, <1>1, <1>3 DEF IInv, TypeOK
<1>5. FlagsAreLocks'
  <2>1. \A u \in Tasks : Locked(u) => FlagOf[obj[u]] # f
    <3>1. f \in DOMAIN flag /\ ~ flag[f]
      BY <1>1, <1>3 DEF IInv, TypeOK
    <3>2. flag[f] <=> \E u \in Tasks : Locked(u) /\ FlagOf[obj[u]] = f
      BY <3>1 DEF IInv, FlagsAreLocks
    <3> QED
      BY <3>1, <3>2
  <2>2. /\ \A u \in Tasks \ {t} : Locked(u)' <=> Locked(u)
        /\ Locked(t)' /\ ~ Locked(t)
    BY <1>1, <1>2 DEF Locked, StepOnly
  <2>3. DOMAIN flag' = DOMAIN flag /\ flag'[f] /\ \A g \in DOMAIN flag : g # f => flag'[g] = flag[g]
    BY <1>1, <1>3 DEF IInv, TypeOK
  <2>4. ASSUME NEW g \in DOMAIN flag
        PROVE  /\ flag'[g] <=> \E u \in Tasks : Locked(u)' /\ FlagOf[obj[u]] = g
               /\ \A u, w \in Tasks :
                    Locked(u)' /\ Locked(w)' /\ FlagOf[obj[u]] = g /\ FlagOf[obj[w]] = g => u = w
    <3>1. CASE g = f
      BY <3>1, <2>1, <2>2, <2>3 DEF f
    <3>2. CASE g # f
      <4>1. \A u \in Tasks : Locked(u)' /\ FlagOf[obj[u]] = g <=> Locked(u) /\ FlagOf[obj[u]] = g
        BY <3>2, <2>2 DEF f
      <4> QED
        BY <3>2, <4>1, <2>3 DEF IInv, FlagsAreLocks
    <3> QED
      BY <3>1, <3>2
  <2> QED
    BY <1>1, <2>3, <2>4 DEF FlagsAreLocks
<1>6. TaskInv(t)'
  <2>1. Done(t)' = {}
    BY <1>1 DEF Done, WordIndex
  <2> QED
    BY <1>1, <1>2, <2>1 DEF IInv, TaskInv, Locked
<1> QED
  BY <1>1, <1>4, <1>5, <1>6, OthersKept DEF IInv

(* Where the loops over the words lead: one word more, or past the last.   *)
LEMMA AdvanceMoves ==
  ASSUME IInv, NEW t \in Tasks, NEW from \in PC, NEW to \in PC, Advance(t, from, to),
         word[t] # 0
  PROVE  /\ word[t] \in WordIndex /\ word' \in [Tasks -> 0..Words] /\ pc' \in [Tasks -> PC]
         /\ word'[t] \in WordIndex
         /\ \A u \in Tasks \ {t} : pc'[u] = pc[u] /\ word'[u] = word[u]
         /\ pc[t] = from
         /\ \/ /\ pc'[t] = from
               /\ \A i \in Done(t)' : i = word[t] \/ i \in Done(t)
            \/ /\ pc'[t] = to /\ Done(t)' = {}
               /\ \A i \in WordIndex : i = word[t] \/ i \in Done(t)
<1>1. word[t] \in 0..Words /\ word[t] \in WordIndex
  BY WordsIsPositive DEF IInv, TypeOK, WordIndex
<1>2. /\ word' = [word EXCEPT ![t] = IF @ = Words THEN 1 ELSE @ + 1]
      /\ pc' = [pc EXCEPT ![t] = IF word[t] = Words THEN to ELSE from] /\ pc[t] = from
  BY DEF Advance, Step
<1>3. (IF word[t] = Words THEN 1 ELSE word[t] + 1) \in WordIndex
  BY <1>1, WordsIsPositive DEF WordIndex
<1>4. /\ word' \in [Tasks -> 0..Words] /\ pc' \in [Tasks -> PC] /\ word'[t] \in WordIndex
      /\ \A u \in Tasks \ {t} : pc'[u] = pc[u] /\ word'[u] = word[u]
  BY <1>2, <1>3 DEF IInv, TypeOK, WordIndex
<1>5. CASE word[t] = Words
  <2>1. pc'[t] = to /\ word'[t] = 1
    BY <1>2, <1>5 DEF IInv, TypeOK
  <2>2. Done(t)' = {}
    BY <2>1, WordsIsPositive DEF Done, WordIndex
  <2>3. \A i \in WordIndex : i = word[t] \/ i \in Done(t)
    BY <1>5, WordsIsPositive DEF Done, WordIndex
  <2> QED
    BY <1>1, <1>2, <1>4, <2>1, <2>2, <2>3
<1>6. CASE word[t] # Words
  <2>1. pc'[t] = from /\ word'[t] = word[t] + 1
    BY <1>2, <1>6 DEF IInv, TypeOK
  <2>2. \A i \in Done(t)' : i = word[t] \/ i \in Done(t)
    BY <2>1, <1>1, WordsIsPositive DEF Done, WordIndex
  <2> QED
    BY <1>1, <1>2, <1>4, <2>1, <2>2
<1> QED
  BY <1>5, <1>6

LEMMA ReadWordKeeps == ASSUME IInv, NEW t \in Tasks, ReadWord(t) PROVE IInv'
<1> DEFINE after == AfterRead(call[t].kind)
           w == word[t]
<1>1. pc[t] = "read" /\ w # 0 /\ after \in {"free", "write"} /\ after \in PC /\ "read" \in PC
  BY DEF ReadWord, IInv, TaskInv, AfterRead, PC
<1>2. /\ Advance(t, "read", after)
      /\ ret' = [ret EXCEPT ![t][w] = mem[obj[t]][w]]
      /\ UNCHANGED <<flag, mem, obj, call, calls>>
  BY DEF ReadWord
<1>3. /\ w \in WordIndex /\ word' \in [Tasks -> 0..Words] /\ pc' \in [Tasks -> PC]
      /\ word'[t] \in WordIndex
      /\ \A u \in Tasks \ {t} : pc'[u] = pc[u] /\ word'[u] = word[u]
      /\ \/ pc'[t] = "read" /\ \A i \in Done(t)' : i = w \/ i \in Done(t)
         \/ pc'[t] = after /\ Done(t)' = {}
  BY <1>1, <1>2, AdvanceMoves
<1>4. /\ ret' \in [Tasks -> Value] /\ \A u \in Tasks \ {t} : ret'[u] = ret[u]
      /\ \A i \in WordIndex : ret'[t][i] = IF i = w THEN mem[obj[t]][i] ELSE ret[t][i]
  <2>1. mem[obj[t]][w] \in Word /\ ret[t] \in Value
    BY <1>1, <1>3, Busy DEF Value
  <2>2. [ret[t] EXCEPT ![w] = mem[obj[t]][w]] \in Value
    BY <2>1, <1>3 DEF Value
  <2>3. ret' = [ret EXCEPT ![t] = [ret[t] EXCEPT ![w] = mem[obj[t]][w]]]
    BY <1>2
  <2> QED
    BY <2>1, <2>2, <2>3 DEF IInv, TypeOK, Value
<1>5. TypeOK'
  BY <1>2, <1>3, <1>4 DEF IInv, TypeOK
<1>6. FlagsAreLocks'
  BY <1>1, <1>2, <1>3, FlagsKept DEF Locked
<1>7. StepOnly(t)
  BY <1>2, <1>3, <1>4 DEF StepOnly
<1>8. TaskInv(t)'
  <2>1. /\ TaskInv(t) /\ Locked(t) /\ Locked(t)' /\ obj' = obj /\ call' = call /\ mem' = mem
        /\ word'[t] # 0
    BY <1>1, <1>2, <1>3, WordsIsPositive DEF IInv, Locked, WordIndex
  <2>2. CASE pc'[t] = "read" /\ \A i \in Done(t)' : i = w \/ i \in Done(t)
    <3>1. \A i \in Done(t)' : ret'[t][i] = mem[obj[t]][i]
      BY <2>1, <2>2, <1>1, <1>4 DEF TaskInv, Done
    <3> QED
      BY <2>1, <2>2, <3>1, <1>1 DEF TaskInv
  <2>3. CASE pc'[t] = after /\ Done(t)' = {}
    <3>1. after = "write" => call[t].kind \notin {"load", "compare_exchange"}
      BY DEF AfterRead
    <3> QED
      BY <2>1, <2>3, <3>1, <1>1 DEF TaskInv
  <2> QED
    BY <2>2, <2>3, <1>3
<1> QED
  BY <1>5, <1>6, <1>7, <1>8, OthersKept DEF IInv

LEMMA CompareWordKeeps == ASSUME IInv, NEW t \in Tasks, CompareWord(t) PROVE IInv'
<1> DEFINE w == word[t]
<1>1. /\ pc[t] = "compare" /\ w # 0 /\ {"compare", "read", "write"} \subseteq PC
      /\ call[t].kind = "compare_exchange"
  BY DEF CompareWord, IInv, TaskInv, PC
<1>2. UNCHANGED <<flag, mem, obj, call, ret, calls>>
  BY DEF CompareWord
<1>3. /\ word' \in [Tasks -> 0..Words] /\ pc' \in [Tasks -> PC]
      /\ word'[t] # 0
      /\ \A u \in Tasks \ {t} : pc'[u] = pc[u] /\ word'[u] = word[u]
      /\ \/ /\ pc'[t] = "compare" /\ mem[obj[t]][w] = call[t].expect[w]
            /\ \A i \in Done(t)' : i = w \/ i \in Done(t)
         \/ pc'[t] = "write" /\ Done(t)' = {}
         \/ pc'[t] = "read" /\ Done(t)' = {} /\ mem[obj[t]] # call[t].expect
  <2>1. CASE mem[obj[t]][w] = call[t].expect[w]
    <3>1. Advance(t, "compare", "write")
      BY <2>1 DEF CompareWord
    <3> QED
      BY <2>1, <3>1, <1>1, AdvanceMoves DEF WordIndex
  <2>2. CASE mem[obj[t]][w] # call[t].expect[w]
    <3>1. Step(t, "compare", "read") /\ word' = [word EXCEPT ![t] = 1]
      BY <2>2 DEF CompareWord
    <3>2. word'[t] = 1 /\ 1 \in 0..Words
      BY <3>1, WordsIsPositive DEF IInv, TypeOK
    <3>3. Done(t)' = {}
      BY <3>2 DEF Done, WordIndex
    <3> QED
      BY <2>2, <3>1, <3>2, <3>3, <1>1 DEF IInv, TypeOK, Step
  <2> QED
    BY <2>1, <2>2
<1>4. TypeOK'
  BY <1>2, <1>3 DEF IInv, TypeOK
<1>5. FlagsAreLocks'
  BY <1>1, <1>2, <1>3, FlagsKept DEF Locked
<1>6. StepOnly(t)
  BY <1>2, <1>3 DEF StepOnly
<1>7. TaskInv(t)'
  <2>1. TaskInv(t) /\ Locked(t) /\ Locked(t)' /\ obj' = obj /\ call' = call /\ mem' = mem /\ ret' = ret
    BY <1>1, <1>2, <1>3 DEF IInv, Locked
  <2>2. CASE /\ pc'[t] = "compare" /\ mem[obj[t]][w] = call[t].expect[w]
             /\ \A i \in Done(t)' : i = w \/ i \in Done(t)
    BY <2>1, <2>2, <1>1, <1>3 DEF TaskInv
  <2>3. CASE pc'[t] = "write" /\ Done(t)' = {}
    BY <2>1, <2>3, <1>1, <1>3 DEF TaskInv
  <2>4. CASE pc'[t] = "read" /\ Done(t)' = {} /\ mem[obj[t]] # call[t].expect
    BY <2>1, <2>4, <1>1, <1>3 DEF TaskInv
  <2> QED
    BY <2>2, <2>3, <2>4, <1>3
<1> QED
  BY <1>4, <1>5, <1>6, <1>7, OthersKept DEF IInv

LEMMA WriteWordKeeps == ASSUME IInv, NEW t \in Tasks, WriteWord(t) PROVE IInv'
<1> DEFINE w == word[t]
           o == obj[t]
<1>1. pc[t] = "write" /\ w # 0 /\ "write" \in PC /\ "free" \in PC /\ call[t].kind # "load"
  BY DEF WriteWord, IInv, TaskInv, PC
<1>2. /\ Advance(t, "write", "free")
      /\ mem' = [mem EXCEPT ![o][w] = NewValue(t)[w]]
      /\ UNCHANGED <<flag, obj, call, ret, calls>>
  BY DEF WriteWord
<1>3. /\ w \in WordIndex /\ word' \in [Tasks -> 0..Words] /\ pc' \in [Tasks -> PC]
      /\ word'[t] \in WordIndex
      /\ \A u \in Tasks \ {t} : pc'[u] = pc[u] /\ word'[u] = word[u]
      /\ \/ pc'[t] = "write" /\ \A i \in Done(t)' : i = w \/ i \in Done(t)
         \/ pc'[t] = "free" /\ Done(t)' = {}
  BY <1>1, <1>2, AdvanceMoves
<1>4. o \in Objects /\ mem[o] \in Value /\ NewValue(t) \in Value
  BY <1>1, Busy
<1>5. /\ mem' \in [Objects -> Value] /\ \A x \in Objects : x # o => mem'[x] = mem[x]
      /\ \A i \in WordIndex : mem'[o][i] = IF i = w THEN NewValue(t)[i] ELSE mem[o][i]
  <2>1. mem' = [mem EXCEPT ![o] = [mem[o] EXCEPT ![w] = NewValue(t)[w]]]
    BY <1>2
  <2>2. [mem[o] EXCEPT ![w] = NewValue(t)[w]] \in Value
    BY <1>3, <1>4 DEF Value
  <2> QED
    BY <2>1, <2>2, <1>4 DEF IInv, TypeOK, Value
<1>6. TypeOK'
  BY <1>2, <1>3, <1>5 DEF IInv, TypeOK
<1>7. FlagsAreLocks'
  BY <1>1, <1>2, <1>3, FlagsKept DEF Locked
<1>8. StepOnly(t)
  <2>1. \A u \in Tasks \ {t} : Locked(u) => obj[u] \in Objects /\ obj[u] # o
    BY <1>1, OneLocked, Busy DEF Locked
  <2> QED
    BY <2>1, <1>2, <1>3, <1>5 DEF StepOnly
<1>9. TaskInv(t)'
  <2>1. /\ TaskInv(t) /\ Locked(t) /\ Locked(t)' /\ obj' = obj /\ call' = call /\ NewValue(t)' = NewValue(t)
        /\ word'[t] # 0
    BY <1>1, <1>2, <1>3, WordsIsPositive DEF IInv, Locked, WordIndex, NewValue
  <2>2. CASE pc'[t] = "write" /\ \A i \in Done(t)' : i = w \/ i \in Done(t)
    <3>1. \A i \in Done(t)' : mem'[o][i] = NewValue(t)[i]
      BY <2>1, <2>2, <1>1, <1>5 DEF TaskInv, Done
    <3> QED
      BY <2>1, <2>2, <3>1, <1>1 DEF TaskInv
  <2>3. CASE pc'[t] = "free" /\ Done(t)' = {}
    BY <2>1, <2>3, <1>1 DEF TaskInv
  <2> QED
    BY <2>2, <2>3, <1>3
<1> QED
  BY <1>6, <1>7, <1>8, <1>9, OthersKept DEF IInv

(* The task that leaves was the only one to hold the flag.                 *)
LEMMA LeaveKeeps ==
  ASSUME IInv, NEW t \in Tasks, FreeLock(t) \/ Return(t) PROVE IInv'
<1>1. PICK from \in {"free", "return"} : Leave(t, from) /\ pc[t] = from
  BY DEF FreeLock, Return, Leave, Step
<1>2. /\ pc'[t] = "idle" /\ obj'[t] = Null /\ call'[t] = Null
      /\ mem' = mem /\ StepOnly(t)
  BY <1>1 DEF Leave, Step, StepOnly, IInv, TypeOK
<1>3. TypeOK'
  <2>1. flag' \in [0..(N_LOCKS - 1) -> BOOLEAN]
    BY DEF FreeLock, Return, IInv, TypeOK
  <2>2. 0 \in 0..Words /\ "idle" \in PC
    BY WordsIsPositive DEF PC
  <2> QED
    BY <1>1, <2>1, <2>2, ZeroIsValue DEF IInv, TypeOK, Leave, Step
<1>4. TaskInv(t)'
  BY <1>2 DEF TaskInv, Locked
<1>5. FlagsAreLocks'
  <2>1. ASSUME Return(t) PROVE FlagsAreLocks'
    <3>1. flag' = flag /\ pc[t] = "return"
      BY <2>1 DEF Return, Leave, Step
    <3> QED
      BY <3>1, <1>2, FlagsKept DEF Locked, StepOnly
  <2>2. ASSUME FreeLock(t) PROVE FlagsAreLocks'
    <3> DEFINE f == FlagOf[obj[t]]
    <3>1. flag' = [flag EXCEPT ![f] = FALSE] /\ Locked(t) /\ ~ Locked(t)' /\ f \in DOMAIN flag
      BY <2>2, <1>2, Busy DEF FreeLock, Locked, IInv, TypeOK
    <3>2. \A u \in Tasks \ {t} : (Locked(u)' <=> Locked(u)) /\ obj'[u] = obj[u]
      BY <1>2 DEF StepOnly, Locked
    <3>3. \A u \in Tasks \ {t} : Locked(u) => FlagOf[obj[u]] # f
      BY <3>1, OneLocked
    <3> HIDE DEF f
    <3>4. DOMAIN flag' = DOMAIN flag /\ ~ flag'[f] /\ \A g \in DOMAIN flag : g # f => flag'[g] = flag[g]
      BY <3>1
    <3>5. ASSUME NEW g \in DOMAIN flag
          PROVE  /\ flag'[g] <=> \E u \in Tasks : Locked(u)' /\ FlagOf[obj'[u]] = g
                 /\ \A u, x \in Tasks :
                      Locked(u)' /\ Locked(x)' /\ FlagOf[obj'[u]] = g /\ FlagOf[obj'[x]] = g => u = x
      <4>1. CASE g = f
        BY <4>1, <3>1, <3>2, <3>3, <3>4
      <4>2. CASE g # f
        <5>1. \A u \in Tasks : Locked(u)' /\ FlagOf[obj'[u]] = g <=> Locked(u) /\ FlagOf[obj[u]] = g
          BY <4>2, <3>1, <3>2 DEF f
        <5> QED
          BY <4>2, <5>1, <3>4 DEF IInv, FlagsAreLocks
      <4> QED
        BY <4>1, <4>2
    <3> QED
      BY <3>4, <3>5 DEF FlagsAreLocks
  <2> QED
    BY <2>1, <2>2
<1> QED
  BY <1>2, <1>3, <1>4, <1>5, OthersKept DEF IInv

LEMMA NextKeepsIInv == IInv /\ [Next]_vars => IInv'
<1> SUFFICES ASSUME IInv, [Next]_vars PROVE IInv'
  OBVIOUS
<1>1. CASE UNCHANGED vars
  BY <1>1 DEF vars, IInv, TypeOK, FlagsAreLocks, TaskInv, Locked, Done, NewValue
<1> QED
  BY <1>1, InvokeKeeps, LockFreeOperationKeeps, GetLockKeeps, ReadWordKeeps, CompareWordKeeps,
     WriteWordKeeps, LeaveKeeps DEF Next, Operation

(* The inductive invariant holds.                                          *)
THEOREM InductiveInvariant == Spec => []IInv
BY InitIInv, NextKeepsIInv, PTL DEF Spec

(* Every value stays one of the object's size, and every word index in it. *)
THEOREM TypesCorrect == Spec => []TypeOK
<1>1. IInv => TypeOK
  BY DEF IInv
<1> QED
  BY <1>1, InductiveInvariant, PTL

(* get_lock and free_lock make the flags locks: also objects that share a  *)
(* flag are never worked on by two tasks, and no flag is left set.         *)
THEOREM FlagsAreAlwaysLocks == Spec => []FlagsAreLocks
<1>1. IInv => FlagsAreLocks
  BY DEF IInv
<1> QED
  BY <1>1, InductiveInvariant, PTL

(***************************************************************************)
(* The refinement of AtomicContract.                                       *)
(***************************************************************************)

(* The register of an object is what the task that works on it makes of    *)
(* it, or else what is in the memory.                                      *)
Registers ==
  /\ \A t \in Tasks : Locked(t) => obj[t] \in Objects /\ Register[obj[t]] = Later(t)
  /\ \A o \in Objects : (\A t \in Tasks : Locked(t) => obj[t] # o) => Register[o] = mem[o]

LEMMA InvariantFixesRegisters == IInv => Registers
<1> SUFFICES ASSUME IInv PROVE Registers
  OBVIOUS
<1>1. ASSUME NEW t \in Tasks, Locked(t) PROVE obj[t] \in Objects /\ Register[obj[t]] = Later(t)
  <2>1. obj[t] \in Objects
    BY <1>1, Busy DEF Locked
  <2>2. \A u \in Tasks : Locked(u) /\ obj[u] = obj[t] => u = t
    BY <1>1, OneLocked
  <2>3. (CHOOSE u \in Tasks : Locked(u) /\ obj[u] = obj[t]) = t
    BY <1>1, <2>2
  <2> QED
    BY <1>1, <2>1, <2>3 DEF Register
<1>2. ASSUME NEW o \in Objects, \A t \in Tasks : Locked(t) => obj[t] # o PROVE Register[o] = mem[o]
  BY <1>2 DEF Register
<1> QED
  BY <1>1, <1>2 DEF Registers

(* A task that makes no step is not seen to make one.                      *)
LEMMA OthersNotSeen ==
  ASSUME IInv, NEW t \in Tasks, StepOnly(t)
  PROVE  \A u \in Tasks \ {t} : ToDo'[u] = ToDo[u] /\ Answered'[u] = Answered[u]
<1> SUFFICES ASSUME NEW u \in Tasks \ {t} PROVE ToDo'[u] = ToDo[u] /\ Answered'[u] = Answered[u]
  OBVIOUS
<1>1. /\ pc'[u] = pc[u] /\ obj'[u] = obj[u] /\ call'[u] = call[u] /\ ret'[u] = ret[u]
      /\ pc[u] \in {"read", "compare"} => mem'[obj[u]] = mem[obj[u]]
  BY DEF StepOnly, Locked
<1> QED
  BY <1>1 DEF ToDo, Answered

LEMMA TaskSeen ==
  ASSUME IInv, NEW t \in Tasks, StepOnly(t), NEW a, NEW b, ToDo'[t] = a, Answered'[t] = b
  PROVE  ToDo' = [ToDo EXCEPT ![t] = a] /\ Answered' = [Answered EXCEPT ![t] = b]
<1>1. \A u \in Tasks \ {t} : ToDo'[u] = ToDo[u] /\ Answered'[u] = Answered[u]
  BY OthersNotSeen
<1>2. ASSUME NEW f, NEW g, f = [u \in Tasks |-> f[u]], g = [u \in Tasks |-> g[u]], NEW x, g[t] = x,
             \A u \in Tasks \ {t} : g[u] = f[u]
      PROVE  g = [f EXCEPT ![t] = x]
  BY <1>2
<1>3. /\ ToDo = [u \in Tasks |-> ToDo[u]] /\ ToDo' = [u \in Tasks |-> ToDo'[u]]
      /\ Answered = [u \in Tasks |-> Answered[u]] /\ Answered' = [u \in Tasks |-> Answered'[u]]
  BY DEF ToDo, Answered
<1>4. ToDo' = [ToDo EXCEPT ![t] = a]
  BY <1>1, <1>2, <1>3
<1>5. Answered' = [Answered EXCEPT ![t] = b]
  BY <1>1, <1>2, <1>3
<1> QED
  BY <1>4, <1>5

(* Nor are the objects seen to change that it does not work on.            *)
LEMMA ObjectsNotSeen ==
  ASSUME IInv, IInv', NEW t \in Tasks, StepOnly(t), NEW o \in Objects, mem'[o] = mem[o],
         ~ (Locked(t) /\ obj[t] = o), ~ (Locked(t)' /\ obj'[t] = o)
  PROVE  Register'[o] = Register[o]
<1>1. Registers /\ Registers'
  BY InvariantFixesRegisters, PTL
<1>2. CASE \E u \in Tasks : Locked(u) /\ obj[u] = o
  <2>1. PICK u \in Tasks \ {t} : Locked(u) /\ obj[u] = o
    BY <1>2
  <2>2. /\ pc'[u] = pc[u] /\ obj'[u] = o /\ call'[u] = call[u] /\ ret'[u] = ret[u]
        /\ Locked(u)'
    BY <2>1 DEF StepOnly, Locked
  <2>3. Later(u)' = Later(u)
    BY <2>1, <2>2 DEF Later, NewValue
  <2> QED
    BY <1>1, <2>1, <2>2, <2>3 DEF Registers
<1>3. CASE \A u \in Tasks : Locked(u) => obj[u] # o
  <2>1. \A u \in Tasks : Locked(u)' => obj'[u] # o
    BY <1>3 DEF StepOnly, Locked
  <2> QED
    BY <1>1, <1>3, <2>1 DEF Registers
<1> QED
  BY <1>2, <1>3

LEMMA InitRefines == Init => Contract!Init
BY DEF Init, Contract!Init, Register, ToDo, Answered, Locked, Zero, Contract!Zero, WordIndex, Contract!WordIndex

LEMMA InvokeRefines ==
  ASSUME IInv, IInv', NEW t \in Tasks, NEW o \in Objects, NEW c \in Calls, Invoke(t, o, c)
  PROVE  Contract!Invoke(t, o, c)
<1>1. /\ pc[t] = "idle" /\ pc'[t] = "called" /\ obj'[t] = o /\ call'[t] = c
      /\ mem' = mem /\ StepOnly(t)
  BY DEF Invoke, Step, StepOnly, IInv, TypeOK
<1>2. ToDo[t] = Null /\ Answered[t] = Null
  BY <1>1 DEF ToDo, Answered
<1>3. ToDo'[t] = [obj |-> o, call |-> c] /\ Answered'[t] = Null
  BY <1>1 DEF ToDo, Answered
<1>4. \A x \in Objects : Register'[x] = Register[x]
  BY <1>1, ObjectsNotSeen DEF Locked
<1>5. Register' = Register
  BY <1>4 DEF Register
<1>6. ToDo' = [ToDo EXCEPT ![t] = [obj |-> o, call |-> c]] /\ Answered' = [Answered EXCEPT ![t] = Null]
  BY <1>1, <1>3, TaskSeen
<1>7. [Answered EXCEPT ![t] = Null] = Answered
  BY <1>2 DEF Answered
<1> QED
  BY <1>2, <1>5, <1>6, <1>7 DEF Contract!Invoke

(* Memory and contract mean the same by the effect of an operation.        *)
LEMMA SameEffect ==
  ASSUME NEW c \in AtomicCall, NEW a \in Value
  PROVE  Contract!Effect(c, a) = Effect(c, a) /\ Contract!Answer(c, a) = Answer(c, a)
BY DEF Contract!Effect, Effect, Contract!Answer, Answer, Contract!Combine, Combine, Contract!Plus, Plus,
       Contract!Minus, Minus, Contract!And, And, Contract!Or, Or, Contract!Xor, Xor, Contract!Not, Not,
       Contract!Carry, Carry, Contract!Zero, Zero, Contract!WordIndex, WordIndex

(* A step that is seen as the effect of the operation of t.                *)
LEMMA EffectSeen ==
  ASSUME IInv, IInv', NEW t \in Tasks, StepOnly(t), pc[t] = "called", ~ Locked(t),
         pc'[t] \in PC \ {"idle", "called"}, obj'[t] = obj[t],
         \A x \in Objects : x # obj[t] => mem'[x] = mem[x],
         Register[obj[t]] = mem[obj[t]],
         Register'[obj[t]] = Effect(call[t], mem[obj[t]]),
         Answered'[t] = Answer(call[t], mem[obj[t]])
  PROVE  Contract!TakeEffect(t)
<1> DEFINE o == obj[t]
           c == call[t]
<1>1. o \in Objects /\ c \in Calls /\ c \in AtomicCall /\ mem[o] \in Value
  BY Busy, CallsAreBounded
<1>2. ToDo[t] = [obj |-> o, call |-> c] /\ ToDo[t] # Null
  BY <1>1, NullIsNothing DEF ToDo
<1>3. ToDo'[t] = Null
  BY DEF ToDo
<1>4. ToDo' = [ToDo EXCEPT ![t] = Null] /\ Answered' = [Answered EXCEPT ![t] = Answer(c, mem[o])]
  BY <1>3, TaskSeen
<1>5. \A x \in Objects : x # o => Register'[x] = Register[x]
  BY ObjectsNotSeen
<1>6. Register' = [Register EXCEPT ![o] = Effect(c, mem[o])]
  <2>1. \A x \in Objects : Register'[x] = [Register EXCEPT ![o] = Effect(c, mem[o])][x]
    BY <1>1, <1>5 DEF Register
  <2>2. Register = [x \in Objects |-> Register[x]] /\ Register' = [x \in Objects |-> Register'[x]]
    BY DEF Register
  <2> HIDE DEF o, c
  <2>3. [Register EXCEPT ![o] = Effect(c, mem[o])]
          = [x \in Objects |-> [Register EXCEPT ![o] = Effect(c, mem[o])][x]]
    BY <2>2
  <2> QED
    BY <2>1, <2>2, <2>3
<1>7. /\ ToDo[t].obj = o /\ ToDo[t].call = c
      /\ Contract!Effect(c, Register[o]) = Effect(c, mem[o])
      /\ Contract!Answer(c, Register[o]) = Answer(c, mem[o])
  BY <1>1, <1>2, SameEffect
<1> HIDE DEF o, c
<1> QED
  BY <1>2, <1>4, <1>6, <1>7 DEF Contract!TakeEffect

LEMMA LockFreeOperationRefines ==
  ASSUME IInv, IInv', NEW t \in Tasks, LockFreeOperation(t)
  PROVE  Contract!TakeEffect(t)
<1>1. /\ pc[t] = "called" /\ pc'[t] = "return" /\ obj[t] \in LockFree /\ obj' = obj
      /\ mem' = [mem EXCEPT ![obj[t]] = Effect(call[t], mem[obj[t]])]
      /\ ret'[t] = Answer(call[t], mem[obj[t]])
  BY DEF LockFreeOperation, Step, IInv, TypeOK
<1>2. obj[t] \in Objects
  BY <1>1, Busy
<1>3. \A u \in Tasks : Locked(u) => obj[u] \in Objects /\ obj[u] # obj[t]
  BY <1>1, Busy DEF IInv, TaskInv, Locked
<1>4. /\ \A x \in Objects : x # obj[t] => mem'[x] = mem[x]
      /\ mem'[obj[t]] = Effect(call[t], mem[obj[t]])
  BY <1>1, <1>2 DEF IInv, TypeOK
<1>5. StepOnly(t)
  BY <1>3, <1>4 DEF StepOnly, LockFreeOperation, Step, IInv, TypeOK
<1>6. \A u \in Tasks : Locked(u)' => obj'[u] # obj[t]
  BY <1>1, <1>3, <1>5 DEF StepOnly, Locked
<1>7. Registers /\ Registers'
  BY InvariantFixesRegisters, PTL
<1>8. Register[obj[t]] = mem[obj[t]] /\ Register'[obj[t]] = Effect(call[t], mem[obj[t]])
  BY <1>2, <1>3, <1>4, <1>6, <1>7 DEF Registers
<1>9. Answered'[t] = Answer(call[t], mem[obj[t]])
  BY <1>1 DEF Answered
<1> QED
  BY <1>1, <1>4, <1>5, <1>8, <1>9, EffectSeen DEF Locked, PC

(* With the lock, the rest of the operation is decided.                    *)
LEMMA GetLockRefines ==
  ASSUME IInv, IInv', NEW t \in Tasks, GetLock(t) PROVE Contract!TakeEffect(t)
<1> DEFINE o == obj[t]
           c == call[t]
<1>1. /\ pc[t] = "called" /\ pc'[t] = FirstStep(c.kind)
      /\ obj' = obj /\ call' = call /\ ret' = ret /\ mem' = mem
      /\ ~ flag[FlagOf[o]] /\ StepOnly(t)
  BY DEF GetLock, Step, StepOnly, IInv, TypeOK
<1>2. /\ o \in Objects /\ FlagOf[o] \in DOMAIN flag /\ c.kind \in AtomicKinds
      /\ ret[t] = IF c.kind = "compare_exchange" THEN c.expect ELSE Zero
  BY <1>1, Busy DEF IInv, TypeOK, TaskInv
<1>3. \A u \in Tasks : Locked(u) => obj[u] # o
  BY <1>1, <1>2 DEF IInv, FlagsAreLocks
<1>4. Registers /\ Registers'
  BY InvariantFixesRegisters, PTL
<1>5. pc'[t] \in {"read", "compare", "write"} /\ Locked(t)' /\ ~ Locked(t)
  BY <1>1 DEF FirstStep, Locked
<1>6. Register[o] = mem[o] /\ Register'[o] = Later(t)'
  BY <1>1, <1>2, <1>3, <1>4, <1>5 DEF Registers
<1>7. Later(t)' = Effect(c, mem[o]) /\ Answered'[t] = Answer(c, mem[o])
  <2>1. CASE c.kind = "store"
    <3>1. pc'[t] = "write"
      BY <2>1, <1>1 DEF FirstStep
    <3>2. Later(t)' = c.val /\ Answered'[t] = Zero
      BY <2>1, <3>1, <1>1, <1>2 DEF Later, NewValue, Answered, FetchKinds
    <3> QED
      BY <2>1, <3>2 DEF Effect, Answer
  <2>2. CASE c.kind # "store"
    <3>1. pc'[t] \in {"read", "compare"}
      BY <2>2, <1>1 DEF FirstStep
    <3>2. Later(t)' = Effect(c, mem[o]) /\ Answered'[t] = mem[o]
      BY <3>1, <1>1 DEF Later, Answered
    <3> QED
      BY <2>2, <3>2 DEF Answer
  <2> QED
    BY <2>1, <2>2
<1> HIDE DEF o, c
<1>8. /\ Register[obj[t]] = mem[obj[t]] /\ Register'[obj[t]] = Effect(call[t], mem[obj[t]])
      /\ Answered'[t] = Answer(call[t], mem[obj[t]])
  BY <1>6, <1>7 DEF o, c
<1> QED
  BY <1>1, <1>5, <1>8, EffectSeen DEF PC

(* A step under the lock that is not seen.                                 *)
LEMMA StepNotSeen ==
  ASSUME IInv, IInv', NEW t \in Tasks, StepOnly(t), Locked(t), Locked(t)', obj'[t] = obj[t],
         \A x \in Objects : x # obj[t] => mem'[x] = mem[x],
         Later(t)' = Later(t), Answered'[t] = Answered[t]
  PROVE  UNCHANGED <<Register, ToDo, Answered>>
<1>1. Registers /\ Registers'
  BY InvariantFixesRegisters, PTL
<1>2. \A x \in Objects : Register'[x] = Register[x]
  <2>1. Register'[obj[t]] = Register[obj[t]]
    BY <1>1 DEF Registers
  <2>2. \A x \in Objects : x # obj[t] => Register'[x] = Register[x]
    BY ObjectsNotSeen
  <2> QED
    BY <2>1, <2>2
<1>3. Register' = Register
  BY <1>2 DEF Register
<1>4. ToDo[t] = Null /\ ToDo'[t] = Null
  BY DEF Locked, ToDo
<1>5. ToDo' = [ToDo EXCEPT ![t] = ToDo[t]] /\ Answered' = [Answered EXCEPT ![t] = Answered[t]]
  BY <1>4, TaskSeen
<1>6. [ToDo EXCEPT ![t] = ToDo[t]] = ToDo /\ [Answered EXCEPT ![t] = Answered[t]] = Answered
  BY DEF ToDo, Answered
<1> QED
  BY <1>3, <1>5, <1>6

(* When the last word is read, all of them are those of the object.        *)
LEMMA ReadWordNotSeen ==
  ASSUME IInv, IInv', NEW t \in Tasks, ReadWord(t)
  PROVE  UNCHANGED <<Register, ToDo, Answered>>
<1> DEFINE after == AfterRead(call[t].kind)
           w == word[t]
           o == obj[t]
<1>1. /\ pc[t] = "read" /\ w # 0 /\ after \in {"free", "write"} /\ after \in PC /\ "read" \in PC
      /\ TaskInv(t)
  BY DEF ReadWord, IInv, TaskInv, AfterRead, PC
<1>2. /\ Advance(t, "read", after)
      /\ ret' = [ret EXCEPT ![t][w] = mem[o][w]]
      /\ UNCHANGED <<mem, obj, call>>
  BY DEF ReadWord
<1>3. /\ w \in WordIndex
      /\ \A u \in Tasks \ {t} : pc'[u] = pc[u] /\ word'[u] = word[u]
      /\ \/ pc'[t] = "read"
         \/ pc'[t] = after /\ \A i \in WordIndex : i = w \/ i \in Done(t)
  BY <1>1, <1>2, AdvanceMoves
<1>4. /\ \A u \in Tasks \ {t} : ret'[u] = ret[u]
      /\ \A i \in WordIndex : ret'[t][i] = IF i = w THEN mem[o][i] ELSE ret[t][i]
  BY <1>1, <1>2, <1>3, Busy DEF IInv, TypeOK, Value
<1>5. StepOnly(t)
  BY <1>2, <1>3, <1>4 DEF StepOnly
<1>6. Later(t) = Effect(call[t], mem[o]) /\ Answered[t] = mem[o]
  BY <1>1 DEF Later, Answered
<1>7. CASE pc'[t] = "read"
  <2>1. Later(t)' = Later(t) /\ Answered'[t] = Answered[t] /\ Locked(t) /\ Locked(t)'
    BY <1>1, <1>2, <1>6, <1>7 DEF Later, Answered, Locked
  <2> QED
    BY <2>1, <1>2, <1>5, StepNotSeen
<1>8. CASE pc'[t] = after /\ \A i \in WordIndex : i = w \/ i \in Done(t)
  <2>1. ret'[t] = mem[o]
    <3>1. \A i \in WordIndex : ret'[t][i] = mem[o][i]
      BY <1>1, <1>4, <1>8 DEF TaskInv
    <3>2. ret'[t] \in Value /\ mem[o] \in Value
      BY <1>1, Busy DEF IInv, TypeOK
    <3> QED
      BY <3>1, <3>2, SameWords
  <2>2. Answered'[t] = Answered[t]
    BY <1>1, <1>6, <1>8, <2>1 DEF Answered
  <2>3. call[t].kind \in AtomicKinds /\ call[t].kind # "store"
    BY <1>1, Busy DEF TaskInv
  <2>4. Later(t)' = Later(t)
    <3>1. CASE after = "free"
      <4>1. Later(t)' = mem[o]
        BY <3>1, <1>2, <1>8 DEF Later
      <4>2. Effect(call[t], mem[o]) = mem[o]
        <5>1. \/ call[t].kind = "load"
              \/ call[t].kind = "compare_exchange" /\ mem[o] # call[t].expect
          BY <3>1, <1>1 DEF AfterRead, TaskInv
        <5> QED
          BY <5>1 DEF Effect
      <4> QED
        BY <4>1, <4>2, <1>6
    <3>2. CASE after = "write"
      <4>1. call[t].kind \in FetchKinds \cup {"exchange"}
        BY <3>2, <2>3 DEF AfterRead, AtomicKinds
      <4>2. Later(t)' = IF call[t].kind \in FetchKinds THEN Combine(call[t].kind, mem[o], call[t].val)
                                                     ELSE call[t].val
        BY <3>2, <1>2, <1>8, <2>1 DEF Later, NewValue
      <4>3. Effect(call[t], mem[o]) =
              IF call[t].kind \in FetchKinds THEN Combine(call[t].kind, mem[o], call[t].val)
                                             ELSE call[t].val
        BY <4>1 DEF Effect, FetchKinds
      <4> QED
        BY <4>2, <4>3, <1>6
    <3> QED
      BY <3>1, <3>2, <1>1
  <2>5. Locked(t) /\ Locked(t)'
    BY <1>1, <1>8 DEF Locked
  <2> QED
    BY <2>2, <2>4, <2>5, <1>2, <1>5, StepNotSeen
<1> QED
  BY <1>3, <1>7, <1>8

LEMMA CompareWordNotSeen ==
  ASSUME IInv, IInv', NEW t \in Tasks, CompareWord(t)
  PROVE  UNCHANGED <<Register, ToDo, Answered>>
<1> DEFINE w == word[t]
           o == obj[t]
<1>1. /\ pc[t] = "compare" /\ w # 0 /\ {"compare", "read", "write"} \subseteq PC
      /\ call[t].kind = "compare_exchange" /\ ret[t] = call[t].expect /\ TaskInv(t)
  BY DEF CompareWord, IInv, TaskInv, PC
<1>2. UNCHANGED <<mem, obj, call, ret>>
  BY DEF CompareWord
<1>3. /\ \A u \in Tasks \ {t} : pc'[u] = pc[u] /\ word'[u] = word[u]
      /\ \/ pc'[t] \in {"compare", "read"}
         \/ /\ pc'[t] = "write" /\ mem[o][w] = call[t].expect[w]
            /\ \A i \in WordIndex : i = w \/ i \in Done(t)
  <2>1. CASE mem[o][w] = call[t].expect[w]
    <3>1. Advance(t, "compare", "write")
      BY <2>1 DEF CompareWord
    <3> QED
      BY <2>1, <3>1, <1>1, AdvanceMoves
  <2>2. CASE mem[o][w] # call[t].expect[w]
    BY <2>2, <1>1 DEF CompareWord, Step, IInv, TypeOK
  <2> QED
    BY <2>1, <2>2
<1>4. StepOnly(t)
  BY <1>2, <1>3 DEF StepOnly
<1>5. Later(t) = Effect(call[t], mem[o]) /\ Answered[t] = mem[o]
  BY <1>1 DEF Later, Answered
<1>6. Locked(t) /\ Locked(t)'
  BY <1>1, <1>3 DEF Locked
<1>7. Later(t)' = Later(t) /\ Answered'[t] = Answered[t]
  <2>1. CASE pc'[t] \in {"compare", "read"}
    BY <2>1, <1>2, <1>5 DEF Later, Answered
  <2>2. CASE /\ pc'[t] = "write" /\ mem[o][w] = call[t].expect[w]
             /\ \A i \in WordIndex : i = w \/ i \in Done(t)
    <3>1. mem[o] = call[t].expect
      <4>1. \A i \in WordIndex : mem[o][i] = call[t].expect[i]
        BY <2>2, <1>1 DEF TaskInv
      <4>2. mem[o] \in Value /\ call[t].expect \in Value
        BY <1>1, Busy
      <4> QED
        BY <4>1, <4>2, SameWords
    <3>2. Later(t)' = call[t].val /\ Answered'[t] = call[t].expect
      BY <2>2, <1>1, <1>2 DEF Later, Answered, NewValue, FetchKinds
    <3>3. Effect(call[t], mem[o]) = call[t].val
      BY <3>1, <1>1 DEF Effect
    <3> QED
      BY <3>1, <3>2, <3>3, <1>5
  <2> QED
    BY <2>1, <2>2, <1>3
<1> QED
  BY <1>2, <1>4, <1>6, <1>7, StepNotSeen

(* When the last word is written, all of them are those of the new value.  *)
LEMMA WriteWordNotSeen ==
  ASSUME IInv, IInv', NEW t \in Tasks, WriteWord(t)
  PROVE  UNCHANGED <<Register, ToDo, Answered>>
<1> DEFINE w == word[t]
           o == obj[t]
<1>1. /\ pc[t] = "write" /\ w # 0 /\ "write" \in PC /\ "free" \in PC /\ TaskInv(t)
  BY DEF WriteWord, IInv, TaskInv, PC
<1>2. /\ Advance(t, "write", "free")
      /\ mem' = [mem EXCEPT ![o][w] = NewValue(t)[w]]
      /\ UNCHANGED <<obj, call, ret>>
  BY DEF WriteWord
<1>3. /\ w \in WordIndex
      /\ \A u \in Tasks \ {t} : pc'[u] = pc[u] /\ word'[u] = word[u]
      /\ \/ pc'[t] = "write"
         \/ pc'[t] = "free" /\ \A i \in WordIndex : i = w \/ i \in Done(t)
  BY <1>1, <1>2, AdvanceMoves
<1>4. o \in Objects /\ mem[o] \in Value /\ NewValue(t) \in Value
  BY <1>1, Busy
<1>5. /\ \A x \in Objects : x # o => mem'[x] = mem[x]
      /\ \A i \in WordIndex : mem'[o][i] = IF i = w THEN NewValue(t)[i] ELSE mem[o][i]
  BY <1>2, <1>3, <1>4 DEF IInv, TypeOK, Value
<1>6. StepOnly(t)
  <2>1. \A u \in Tasks \ {t} : Locked(u) => obj[u] \in Objects /\ obj[u] # o
    BY <1>1, OneLocked, Busy DEF Locked
  <2> QED
    BY <2>1, <1>2, <1>3, <1>5 DEF StepOnly
<1>7. Locked(t) /\ Locked(t)' /\ Answered'[t] = Answered[t]
  BY <1>1, <1>2, <1>3 DEF Locked, Answered
<1>8. Later(t)' = Later(t)
  <2>1. CASE pc'[t] = "write"
    BY <2>1, <1>1, <1>2 DEF Later, NewValue
  <2>2. CASE pc'[t] = "free" /\ \A i \in WordIndex : i = w \/ i \in Done(t)
    <3>1. mem'[o] = NewValue(t)
      <4>1. \A i \in WordIndex : mem'[o][i] = NewValue(t)[i]
        BY <2>2, <1>1, <1>5 DEF TaskInv
      <4>2. mem'[o] \in Value
        BY <1>4 DEF IInv, TypeOK
      <4> QED
        BY <4>1, <4>2, <1>4, SameWords
    <3> QED
      BY <2>2, <3>1, <1>1, <1>2 DEF Later
  <2> QED
    BY <2>1, <2>2, <1>3
<1> QED
  BY <1>2, <1>5, <1>6, <1>7, <1>8, StepNotSeen

(* A return: what it returns was the object's value at the effect.         *)
LEMMA LeaveRefines ==
  ASSUME IInv, IInv', NEW t \in Tasks, FreeLock(t) \/ Return(t)
  PROVE  Contract!Respond(t)
<1>1. PICK from \in {"free", "return"} : Leave(t, from) /\ pc[t] = from
  BY DEF FreeLock, Return, Leave, Step
<1>2. /\ pc'[t] = "idle" /\ obj'[t] = Null /\ mem' = mem /\ StepOnly(t)
  BY <1>1 DEF Leave, Step, StepOnly, IInv, TypeOK
<1>3. obj[t] \in Objects /\ ret[t] \in Value
  BY <1>1, Busy
<1>4. Answered[t] # Null /\ Answered'[t] = Null /\ ToDo[t] = Null /\ ToDo'[t] = Null
  BY <1>1, <1>2, <1>3, NullIsNothing DEF Answered, ToDo
<1>5. ToDo' = [ToDo EXCEPT ![t] = Null] /\ Answered' = [Answered EXCEPT ![t] = Null]
  BY <1>2, <1>4, TaskSeen
<1>6. [ToDo EXCEPT ![t] = Null] = ToDo
  BY <1>4 DEF ToDo
<1>7. \A x \in Objects : Register'[x] = Register[x]
  <2>1. ASSUME NEW x \in Objects, ~ (Locked(t) /\ obj[t] = x) PROVE Register'[x] = Register[x]
    BY <2>1, <1>2, ObjectsNotSeen DEF Locked
  <2>2. ASSUME Locked(t) PROVE Register'[obj[t]] = Register[obj[t]]
    <3>1. Registers /\ Registers'
      BY InvariantFixesRegisters, PTL
    <3>2. \A u \in Tasks : Locked(u)' => obj'[u] # obj[t]
      <4>1. \A u \in Tasks \ {t} : Locked(u) => obj[u] # obj[t]
        BY <2>2, OneLocked
      <4> QED
        BY <4>1, <1>2 DEF StepOnly, Locked
    <3>3. Later(t) = mem[obj[t]]
      BY <2>2, <1>1 DEF Later
    <3> QED
      BY <2>2, <3>1, <3>2, <3>3, <1>2, <1>3 DEF Registers
  <2> QED
    BY <2>1, <2>2
<1>8. Register' = Register
  BY <1>7 DEF Register
<1> QED
  BY <1>4, <1>5, <1>6, <1>8 DEF Contract!Respond

LEMMA NextRefines ==
  ASSUME IInv, IInv', [Next]_vars PROVE [Contract!Next]_(Contract!avars)
<1>1. CASE UNCHANGED vars
  BY <1>1 DEF vars, Contract!avars, Register, ToDo, Answered, Locked, Later, NewValue
<1>2. ASSUME NEW t \in Tasks, NEW o \in Objects, NEW c \in Calls, Invoke(t, o, c) PROVE Contract!Next
  BY <1>2, InvokeRefines DEF Contract!Next
<1>3. ASSUME NEW t \in Tasks, LockFreeOperation(t) \/ GetLock(t) PROVE Contract!Next
  BY <1>3, LockFreeOperationRefines, GetLockRefines DEF Contract!Next
<1>4. ASSUME NEW t \in Tasks, FreeLock(t) \/ Return(t) PROVE Contract!Next
  BY <1>4, LeaveRefines DEF Contract!Next
<1>5. ASSUME NEW t \in Tasks, ReadWord(t) \/ CompareWord(t) \/ WriteWord(t)
      PROVE  UNCHANGED Contract!avars
  BY <1>5, ReadWordNotSeen, CompareWordNotSeen, WriteWordNotSeen DEF Contract!avars
<1> QED
  BY <1>1, <1>2, <1>3, <1>4, <1>5 DEF Next, Operation

(* Linearizability, for every program: under the flags, read and written   *)
(* word by word, the objects behave as atomic ones.                        *)
THEOREM OperationsImplementContract == Spec => ImplementsContract
<1>1. IInv /\ IInv' /\ [Next]_vars => [Contract!Next]_(Contract!avars)
  BY NextRefines
<1> QED
  BY InitRefines, InductiveInvariant, <1>1, PTL DEF Spec, ImplementsContract, Contract!Spec
=============================================================================
