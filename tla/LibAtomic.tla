------------------------------ MODULE LibAtomic ------------------------------
(***************************************************************************)
(* The atomic operations on objects too large for the instruction set      *)
(* (libstdc++_gcc/v13/libatomic.c): sixteen flags, one of which an address *)
(* maps to, are spin locks around reads and writes of one word at a time.  *)
(* Operations on objects the target handles itself take no lock.           *)
(*                                                                         *)
(* The tasks of the kernel preempt each other at any instruction; one that *)
(* spins keeps all tasks of a lower priority from running.                 *)
(***************************************************************************)
EXTENDS AtomicValues

CONSTANTS
  Tasks,
  Objects,
  Address,   (* object -> its address                                      *)
  LockFree,  (* objects of a size that is __atomic_always_lock_free        *)
  Prio,      (* task -> its priority                                       *)
  Calls,     (* the operations that the program uses                       *)
  Null,
  MaxCalls   (* bound: operations that a task calls                        *)

ASSUME AddressesAreNatural == Address \in [Objects -> Nat] /\ LockFree \subseteq Objects
ASSUME PrioritiesAreNatural == Prio \in [Tasks -> Nat]
ASSUME NullIsNothing ==
  Null \notin Tasks \cup Objects \cup Value \cup AtomicCall \cup [obj : Objects, call : AtomicCall]
ASSUME CallsAreBounded == Calls \subseteq AtomicCall /\ MaxCalls \in Nat

VARIABLES
  flag,   (* flag_table                                                    *)
  mem,    (* object -> its words                                           *)
  pc,     (* task -> where it is                                           *)
  obj,    (* task -> the object of its operation, or Null                  *)
  call,   (* task -> its operation, or Null                                *)
  ret,    (* task -> *ret, or *expect                                      *)
  word,   (* task -> the next word that it reads, compares or writes       *)
  calls   (* task -> how many operations it still calls                    *)

vars == <<flag, mem, pc, obj, call, ret, word, calls>>

N_LOCKS == 16
PC == {"idle", "called", "read", "compare", "write", "free", "return"}

(* Only the low bits of the sum are used; bits of the address from 2^30 up *)
(* do not reach them.                                                      *)
Bits30 == 1073741824

Shl(p, n) == (p % 2^(30 - n)) * 2^n

FlagForAddress(a) ==
  LET p0 == a % Bits30
      p1 == (((p0 + (p0 \div 2^2)) % Bits30) + Shl(p0, 4)) % Bits30
      p2 == (((p1 + (p1 \div 2^7)) % Bits30) + Shl(p1, 5)) % Bits30
      p3 == (((p2 + (p2 \div 2^17)) % Bits30) + Shl(p2, 13)) % Bits30
  IN  p3 % N_LOCKS

FlagOf == [o \in Objects |-> FlagForAddress(Address[o])]

Init ==
  /\ flag = [f \in 0..(N_LOCKS - 1) |-> FALSE]
  /\ mem = [o \in Objects |-> Zero]
  /\ pc = [t \in Tasks |-> "idle"]
  /\ obj = [t \in Tasks |-> Null]
  /\ call = [t \in Tasks |-> Null]
  /\ ret = [t \in Tasks |-> Zero]
  /\ word = [t \in Tasks |-> 0]
  /\ calls = [t \in Tasks |-> MaxCalls]

(* The kernel runs no task while one of a higher priority can run.         *)
Scheduled(t) == \A u \in Tasks : pc[u] # "idle" => Prio[u] <= Prio[t]

Step(t, from, to) == Scheduled(t) /\ pc[t] = from /\ pc' = [pc EXCEPT ![t] = to]

Invoke(t, o, c) ==
  /\ Step(t, "idle", "called")
  /\ calls[t] > 0
  /\ obj' = [obj EXCEPT ![t] = o]
  /\ call' = [call EXCEPT ![t] = c]
  /\ calls' = [calls EXCEPT ![t] = @ - 1]
  /\ ret' = [ret EXCEPT ![t] = IF c.kind = "compare_exchange" THEN c.expect ELSE Zero]
  /\ UNCHANGED <<flag, mem, word>>

(* The instructions of the target.                                         *)
LockFreeOperation(t) ==
  LET o == obj[t]
  IN  /\ Step(t, "called", "return")
      /\ o \in LockFree
      /\ mem' = [mem EXCEPT ![o] = Effect(call[t], @)]
      /\ ret' = [ret EXCEPT ![t] = Answer(call[t], mem[o])]
      /\ UNCHANGED <<flag, obj, call, word, calls>>

(* What each operation does first under the lock.                          *)
FirstStep(kind) ==
  CASE kind = "store" -> "write"
    [] kind = "compare_exchange" -> "compare"
    [] OTHER -> "read"

(* Mutant: the flag is tested, then set.                                   *)
GetLockIgnoresFlag(t) ==
  /\ pc[t] = "called" /\ obj[t] \notin LockFree
  /\ Step(t, "called", FirstStep(call[t].kind))
  /\ flag' = [flag EXCEPT ![FlagOf[obj[t]]] = TRUE]
  /\ word' = [word EXCEPT ![t] = 1]
  /\ UNCHANGED <<mem, obj, call, ret, calls>>

(* get_lock: the test_and_set that finds the flag clear.  One that finds   *)
(* it set changes nothing and is tried again.                              *)
GetLock(t) ==
  /\ pc[t] = "called" /\ obj[t] \notin LockFree
  /\ Step(t, "called", FirstStep(call[t].kind))
  /\ ~flag[FlagOf[obj[t]]]
  /\ flag' = [flag EXCEPT ![FlagOf[obj[t]]] = TRUE]
  /\ word' = [word EXCEPT ![t] = 1]
  /\ UNCHANGED <<mem, obj, call, ret, calls>>

(* One word more, or on to the next part of the operation.                 *)
Advance(t, from, to) ==
  /\ Step(t, from, IF word[t] = Words THEN to ELSE from)
  /\ word' = [word EXCEPT ![t] = IF @ = Words THEN 1 ELSE @ + 1]

AfterRead(kind) == IF kind \in {"load", "compare_exchange"} THEN "free" ELSE "write"

(* ret = *mem; or, when the comparison has failed, *expect = *mem           *)
ReadWord(t) ==
  /\ pc[t] = "read"
  /\ Advance(t, "read", AfterRead(call[t].kind))
  /\ ret' = [ret EXCEPT ![t][word[t]] = mem[obj[t]][word[t]]]
  /\ UNCHANGED <<flag, mem, obj, call, calls>>

(* memcmp(mem, expect) == 0                                                *)
CompareWord(t) ==
  /\ pc[t] = "compare"
  /\ IF mem[obj[t]][word[t]] = call[t].expect[word[t]]
       THEN Advance(t, "compare", "write")
       ELSE Step(t, "compare", "read") /\ word' = [word EXCEPT ![t] = 1]
  /\ UNCHANGED <<flag, mem, obj, call, ret, calls>>

(* What is written: the argument, or the argument combined with what was   *)
(* read.                                                                   *)
NewValue(t) ==
  IF call[t].kind \in FetchKinds THEN Combine(call[t].kind, ret[t], call[t].val)
                                 ELSE call[t].val

(* Mutant: the lock is freed before the last word is written.              *)
WriteWordEarlyFree(t) ==
  /\ pc[t] = "write"
  /\ Advance(t, "write", "free")
  /\ mem' = [mem EXCEPT ![obj[t]][word[t]] = NewValue(t)[word[t]]]
  /\ flag' = [flag EXCEPT ![FlagOf[obj[t]]] = FALSE]
  /\ UNCHANGED <<obj, call, ret, calls>>

WriteWord(t) ==
  /\ pc[t] = "write"
  /\ Advance(t, "write", "free")
  /\ mem' = [mem EXCEPT ![obj[t]][word[t]] = NewValue(t)[word[t]]]
  /\ UNCHANGED <<flag, obj, call, ret, calls>>

Leave(t, from) ==
  /\ Step(t, from, "idle")
  /\ obj' = [obj EXCEPT ![t] = Null]
  /\ call' = [call EXCEPT ![t] = Null]
  /\ ret' = [ret EXCEPT ![t] = Zero]
  /\ word' = [word EXCEPT ![t] = 0]
  /\ UNCHANGED <<mem, calls>>

(* Mutant: a return that skips free_lock.                                  *)
FreeLockForgotten(t) == Leave(t, "free") /\ UNCHANGED flag

(* free_lock, and the return                                               *)
FreeLock(t) ==
  /\ pc[t] = "free"
  /\ flag' = [flag EXCEPT ![FlagOf[obj[t]]] = FALSE]
  /\ Leave(t, "free")

Return(t) == Leave(t, "return") /\ UNCHANGED flag

(***************************************************************************)
(* The specification.                                                      *)
(***************************************************************************)
Operation(t) ==
  \/ LockFreeOperation(t) \/ GetLock(t)
  \/ ReadWord(t) \/ CompareWord(t) \/ WriteWord(t)
  \/ FreeLock(t) \/ Return(t)

Next ==
  \E t \in Tasks :
    \/ \E o \in Objects, c \in Calls : Invoke(t, o, c)
    \/ Operation(t)

Spec == Init /\ [][Next]_vars

(* A task that the kernel schedules executes its next instruction; those   *)
(* of one priority share the processor.  The bounded calls of the others   *)
(* let a task that spins find the flag clear.                              *)
FairSpec == Spec /\ \A t \in Tasks : WF_vars(Operation(t))

(***************************************************************************)
(* Properties.                                                             *)
(***************************************************************************)
TypeOK ==
  /\ flag \in [0..(N_LOCKS - 1) -> BOOLEAN]
  /\ mem \in [Objects -> Value]
  /\ pc \in [Tasks -> PC]
  /\ obj \in [Tasks -> Objects \cup {Null}]
  /\ call \in [Tasks -> Calls \cup {Null}]
  /\ ret \in [Tasks -> Value]
  /\ word \in [Tasks -> 0..Words]
  /\ calls \in [Tasks -> 0..MaxCalls]

Locked(t) == pc[t] \in {"read", "compare", "write", "free"}

(* A flag is set exactly while one task is between get_lock and free_lock  *)
(* on an object that maps to it, also when objects share the flag: the     *)
(* locks neither let two tasks in nor stay behind (libatomic.c:154-174).   *)
FlagsAreLocks ==
  \A f \in DOMAIN flag :
    /\ flag[f] <=> \E t \in Tasks : Locked(t) /\ FlagOf[obj[t]] = f
    /\ \A t, u \in Tasks :
         Locked(t) /\ Locked(u) /\ FlagOf[obj[t]] = f /\ FlagOf[obj[u]] = f => t = u

(* The registers of the contract: an operation takes effect when it gets   *)
(* the lock, so an object that is being worked on has its later value.     *)
Later(t) ==
  CASE pc[t] = "write" -> NewValue(t)
    [] pc[t] \in {"read", "compare"} -> Effect(call[t], mem[obj[t]])
    [] OTHER -> mem[obj[t]]

Register ==
  [o \in Objects |->
     IF \E t \in Tasks : Locked(t) /\ obj[t] = o
       THEN Later(CHOOSE t \in Tasks : Locked(t) /\ obj[t] = o)
       ELSE mem[o]]

ToDo ==
  [t \in Tasks |-> IF pc[t] = "called" THEN [obj |-> obj[t], call |-> call[t]] ELSE Null]

Answered ==
  [t \in Tasks |->
     CASE pc[t] \in {"idle", "called"} -> Null
       [] pc[t] \in {"read", "compare"} -> mem[obj[t]]
       [] OTHER -> ret[t]]

Contract == INSTANCE AtomicContract WITH reg <- Register, todo <- ToDo, answer <- Answered

(* Linearizability: read and written word by word, under locks that        *)
(* several objects share, the objects behave as atomic ones: no operation  *)
(* sees or leaves half of another.                                         *)
ImplementsContract == Contract!Spec

(* Every operation returns, unless a task spins for a flag that a task of  *)
(* lower priority holds, which then never runs again.                      *)
Inverted ==
  \E t, u \in Tasks :
    /\ pc[t] = "called" /\ obj[t] \notin LockFree
    /\ Locked(u) /\ FlagOf[obj[u]] = FlagOf[obj[t]] /\ Prio[u] < Prio[t]

OperationsReturn == \A t \in Tasks : pc[t] # "idle" ~> pc[t] = "idle" \/ Inverted
=============================================================================
