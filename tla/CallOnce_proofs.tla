-------------------------- MODULE CallOnce_proofs --------------------------
(***************************************************************************)
(* Proofs about CallOnce, for any number of tasks and flags and any nesting *)
(* of callables: its invariants, and that it implements OnceContract.      *)
(***************************************************************************)
EXTENDS CallOnce, TLAPS

(***************************************************************************)
(* The inductive invariant.  One part for each of the two mutexes, the two *)
(* globals, the flag and the nesting.                                      *)
(***************************************************************************)

(* From the lock on to where the proxy unlocks, a frame owns the global    *)
(* mutex; one that found its flag set owns it until it leaves.             *)
Owning == {"prepare", "take", "swap", "proxy", "unlock"}
GlobalInv ==
  /\ \A c \in Frames :
       /\ owns[c] => global = c[1] /\ pc[c] \in Owning \cup {"give", "leave"}
       /\ pc[c] \in Owning => owns[c]
  /\ \A c, d \in Frames : owns[c] /\ owns[d] => c = d
  /\ global # Null => \E c \in Frames : owns[c]

(* The globals are those of the owner, and only of an owner.               *)
GlobalsInv ==
  /\ \A c \in Frames : lockPtr = c <=> owns[c] /\ pc[c] # "prepare"
  /\ \A c \in Frames : pc[c] \in {"take", "swap", "proxy"} => functor = c
  /\ \A c \in Frames : pc[c] \in {"unlock", "call", "running", "nested"} => callable[c] = c

(* The mutex of a flag is held from Take to Give.                          *)
Holding == {"swap", "proxy", "unlock", "call", "running", "nested", "give"}
OnceInv ==
  \A t \in Tasks, f \in Flags : m[f] = t <=> pc[<<t, f>>] \in Holding

(* Between the exchange of the flag and the call one task is on its way to *)
(* run the callable, and no callable has been run.                         *)
Coming == {"proxy", "unlock", "call"}
FlagInv ==
  \A f \in Flags :
    /\ runs[f] = IF v[f] /\ \A t \in Tasks : pc[<<t, f>>] \notin Coming THEN 1 ELSE 0
    /\ \A t \in Tasks :
         /\ pc[<<t, f>>] \in Coming \cup {"running", "nested", "give", "leave"} => v[f]
         /\ pc[<<t, f>>] = "leave" =>
              \A u \in Tasks : pc[<<u, f>>] \notin Coming \cup {"running", "nested"}

(* The frames of a task: all but one wait for the next inner one.          *)
Active(t, f) == pc[<<t, f>>] # "idle"
Waits(t, f) == pc[<<t, f>>] = "nested" /\ Inner[f] # Null /\ Active(t, Inner[f])
NestingInv ==
  \A t \in Tasks : \A f, g \in Flags :
    /\ pc[<<t, f>>] = "nested" => Inner[f] # Null
    /\ f # g /\ Active(t, f) /\ Active(t, g) =>
         /\ Waits(t, f) \/ Waits(t, g)
         /\ Waits(t, f) /\ Waits(t, g) => Inner[f] # Inner[g]

IInv == TypeOK /\ GlobalInv /\ GlobalsInv /\ OnceInv /\ FlagInv /\ NestingInv

(***************************************************************************)
(* The initial states.                                                     *)
(***************************************************************************)
LEMMA InitIInv == Init => IInv
<1> SUFFICES ASSUME Init PROVE IInv
  OBVIOUS
<1> USE DEF Init
<1>1. TypeOK
  BY CallsAreBounded DEF TypeOK, PC
<1>2. GlobalInv
  BY DEF GlobalInv, Owning
<1>3. GlobalsInv
  BY NullIsNoFrame DEF GlobalsInv
<1>4. OnceInv
  BY NullIsNoFrame DEF OnceInv, Holding, Frames
<1>5. FlagInv
  BY DEF FlagInv, Coming, Frames
<1>6. NestingInv
  BY DEF NestingInv, Active, Waits, Frames
<1> QED
  BY <1>1, <1>2, <1>3, <1>4, <1>5, <1>6 DEF IInv

(***************************************************************************)
(* What a step of one frame leaves alone.                                  *)
(***************************************************************************)
LEMMA StepOf ==
  ASSUME TypeOK, NEW t \in Tasks, NEW f \in Flags, NEW from, NEW to \in PC,
         Step(t, f, from, to)
  PROVE  /\ <<t, f>> \in Frames
         /\ pc[<<t, f>>] = from /\ pc'[<<t, f>>] = to
         /\ pc' \in [Frames -> PC]
         /\ \A c \in Frames : c # <<t, f>> => pc'[c] = pc[c]
         /\ \A u \in Tasks, g \in Flags : u # t \/ g # f => pc'[<<u, g>>] = pc[<<u, g>>]
BY DEF TypeOK, Step, Frames

(* m is kept, and nobody starts or stops to hold a mutex.                  *)
LEMMA OnceKept ==
  ASSUME OnceInv, m' = m,
         \A u \in Tasks, g \in Flags : pc'[<<u, g>>] \in Holding <=> pc[<<u, g>>] \in Holding
  PROVE  OnceInv'
BY DEF OnceInv

(* The flags are kept, and nobody starts to come or to run.                *)
LEMMA FlagKept ==
  ASSUME FlagInv, v' = v, runs' = runs,
         \A u \in Tasks, g \in Flags :
           /\ pc'[<<u, g>>] \in Coming <=> pc[<<u, g>>] \in Coming
           /\ pc'[<<u, g>>] \in {"running", "nested"} => pc[<<u, g>>] \in {"running", "nested"}
           /\ pc'[<<u, g>>] = "give" => pc[<<u, g>>] = "give"
           /\ pc'[<<u, g>>] = "leave" => pc[<<u, g>>] = "leave"
  PROVE  FlagInv'
<1> SUFFICES ASSUME NEW g \in Flags
             PROVE  /\ runs[g] = IF v[g] /\ \A t \in Tasks : pc'[<<t, g>>] \notin Coming THEN 1 ELSE 0
                    /\ \A t \in Tasks :
                         /\ pc'[<<t, g>>] \in Coming \cup {"running", "nested", "give", "leave"} => v[g]
                         /\ pc'[<<t, g>>] = "leave" =>
                              \A u \in Tasks : pc'[<<u, g>>] \notin Coming \cup {"running", "nested"}
  BY DEF FlagInv
<1>1. runs[g] = IF v[g] /\ \A t \in Tasks : pc'[<<t, g>>] \notin Coming THEN 1 ELSE 0
  BY DEF FlagInv
<1>2. ASSUME NEW t \in Tasks
      PROVE  pc'[<<t, g>>] \in Coming \cup {"running", "nested", "give", "leave"} => v[g]
  BY DEF FlagInv
<1>3. ASSUME NEW t \in Tasks, pc'[<<t, g>>] = "leave", NEW u \in Tasks
      PROVE  pc'[<<u, g>>] \notin Coming \cup {"running", "nested"}
  BY <1>3 DEF FlagInv
<1> QED
  BY <1>1, <1>2, <1>3

(* No frame is entered, left, nested or taken up again.                    *)
LEMMA NestingKept ==
  ASSUME NestingInv,
         \A u \in Tasks, g \in Flags :
           /\ pc'[<<u, g>>] = "idle" <=> pc[<<u, g>>] = "idle"
           /\ pc'[<<u, g>>] = "nested" <=> pc[<<u, g>>] = "nested"
  PROVE  NestingInv'
<1>1. \A u \in Tasks, g \in Flags : Active(u, g)' <=> Active(u, g)
  BY DEF Active
<1>2. \A u \in Tasks, g \in Flags : Waits(u, g)' <=> Waits(u, g)
  BY InnerFlags DEF Active, Waits
<1> QED
  BY <1>1, <1>2 DEF NestingInv

(* A call begins.                                                          *)
LEMMA EnterKeeps == ASSUME NEW t \in Tasks, NEW f \in Flags, IInv, Enter(t, f) PROVE IInv'
<1>1. /\ <<t, f>> \in Frames
      /\ pc[<<t, f>>] = "idle" /\ pc'[<<t, f>>] = "lock"
      /\ pc' \in [Frames -> PC]
      /\ \A c \in Frames : c # <<t, f>> => pc'[c] = pc[c]
      /\ \A u \in Tasks, g \in Flags : u # t \/ g # f => pc'[<<u, g>>] = pc[<<u, g>>]
  BY StepOf DEF IInv, Enter, PC
<1>2. TypeOK'
  BY <1>1, NullIsNoFrame, CallsAreBounded DEF IInv, TypeOK, Enter, globals, once
<1>3. GlobalInv'
  BY <1>1, NullIsNoFrame DEF IInv, TypeOK, GlobalInv, GlobalsInv, Owning, Frames, Enter, globals, once
<1>4. GlobalsInv'
  BY <1>1, NullIsNoFrame DEF IInv, TypeOK, GlobalInv, GlobalsInv, Owning, Enter, globals, once
<1>5. OnceInv'
  BY <1>1, OnceKept DEF IInv, Holding, Enter, once
<1>6. FlagInv'
  BY <1>1, FlagKept DEF IInv, Coming, Enter, once
<1>7. NestingInv'
  <2> SUFFICES ASSUME NEW u \in Tasks, NEW g \in Flags, NEW h \in Flags
               PROVE  /\ pc'[<<u, g>>] = "nested" => Inner[g] # Null
                      /\ g # h /\ Active(u, g)' /\ Active(u, h)' =>
                           /\ Waits(u, g)' \/ Waits(u, h)'
                           /\ Waits(u, g)' /\ Waits(u, h)' => Inner[g] # Inner[h]
    BY DEF NestingInv
  <2>1. CASE u = t
    BY <2>1, <1>1 DEF Enter, Active, IInv, NestingInv
  <2>2. CASE u # t
    BY <2>2, <1>1, InnerFlags DEF Active, Waits, IInv, NestingInv
  <2> QED
    BY <2>1, <2>2
<1> QED
  BY <1>2, <1>3, <1>4, <1>5, <1>6, <1>7 DEF IInv

(* The global mutex is free, so no frame owns it.                          *)
LEMMA LockGlobalKeeps == ASSUME NEW t \in Tasks, NEW f \in Flags, IInv, LockGlobal(t, f) PROVE IInv'
<1>1. /\ <<t, f>> \in Frames
      /\ pc[<<t, f>>] = "lock" /\ pc'[<<t, f>>] = "prepare"
      /\ pc' \in [Frames -> PC]
      /\ \A c \in Frames : c # <<t, f>> => pc'[c] = pc[c]
      /\ \A u \in Tasks, g \in Flags : u # t \/ g # f => pc'[<<u, g>>] = pc[<<u, g>>]
  BY StepOf DEF IInv, LockGlobal, PC
<1>2. TypeOK'
  BY <1>1, NullIsNoFrame, CallsAreBounded DEF IInv, TypeOK, LockGlobal, globals, once
<1>3. GlobalInv'
  <2>1. \A c \in Frames : c[1] \in Tasks /\ ~ owns[c]
    BY NullIsNoFrame DEF IInv, GlobalInv, LockGlobal, Frames
  <2>2. /\ owns'[<<t, f>>] /\ \A c \in Frames : owns'[c] => c = <<t, f>>
        /\ global' = t /\ <<t, f>>[1] = t
    BY <2>1, <1>1 DEF IInv, TypeOK, LockGlobal
  <2>3. \A c \in Frames : pc'[c] \in Owning => owns'[c]
    BY <2>1, <2>2, <1>1 DEF IInv, GlobalInv
  <2> QED
    BY <2>2, <2>3, <1>1 DEF GlobalInv, Owning
<1>4. GlobalsInv'
  BY <1>1, NullIsNoFrame, SMTT(30) DEF IInv, TypeOK, GlobalInv, GlobalsInv, Owning, LockGlobal, globals, once
<1>5. OnceInv'
  BY <1>1, OnceKept DEF IInv, Holding, LockGlobal, once
<1>6. FlagInv'
  BY <1>1, FlagKept DEF IInv, Coming, LockGlobal, once
<1>7. NestingInv'
  BY <1>1, NestingKept DEF IInv
<1> QED
  BY <1>2, <1>3, <1>4, <1>5, <1>6, <1>7 DEF IInv

(* The owner is the only one to write the globals.                         *)
LEMMA PrepareKeeps == ASSUME NEW t \in Tasks, NEW f \in Flags, IInv, Prepare(t, f) PROVE IInv'
<1>1. /\ <<t, f>> \in Frames
      /\ pc[<<t, f>>] = "prepare" /\ pc'[<<t, f>>] = "take"
      /\ pc' \in [Frames -> PC]
      /\ \A c \in Frames : c # <<t, f>> => pc'[c] = pc[c]
      /\ \A u \in Tasks, g \in Flags : u # t \/ g # f => pc'[<<u, g>>] = pc[<<u, g>>]
  BY StepOf DEF IInv, Prepare, PC
<1>2. TypeOK'
  BY <1>1, NullIsNoFrame, CallsAreBounded DEF IInv, TypeOK, Prepare, SetLockPtr, globals, once
<1>3. GlobalInv'
  BY <1>1, NullIsNoFrame DEF IInv, TypeOK, GlobalInv, GlobalsInv, Owning, Frames, Prepare, SetLockPtr, globals, once
<1>4. GlobalsInv'
  BY <1>1, NullIsNoFrame DEF IInv, TypeOK, GlobalInv, GlobalsInv, Owning, Prepare, SetLockPtr, globals, once
<1>5. OnceInv'
  BY <1>1, OnceKept DEF IInv, Holding, Prepare, once
<1>6. FlagInv'
  BY <1>1, FlagKept DEF IInv, Coming, Prepare, once
<1>7. NestingInv'
  BY <1>1, NestingKept DEF IInv
<1> QED
  BY <1>2, <1>3, <1>4, <1>5, <1>6, <1>7 DEF IInv

LEMMA TakeKeeps == ASSUME NEW t \in Tasks, NEW f \in Flags, IInv, Take(t, f) PROVE IInv'
<1>1. /\ <<t, f>> \in Frames
      /\ pc[<<t, f>>] = "take" /\ pc'[<<t, f>>] = "swap"
      /\ pc' \in [Frames -> PC]
      /\ \A c \in Frames : c # <<t, f>> => pc'[c] = pc[c]
      /\ \A u \in Tasks, g \in Flags : u # t \/ g # f => pc'[<<u, g>>] = pc[<<u, g>>]
  BY StepOf DEF IInv, Take, PC
<1>2. TypeOK'
  BY <1>1, NullIsNoFrame, CallsAreBounded DEF IInv, TypeOK, Take, globals, once
<1>3. GlobalInv'
  BY <1>1, NullIsNoFrame DEF IInv, TypeOK, GlobalInv, GlobalsInv, Owning, Frames, Take, globals, once
<1>4. GlobalsInv'
  BY <1>1, NullIsNoFrame DEF IInv, TypeOK, GlobalInv, GlobalsInv, Owning, Take, globals, once
<1>5. OnceInv'
  <2> SUFFICES ASSUME NEW u \in Tasks, NEW g \in Flags
               PROVE  m'[g] = u <=> pc'[<<u, g>>] \in Holding
    BY DEF OnceInv
  <2>1. m[g] = u <=> pc[<<u, g>>] \in Holding
    BY DEF IInv, OnceInv
  <2>2. CASE u = t /\ g = f
    BY <2>2, <1>1 DEF Take, Holding, IInv, TypeOK
  <2>3. CASE u # t /\ g = f
    BY <2>1, <2>3, <1>1, NullIsNoFrame DEF Take, IInv, TypeOK
  <2>4. CASE g # f
    BY <2>1, <2>4, <1>1 DEF Take, IInv, TypeOK
  <2> QED
    BY <2>2, <2>3, <2>4
<1>6. FlagInv'
  BY <1>1, FlagKept DEF IInv, Coming, Take, once
<1>7. NestingInv'
  BY <1>1, NestingKept DEF IInv
<1> QED
  BY <1>2, <1>3, <1>4, <1>5, <1>6, <1>7 DEF IInv

(* The callable is over: the flag is set, and nobody else holds its mutex. *)
LEMMA GiveKeeps == ASSUME NEW t \in Tasks, NEW f \in Flags, IInv, Give(t, f) PROVE IInv'
<1>1. /\ <<t, f>> \in Frames
      /\ pc[<<t, f>>] = "give" /\ pc'[<<t, f>>] = "leave"
      /\ pc' \in [Frames -> PC]
      /\ \A c \in Frames : c # <<t, f>> => pc'[c] = pc[c]
      /\ \A u \in Tasks, g \in Flags : u # t \/ g # f => pc'[<<u, g>>] = pc[<<u, g>>]
  BY StepOf DEF IInv, Give, PC
<1>2. TypeOK'
  BY <1>1, NullIsNoFrame, CallsAreBounded DEF IInv, TypeOK, Give, globals, once
<1>3. GlobalInv'
  BY <1>1, NullIsNoFrame DEF IInv, TypeOK, GlobalInv, GlobalsInv, Owning, Frames, Give, globals, once
<1>4. GlobalsInv'
  BY <1>1, NullIsNoFrame DEF IInv, TypeOK, GlobalInv, GlobalsInv, Owning, Give, globals, once
<1>5. OnceInv'
  <2> SUFFICES ASSUME NEW u \in Tasks, NEW g \in Flags
               PROVE  m'[g] = u <=> pc'[<<u, g>>] \in Holding
    BY DEF OnceInv
  <2>1. m[g] = u <=> pc[<<u, g>>] \in Holding
    BY DEF IInv, OnceInv
  <2>2. CASE u = t /\ g = f
    BY <2>2, <1>1, NullIsNoFrame DEF Give, Holding, IInv, TypeOK
  <2>3. CASE u # t /\ g = f
    <3>1. m[f] = t
      BY <1>1 DEF IInv, OnceInv, Holding
    <3> QED
      BY <2>1, <2>3, <3>1, <1>1, NullIsNoFrame DEF Give, IInv, TypeOK
  <2>4. CASE g # f
    BY <2>1, <2>4, <1>1 DEF Give, IInv, TypeOK
  <2> QED
    BY <2>2, <2>3, <2>4
<1>6. FlagInv'
  <2>1. v' = v /\ runs' = runs /\ v[f]
    BY <1>1 DEF Give, once, IInv, FlagInv
  <2>2. \A u \in Tasks : pc[<<u, f>>] \notin Coming \cup {"running", "nested"}
    BY <1>1 DEF IInv, OnceInv, Holding, Coming
  <2>3. \A u \in Tasks : pc'[<<u, f>>] \notin Coming \cup {"running", "nested"}
    BY <2>2, <1>1 DEF Coming
  <2>4. ASSUME NEW g \in Flags
        PROVE  /\ runs[g] = IF v[g] /\ \A u \in Tasks : pc'[<<u, g>>] \notin Coming THEN 1 ELSE 0
               /\ \A u \in Tasks :
                    /\ pc'[<<u, g>>] \in Coming \cup {"running", "nested", "give", "leave"} => v[g]
                    /\ pc'[<<u, g>>] = "leave" =>
                         \A w \in Tasks : pc'[<<w, g>>] \notin Coming \cup {"running", "nested"}
    <3>1. CASE g = f
      BY <3>1, <2>1, <2>2, <2>3 DEF IInv, FlagInv
    <3>2. CASE g # f
      BY <3>2, <1>1 DEF IInv, FlagInv
    <3> QED
      BY <3>1, <3>2
  <2> QED
    BY <2>1, <2>4 DEF FlagInv
<1>7. NestingInv'
  BY <1>1, NestingKept DEF IInv
<1> QED
  BY <1>2, <1>3, <1>4, <1>5, <1>6, <1>7 DEF IInv

(* What the proxy takes is what its own frame has put there.               *)
LEMMA MoveFunctorKeeps == ASSUME NEW t \in Tasks, NEW f \in Flags, IInv, MoveFunctor(t, f) PROVE IInv'
<1>1. /\ <<t, f>> \in Frames
      /\ pc[<<t, f>>] = "proxy" /\ pc'[<<t, f>>] = "unlock"
      /\ pc' \in [Frames -> PC]
      /\ \A c \in Frames : c # <<t, f>> => pc'[c] = pc[c]
      /\ \A u \in Tasks, g \in Flags : u # t \/ g # f => pc'[<<u, g>>] = pc[<<u, g>>]
  BY StepOf DEF IInv, MoveFunctor, PC
<1>2. TypeOK'
  BY <1>1, NullIsNoFrame, CallsAreBounded DEF IInv, TypeOK, MoveFunctor, globals, once
<1>3. GlobalInv'
  BY <1>1, NullIsNoFrame DEF IInv, TypeOK, GlobalInv, GlobalsInv, Owning, Frames, MoveFunctor, globals, once
<1>4. GlobalsInv'
  BY <1>1, NullIsNoFrame DEF IInv, TypeOK, GlobalInv, GlobalsInv, Owning, MoveFunctor, globals, once
<1>5. OnceInv'
  BY <1>1, OnceKept DEF IInv, Holding, MoveFunctor, once
<1>6. FlagInv'
  BY <1>1, FlagKept DEF IInv, Coming, MoveFunctor, once
<1>7. NestingInv'
  BY <1>1, NestingKept DEF IInv
<1> QED
  BY <1>2, <1>3, <1>4, <1>5, <1>6, <1>7 DEF IInv

(* The lock that lockPtr points to is that of this frame.                  *)
LEMMA UnlockGlobalKeeps == ASSUME NEW t \in Tasks, NEW f \in Flags, IInv, UnlockGlobal(t, f) PROVE IInv'
<1>1. /\ <<t, f>> \in Frames
      /\ pc[<<t, f>>] = "unlock" /\ pc'[<<t, f>>] = "call"
      /\ pc' \in [Frames -> PC]
      /\ \A c \in Frames : c # <<t, f>> => pc'[c] = pc[c]
      /\ \A u \in Tasks, g \in Flags : u # t \/ g # f => pc'[<<u, g>>] = pc[<<u, g>>]
  BY StepOf DEF IInv, UnlockGlobal, PC
<1>2. TypeOK'
  BY <1>1, NullIsNoFrame, CallsAreBounded DEF IInv, TypeOK, UnlockGlobal, SetLockPtr, globals, once
<1>3. GlobalInv'
  BY <1>1, NullIsNoFrame DEF IInv, TypeOK, GlobalInv, GlobalsInv, Owning, Frames, UnlockGlobal, SetLockPtr, globals, once
<1>4. GlobalsInv'
  BY <1>1, NullIsNoFrame DEF IInv, TypeOK, GlobalInv, GlobalsInv, Owning, UnlockGlobal, SetLockPtr, globals, once
<1>5. OnceInv'
  BY <1>1, OnceKept DEF IInv, Holding, UnlockGlobal, once
<1>6. FlagInv'
  BY <1>1, FlagKept DEF IInv, Coming, UnlockGlobal, once
<1>7. NestingInv'
  BY <1>1, NestingKept DEF IInv
<1> QED
  BY <1>2, <1>3, <1>4, <1>5, <1>6, <1>7 DEF IInv

(* The first call of the callable: nobody else is coming.                  *)
LEMMA CallCallableKeeps == ASSUME NEW t \in Tasks, NEW f \in Flags, IInv, CallCallable(t, f) PROVE IInv'
<1>1. /\ <<t, f>> \in Frames
      /\ pc[<<t, f>>] = "call" /\ pc'[<<t, f>>] = "running"
      /\ pc' \in [Frames -> PC]
      /\ \A c \in Frames : c # <<t, f>> => pc'[c] = pc[c]
      /\ \A u \in Tasks, g \in Flags : u # t \/ g # f => pc'[<<u, g>>] = pc[<<u, g>>]
  BY StepOf DEF IInv, CallCallable, PC
<1>2. TypeOK'
  <2>1. callable[<<t, f>>][2] = f
    BY <1>1 DEF IInv, GlobalsInv
  <2> QED
    BY <2>1, <1>1, CallsAreBounded DEF IInv, TypeOK, CallCallable, globals, once
<1>3. GlobalInv'
  BY <1>1, NullIsNoFrame DEF IInv, TypeOK, GlobalInv, GlobalsInv, Owning, Frames, CallCallable, globals, once
<1>4. GlobalsInv'
  BY <1>1, NullIsNoFrame DEF IInv, TypeOK, GlobalInv, GlobalsInv, Owning, CallCallable, globals, once
<1>5. OnceInv'
  BY <1>1, OnceKept DEF IInv, Holding, CallCallable, once
<1>6. FlagInv'
  <2>1. /\ v' = v /\ v[f] /\ runs[f] = 0
        /\ runs' = [runs EXCEPT ![f] = @ + 1]
    <3>1. callable[<<t, f>>][2] = f
      BY <1>1 DEF IInv, GlobalsInv
    <3> QED
      BY <3>1, <1>1 DEF CallCallable, once, IInv, FlagInv, Coming
  <2>2. \A u \in Tasks : pc'[<<u, f>>] \notin Coming
    BY <1>1 DEF IInv, OnceInv, Holding, Coming
  <2>3. \A u \in Tasks : pc'[<<u, f>>] # "leave"
    <3>1. \A u \in Tasks : pc[<<u, f>>] # "leave"
      BY <1>1 DEF IInv, FlagInv, Coming
    <3> QED
      BY <3>1, <1>1
  <2>4. ASSUME NEW g \in Flags
        PROVE  /\ runs'[g] = IF v[g] /\ \A u \in Tasks : pc'[<<u, g>>] \notin Coming THEN 1 ELSE 0
               /\ \A u \in Tasks :
                    /\ pc'[<<u, g>>] \in Coming \cup {"running", "nested", "give", "leave"} => v[g]
                    /\ pc'[<<u, g>>] = "leave" =>
                         \A w \in Tasks : pc'[<<w, g>>] \notin Coming \cup {"running", "nested"}
    <3>1. CASE g = f
      BY <3>1, <2>1, <2>2, <2>3 DEF IInv, TypeOK
    <3>2. CASE g # f
      BY <3>2, <2>1, <1>1 DEF IInv, FlagInv, TypeOK
    <3> QED
      BY <3>1, <3>2
  <2> QED
    BY <2>1, <2>4 DEF FlagInv
<1>7. NestingInv'
  BY <1>1, NestingKept DEF IInv
<1> QED
  BY <1>2, <1>3, <1>4, <1>5, <1>6, <1>7 DEF IInv

(* The frame that leaves is the innermost of its task.                     *)
LEMMA LeaveKeeps == ASSUME NEW t \in Tasks, NEW f \in Flags, IInv, Leave(t, f) PROVE IInv'
<1>1. /\ <<t, f>> \in Frames
      /\ pc[<<t, f>>] = "leave" /\ pc'[<<t, f>>] = "idle"
      /\ pc' \in [Frames -> PC]
      /\ \A c \in Frames : c # <<t, f>> => pc'[c] = pc[c]
      /\ \A u \in Tasks, g \in Flags : u # t \/ g # f => pc'[<<u, g>>] = pc[<<u, g>>]
  BY StepOf DEF IInv, Leave, PC
<1>2. TypeOK'
  BY <1>1, NullIsNoFrame, CallsAreBounded DEF IInv, TypeOK, Leave, ReleaseLock, SetLockPtr, globals, once
<1>3. GlobalInv'
  <2>1. CASE owns[<<t, f>>]
    <3>1. /\ global' = Null
          /\ \A c \in Frames : ~ owns'[c] /\ (owns[c] <=> c = <<t, f>>)
      BY <2>1, <1>1 DEF IInv, TypeOK, GlobalInv, Leave, ReleaseLock
    <3> QED
      BY <3>1, <1>1 DEF IInv, GlobalInv, Owning
  <2>2. CASE ~ owns[<<t, f>>]
    <3>1. owns' = owns /\ global' = global
      BY <2>2 DEF Leave, ReleaseLock
    <3> QED
      BY <3>1, <2>2, <1>1 DEF IInv, GlobalInv, Owning
  <2> QED
    BY <2>1, <2>2
<1>4. GlobalsInv'
  <2>1. /\ functor' = functor /\ callable' = callable
        /\ \A c \in Frames : pc'[c] \in {"prepare", "take", "swap", "proxy", "unlock", "call", "running", "nested"}
             => pc[c] = pc'[c]
    BY <1>1 DEF Leave
  <2>2. \A c \in Frames : lockPtr' = c <=> owns'[c] /\ pc'[c] # "prepare"
    <3>1. CASE owns[<<t, f>>]
      <4>1. lockPtr' = Null /\ \A c \in Frames : ~ owns'[c]
        BY <3>1, <1>1 DEF IInv, TypeOK, GlobalInv, Leave, ReleaseLock, SetLockPtr
      <4> QED
        BY <4>1, NullIsNoFrame
    <3>2. CASE ~ owns[<<t, f>>]
      <4>1. lockPtr' = lockPtr /\ owns' = owns
        BY <3>2 DEF Leave, ReleaseLock
      <4>2. \A c \in Frames : pc'[c] = "prepare" <=> pc[c] = "prepare"
        BY <1>1
      <4> QED
        BY <4>1, <4>2 DEF IInv, GlobalsInv
    <3> QED
      BY <3>1, <3>2
  <2> QED
    BY <2>1, <2>2 DEF IInv, GlobalsInv
<1>5. OnceInv'
  BY <1>1, OnceKept DEF IInv, Holding, Leave, once
<1>6. FlagInv'
  BY <1>1, FlagKept DEF IInv, Coming, Leave, once
<1>7. NestingInv'
  <2> SUFFICES ASSUME NEW u \in Tasks, NEW g \in Flags, NEW h \in Flags
               PROVE  /\ pc'[<<u, g>>] = "nested" => Inner[g] # Null
                      /\ g # h /\ Active(u, g)' /\ Active(u, h)' =>
                           /\ Waits(u, g)' \/ Waits(u, h)'
                           /\ Waits(u, g)' /\ Waits(u, h)' => Inner[g] # Inner[h]
    BY DEF NestingInv
  <2>1. CASE u # t
    BY <2>1, <1>1, InnerFlags DEF Active, Waits, IInv, NestingInv
  <2>2. CASE u = t /\ g # h /\ Active(u, g)' /\ Active(u, h)'
    <3>1. g # f /\ h # f /\ Active(t, g) /\ Active(t, h)
      BY <2>2, <1>1 DEF Active
    <3>2. Waits(t, g) /\ Waits(t, h)
      BY <3>1, <1>1, ZenonT(30) DEF IInv, NestingInv, Active, Waits
    <3>3. Inner[g] # Inner[h]
      BY <2>2, <3>1, <3>2 DEF IInv, NestingInv
    <3>4. Waits(t, g)' \/ Waits(t, h)'
      BY <3>1, <3>2, <3>3, <1>1, InnerFlags DEF Active, Waits
    <3> QED
      BY <2>2, <3>1, <3>3, <3>4, <1>1 DEF IInv, NestingInv
  <2>3. CASE u = t /\ ~ (g # h /\ Active(u, g)' /\ Active(u, h)')
    BY <2>3, <1>1 DEF IInv, NestingInv
  <2> QED
    BY <2>1, <2>2, <2>3
<1> QED
  BY <1>2, <1>3, <1>4, <1>5, <1>6, <1>7 DEF IInv

(* The exchange: the caller that finds the flag clear is the one to come.  *)
LEMMA SwapKeeps == ASSUME NEW t \in Tasks, NEW f \in Flags, IInv, Swap(t, f) PROVE IInv'
<1>1. /\ <<t, f>> \in Frames
      /\ pc[<<t, f>>] = "swap" /\ pc'[<<t, f>>] = IF v[f] THEN "give" ELSE "proxy"
      /\ pc' \in [Frames -> PC]
      /\ \A c \in Frames : c # <<t, f>> => pc'[c] = pc[c]
      /\ \A u \in Tasks, g \in Flags : u # t \/ g # f => pc'[<<u, g>>] = pc[<<u, g>>]
  <2>1. ASSUME Step(t, f, "swap", "proxy"), ~ v[f] PROVE <1>1
    BY <2>1, StepOf DEF IInv, PC
  <2>2. ASSUME Step(t, f, "swap", "give"), v[f] PROVE <1>1
    BY <2>2, StepOf DEF IInv, PC
  <2> QED
    BY <2>1, <2>2 DEF Swap
<1>2. TypeOK'
  BY <1>1 DEF IInv, TypeOK, Swap, globals
<1>3. GlobalInv'
  BY <1>1 DEF IInv, GlobalInv, Owning, Swap, globals
<1>4. GlobalsInv'
  BY <1>1 DEF IInv, GlobalInv, GlobalsInv, Owning, Swap, globals
<1>5. OnceInv'
  BY <1>1, OnceKept DEF IInv, Holding, Swap
<1>6. FlagInv'
  <2>1. /\ runs' = runs /\ v'[f] /\ \A g \in Flags : g # f => v'[g] = v[g]
    BY DEF Swap, IInv, TypeOK
  <2>2. \A u \in Tasks : pc[<<u, f>>] \notin Coming \cup {"running", "nested"}
    BY <1>1 DEF IInv, OnceInv, Holding, Coming
  <2>3. ASSUME NEW g \in Flags
        PROVE  /\ runs[g] = IF v'[g] /\ \A u \in Tasks : pc'[<<u, g>>] \notin Coming THEN 1 ELSE 0
               /\ \A u \in Tasks :
                    /\ pc'[<<u, g>>] \in Coming \cup {"running", "nested", "give", "leave"} => v'[g]
                    /\ pc'[<<u, g>>] = "leave" =>
                         \A w \in Tasks : pc'[<<w, g>>] \notin Coming \cup {"running", "nested"}
    <3>1. CASE g # f
      BY <3>1, <2>1, <1>1 DEF IInv, FlagInv
    <3>2. CASE g = f /\ v[f]
      BY <3>2, <2>1, <2>2, <1>1 DEF IInv, FlagInv, Coming
    <3>3. CASE g = f /\ ~ v[f]
      <4>1. runs[f] = 0 /\ \A u \in Tasks : pc[<<u, f>>] # "leave"
        BY <3>3 DEF IInv, FlagInv
      <4>2. \A u \in Tasks : pc'[<<u, f>>] # "leave"
        BY <4>1, <3>3, <1>1
      <4> QED
        BY <4>1, <4>2, <3>3, <2>1, <1>1 DEF Coming
    <3> QED
      BY <3>1, <3>2, <3>3
  <2> QED
    BY <2>1, <2>3 DEF FlagInv
<1>7. NestingInv'
  BY <1>1, NestingKept DEF IInv
<1> QED
  BY <1>2, <1>3, <1>4, <1>5, <1>6, <1>7 DEF IInv

(* The flag a callable calls call_once for is not in use by its task:      *)
(* otherwise every frame of the task would wait for another.               *)
LEMMA CalledIsIdle ==
  ASSUME NEW t \in Tasks, NEW f \in Flags, IInv, CallableCalls(t, f)
  PROVE  pc[<<t, Inner[f]>>] = "idle"
<1>1. Inner[f] \in Flags /\ Inner[f] # Null /\ pc[<<t, f>>] = "running"
  BY InnerFlags DEF CallableCalls
<1> SUFFICES ASSUME pc[<<t, Inner[f]>>] # "idle" PROVE FALSE
  OBVIOUS
<1> DEFINE S == {g \in Flags : Active(t, g)}
<1>2. f \in S /\ Inner[f] \in S
  BY <1>1 DEF Active
<1>3. ASSUME NEW g \in S, g # f PROVE Inner[g] \in S
  BY <1>2, <1>3, <1>1, InnerFlags, NullIsNoFrame DEF IInv, NestingInv, Waits, Active
<1>4. S \in SUBSET Flags /\ S # {} /\ \A g \in S : Inner[g] \in S
  BY <1>2, <1>3
<1> QED
  BY <1>4, InnerEnds

LEMMA CallableCallsKeeps ==
  ASSUME NEW t \in Tasks, NEW f \in Flags, IInv, CallableCalls(t, f) PROVE IInv'
<1> DEFINE i == Inner[f]
<1>1. i \in Flags /\ i # Null /\ pc[<<t, f>>] = "running"
  BY InnerFlags DEF CallableCalls
<1>2. pc[<<t, i>>] = "idle"
  BY CalledIsIdle
<1>3. i # f
  BY <1>1, <1>2
<1>4. /\ <<t, f>> \in Frames /\ <<t, i>> \in Frames /\ <<t, f>> # <<t, i>>
      /\ pc'[<<t, f>>] = "nested" /\ pc'[<<t, i>>] = "lock"
      /\ pc' \in [Frames -> PC]
      /\ \A c \in Frames : c # <<t, f>> /\ c # <<t, i>> => pc'[c] = pc[c]
  BY <1>1, <1>3 DEF CallableCalls, IInv, TypeOK, Frames, PC
<1>5. \A u \in Tasks, g \in Flags :
        u # t \/ (g # f /\ g # i) => pc'[<<u, g>>] = pc[<<u, g>>]
  BY <1>4 DEF Frames
<1> HIDE DEF i
<1>6. UNCHANGED <<global, functor, lockPtr, owns, v, m, callable, runs, calls>>
  BY DEF CallableCalls, globals, once
<1>7. TypeOK'
  BY <1>4, <1>6 DEF IInv, TypeOK
<1>8. GlobalInv'
  BY <1>1, <1>2, <1>4, <1>6 DEF IInv, GlobalInv, Owning
<1>9. GlobalsInv'
  BY <1>1, <1>2, <1>4, <1>6 DEF IInv, GlobalInv, GlobalsInv, Owning
<1>10. OnceInv'
  BY <1>1, <1>2, <1>4, <1>5, <1>6, OnceKept DEF IInv, Holding
<1>11. FlagInv'
  BY <1>1, <1>2, <1>4, <1>5, <1>6, FlagKept DEF IInv, Coming
<1>12. NestingInv'
  <2> SUFFICES ASSUME NEW u \in Tasks, NEW g \in Flags, NEW h \in Flags
               PROVE  /\ pc'[<<u, g>>] = "nested" => Inner[g] # Null
                      /\ g # h /\ Active(u, g)' /\ Active(u, h)' =>
                           /\ Waits(u, g)' \/ Waits(u, h)'
                           /\ Waits(u, g)' /\ Waits(u, h)' => Inner[g] # Inner[h]
    BY DEF NestingInv
  <2>1. CASE u # t
    BY <2>1, <1>5, InnerFlags DEF Active, Waits, IInv, NestingInv
  <2>2. CASE u = t
    <3>1. Waits(t, f)' /\ ~ Waits(t, i)' /\ Inner[f] = i
      BY <1>1, <1>4 DEF Waits, Active, i
    <3>2. \A x \in Flags : x # f /\ x # i /\ Active(t, x)' => Waits(t, x) /\ Inner[x] # i
      <4> SUFFICES ASSUME NEW x \in Flags, x # f, x # i, Active(t, x)'
                   PROVE  Waits(t, x) /\ Inner[x] # i
        OBVIOUS
      <4>1. pc'[<<t, x>>] = pc[<<t, x>>]
        BY <1>5
      <4>2. Active(t, x) /\ Active(t, f) /\ ~ Waits(t, f)
        BY <4>1, <1>1 DEF Active, Waits
      <4>3. Waits(t, x)
        BY <4>2 DEF IInv, NestingInv
      <4> QED
        BY <4>3, <1>2 DEF Waits, Active
    <3>3. \A x \in Flags : x # f /\ x # i /\ Active(t, x)' => Waits(t, x)' /\ Waits(t, x)
      BY <3>2, <1>4, <1>5, InnerFlags DEF Active, Waits
    <3>4. pc'[<<t, g>>] = "nested" => Inner[g] # Null
      BY <1>1, <1>4, <1>5, <3>1 DEF IInv, NestingInv
    <3>5. ASSUME g # h, Active(t, g)', Active(t, h)' PROVE Waits(t, g)' \/ Waits(t, h)'
      BY <3>5, <3>1, <3>3
    <3>6. ASSUME g # h, Waits(t, g)', Waits(t, h)' PROVE Inner[g] # Inner[h]
      <4>1. Active(t, g)' /\ Active(t, h)' /\ g # i /\ h # i
        BY <3>6, <3>1 DEF Waits, Active
      <4>2. CASE g = f \/ h = f
        BY <4>1, <4>2, <3>6, <3>1, <3>2
      <4>3. CASE g # f /\ h # f
        <5>1. Waits(t, g) /\ Waits(t, h)
          BY <4>1, <4>3, <3>3
        <5> QED
          BY <5>1, <3>6 DEF IInv, NestingInv, Waits, Active
      <4> QED
        BY <4>2, <4>3
    <3> QED
      BY <2>2, <3>4, <3>5, <3>6
  <2> QED
    BY <2>1, <2>2
<1> QED
  BY <1>7, <1>8, <1>9, <1>10, <1>11, <1>12 DEF IInv

(* The callable returns; the frame that did waits for no other.            *)
LEMMA CallableEndsKeeps ==
  ASSUME NEW t \in Tasks, NEW f \in Flags, IInv, CallableEnds(t, f) PROVE IInv'
<1>1. /\ <<t, f>> \in Frames
      /\ pc[<<t, f>>] \in {"running", "nested"} /\ pc'[<<t, f>>] = "give" /\ ~ Waits(t, f)
      /\ pc' \in [Frames -> PC]
      /\ \A c \in Frames : c # <<t, f>> => pc'[c] = pc[c]
      /\ \A u \in Tasks, g \in Flags : u # t \/ g # f => pc'[<<u, g>>] = pc[<<u, g>>]
  <2>1. ASSUME Step(t, f, "running", "give"), Inner[f] = Null PROVE <1>1
    BY <2>1, StepOf DEF IInv, PC, Waits
  <2>2. ASSUME Step(t, f, "nested", "give"), pc[<<t, Inner[f]>>] = "idle" PROVE <1>1
    BY <2>2, StepOf DEF IInv, PC, Waits, Active
  <2> QED
    BY <2>1, <2>2 DEF CallableEnds
<1>2. TypeOK'
  BY <1>1 DEF IInv, TypeOK, CallableEnds, globals, once
<1>3. GlobalInv'
  BY <1>1 DEF IInv, GlobalInv, Owning, CallableEnds, globals
<1>4. GlobalsInv'
  BY <1>1 DEF IInv, TypeOK, GlobalInv, GlobalsInv, Owning, CallableEnds, globals
<1>5. OnceInv'
  BY <1>1, OnceKept DEF IInv, Holding, CallableEnds, once
<1>6. FlagInv'
  <2>1. /\ v' = v /\ runs' = runs /\ v[f]
        /\ \A u \in Tasks : pc[<<u, f>>] \notin Coming /\ pc[<<u, f>>] # "leave"
    <3>1. \A u \in Tasks : pc[<<u, f>>] \notin Coming
      BY <1>1 DEF IInv, OnceInv, Holding, Coming
    <3>2. v[f] /\ \A u \in Tasks : pc[<<u, f>>] # "leave"
      BY <1>1 DEF IInv, FlagInv
    <3> QED
      BY <3>1, <3>2 DEF CallableEnds, once
  <2>2. ASSUME NEW g \in Flags
        PROVE  /\ runs[g] = IF v[g] /\ \A u \in Tasks : pc'[<<u, g>>] \notin Coming THEN 1 ELSE 0
               /\ \A u \in Tasks :
                    /\ pc'[<<u, g>>] \in Coming \cup {"running", "nested", "give", "leave"} => v[g]
                    /\ pc'[<<u, g>>] = "leave" =>
                         \A w \in Tasks : pc'[<<w, g>>] \notin Coming \cup {"running", "nested"}
    <3>1. CASE g # f
      BY <3>1, <1>1 DEF IInv, FlagInv
    <3>2. CASE g = f
      <4>1. \A u \in Tasks : pc'[<<u, f>>] \notin Coming /\ pc'[<<u, f>>] # "leave"
        BY <2>1, <1>1 DEF Coming
      <4> QED
        BY <3>2, <4>1, <2>1 DEF IInv, FlagInv
    <3> QED
      BY <3>1, <3>2
  <2> QED
    BY <2>1, <2>2 DEF FlagInv
<1>7. NestingInv'
  <2>1. \A u \in Tasks, g \in Flags : Active(u, g)' <=> Active(u, g)
    BY <1>1 DEF Active
  <2>2. \A u \in Tasks, g \in Flags : Waits(u, g)' <=> Waits(u, g)
    BY <1>1, InnerFlags DEF Active, Waits
  <2> QED
    BY <2>1, <2>2, <1>1, ZenonT(30) DEF IInv, NestingInv
<1> QED
  BY <1>2, <1>3, <1>4, <1>5, <1>6, <1>7 DEF IInv

(***************************************************************************)
(* The invariants.                                                         *)
(***************************************************************************)
LEMMA NextKeepsIInv == IInv /\ [Next]_vars => IInv'
<1> SUFFICES ASSUME IInv, [Next]_vars PROVE IInv'
  OBVIOUS
<1>1. ASSUME NEW t \in Tasks, NEW f \in Flags, Enter(t, f) \/ Library(t, f) PROVE IInv'
  BY <1>1, EnterKeeps, LockGlobalKeeps, PrepareKeeps, TakeKeeps, SwapKeeps, GiveKeeps,
     MoveFunctorKeeps, UnlockGlobalKeeps, CallCallableKeeps, CallableEndsKeeps,
     CallableCallsKeeps, LeaveKeeps DEF Library
<1>2. CASE UNCHANGED vars
  BY <1>2 DEF vars, IInv, TypeOK, GlobalInv, GlobalsInv, OnceInv, FlagInv, NestingInv, Active, Waits
<1> QED
  BY <1>1, <1>2 DEF Next

(* The inductive invariant holds.                                          *)
THEOREM InductiveInvariant == Spec => []IInv
BY InitIInv, NextKeepsIInv, PTL DEF Spec

(* The variables keep their types; the counts of calls stay in their range. *)
THEOREM TypesCorrect == Spec => []TypeOK
<1>1. IInv => TypeOK
  BY DEF IInv
<1> QED
  BY <1>1, InductiveInvariant, PTL

(* No two callers ever run the callable of one flag (test_once.h:67).      *)
THEOREM CallablesRunOnce == Spec => []RunsOnce
<1>1. IInv => RunsOnce
  BY DEF IInv, FlagInv, RunsOnce
<1> QED
  BY <1>1, InductiveInvariant, PTL

(* No caller runs the callable of another, or unlocks another's lock, that *)
(* it found in the globals of mutex.cc.                                    *)
THEOREM CallersRunTheirOwn == Spec => []RunsOwnCallable
<1>1. IInv => RunsOwnCallable
  BY DEF IInv, GlobalInv, GlobalsInv, Owning, RunsOwnCallable
<1> QED
  BY <1>1, InductiveInvariant, PTL

(* Whoever returns from call_once finds the callable run and returned.     *)
THEOREM ReturnsAreAfterRuns == Spec => []ReturnsAfterRun
<1>1. IInv => ReturnsAfterRun
  BY DEF IInv, FlagInv, Coming, ReturnsAfterRun, Runs
<1> QED
  BY <1>1, InductiveInvariant, PTL

(* __once_functor_lock_ptr never points to the lock of a call that is over *)
(* or that has given the mutex away.                                       *)
THEOREM LockPtrsAreValid == Spec => []LockPtrIsValid
<1>1. IInv => LockPtrIsValid
  BY DEF IInv, TypeOK, GlobalInv, GlobalsInv, Owning, LockPtrIsValid
<1> QED
  BY <1>1, InductiveInvariant, PTL

(***************************************************************************)
(* The refinement of OnceContract.                                         *)
(***************************************************************************)
States == [f \in Flags |->
             IF runs[f] = 0 THEN "new"
             ELSE IF \E t \in Tasks : Runs(<<t, f>>) THEN "active" ELSE "done"]
CallStates == [c \in Frames |->
                 IF pc[c] = "idle" THEN "idle" ELSE IF Runs(c) THEN "running" ELSE "called"]

(* A frame that neither starts, runs nor ends is not seen.                 *)
LEMMA NotSeen ==
  ASSUME runs' = runs,
         \A u \in Tasks, g \in Flags :
           /\ pc'[<<u, g>>] = "idle" <=> pc[<<u, g>>] = "idle"
           /\ Runs(<<u, g>>)' <=> Runs(<<u, g>>)
  PROVE  UNCHANGED <<States, CallStates>>
<1>1. \A f \in Flags : (\E t \in Tasks : Runs(<<t, f>>)') <=> \E t \in Tasks : Runs(<<t, f>>)
  OBVIOUS
<1>2. States' = States
  BY <1>1 DEF States
<1>3. \A c \in Frames : (pc'[c] = "idle" <=> pc[c] = "idle") /\ (Runs(c)' <=> Runs(c))
  BY DEF Frames
<1>4. CallStates' = CallStates
  BY <1>3 DEF CallStates
<1> QED
  BY <1>2, <1>4

(* One frame is seen to move.                                              *)
LEMMA CallSeen ==
  ASSUME NEW t \in Tasks, NEW f \in Flags, NEW to,
         \A c \in Frames : c # <<t, f>> =>
           /\ pc'[c] = "idle" <=> pc[c] = "idle"
           /\ Runs(c)' <=> Runs(c),
         to = IF pc'[<<t, f>>] = "idle" THEN "idle"
              ELSE IF Runs(<<t, f>>)' THEN "running" ELSE "called"
  PROVE  CallStates' = [CallStates EXCEPT ![<<t, f>>] = to]
BY DEF CallStates, Frames

(* One flag is seen to change.                                             *)
LEMMA FlagSeen ==
  ASSUME NEW f \in Flags, NEW to,
         \A g \in Flags : g # f =>
           /\ runs'[g] = 0 <=> runs[g] = 0
           /\ \A u \in Tasks : Runs(<<u, g>>)' <=> Runs(<<u, g>>),
         to = IF runs'[f] = 0 THEN "new"
              ELSE IF \E u \in Tasks : Runs(<<u, f>>)' THEN "active" ELSE "done"
  PROVE  States' = [States EXCEPT ![f] = to]
<1>1. \A g \in Flags : g # f =>
        ((\E u \in Tasks : Runs(<<u, g>>)') <=> \E u \in Tasks : Runs(<<u, g>>))
  OBVIOUS
<1> QED
  BY <1>1 DEF States

LEMMA InitRefines == Init => Contract!Init
BY DEF Init, Contract!Init, Frames

(* A call begins, from the program or from a callable.                     *)
LEMMA EnterRefines ==
  ASSUME NEW t \in Tasks, NEW f \in Flags, IInv, Enter(t, f)
  PROVE  CallStates[<<t, f>>] = "idle" /\ CallStates' = [CallStates EXCEPT ![<<t, f>>] = "called"]
         /\ States' = States
<1>1. /\ <<t, f>> \in Frames
      /\ pc[<<t, f>>] = "idle" /\ pc'[<<t, f>>] = "lock"
      /\ \A c \in Frames : c # <<t, f>> => pc'[c] = pc[c]
  BY StepOf DEF IInv, Enter, PC
<1>2. runs' = runs /\ \A c \in Frames : Runs(c)' <=> Runs(c)
  BY <1>1 DEF Enter, Runs
<1>3. \A g \in Flags : (\E u \in Tasks : Runs(<<u, g>>)') <=> \E u \in Tasks : Runs(<<u, g>>)
  BY <1>2 DEF Frames
<1>4. States' = States
  BY <1>2, <1>3 DEF States
<1> QED
  BY <1>1, <1>2, <1>4, CallSeen DEF Runs, CallStates

LEMMA CallableCallsRefines ==
  ASSUME NEW t \in Tasks, NEW f \in Flags, IInv, CallableCalls(t, f)
  PROVE  \E i \in Flags :
           CallStates[<<t, i>>] = "idle" /\ CallStates' = [CallStates EXCEPT ![<<t, i>>] = "called"]
           /\ States' = States
<1> DEFINE i == Inner[f]
<1>1. i \in Flags /\ i # f /\ pc[<<t, f>>] = "running" /\ pc[<<t, i>>] = "idle"
  BY InnerFlags, CalledIsIdle DEF CallableCalls
<1>2. /\ <<t, f>> \in Frames /\ <<t, i>> \in Frames /\ <<t, f>> # <<t, i>>
      /\ pc'[<<t, f>>] = "nested" /\ pc'[<<t, i>>] = "lock"
      /\ \A c \in Frames : c # <<t, f>> /\ c # <<t, i>> => pc'[c] = pc[c]
  BY <1>1 DEF CallableCalls, IInv, TypeOK, Frames
<1> HIDE DEF i
<1>3. runs' = runs /\ \A c \in Frames : Runs(c)' <=> Runs(c)
  BY <1>1, <1>2 DEF CallableCalls, Runs
<1>4. \A g \in Flags : (\E u \in Tasks : Runs(<<u, g>>)') <=> \E u \in Tasks : Runs(<<u, g>>)
  BY <1>3 DEF Frames
<1>5. States' = States
  BY <1>3, <1>4 DEF States
<1>6. \A c \in Frames : c # <<t, i>> => (pc'[c] = "idle" <=> pc[c] = "idle")
  BY <1>1, <1>2
<1>7. CallStates[<<t, i>>] = "idle"
  BY <1>1, <1>2 DEF CallStates
<1>8. CallStates' = [CallStates EXCEPT ![<<t, i>>] = "called"]
  BY <1>1, <1>2, <1>3, <1>6, CallSeen DEF Runs
<1> QED
  BY <1>1, <1>5, <1>7, <1>8

(* The callable starts: of its flag, none was started before.              *)
LEMMA CallCallableRefines ==
  ASSUME NEW t \in Tasks, NEW f \in Flags, IInv, CallCallable(t, f)
  PROVE  Contract!Start(t, f)
<1>1. /\ <<t, f>> \in Frames
      /\ pc[<<t, f>>] = "call" /\ pc'[<<t, f>>] = "running"
      /\ \A c \in Frames : c # <<t, f>> => pc'[c] = pc[c]
  BY StepOf DEF IInv, CallCallable, PC
<1>2. callable[<<t, f>>] = <<t, f>> /\ runs[f] = 0
  BY <1>1 DEF IInv, GlobalsInv, FlagInv, Coming
<1>3. runs' = [runs EXCEPT ![f] = 1]
  BY <1>2 DEF CallCallable, IInv, TypeOK
<1>4. Runs(<<t, f>>)' /\ \A c \in Frames : c # <<t, f>> => (Runs(c)' <=> Runs(c))
  BY <1>1 DEF Runs
<1>5. CallStates' = [CallStates EXCEPT ![<<t, f>>] = "running"]
  BY <1>1, <1>4, CallSeen
<1>6. \A g \in Flags, u \in Tasks : g # f => (Runs(<<u, g>>)' <=> Runs(<<u, g>>))
  BY <1>4 DEF Frames
<1>7. runs'[f] = 1 /\ \A g \in Flags : g # f => runs'[g] = runs[g]
  BY <1>3 DEF IInv, TypeOK
<1>8. States' = [States EXCEPT ![f] = "active"]
  BY <1>4, <1>6, <1>7, FlagSeen
<1>9. CallStates[<<t, f>>] = "called" /\ States[f] = "new"
  BY <1>1, <1>2 DEF CallStates, States, Runs
<1> QED
  BY <1>5, <1>8, <1>9 DEF Contract!Start, States, CallStates

(* The callable ends: no other task runs it.                               *)
LEMMA CallableEndsRefines ==
  ASSUME NEW t \in Tasks, NEW f \in Flags, IInv, CallableEnds(t, f)
  PROVE  Contract!Finish(t, f)
<1>1. /\ <<t, f>> \in Frames
      /\ pc[<<t, f>>] \in {"running", "nested"} /\ pc'[<<t, f>>] = "give"
      /\ \A c \in Frames : c # <<t, f>> => pc'[c] = pc[c]
  <2>1. ASSUME Step(t, f, "running", "give") PROVE <1>1
    BY <2>1, StepOf DEF IInv, PC
  <2>2. ASSUME Step(t, f, "nested", "give") PROVE <1>1
    BY <2>2, StepOf DEF IInv, PC
  <2> QED
    BY <2>1, <2>2 DEF CallableEnds
<1>2. runs' = runs /\ runs[f] # 0
  <2>1. v[f] /\ \A u \in Tasks : pc[<<u, f>>] \notin Coming
    BY <1>1 DEF IInv, OnceInv, FlagInv, Holding, Coming
  <2> QED
    BY <2>1 DEF IInv, FlagInv, CallableEnds
<1>3. ~ Runs(<<t, f>>)' /\ \A c \in Frames : c # <<t, f>> => (Runs(c)' <=> Runs(c))
  BY <1>1 DEF Runs
<1>4. CallStates' = [CallStates EXCEPT ![<<t, f>>] = "called"]
  BY <1>1, <1>3, CallSeen
<1>5. \A g \in Flags, u \in Tasks : g # f => (Runs(<<u, g>>)' <=> Runs(<<u, g>>))
  BY <1>3 DEF Frames
<1>6. \A u \in Tasks : ~ Runs(<<u, f>>)'
  <2>1. ASSUME NEW u \in Tasks, u # t PROVE ~ Runs(<<u, f>>)
    BY <2>1, <1>1 DEF IInv, OnceInv, Holding, Runs
  <2> QED
    BY <2>1, <1>3 DEF Frames
<1>7. States' = [States EXCEPT ![f] = "done"]
  BY <1>2, <1>5, <1>6, FlagSeen
<1>8. CallStates[<<t, f>>] = "running"
  BY <1>1 DEF CallStates, Runs
<1> QED
  BY <1>4, <1>7, <1>8 DEF Contract!Finish, States, CallStates

(* A call returns: the callable has run and does not run any more.         *)
LEMMA LeaveRefines ==
  ASSUME NEW t \in Tasks, NEW f \in Flags, IInv, Leave(t, f)
  PROVE  Contract!Return(t, f)
<1>1. /\ <<t, f>> \in Frames
      /\ pc[<<t, f>>] = "leave" /\ pc'[<<t, f>>] = "idle"
      /\ \A c \in Frames : c # <<t, f>> => pc'[c] = pc[c]
  BY StepOf DEF IInv, Leave, PC
<1>2. runs' = runs /\ \A c \in Frames : Runs(c)' <=> Runs(c)
  BY <1>1 DEF Leave, Runs
<1>3. \A g \in Flags : (\E u \in Tasks : Runs(<<u, g>>)') <=> \E u \in Tasks : Runs(<<u, g>>)
  BY <1>2 DEF Frames
<1>4. States' = States
  BY <1>2, <1>3 DEF States
<1>5. CallStates' = [CallStates EXCEPT ![<<t, f>>] = "idle"]
  BY <1>1, <1>2, CallSeen
<1>6. CallStates[<<t, f>>] = "called"
  BY <1>1 DEF CallStates, Runs
<1>7. States[f] = "done"
  <2>1. v[f] /\ \A u \in Tasks : pc[<<u, f>>] \notin Coming \cup {"running", "nested"}
    BY <1>1 DEF IInv, FlagInv
  <2>2. runs[f] = 1
    BY <2>1 DEF IInv, FlagInv
  <2>3. runs[f] # 0 /\ ~ \E u \in Tasks : Runs(<<u, f>>)
    <3>1. runs[f] # 0
      BY <2>2 DEF IInv, TypeOK
    <3>2. ~ \E u \in Tasks : Runs(<<u, f>>)
      BY <2>1 DEF Runs
    <3> QED
      BY <3>1, <3>2
  <2>4. States[f] = IF runs[f] = 0 THEN "new"
                    ELSE IF \E u \in Tasks : Runs(<<u, f>>) THEN "active" ELSE "done"
    BY DEF States
  <2> QED
    BY <2>3, <2>4, Zenon
<1> QED
  BY <1>4, <1>5, <1>6, <1>7 DEF Contract!Return, States, CallStates

(* The steps inside the two mutexes are not seen.                          *)
LEMMA InnerStepsNotSeen ==
  ASSUME NEW t \in Tasks, NEW f \in Flags, IInv,
         \/ LockGlobal(t, f) \/ Prepare(t, f) \/ Take(t, f) \/ Swap(t, f) \/ Give(t, f)
         \/ MoveFunctor(t, f) \/ UnlockGlobal(t, f)
  PROVE  UNCHANGED <<States, CallStates>>
<1> DEFINE Inside == PC \ {"idle", "running", "nested"}
<1>1. runs' = runs
  BY DEF LockGlobal, Prepare, Take, Swap, Give, MoveFunctor, UnlockGlobal
<1>2. \E from, to \in Inside : Step(t, f, from, to)
  BY DEF LockGlobal, Prepare, Take, Swap, Give, MoveFunctor, UnlockGlobal, PC
<1>3. PICK from \in Inside, to \in Inside : Step(t, f, from, to)
  BY <1>2
<1>4. /\ pc[<<t, f>>] \in Inside /\ pc'[<<t, f>>] \in Inside
      /\ \A u \in Tasks, g \in Flags : u # t \/ g # f => pc'[<<u, g>>] = pc[<<u, g>>]
  BY <1>3, StepOf DEF IInv
<1> QED
  BY <1>1, <1>4, NotSeen DEF Runs

LEMMA NextRefines == IInv /\ [Next]_vars => [Contract!Next]_<<States, CallStates>>
<1> SUFFICES ASSUME IInv, [Next]_vars, UNCHANGED <<States, CallStates>> => FALSE
             PROVE  Contract!Next
  OBVIOUS
<1>1. ASSUME NEW t \in Tasks, NEW f \in Flags, Enter(t, f) PROVE Contract!Next
  BY <1>1, EnterRefines DEF Contract!Next, Contract!Call, States, CallStates
<1>2. ASSUME NEW t \in Tasks, NEW f \in Flags, CallableCalls(t, f) PROVE Contract!Next
  BY <1>2, CallableCallsRefines DEF Contract!Next, Contract!Call, States, CallStates
<1>3. ASSUME NEW t \in Tasks, NEW f \in Flags, CallCallable(t, f) \/ CallableEnds(t, f) \/ Leave(t, f)
      PROVE  Contract!Next
  BY <1>3, CallCallableRefines, CallableEndsRefines, LeaveRefines DEF Contract!Next
<1>4. ASSUME UNCHANGED vars PROVE UNCHANGED <<States, CallStates>>
  BY <1>4 DEF vars, States, CallStates, Runs
<1> QED
  BY <1>1, <1>2, <1>3, <1>4, InnerStepsNotSeen DEF Next, Library

(* Of all the calls for a flag one runs its callable, and every call       *)
(* returns after that one is done: for any number of tasks and flags, the  *)
(* two mutexes, the flag and the globals implement std::call_once.         *)
THEOREM CallOnceImplementsContract == Spec => ImplementsContract
<1>1. IInv /\ [Next]_vars => [Contract!Next]_(Contract!ovars)
  BY NextRefines DEF Contract!ovars, States, CallStates
<1> QED
  BY InitRefines, InductiveInvariant, <1>1, PTL DEF Spec, ImplementsContract, Contract!Spec
=============================================================================
