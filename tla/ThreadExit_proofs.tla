-------------------------- MODULE ThreadExit_proofs --------------------------
(***************************************************************************)
(* Proofs about ThreadExit, for any number of threads, addresses and       *)
(* callbacks: the key is ready for whoever uses it, no callback is lost,   *)
(* and none is run twice or by a thread that does not own it.              *)
(***************************************************************************)
EXTENDS ThreadExit, TLAPS

(***************************************************************************)
(* The inductive invariant: the key, the places of a thread, the pointers, *)
(* and the list of a thread.                                               *)
(***************************************************************************)
Registering == {"once", "swap", "create", "store", "give", "get", "set"}

(* The function of the thread runs, or its value is still in the map.      *)
InFunction(t) ==
  \/ pc[t] \in {"function", "returned", "take"}
  \/ pc[t] \in Registering /\ cur[t] = Null

Lives(t) == pc[t] \notin {"unborn", "gone"}

(* The once of the key, and what its first caller has done of key_init.    *)
KeyInv ==
  /\ \A t \in Threads :
       /\ onceM = t <=> pc[t] \in {"swap", "create", "store", "give"}
       /\ pc[t] = "create" => onceV /\ ~ sKey /\ ~ key
       /\ pc[t] = "store" => sKey
       /\ pc[t] \in {"give", "get", "set"} => key
  /\ onceV /\ (\A t \in Threads : pc[t] \notin {"create", "store"}) => key
  /\ sKey => onceV
  /\ key => sKey
  /\ ~ sKey => \A a \in Addrs : value[a] = Null

(* What a thread has in its hands, and where it is.                        *)
PlaceInv ==
  /\ \A t \in Threads :
       /\ elt[t] # Null <=> pc[t] \in Registering
       /\ elt[t] # Null => elt[t][1] = t /\ state[elt[t]] = IF cur[t] = Null THEN "linked" ELSE "late"
       /\ cur[t] # Null => pc[t] \in Registering \cup {"callback"}
       /\ pc[t] = "callback" => cur[t] # Null
       /\ cur[t] # Null => \/ state[cur[t]] = "late"
                           \/ cur[t][1] = t /\ state[cur[t]] = "linked"
       /\ list[t] # Null => pc[t] = "loop" \/ cur[t] # Null
       /\ addr[t] = Null <=> pc[t] = "unborn"
       /\ pc[t] = "set" => next[elt[t]] = value[addr[t]]
       /\ pc[t] = "unborn" \/ InFunction(t) =>
            \A e \in Elements : e[1] = t => state[e] \in {"new", "linked"}
       /\ pc[t] = "unborn" => \A e \in Elements : e[1] = t => state[e] = "new"
  /\ \A t, u \in Threads : Lives(t) /\ Lives(u) /\ addr[t] = addr[u] => t = u

(* No two pointers lead to one element, and none to a deleted one.  The    *)
(* link of an element counts when the element is in a list.                *)
InList(e) ==
  /\ state[e] \in {"linked", "late"}
  /\ \A t \in Threads : elt[t] # e /\ cur[t] # e
LinkOf(e) == IF InList(e) THEN next[e] ELSE Null

Exists(e) == e = Null \/ state[e] \in {"linked", "late"}
Differ(d, e) == d = Null \/ d # e

PointerInv ==
  /\ \A a \in Addrs : Exists(value[a])
  /\ \A t \in Threads : Exists(list[t]) /\ Exists(cur[t]) /\ Exists(elt[t])
  /\ \A e \in Elements : Exists(LinkOf(e))
  /\ \A a, b \in Addrs : a # b => Differ(value[a], value[b])
  /\ \A t, u \in Threads :
       /\ t # u => Differ(list[t], list[u]) /\ Differ(cur[t], cur[u])
       /\ Differ(list[t], cur[u]) /\ Differ(list[t], elt[u]) /\ Differ(cur[t], elt[u])
  /\ \A a \in Addrs, t \in Threads :
       Differ(value[a], list[t]) /\ Differ(value[a], cur[t]) /\ Differ(value[a], elt[t])
  /\ \A d, e \in Elements : d # e => Differ(LinkOf(d), LinkOf(e))
  /\ \A e \in Elements :
       /\ \A a \in Addrs : Differ(LinkOf(e), value[a])
       /\ \A t \in Threads : /\ Differ(LinkOf(e), list[t]) /\ Differ(LinkOf(e), cur[t])
                             /\ Differ(LinkOf(e), elt[t])

(* What is left for a later thread on the address.                         *)
Spare(e) == e = Null \/ state[e] = "late"

SpareInv ==
  /\ \A e \in Elements : state[e] = "late" => Spare(LinkOf(e))
  /\ \A a \in Addrs :
       ~ Spare(value[a]) => \E t \in Threads : addr[t] = a /\ InFunction(t)

(* The first k elements of a thread are those on its list, the youngest    *)
(* first.                                                                  *)
Head(t) == IF InFunction(t) THEN value[addr[t]] ELSE list[t]

Chain(t, k) ==
  /\ \A i \in 1..MaxElements :
       state[<<t, i>>] = "linked" /\ <<t, i>> # elt[t] /\ <<t, i>> # cur[t] <=> i <= k
  /\ \A i \in 1..k : IF i = 1 THEN Spare(next[<<t, i>>]) ELSE next[<<t, i>>] = <<t, i - 1>>
  /\ IF k = 0 THEN Spare(Head(t)) ELSE Head(t) = <<t, k>>
  /\ elt[t] # Null /\ cur[t] = Null => elt[t] = <<t, k + 1>>

ChainInv == \A t \in Threads : \E k \in 0..MaxElements : Chain(t, k)

IInv == TypeOK /\ KeyInv /\ PlaceInv /\ PointerInv /\ SpareInv /\ ChainInv

(***************************************************************************)
(* The initial states.                                                     *)
(***************************************************************************)
LEMMA InitIInv == Init => IInv
<1> SUFFICES ASSUME Init PROVE IInv
  OBVIOUS
<1> USE DEF Init
<1>1. TypeOK
  BY DEF TypeOK, PC
<1>2. KeyInv
  BY NullIsFresh DEF KeyInv
<1>3. PlaceInv
  BY DEF PlaceInv, Registering, InFunction, Lives
<1>4. PointerInv
  BY DEF PointerInv, Exists, Differ, LinkOf, InList
<1>5. SpareInv
  BY DEF SpareInv, Spare
<1>6. ChainInv
  <2> SUFFICES ASSUME NEW t \in Threads PROVE \E k \in 0..MaxElements : Chain(t, k)
    BY DEF ChainInv
  <2>1. Head(t) = Null
    BY DEF Head, InFunction, Registering
  <2>2. Chain(t, 0)
    BY <2>1, Bounds DEF Chain, Spare, Elements
  <2>3. 0 \in 0..MaxElements
    BY Bounds
  <2> QED
    BY <2>2, <2>3
<1> QED
  BY <1>1, <1>2, <1>3, <1>4, <1>5, <1>6 DEF IInv

(***************************************************************************)
(* Steps that are not seen in the lists: pointers and elements are kept,   *)
(* but for the link of an element that is not in a list yet.               *)
(***************************************************************************)
Quiet ==
  /\ UNCHANGED <<value, state, elt, list, cur, addr>>
  /\ \A e \in Elements : next'[e] = next[e] \/ \E u \in Threads : elt[u] = e
  /\ \A u \in Threads :
       /\ pc'[u] = "set" => next'[elt[u]] = value[addr[u]]
       /\ InFunction(u)' <=> InFunction(u)
       /\ pc'[u] \in Registering <=> pc[u] \in Registering
       /\ pc'[u] = "callback" <=> pc[u] = "callback"
       /\ pc[u] = "loop" => pc'[u] = "loop" \/ list[u] = Null
       /\ pc'[u] = "unborn" <=> pc[u] = "unborn"
       /\ Lives(u)' => Lives(u)

LEMMA QuietKeepsPlaces == ASSUME PlaceInv, Quiet PROVE PlaceInv'
BY DEF PlaceInv, Quiet

LEMMA QuietKeepsPointers == ASSUME PointerInv, Quiet PROVE PointerInv'
<1>1. \A e \in Elements : LinkOf(e)' = LinkOf(e)
  BY DEF Quiet, LinkOf, InList
<1>2. UNCHANGED <<value, state, elt, list, cur>>
  BY DEF Quiet
<1> QED
  BY <1>1, <1>2 DEF PointerInv, Exists

LEMMA QuietKeepsSpare == ASSUME SpareInv, Quiet PROVE SpareInv'
<1>1. \A e \in Elements : LinkOf(e)' = LinkOf(e)
  BY DEF Quiet, LinkOf, InList
<1>2. UNCHANGED <<value, state, addr>> /\ \A u \in Threads : InFunction(u)' <=> InFunction(u)
  BY DEF Quiet
<1> QED
  BY <1>1, <1>2 DEF SpareInv, Spare

LEMMA QuietKeepsChains == ASSUME TypeOK, PlaceInv, ChainInv, Quiet PROVE ChainInv'
<1> SUFFICES ASSUME NEW t \in Threads PROVE \E k \in 0..MaxElements : Chain(t, k)'
  BY DEF ChainInv
<1>1. PICK k \in 0..MaxElements : Chain(t, k)
  BY DEF ChainInv
<1>2. UNCHANGED <<value, state, elt, list, cur, addr>> /\ Head(t)' = Head(t)
  BY DEF Quiet, Head
<1>3. \A i \in 1..k : next'[<<t, i>>] = next[<<t, i>>]
  <2> SUFFICES ASSUME NEW i \in 1..k PROVE next'[<<t, i>>] = next[<<t, i>>]
    OBVIOUS
  <2>1. <<t, i>> \in Elements /\ <<t, i>> # elt[t]
    BY <1>1, Bounds DEF Chain, Elements
  <2>2. \A u \in Threads : elt[u] # <<t, i>>
    BY <2>1, NullIsFresh DEF PlaceInv
  <2> QED
    BY <2>1, <2>2 DEF Quiet
<1>4. Chain(t, k)'
  BY <1>1, <1>2, <1>3 DEF Chain, Spare
<1> QED
  BY <1>4

(* What a step of one thread leaves alone.                                 *)
LEMMA StepOf ==
  ASSUME TypeOK, NEW t \in Threads, NEW from, NEW to \in PC, Step(t, from, to)
  PROVE  /\ pc[t] = from /\ pc'[t] = to /\ pc' \in [Threads -> PC]
         /\ \A u \in Threads \ {t} : pc'[u] = pc[u]
BY DEF TypeOK, Step

(* Steps outside key_init and its once.                                    *)
LEMMA KeyKept ==
  ASSUME KeyInv, UNCHANGED <<keys, once>>, ~ sKey => \A a \in Addrs : value'[a] = Null,
         \A u \in Threads :
           /\ \A where \in {"swap", "create", "store", "give"} : pc'[u] = where <=> pc[u] = where
           /\ pc'[u] \in {"get", "set"} => pc[u] \in {"get", "set"}
  PROVE  KeyInv'
BY DEF KeyInv, keys, once

(* The once, key_init, and what leads from the function to the end without *)
(* a value.                                                                *)
LEMMA OnceTakeKeeps ==
  ASSUME IInv, NEW t \in Threads, OnceTake(t) PROVE IInv'
<1>1. /\ pc[t] = "once" /\ pc'[t] = "swap" /\ pc' \in [Threads -> PC]
      /\ \A u \in Threads \ {t} : pc'[u] = pc[u]
  BY StepOf DEF IInv, OnceTake, PC
<1>2. TypeOK'
  BY <1>1 DEF IInv, TypeOK, OnceTake, keys
<1>3. KeyInv'
  BY <1>1, NullIsFresh DEF IInv, KeyInv, OnceTake, keys
<1>4. Quiet
  BY <1>1 DEF IInv, PlaceInv, OnceTake, Quiet, InFunction, Lives, Registering
<1> QED
  BY <1>2, <1>3, <1>4, QuietKeepsPlaces, QuietKeepsPointers, QuietKeepsSpare, QuietKeepsChains DEF IInv

LEMMA OnceSwapKeeps ==
  ASSUME IInv, NEW t \in Threads, OnceSwap(t) PROVE IInv'
<1>1. /\ pc[t] = "swap" /\ pc'[t] = IF onceV THEN "give" ELSE "create"
      /\ pc' \in [Threads -> PC]
      /\ \A u \in Threads \ {t} : pc'[u] = pc[u]
  <2>1. ASSUME Step(t, "swap", "create"), ~ onceV PROVE <1>1
    BY <2>1, StepOf DEF IInv, PC
  <2>2. ASSUME Step(t, "swap", "give"), onceV PROVE <1>1
    BY <2>2, StepOf DEF IInv, PC
  <2> QED
    BY <2>1, <2>2 DEF OnceSwap
<1>2. TypeOK'
  BY <1>1 DEF IInv, TypeOK, OnceSwap, keys
<1>3. KeyInv'
  <2>1. onceM = t /\ \A u \in Threads : pc[u] \notin {"create", "store", "give"}
    BY <1>1 DEF IInv, KeyInv
  <2>2. onceV => key
    BY <2>1 DEF IInv, KeyInv
  <2> QED
    BY <1>1, <2>1, <2>2 DEF IInv, KeyInv, OnceSwap, keys
<1>4. Quiet
  BY <1>1 DEF IInv, PlaceInv, OnceSwap, Quiet, InFunction, Lives, Registering
<1> QED
  BY <1>2, <1>3, <1>4, QuietKeepsPlaces, QuietKeepsPointers, QuietKeepsSpare, QuietKeepsChains DEF IInv

LEMMA KeyCreateKeeps ==
  ASSUME IInv, NEW t \in Threads, KeyCreate(t) PROVE IInv'
<1>1. /\ pc[t] = "create" /\ pc'[t] = "store" /\ pc' \in [Threads -> PC]
      /\ \A u \in Threads \ {t} : pc'[u] = pc[u]
  BY StepOf DEF IInv, KeyCreate, PC
<1>2. value' = value
  BY <1>1 DEF IInv, TypeOK, KeyInv, KeyCreate
<1>3. TypeOK'
  BY <1>1, <1>2 DEF IInv, TypeOK, KeyCreate, once
<1>4. KeyInv'
  BY <1>1, <1>2 DEF IInv, KeyInv, KeyCreate, once
<1>5. Quiet
  BY <1>1, <1>2 DEF IInv, PlaceInv, KeyCreate, Quiet, InFunction, Lives, Registering
<1> QED
  BY <1>3, <1>4, <1>5, QuietKeepsPlaces, QuietKeepsPointers, QuietKeepsSpare, QuietKeepsChains DEF IInv

LEMMA KeyStoreKeeps ==
  ASSUME IInv, NEW t \in Threads, KeyStore(t) PROVE IInv'
<1>1. /\ pc[t] = "store" /\ pc'[t] = "give" /\ pc' \in [Threads -> PC]
      /\ \A u \in Threads \ {t} : pc'[u] = pc[u]
  BY StepOf DEF IInv, KeyStore, PC
<1>2. TypeOK'
  BY <1>1 DEF IInv, TypeOK, KeyStore, once
<1>3. KeyInv'
  BY <1>1 DEF IInv, KeyInv, KeyStore, once
<1>4. Quiet
  BY <1>1 DEF IInv, PlaceInv, KeyStore, Quiet, InFunction, Lives, Registering
<1> QED
  BY <1>2, <1>3, <1>4, QuietKeepsPlaces, QuietKeepsPointers, QuietKeepsSpare, QuietKeepsChains DEF IInv

LEMMA OnceGiveKeeps ==
  ASSUME IInv, NEW t \in Threads, OnceGive(t) PROVE IInv'
<1>1. /\ pc[t] = "give" /\ pc'[t] = "get" /\ pc' \in [Threads -> PC]
      /\ \A u \in Threads \ {t} : pc'[u] = pc[u]
  BY StepOf DEF IInv, OnceGive, PC
<1>2. TypeOK'
  BY <1>1 DEF IInv, TypeOK, OnceGive, keys
<1>3. KeyInv'
  BY <1>1, NullIsFresh DEF IInv, KeyInv, OnceGive, keys
<1>4. Quiet
  BY <1>1 DEF IInv, PlaceInv, OnceGive, Quiet, InFunction, Lives, Registering
<1> QED
  BY <1>2, <1>3, <1>4, QuietKeepsPlaces, QuietKeepsPointers, QuietKeepsSpare, QuietKeepsChains DEF IInv

LEMMA GetSpecificKeeps ==
  ASSUME IInv, NEW t \in Threads, GetSpecific(t) PROVE IInv'
<1>1. /\ pc[t] = "get" /\ pc'[t] = "set" /\ pc' \in [Threads -> PC]
      /\ \A u \in Threads \ {t} : pc'[u] = pc[u]
  BY StepOf DEF IInv, GetSpecific, PC
<1>2. elt[t] \in Elements /\ elt[t][1] = t /\ addr[t] \in Addrs
  BY <1>1 DEF IInv, TypeOK, PlaceInv, Registering
<1>3. /\ next'[elt[t]] = value[addr[t]] /\ next' \in [Elements -> Elements \cup {Null}]
      /\ \A e \in Elements : e # elt[t] => next'[e] = next[e]
  BY <1>2 DEF IInv, TypeOK, GetSpecific
<1>4. TypeOK'
  BY <1>1, <1>3 DEF IInv, TypeOK, GetSpecific, keys, once
<1>5. KeyInv'
  BY <1>1, KeyKept DEF IInv, KeyInv, GetSpecific
<1>6. Quiet
  <2>1. \A u \in Threads : pc'[u] = "set" => next'[elt[u]] = value[addr[u]]
    <3>1. ASSUME NEW u \in Threads \ {t}, pc[u] = "set" PROVE next'[elt[u]] = value[addr[u]]
      <4>1. elt[u] \in Elements /\ elt[u] # elt[t]
        BY <3>1, <1>2 DEF IInv, TypeOK, PlaceInv, Registering
      <4> QED
        BY <3>1, <4>1, <1>3 DEF IInv, PlaceInv
    <3> QED
      BY <3>1, <1>1, <1>3
  <2> QED
    BY <2>1, <1>1, <1>3 DEF GetSpecific, Quiet, InFunction, Lives, Registering
<1> QED
  BY <1>4, <1>5, <1>6, QuietKeepsPlaces, QuietKeepsPointers, QuietKeepsSpare, QuietKeepsChains DEF IInv

LEMMA ReturnKeeps ==
  ASSUME IInv, NEW t \in Threads, Return(t) PROVE IInv'
<1>1. /\ pc[t] = "function" /\ pc'[t] = "returned" /\ pc' \in [Threads -> PC]
      /\ \A u \in Threads \ {t} : pc'[u] = pc[u]
  BY StepOf DEF IInv, Return, PC
<1>2. TypeOK'
  BY <1>1 DEF IInv, TypeOK, Return, keys, once
<1>3. KeyInv'
  BY <1>1, KeyKept DEF IInv, KeyInv, Return
<1>4. Quiet
  BY <1>1 DEF IInv, PlaceInv, Return, Quiet, InFunction, Lives, Registering
<1> QED
  BY <1>2, <1>3, <1>4, QuietKeepsPlaces, QuietKeepsPointers, QuietKeepsSpare, QuietKeepsChains DEF IInv

LEMMA VanishKeeps ==
  ASSUME IInv, NEW t \in Threads, Vanish(t) PROVE IInv'
<1>1. /\ pc[t] = "joined" /\ pc'[t] = "gone" /\ pc' \in [Threads -> PC]
      /\ \A u \in Threads \ {t} : pc'[u] = pc[u]
  BY StepOf DEF IInv, Vanish, PC
<1>2. TypeOK'
  BY <1>1 DEF IInv, TypeOK, Vanish, keys, once
<1>3. KeyInv'
  BY <1>1, KeyKept DEF IInv, KeyInv, Vanish
<1>4. Quiet
  BY <1>1 DEF IInv, PlaceInv, Vanish, Quiet, InFunction, Lives, Registering
<1> QED
  BY <1>2, <1>3, <1>4, QuietKeepsPlaces, QuietKeepsPointers, QuietKeepsSpare, QuietKeepsChains DEF IInv

(***************************************************************************)
(* The steps that the lists are made and used by.                          *)
(***************************************************************************)
OnList(t, i) == state[<<t, i>>] = "linked" /\ <<t, i>> # elt[t] /\ <<t, i>> # cur[t]

(* The list of a thread is kept, if its elements and its head are.         *)
LEMMA ChainKept ==
  ASSUME NEW t \in Threads, \E k \in 0..MaxElements : Chain(t, k),
         Head(t)' = Head(t), elt'[t] = elt[t],
         elt[t] # Null => (cur'[t] = Null <=> cur[t] = Null),
         \A i \in 1..MaxElements :
           /\ OnList(t, i)' <=> OnList(t, i)
           /\ OnList(t, i) => next'[<<t, i>>] = next[<<t, i>>]
           /\ OnList(t, i) /\ Spare(next[<<t, i>>]) => Spare(next[<<t, i>>])',
         Spare(Head(t)) => Spare(Head(t))'
  PROVE  \E k \in 0..MaxElements : Chain(t, k)'
<1>1. PICK k \in 0..MaxElements : Chain(t, k)
  OBVIOUS
<1>2. \A i \in 1..k : OnList(t, i) /\ i \in 1..MaxElements
  BY <1>1, Bounds DEF Chain, OnList
<1>3. Chain(t, k)'
  <2>1. \A i \in 1..MaxElements : OnList(t, i)' <=> i <= k
    BY <1>1 DEF Chain, OnList
  <2>2. ASSUME NEW i \in 1..k
        PROVE  IF i = 1 THEN Spare(next[<<t, i>>])' ELSE next'[<<t, i>>] = <<t, i - 1>>
    BY <1>1, <1>2 DEF Chain
  <2>3. IF k = 0 THEN Spare(Head(t))' ELSE Head(t)' = <<t, k>>
    BY <1>1 DEF Chain
  <2>4. elt'[t] # Null /\ cur'[t] = Null => elt'[t] = <<t, k + 1>>
    BY <1>1 DEF Chain
  <2> QED
    BY <2>1, <2>2, <2>3, <2>4 DEF Chain, OnList
<1> QED
  BY <1>3

LEMMA TestKeyKeeps ==
  ASSUME IInv, NEW t \in Threads, TestKey(t) PROVE IInv'
<1>1. /\ pc[t] = "returned" /\ pc'[t] = IF sKey THEN "take" ELSE "joined"
      /\ pc' \in [Threads -> PC]
      /\ \A u \in Threads \ {t} : pc'[u] = pc[u]
  <2>1. ASSUME Step(t, "returned", "take"), sKey PROVE <1>1
    BY <2>1, StepOf DEF IInv, PC
  <2>2. ASSUME Step(t, "returned", "joined"), ~ sKey PROVE <1>1
    BY <2>2, StepOf DEF IInv, PC
  <2> QED
    BY <2>1, <2>2 DEF TestKey
<1>2. TypeOK'
  BY <1>1 DEF IInv, TypeOK, TestKey, keys, once
<1>3. KeyInv'
  BY <1>1, KeyKept DEF IInv, KeyInv, TestKey
<1>4. CASE sKey
  <2>1. Quiet
    BY <1>1, <1>4 DEF IInv, PlaceInv, TestKey, Quiet, InFunction, Lives, Registering
  <2> QED
    BY <1>2, <1>3, <2>1, QuietKeepsPlaces, QuietKeepsPointers, QuietKeepsSpare, QuietKeepsChains DEF IInv
<1>5. CASE ~ sKey
  <2>1. /\ UNCHANGED <<value, next, state, elt, list, cur, addr>>
        /\ \A a \in Addrs : value[a] = Null
        /\ pc'[t] = "joined" /\ addr[t] \in Addrs /\ list[t] = Null /\ cur[t] = Null /\ elt[t] = Null
    BY <1>1, <1>5 DEF IInv, TypeOK, KeyInv, PlaceInv, TestKey, Registering
  <2>2. \A u \in Threads \ {t} : (InFunction(u)' <=> InFunction(u)) /\ (Lives(u)' <=> Lives(u))
    BY <1>1, <2>1 DEF InFunction, Lives
  <2>3. InFunction(t) /\ ~ InFunction(t)' /\ Lives(t)
    BY <1>1, <2>1 DEF InFunction, Lives, Registering
  <2>4. PlaceInv'
    BY <1>1, <2>1, <2>2, <2>3 DEF IInv, PlaceInv, Registering
  <2>5. PointerInv'
    BY <2>1 DEF IInv, PointerInv, Exists, LinkOf, InList
  <2>6. SpareInv'
    BY <2>1 DEF IInv, SpareInv, Spare, LinkOf, InList
  <2>7. ChainInv'
    <3> SUFFICES ASSUME NEW u \in Threads PROVE \E k \in 0..MaxElements : Chain(u, k)'
      BY DEF ChainInv
    <3>1. Head(u)' = Head(u)
      <4>1. CASE u = t
        BY <4>1, <2>1, <2>3 DEF Head
      <4>2. CASE u # t
        BY <4>2, <2>1, <2>2 DEF Head
      <4> QED
        BY <4>1, <4>2
    <3> QED
      BY <3>1, <2>1, ChainKept DEF IInv, ChainInv, OnList, Spare
  <2> QED
    BY <1>2, <1>3, <2>4, <2>5, <2>6, <2>7 DEF IInv
<1> QED
  BY <1>4, <1>5

(* A new thread has no list, whatever is left at its address.              *)
LEMMA StartKeeps ==
  ASSUME IInv, NEW t \in Threads, NEW a \in Addrs, Start(t, a) PROVE IInv'
<1>1. /\ pc[t] = "unborn" /\ pc'[t] = "function" /\ pc' \in [Threads -> PC]
      /\ \A u \in Threads \ {t} : pc'[u] = pc[u]
  BY StepOf DEF IInv, Start, PC
<1>2. /\ addr'[t] = a /\ addr' \in [Threads -> Addrs \cup {Null}]
      /\ \A u \in Threads \ {t} : addr'[u] = addr[u]
      /\ \A u \in Threads : addr[u] = a => pc[u] = "gone"
      /\ UNCHANGED <<keys, once, value, next, state, elt, list, cur>>
  BY DEF IInv, TypeOK, Start
<1>3. TypeOK'
  BY <1>1, <1>2 DEF IInv, TypeOK, keys, once
<1>4. KeyInv'
  BY <1>1, <1>2, KeyKept DEF IInv, KeyInv
<1>5. /\ elt[t] = Null /\ cur[t] = Null /\ list[t] = Null /\ a # Null
      /\ \A e \in Elements : e[1] = t => state[e] = "new"
  BY <1>1, NullIsFresh DEF IInv, PlaceInv, Registering
<1>6. /\ \A u \in Threads \ {t} : (InFunction(u)' <=> InFunction(u)) /\ (Lives(u)' <=> Lives(u))
      /\ InFunction(t)' /\ ~ InFunction(t)
  BY <1>1, <1>2 DEF InFunction, Lives, Registering
<1>7. PlaceInv'
  <2>1. \A u, w \in Threads : Lives(u)' /\ Lives(w)' /\ addr'[u] = addr'[w] => u = w
    BY <1>1, <1>2, <1>6 DEF IInv, PlaceInv, Lives
  <2> QED
    BY <2>1, <1>1, <1>2, <1>5, <1>6 DEF IInv, PlaceInv, Registering
<1>8. PointerInv'
  BY <1>2 DEF IInv, PointerInv, Exists, LinkOf, InList
<1>9. Spare(value[a])
  BY <1>2 DEF IInv, SpareInv, InFunction, Registering
<1>10. SpareInv'
  BY <1>1, <1>2, <1>6, <1>9 DEF IInv, SpareInv, Spare, LinkOf, InList
<1>11. ChainInv'
  <2> SUFFICES ASSUME NEW u \in Threads PROVE \E k \in 0..MaxElements : Chain(u, k)'
    BY DEF ChainInv
  <2>1. CASE u = t
    <3>1. Chain(t, 0)'
      BY <1>2, <1>5, <1>6, <1>9, Bounds DEF Chain, Head, Spare, Elements
    <3> QED
      BY <2>1, <3>1, Bounds
  <2>2. CASE u # t
    <3>1. Head(u)' = Head(u)
      BY <2>2, <1>2, <1>6 DEF Head
    <3> QED
      BY <3>1, <1>2, ChainKept DEF IInv, ChainInv, OnList, Spare
  <2> QED
    BY <2>1, <2>2
<1> QED
  BY <1>3, <1>4, <1>7, <1>8, <1>10, <1>11 DEF IInv

(* A new element is in no list, and is the next one of its thread.         *)
LEMMA RegisterKeeps ==
  ASSUME IInv, NEW t \in Threads, NEW e \in Elements, Register(t, e) PROVE IInv'
<1> DEFINE kind == IF pc[t] = "function" THEN "linked" ELSE "late"
<1>1. /\ pc[t] \in {"function", "callback"} /\ pc'[t] = "once" /\ pc' \in [Threads -> PC]
      /\ \A u \in Threads \ {t} : pc'[u] = pc[u]
  <2>1. ASSUME Step(t, "function", "once") PROVE <1>1
    BY <2>1, StepOf DEF IInv, PC
  <2>2. ASSUME Step(t, "callback", "once") PROVE <1>1
    BY <2>2, StepOf DEF IInv, PC
  <2> QED
    BY <2>1, <2>2 DEF Register
<1>2. /\ e[1] = t /\ state[e] = "new" /\ e # Null
      /\ \A i \in 1..(e[2] - 1) : state[<<t, i>>] # "new"
      /\ UNCHANGED <<keys, once, value, next, list, cur, addr>>
  BY NullIsFresh DEF Register
<1>3. /\ state' \in [Elements -> {"new", "linked", "late", "deleted"}]
      /\ state'[e] = kind /\ \A x \in Elements : x # e => state'[x] = state[x]
      /\ elt' \in [Threads -> Elements \cup {Null}]
      /\ elt'[t] = e /\ \A u \in Threads \ {t} : elt'[u] = elt[u]
  BY DEF Register, IInv, TypeOK
<1>4. elt[t] = Null /\ (cur[t] = Null <=> pc[t] = "function")
  BY <1>1 DEF IInv, PlaceInv, Registering
<1>5. kind \in {"linked", "late"} /\ (kind = "linked" <=> cur[t] = Null)
  BY <1>4
<1> HIDE DEF kind
<1>6. TypeOK'
  BY <1>1, <1>2, <1>3 DEF IInv, TypeOK, keys, once
<1>7. KeyInv'
  BY <1>1, <1>2, KeyKept DEF IInv, KeyInv
<1>8. /\ \A u \in Threads : (InFunction(u)' <=> InFunction(u)) /\ (Lives(u)' <=> Lives(u))
      /\ InFunction(t) <=> cur[t] = Null
  BY <1>1, <1>2, <1>4 DEF InFunction, Lives, Registering
<1>9. PlaceInv'
  <2>1. ASSUME NEW u \in Threads, u # t
        PROVE  /\ \A x \in Elements : x[1] = u => state'[x] = state[x]
               /\ elt'[u] # Null => elt'[u][1] = u /\ state'[elt'[u]] = IF cur[u] = Null THEN "linked" ELSE "late"
               /\ cur[u] # Null => state'[cur[u]] = state[cur[u]]
               /\ pc'[u] = "set" => next'[elt'[u]] = value'[addr'[u]]
    <3>1. elt[u] # Null => elt[u] # e
      BY <2>1, <1>2 DEF IInv, PlaceInv
    <3>2. cur[u] # Null => cur[u] # e
      BY <1>2 DEF IInv, PointerInv, Exists
    <3> QED
      BY <2>1, <3>1, <3>2, <1>1, <1>2, <1>3 DEF IInv, TypeOK, PlaceInv
  <2>2. cur[t] # Null => cur[t] # e /\ state'[cur[t]] = state[cur[t]]
    BY <1>2, <1>3 DEF IInv, TypeOK, PointerInv, Exists
  <2>3. InFunction(t) => \A x \in Elements : x[1] = t => state'[x] \in {"new", "linked"}
    BY <1>3, <1>5, <1>8 DEF IInv, PlaceInv
  <2> QED
    BY <2>1, <2>2, <2>3, <1>1, <1>2, <1>3, <1>4, <1>5, <1>8 DEF IInv, PlaceInv, Registering
<1>10. \A x \in Elements : LinkOf(x)' = LinkOf(x)
  <2> SUFFICES ASSUME NEW x \in Elements PROVE InList(x)' <=> InList(x)
    BY <1>2 DEF LinkOf
  <2>1. CASE x = e
    BY <2>1, <1>2, <1>3 DEF InList
  <2>2. CASE x # e
    <3>1. x # Null
      BY NullIsFresh
    <3> QED
      BY <2>2, <3>1, <1>2, <1>3, <1>4 DEF InList
  <2> QED
    BY <2>1, <2>2
<1>11. PointerInv'
  <2>1. /\ \A a \in Addrs : value[a] # e
        /\ \A u \in Threads : list[u] # e /\ cur[u] # e /\ (u # t => elt[u] # e)
        /\ \A x \in Elements : LinkOf(x) # e
    BY <1>2 DEF IInv, PointerInv, Exists
  <2>2. \A x \in Elements \cup {Null} : Exists(x) => Exists(x)'
    BY <1>3, <1>5 DEF Exists
  <2>3. /\ \A a \in Addrs : Exists(value[a])'
        /\ \A u \in Threads : Exists(list[u])' /\ Exists(cur[u])' /\ Exists(elt[u])'
        /\ \A x \in Elements : Exists(LinkOf(x))'
    <3>1. \A x \in Elements : LinkOf(x) \in Elements \cup {Null}
      BY DEF IInv, TypeOK, LinkOf
    <3> QED
      BY <3>1, <2>2, <1>2, <1>3, <1>5, <1>10 DEF IInv, TypeOK, PointerInv, Exists
  <2>4. \A u, w \in Threads : Differ(list[u], elt'[w]) /\ Differ(cur[u], elt'[w])
    BY <2>1, <1>3 DEF IInv, PointerInv, Differ
  <2>5. \A a \in Addrs, u \in Threads : Differ(value[a], elt'[u])
    BY <2>1, <1>3 DEF IInv, PointerInv, Differ
  <2>6. \A x \in Elements, u \in Threads : Differ(LinkOf(x), elt'[u])
    BY <2>1, <1>3 DEF IInv, PointerInv, Differ
  <2> QED
    BY <2>3, <2>4, <2>5, <2>6, <1>2, <1>10 DEF IInv, PointerInv, Differ
<1>12. \A x \in Elements \cup {Null} : Spare(x) => Spare(x)'
  BY <1>2, <1>3 DEF Spare
<1>13. SpareInv'
  <2>1. \A x \in Elements : LinkOf(x) \in Elements \cup {Null}
    BY DEF IInv, TypeOK, LinkOf
  <2>2. ASSUME NEW x \in Elements, state'[x] = "late" PROVE Spare(LinkOf(x))'
    <3>1. CASE x = e
      BY <3>1, <1>2, <1>10 DEF LinkOf, InList, Spare
    <3>2. CASE x # e
      BY <3>2, <2>1, <2>2, <1>3, <1>10, <1>12 DEF IInv, SpareInv, Spare
    <3> QED
      BY <3>1, <3>2
  <2>3. \A a \in Addrs : ~ Spare(value[a])' => ~ Spare(value[a])
    BY <1>2, <1>12 DEF IInv, TypeOK, Spare
  <2> QED
    BY <2>2, <2>3, <1>2, <1>8 DEF IInv, SpareInv
<1>14. ChainInv'
  <2> SUFFICES ASSUME NEW u \in Threads PROVE \E k \in 0..MaxElements : Chain(u, k)'
    BY DEF ChainInv
  <2>1. Head(u)' = Head(u) /\ Head(u) \in Elements \cup {Null}
    <3>1. InFunction(u) => addr[u] \in Addrs
      BY DEF IInv, TypeOK, PlaceInv, InFunction, Registering
    <3> QED
      BY <3>1, <1>2, <1>8 DEF Head, IInv, TypeOK
  <2>2. CASE u # t
    <3>1. \A i \in 1..MaxElements : <<u, i>> # e /\ <<u, i>> \in Elements /\ next[<<u, i>>] \in Elements \cup {Null}
      BY <2>2, <1>2 DEF Elements, IInv, TypeOK
    <3>2. \A i \in 1..MaxElements : OnList(u, i)' <=> OnList(u, i)
      BY <2>2, <3>1, <1>2, <1>3 DEF OnList
    <3>3. (Spare(Head(u)) => Spare(Head(u))')
          /\ \A i \in 1..MaxElements : Spare(next[<<u, i>>]) => Spare(next[<<u, i>>])'
      BY <2>1, <3>1, <1>2, <1>12 DEF Spare
    <3> QED
      BY <2>1, <2>2, <3>2, <3>3, <1>2, <1>3, ChainKept DEF IInv, ChainInv
  <2>3. CASE u = t
    <3>1. PICK k \in 0..MaxElements : Chain(t, k)
      BY DEF IInv, ChainInv
    <3>2. /\ \A i \in 1..MaxElements : OnList(t, i) <=> i <= k
          /\ \A i \in 1..MaxElements : OnList(t, i)' <=> OnList(t, i)
      <4>1. \A i \in 1..MaxElements : <<t, i>> \in Elements /\ <<t, i>> # Null
        BY NullIsFresh DEF Elements
      <4> QED
        BY <3>1, <4>1, <1>2, <1>3, <1>4 DEF Chain, OnList
    <3>3. cur[t] = Null => e = <<t, k + 1>>
      <4> SUFFICES ASSUME cur[t] = Null PROVE e = <<t, k + 1>>
        OBVIOUS
      <4>1. PICK j \in 1..MaxElements : e = <<t, j>>
        BY <1>2 DEF Elements
      <4>2. ~ (j <= k)
        BY <3>2, <4>1, <1>2 DEF OnList
      <4>3. ASSUME j # 1 PROVE j - 1 <= k
        <5>1. j - 1 \in 1..(j - 1) /\ j - 1 \in 1..MaxElements
          BY <4>3, Bounds
        <5>2. <<t, j - 1>> \in Elements /\ <<t, j - 1>>[1] = t /\ state[<<t, j - 1>>] # "new"
          BY <5>1, <4>1, <1>2 DEF Elements
        <5>3. state[<<t, j - 1>>] = "linked"
          BY <5>2, <1>8 DEF IInv, PlaceInv
        <5>4. OnList(t, j - 1)
          BY <5>2, <5>3, <1>4, NullIsFresh DEF OnList
        <5> QED
          BY <5>1, <5>4, <3>2
      <4> QED
        BY <4>1, <4>2, <4>3, Bounds
    <3>4. Chain(t, k)'
      <4>1. \A i \in 1..k : i \in 1..MaxElements /\ <<t, i>> \in Elements /\ next[<<t, i>>] \in Elements \cup {Null}
        BY Bounds DEF Elements, IInv, TypeOK
      <4>2. \A i \in 1..k : IF i = 1 THEN Spare(next[<<t, i>>])' ELSE next'[<<t, i>>] = <<t, i - 1>>
        BY <3>1, <4>1, <1>2, <1>12 DEF Chain, Spare
      <4>3. IF k = 0 THEN Spare(Head(t))' ELSE Head(t)' = <<t, k>>
        BY <3>1, <2>1, <2>3, <1>12 DEF Chain, Spare
      <4> QED
        BY <3>2, <3>3, <4>2, <4>3, <1>2, <1>3 DEF Chain, OnList
    <3> QED
      BY <2>3, <3>4
  <2> QED
    BY <2>2, <2>3
<1> QED
  BY <1>6, <1>7, <1>9, <1>11, <1>13, <1>14 DEF IInv

(* The value moves from the map to the link of the element, the element to *)
(* the map.                                                                *)
LEMMA SetSpecificKeeps ==
  ASSUME IInv, NEW t \in Threads, SetSpecific(t) PROVE IInv'
<1>0. PICK e \in Elements, a \in Addrs, v \in Elements \cup {Null} :
        e = elt[t] /\ a = addr[t] /\ v = value[a]
  <2>1. elt[t] \in Elements /\ addr[t] \in Addrs
    BY DEF IInv, TypeOK, PlaceInv, Registering, SetSpecific
  <2> QED
    BY <2>1 DEF IInv, TypeOK
<1>1. /\ pc[t] = "set" /\ pc'[t] = IF cur[t] = Null THEN "function" ELSE "callback"
      /\ pc' \in [Threads -> PC]
      /\ \A u \in Threads \ {t} : pc'[u] = pc[u]
  BY DEF IInv, TypeOK, SetSpecific, Caller, PC
<1>2. /\ e # Null /\ e[1] = t /\ next[e] = v
      /\ state[e] = IF cur[t] = Null THEN "linked" ELSE "late"
      /\ key /\ sKey
  BY <1>0, <1>1 DEF IInv, TypeOK, KeyInv, PlaceInv, Registering
<1>3. /\ value' \in [Addrs -> Elements \cup {Null}]
      /\ value'[a] = e /\ \A b \in Addrs : b # a => value'[b] = value[b]
      /\ elt' \in [Threads -> Elements \cup {Null}]
      /\ elt'[t] = Null /\ \A u \in Threads \ {t} : elt'[u] = elt[u]
      /\ UNCHANGED <<keys, once, next, state, list, cur, addr>>
  BY <1>0, <1>2 DEF SetSpecific, IInv, TypeOK
<1>4. TypeOK'
  BY <1>1, <1>3 DEF IInv, TypeOK, keys, once
<1>5. KeyInv'
  BY <1>1, <1>2, <1>3, KeyKept DEF IInv, KeyInv
<1>6. /\ \A u \in Threads : (InFunction(u)' <=> InFunction(u)) /\ (Lives(u)' <=> Lives(u))
      /\ (InFunction(t) <=> cur[t] = Null) /\ Lives(t)
  BY <1>1, <1>3 DEF InFunction, Lives, Registering
<1>7. \A u \in Threads \ {t} : Lives(u) => addr[u] # a
  BY <1>6, <1>0 DEF IInv, PlaceInv
<1>8. PlaceInv'
  <2>1. \A u \in Threads \ {t} : pc'[u] = "set" => next'[elt'[u]] = value'[addr'[u]]
    <3>1. ASSUME NEW u \in Threads \ {t}, pc[u] = "set" PROVE addr[u] \in Addrs /\ addr[u] # a
      BY <3>1, <1>7 DEF IInv, TypeOK, PlaceInv, Lives
    <3> QED
      BY <3>1, <1>1, <1>3 DEF IInv, PlaceInv
  <2> QED
    BY <2>1, <1>1, <1>2, <1>3, <1>6 DEF IInv, PlaceInv, Registering
<1>9. \A u \in Threads : /\ u # t => elt[u] # e
                         /\ list[u] # e /\ cur[u] # e
  BY <1>2, <1>0 DEF IInv, PlaceInv, PointerInv, Differ
<1>10. LinkOf(e) = Null /\ LinkOf(e)' = v /\ \A x \in Elements : x # e => LinkOf(x)' = LinkOf(x)
  <2>1. ~ InList(e)
    BY <1>0 DEF InList
  <2>2. InList(e)'
    BY <1>2, <1>3, <1>9 DEF InList
  <2>3. ASSUME NEW x \in Elements, x # e PROVE InList(x)' <=> InList(x)
    <3>1. x # Null
      BY NullIsFresh
    <3> QED
      BY <2>3, <3>1, <1>3, <1>0 DEF InList
  <2> QED
    BY <2>1, <2>2, <2>3, <1>2, <1>3 DEF LinkOf
<1>11. PointerInv'
  <2>1. /\ \A b \in Addrs : value[b] # e
        /\ \A x \in Elements : LinkOf(x) # e
    BY <1>2, <1>0 DEF IInv, PointerInv, Differ
  <2>2. /\ \A b \in Addrs : b # a => Differ(v, value[b]) /\ Differ(value[b], v)
        /\ \A u \in Threads : Differ(v, list[u]) /\ Differ(v, cur[u]) /\ Differ(v, elt[u])
        /\ \A x \in Elements : Differ(LinkOf(x), v) /\ Differ(v, LinkOf(x))
    BY <1>2, <1>0 DEF IInv, PointerInv, Differ
  <2>3. /\ \A b \in Addrs : Exists(value[b])'
        /\ \A u \in Threads : Exists(list[u])' /\ Exists(cur[u])' /\ Exists(elt[u])'
        /\ \A x \in Elements : Exists(LinkOf(x))'
    BY <1>2, <1>3, <1>10, <1>0 DEF IInv, PointerInv, Exists
  <2>4. \A b, c \in Addrs : b # c => Differ(value'[b], value'[c])
    BY <2>1, <1>2, <1>3 DEF IInv, PointerInv, Differ
  <2>5. \A u, w \in Threads :
          /\ u # w => Differ(list'[u], list'[w]) /\ Differ(cur'[u], cur'[w])
          /\ Differ(list'[u], cur'[w]) /\ Differ(list'[u], elt'[w]) /\ Differ(cur'[u], elt'[w])
    BY <1>3 DEF IInv, PointerInv, Differ
  <2>6. \A b \in Addrs, u \in Threads :
          Differ(value'[b], list'[u]) /\ Differ(value'[b], cur'[u]) /\ Differ(value'[b], elt'[u])
    BY <1>2, <1>3, <1>9 DEF IInv, PointerInv, Differ
  <2>7. \A x, y \in Elements : x # y => Differ(LinkOf(x)', LinkOf(y)')
    BY <2>2, <1>10 DEF IInv, PointerInv, Differ
  <2>8. ASSUME NEW x \in Elements
        PROVE  /\ \A b \in Addrs : Differ(LinkOf(x)', value'[b])
               /\ \A u \in Threads : /\ Differ(LinkOf(x)', list'[u]) /\ Differ(LinkOf(x)', cur'[u])
                                     /\ Differ(LinkOf(x)', elt'[u])
    <3>1. CASE x = e
      <4>1. v # e
        BY <2>1, <1>2, <1>0
      <4> QED
        BY <3>1, <4>1, <2>2, <1>3, <1>10 DEF Differ
    <3>2. CASE x # e
      BY <3>2, <2>1, <2>2, <1>3, <1>10 DEF IInv, PointerInv, Differ
    <3> QED
      BY <3>1, <3>2
  <2> QED
    BY <2>3, <2>4, <2>5, <2>6, <2>7, <2>8 DEF PointerInv
<1>12. cur[t] # Null => Spare(v)
  BY <1>2, <1>6, <1>7, <1>0 DEF IInv, SpareInv, InFunction, Lives, Registering
<1>13. SpareInv'
  <2>1. ASSUME NEW x \in Elements, state[x] = "late" PROVE Spare(LinkOf(x))'
    <3>1. CASE x = e
      BY <2>1, <3>1, <1>2, <1>3, <1>10, <1>12 DEF Spare
    <3>2. CASE x # e
      BY <2>1, <3>2, <1>3, <1>10 DEF IInv, SpareInv, Spare
    <3> QED
      BY <3>1, <3>2
  <2>2. ASSUME NEW b \in Addrs, ~ Spare(value[b])' PROVE \E u \in Threads : addr[u] = b /\ InFunction(u)
    <3>1. CASE b = a
      BY <2>2, <3>1, <1>2, <1>3, <1>6, <1>0 DEF Spare
    <3>2. CASE b # a
      BY <2>2, <3>2, <1>3 DEF IInv, SpareInv, Spare
    <3> QED
      BY <3>1, <3>2
  <2> QED
    BY <2>1, <2>2, <1>3, <1>6 DEF SpareInv
<1>14. ChainInv'
  <2> SUFFICES ASSUME NEW u \in Threads PROVE \E k \in 0..MaxElements : Chain(u, k)'
    BY DEF ChainInv
  <2>1. CASE u # t
    <3>1. Head(u)' = Head(u)
      <4>1. InFunction(u) => addr[u] \in Addrs /\ addr[u] # a
        BY <2>1, <1>7 DEF IInv, TypeOK, PlaceInv, InFunction, Lives, Registering
      <4> QED
        BY <4>1, <1>3, <1>6 DEF Head
    <3> QED
      BY <2>1, <3>1, <1>3, ChainKept DEF IInv, ChainInv, OnList, Spare
  <2>2. CASE u = t
    <3>1. PICK k \in 0..MaxElements : Chain(t, k)
      BY DEF IInv, ChainInv
    <3>2. \A i \in 1..MaxElements : <<t, i>> \in Elements /\ <<t, i>> # Null
      BY NullIsFresh DEF Elements
    <3>3. CASE cur[t] = Null
      <4>1. e = <<t, k + 1>> /\ k + 1 \in 1..MaxElements
        <5>1. e = <<t, k + 1>>
          BY <3>1, <3>3, <1>2, <1>0 DEF Chain
        <5> QED
          BY <5>1, <1>2, Bounds DEF Elements
      <4>2. \A i \in 1..MaxElements : OnList(t, i)' <=> i <= k + 1
        <5> SUFFICES ASSUME NEW i \in 1..MaxElements PROVE OnList(t, i)' <=> i <= k + 1
          OBVIOUS
        <5>1. OnList(t, i) <=> i <= k
          BY <3>1 DEF Chain, OnList
        <5>2. OnList(t, i)' <=> state[<<t, i>>] = "linked"
          BY <3>2, <3>3, <1>3 DEF OnList
        <5>3. OnList(t, i) <=> state[<<t, i>>] = "linked" /\ <<t, i>> # e
          BY <3>2, <3>3, <1>0 DEF OnList
        <5>4. <<t, i>> = e <=> i = k + 1
          BY <4>1
        <5> QED
          BY <5>1, <5>2, <5>3, <5>4, <1>2, <3>3
      <4>3. v = Head(t) /\ Head(t)' = e
        BY <3>3, <1>3, <1>6, <1>0 DEF Head
      <4>4. \A i \in 1..(k + 1) :
              IF i = 1 THEN Spare(next[<<t, i>>])' ELSE next'[<<t, i>>] = <<t, i - 1>>
        <5> SUFFICES ASSUME NEW i \in 1..(k + 1)
                     PROVE  IF i = 1 THEN Spare(next[<<t, i>>]) ELSE next[<<t, i>>] = <<t, i - 1>>
          BY <1>3 DEF Spare
        <5>1. CASE i \in 1..k
          BY <5>1, <3>1 DEF Chain
        <5>2. CASE i = k + 1 /\ k = 0
          BY <5>2, <3>1, <4>1, <4>3, <1>2 DEF Chain
        <5>3. CASE i = k + 1 /\ k # 0
          BY <5>3, <3>1, <4>1, <4>3, <1>2 DEF Chain
        <5> QED
          BY <5>1, <5>2, <5>3
      <4>5. Chain(t, k + 1)'
        BY <4>1, <4>2, <4>3, <4>4, <1>3 DEF Chain, OnList
      <4> QED
        BY <2>2, <4>1, <4>5
    <3>4. CASE cur[t] # Null
      <4>1. \A i \in 1..MaxElements : OnList(t, i)' <=> OnList(t, i)
        BY <3>2, <3>4, <1>2, <1>3, <1>0 DEF OnList
      <4>2. Head(t)' = Head(t)
        BY <3>4, <1>3, <1>6 DEF Head
      <4>3. Chain(t, k)'
        BY <3>1, <4>1, <4>2, <1>3 DEF Chain, OnList, Spare
      <4> QED
        BY <2>2, <4>3
    <3> QED
      BY <3>3, <3>4
  <2> QED
    BY <2>1, <2>2
<1> QED
  BY <1>4, <1>5, <1>8, <1>11, <1>13, <1>14 DEF IInv

(* The list moves from the map to the thread.                              *)
LEMMA TakeValueKeeps ==
  ASSUME IInv, NEW t \in Threads, TakeValue(t) PROVE IInv'
<1>0. PICK a \in Addrs, v \in Elements \cup {Null} : a = addr[t] /\ v = value[a]
  <2>1. addr[t] \in Addrs
    BY DEF IInv, TypeOK, PlaceInv, TakeValue, Step
  <2> QED
    BY <2>1 DEF IInv, TypeOK
<1>1. /\ pc[t] = "take" /\ pc'[t] = IF v = Null THEN "joined" ELSE "loop"
      /\ pc' \in [Threads -> PC]
      /\ \A u \in Threads \ {t} : pc'[u] = pc[u]
  <2>1. ASSUME Step(t, "take", "joined"), v = Null PROVE <1>1
    BY <2>1, StepOf DEF IInv, PC
  <2>2. ASSUME Step(t, "take", "loop"), v # Null PROVE <1>1
    BY <2>2, StepOf DEF IInv, PC
  <2> QED
    BY <2>1, <2>2, <1>0 DEF TakeValue
<1>2. /\ value' \in [Addrs -> Elements \cup {Null}]
      /\ value'[a] = Null /\ \A b \in Addrs : b # a => value'[b] = value[b]
      /\ list' \in [Threads -> Elements \cup {Null}]
      /\ list'[t] = v /\ \A u \in Threads \ {t} : list'[u] = list[u]
      /\ UNCHANGED <<keys, once, next, state, elt, cur, addr>>
  BY <1>0 DEF TakeValue, IInv, TypeOK
<1>3. list[t] = Null /\ cur[t] = Null /\ elt[t] = Null
  BY <1>1 DEF IInv, PlaceInv, Registering
<1>4. TypeOK'
  BY <1>1, <1>2 DEF IInv, TypeOK, keys, once
<1>5. KeyInv'
  BY <1>1, <1>2, KeyKept DEF IInv, KeyInv
<1>6. /\ \A u \in Threads \ {t} : (InFunction(u)' <=> InFunction(u)) /\ (Lives(u)' <=> Lives(u))
      /\ InFunction(t) /\ ~ InFunction(t)' /\ Lives(t)
  BY <1>1, <1>2 DEF InFunction, Lives, Registering
<1>7. \A u \in Threads \ {t} : Lives(u) => addr[u] # a
  BY <1>0, <1>6 DEF IInv, PlaceInv
<1>8. PlaceInv'
  <2>1. \A u \in Threads \ {t} : pc'[u] = "set" => next'[elt'[u]] = value'[addr'[u]]
    <3>1. ASSUME NEW u \in Threads \ {t}, pc[u] = "set" PROVE addr[u] \in Addrs /\ addr[u] # a
      BY <3>1, <1>7 DEF IInv, TypeOK, PlaceInv, Lives
    <3> QED
      BY <3>1, <1>1, <1>2 DEF IInv, PlaceInv
  <2> QED
    BY <2>1, <1>1, <1>2, <1>3, <1>6 DEF IInv, PlaceInv, Registering
<1>9. PointerInv'
  <2>1. \A x \in Elements : LinkOf(x)' = LinkOf(x)
    BY <1>2 DEF LinkOf, InList
  <2>2. /\ \A b \in Addrs : b # a => Differ(value[b], v)
        /\ \A u \in Threads : /\ Differ(v, list[u]) /\ Differ(list[u], v)
                              /\ Differ(v, cur[u]) /\ Differ(v, elt[u])
        /\ \A x \in Elements : Differ(LinkOf(x), v)
    BY <1>0 DEF IInv, PointerInv, Differ
  <2>3. Exists(v)
    BY <1>0 DEF IInv, PointerInv
  <2>4. /\ \A b \in Addrs : Exists(value[b])'
        /\ \A u \in Threads : Exists(list[u])' /\ Exists(cur[u])' /\ Exists(elt[u])'
        /\ \A x \in Elements : Exists(LinkOf(x))'
    BY <2>1, <2>3, <1>2 DEF IInv, PointerInv, Exists
  <2>5. /\ \A b, c \in Addrs : b # c => Differ(value'[b], value'[c])
        /\ \A b \in Addrs, u \in Threads :
             Differ(value'[b], list'[u]) /\ Differ(value'[b], cur'[u]) /\ Differ(value'[b], elt'[u])
        /\ \A x \in Elements, b \in Addrs : Differ(LinkOf(x)', value'[b])
    BY <2>1, <2>2, <1>2 DEF IInv, PointerInv, Differ
  <2>6. \A u, w \in Threads :
          /\ u # w => Differ(list'[u], list'[w]) /\ Differ(cur'[u], cur'[w])
          /\ Differ(list'[u], cur'[w]) /\ Differ(list'[u], elt'[w]) /\ Differ(cur'[u], elt'[w])
    BY <2>2, <1>2 DEF IInv, PointerInv, Differ
  <2>7. \A x \in Elements, u \in Threads :
          Differ(LinkOf(x)', list'[u]) /\ Differ(LinkOf(x)', cur'[u]) /\ Differ(LinkOf(x)', elt'[u])
    BY <2>1, <2>2, <1>2 DEF IInv, PointerInv, Differ
  <2> QED
    BY <2>1, <2>4, <2>5, <2>6, <2>7 DEF IInv, PointerInv
<1>10. SpareInv'
  BY <1>0, <1>2, <1>6 DEF IInv, SpareInv, Spare, LinkOf, InList
<1>11. ChainInv'
  <2> SUFFICES ASSUME NEW u \in Threads PROVE \E k \in 0..MaxElements : Chain(u, k)'
    BY DEF ChainInv
  <2>1. Head(u)' = Head(u)
    <3>1. CASE u = t
      BY <3>1, <1>0, <1>2, <1>6 DEF Head
    <3>2. CASE u # t
      <4>1. InFunction(u) => addr[u] \in Addrs /\ addr[u] # a
        BY <3>2, <1>7 DEF IInv, TypeOK, PlaceInv, InFunction, Lives, Registering
      <4> QED
        BY <3>2, <4>1, <1>2, <1>6 DEF Head
    <3> QED
      BY <3>1, <3>2
  <2> QED
    BY <2>1, <1>2, ChainKept DEF IInv, ChainInv, OnList, Spare
<1> QED
  BY <1>4, <1>5, <1>8, <1>9, <1>10, <1>11 DEF IInv

(* The element goes from the list to its callback, its link to the list.   *)
LEMMA CallbackStartsKeeps ==
  ASSUME IInv, NEW t \in Threads, Loop(t), list[t] # Null PROVE IInv'
<1>0. PICK e \in Elements, n \in Elements \cup {Null} : e = list[t] /\ n = next[e]
  BY DEF IInv, TypeOK
<1>1. /\ pc[t] = "loop" /\ pc'[t] = "callback" /\ pc' \in [Threads -> PC]
      /\ \A u \in Threads \ {t} : pc'[u] = pc[u]
  BY StepOf DEF IInv, Loop, PC
<1>2. /\ list' \in [Threads -> Elements \cup {Null}]
      /\ list'[t] = n /\ \A u \in Threads \ {t} : list'[u] = list[u]
      /\ cur' \in [Threads -> Elements \cup {Null}]
      /\ cur'[t] = e /\ \A u \in Threads \ {t} : cur'[u] = cur[u]
      /\ UNCHANGED <<keys, once, value, next, state, elt, addr>>
  BY <1>0 DEF Loop, IInv, TypeOK
<1>3. elt[t] = Null /\ cur[t] = Null /\ e # Null
  BY <1>1, NullIsFresh DEF IInv, PlaceInv, Registering
<1>4. TypeOK'
  BY <1>1, <1>2 DEF IInv, TypeOK, keys, once
<1>5. KeyInv'
  BY <1>1, <1>2, KeyKept DEF IInv, KeyInv
<1>6. /\ \A u \in Threads : (InFunction(u)' <=> InFunction(u)) /\ (Lives(u)' <=> Lives(u))
      /\ ~ InFunction(t)
  BY <1>1, <1>2 DEF InFunction, Lives, Registering
<1>7. PICK k \in 0..MaxElements : Chain(t, k)
  BY DEF IInv, ChainInv
<1>8. IF k = 0 THEN state[e] = "late" ELSE e = <<t, k>> /\ OnList(t, k)
  <2>1. Head(t) = e
    BY <1>0, <1>6 DEF Head
  <2> QED
    BY <2>1, <1>3, <1>7, Bounds DEF Chain, Spare, OnList
<1>9. PlaceInv'
  <2>1. \/ state[e] = "late"
        \/ e[1] = t /\ state[e] = "linked"
    BY <1>8 DEF OnList
  <2> QED
    BY <2>1, <1>1, <1>2, <1>3, <1>6 DEF IInv, PlaceInv, Registering
<1>10. LinkOf(e) = n /\ LinkOf(e)' = Null /\ \A x \in Elements : x # e => LinkOf(x)' = LinkOf(x)
  <2>1. InList(e)
    BY <1>0, <1>3 DEF IInv, PointerInv, Exists, Differ, InList
  <2>2. ~ InList(e)'
    BY <1>2 DEF InList
  <2>3. ASSUME NEW x \in Elements, x # e PROVE InList(x)' <=> InList(x)
    <3>1. x # Null
      BY NullIsFresh
    <3> QED
      BY <2>3, <3>1, <1>2, <1>3 DEF InList
  <2> QED
    BY <2>1, <2>2, <2>3, <1>0, <1>2 DEF LinkOf
<1>11. PointerInv'
  <2>1. /\ \A b \in Addrs : value[b] # e
        /\ \A u \in Threads : cur[u] # e /\ elt[u] # e /\ (u # t => list[u] # e)
        /\ \A x \in Elements : LinkOf(x) # e
    BY <1>0, <1>3 DEF IInv, PointerInv, Differ
  <2>2. /\ \A b \in Addrs : Differ(value[b], n) /\ Differ(n, value[b])
        /\ \A u \in Threads : /\ Differ(n, list[u]) /\ Differ(list[u], n)
                              /\ Differ(n, cur[u]) /\ Differ(n, elt[u])
        /\ \A x \in Elements : x # e => Differ(LinkOf(x), n)
    BY <1>10 DEF IInv, PointerInv, Differ
  <2>3. Exists(n) /\ Exists(e) /\ n # e
    BY <1>0, <1>3, <1>10, <2>1 DEF IInv, PointerInv
  <2>4. /\ \A b \in Addrs : Exists(value[b])'
        /\ \A u \in Threads : Exists(list[u])' /\ Exists(cur[u])' /\ Exists(elt[u])'
        /\ \A x \in Elements : Exists(LinkOf(x))'
    BY <2>3, <1>2, <1>10 DEF IInv, PointerInv, Exists
  <2>5. /\ \A b, c \in Addrs : b # c => Differ(value'[b], value'[c])
        /\ \A b \in Addrs, u \in Threads :
             Differ(value'[b], list'[u]) /\ Differ(value'[b], cur'[u]) /\ Differ(value'[b], elt'[u])
        /\ \A x \in Elements, b \in Addrs : Differ(LinkOf(x)', value'[b])
    BY <2>1, <2>2, <1>2, <1>10 DEF IInv, PointerInv, Differ
  <2>6. \A u, w \in Threads :
          /\ u # w => Differ(list'[u], list'[w]) /\ Differ(cur'[u], cur'[w])
          /\ Differ(list'[u], cur'[w]) /\ Differ(list'[u], elt'[w]) /\ Differ(cur'[u], elt'[w])
    BY <2>1, <2>2, <2>3, <1>2 DEF IInv, PointerInv, Differ
  <2>7. \A x \in Elements, u \in Threads :
          Differ(LinkOf(x)', list'[u]) /\ Differ(LinkOf(x)', cur'[u]) /\ Differ(LinkOf(x)', elt'[u])
    BY <2>1, <2>2, <1>2, <1>10 DEF IInv, PointerInv, Differ
  <2>8. \A x, y \in Elements : x # y => Differ(LinkOf(x)', LinkOf(y)')
    BY <1>10 DEF IInv, PointerInv, Differ
  <2> QED
    BY <2>4, <2>5, <2>6, <2>7, <2>8 DEF PointerInv
<1>12. SpareInv'
  <2>1. \A x \in Elements : state[x] = "late" => Spare(LinkOf(x)')
    BY <1>10 DEF IInv, SpareInv, Spare
  <2> QED
    BY <2>1, <1>2, <1>6 DEF IInv, SpareInv, Spare
<1>13. ChainInv'
  <2> SUFFICES ASSUME NEW u \in Threads PROVE \E j \in 0..MaxElements : Chain(u, j)'
    BY DEF ChainInv
  <2>1. CASE u # t
    <3>1. Head(u)' = Head(u)
      BY <2>1, <1>2, <1>6 DEF Head
    <3> QED
      BY <2>1, <3>1, <1>2, ChainKept DEF IInv, ChainInv, OnList, Spare
  <2>2. CASE u = t
    <3>1. \A i \in 1..MaxElements : <<t, i>> \in Elements /\ <<t, i>> # Null
      BY NullIsFresh DEF Elements
    <3>2. \A i \in 1..MaxElements : OnList(t, i)' <=> OnList(t, i) /\ <<t, i>> # e
      BY <3>1, <1>2, <1>3 DEF OnList
    <3>3. Head(t)' = n /\ elt'[t] = Null
      BY <1>2, <1>3, <1>6 DEF Head
    <3>4. CASE k = 0
      <4>1. Spare(n)
        BY <3>4, <1>8, <1>10 DEF IInv, SpareInv
      <4>2. \A i \in 1..MaxElements : ~ OnList(t, i)'
        BY <3>2, <3>4, <1>7 DEF Chain, OnList
      <4>3. Chain(t, 0)'
        BY <4>1, <4>2, <3>3, <1>2 DEF Chain, OnList, Spare
      <4> QED
        BY <2>2, <4>3, Bounds
    <3>5. CASE k # 0
      <4>1. e = <<t, k>> /\ k \in 1..k /\ k - 1 \in 0..MaxElements
        BY <3>5, <1>8, Bounds
      <4>2. \A i \in 1..MaxElements : OnList(t, i)' <=> i <= k - 1
        <5>1. \A i \in 1..MaxElements : OnList(t, i) <=> i <= k
          BY <1>7 DEF Chain, OnList
        <5> QED
          BY <5>1, <4>1, <3>2, Bounds
      <4>3. IF k = 1 THEN Spare(n) ELSE n = <<t, k - 1>>
        BY <4>1, <1>0, <1>7 DEF Chain
      <4>4. \A i \in 1..(k - 1) :
              IF i = 1 THEN Spare(next[<<t, i>>])' ELSE next'[<<t, i>>] = <<t, i - 1>>
        BY <1>2, <1>7 DEF Chain, Spare
      <4>5. Chain(t, k - 1)'
        BY <4>1, <4>2, <4>3, <4>4, <3>3, <1>2 DEF Chain, OnList, Spare
      <4> QED
        BY <2>2, <4>1, <4>5
    <3> QED
      BY <3>4, <3>5
  <2> QED
    BY <2>1, <2>2
<1> QED
  BY <1>4, <1>5, <1>9, <1>11, <1>12, <1>13 DEF IInv

LEMMA LoopKeeps == ASSUME IInv, NEW t \in Threads, Loop(t) PROVE IInv'
<1>1. CASE list[t] = Null
  <2>1. /\ pc[t] = "loop" /\ pc'[t] = "joined" /\ pc' \in [Threads -> PC]
        /\ \A u \in Threads \ {t} : pc'[u] = pc[u]
    BY <1>1, StepOf DEF IInv, Loop, PC
  <2>2. UNCHANGED <<keys, once, value, next, state, elt, addr, list, cur>>
    BY <1>1 DEF Loop
  <2>3. TypeOK'
    BY <2>1, <2>2 DEF IInv, TypeOK, keys, once
  <2>4. KeyInv'
    BY <2>1, <2>2, KeyKept DEF IInv, KeyInv
  <2>5. Quiet
    BY <1>1, <2>1, <2>2 DEF IInv, PlaceInv, Quiet, InFunction, Lives, Registering
  <2> QED
    BY <2>3, <2>4, <2>5, QuietKeepsPlaces, QuietKeepsPointers, QuietKeepsSpare, QuietKeepsChains DEF IInv
<1> QED
  BY <1>1, CallbackStartsKeeps

(* Nothing points to an element whose callback deletes it.                 *)
LEMMA CallbackEndsKeeps ==
  ASSUME IInv, NEW t \in Threads, CallbackEnds(t) PROVE IInv'
<1>0. PICK c \in Elements : c = cur[t]
  BY DEF IInv, TypeOK, PlaceInv, CallbackEnds, Step
<1>1. /\ pc[t] = "callback" /\ pc'[t] = "loop" /\ pc' \in [Threads -> PC]
      /\ \A u \in Threads \ {t} : pc'[u] = pc[u]
  BY StepOf DEF IInv, CallbackEnds, PC
<1>2. /\ state' \in [Elements -> {"new", "linked", "late", "deleted"}]
      /\ state'[c] = "deleted" /\ \A x \in Elements : x # c => state'[x] = state[x]
      /\ cur' \in [Threads -> Elements \cup {Null}]
      /\ cur'[t] = Null /\ \A u \in Threads \ {t} : cur'[u] = cur[u]
      /\ UNCHANGED <<keys, once, value, next, elt, list, addr>>
  BY <1>0 DEF CallbackEnds, IInv, TypeOK
<1>3. /\ elt[t] = Null /\ c # Null
      /\ state[c] = "late" \/ (c[1] = t /\ state[c] = "linked")
  BY <1>0, <1>1, NullIsFresh DEF IInv, PlaceInv, Registering
<1>4. TypeOK'
  BY <1>1, <1>2 DEF IInv, TypeOK, keys, once
<1>5. KeyInv'
  BY <1>1, <1>2, KeyKept DEF IInv, KeyInv
<1>6. /\ \A u \in Threads : (InFunction(u)' <=> InFunction(u)) /\ (Lives(u)' <=> Lives(u))
      /\ ~ InFunction(t)
  BY <1>1, <1>2 DEF InFunction, Lives, Registering
<1>7. /\ \A b \in Addrs : value[b] # c
      /\ \A u \in Threads : list[u] # c /\ elt[u] # c /\ (u # t => cur[u] # c)
      /\ \A x \in Elements : LinkOf(x) # c
  BY <1>0, <1>3 DEF IInv, PointerInv, Differ
<1>8. PlaceInv'
  <2>1. ASSUME NEW u \in Threads
        PROVE  /\ elt[u] # Null => state'[elt[u]] = state[elt[u]]
               /\ u # t /\ cur[u] # Null => state'[cur[u]] = state[cur[u]]
    BY <1>2, <1>7 DEF IInv, TypeOK
  <2>2. ASSUME NEW u \in Threads, pc[u] = "unborn" \/ InFunction(u)
        PROVE  \A x \in Elements : x[1] = u => x # c
    BY <2>2, <1>1, <1>3, <1>6 DEF IInv, PlaceInv
  <2> QED
    BY <2>1, <2>2, <1>1, <1>2, <1>3, <1>6 DEF IInv, PlaceInv, Registering
<1>9. \A x \in Elements : LinkOf(x)' = LinkOf(x)
  <2> SUFFICES ASSUME NEW x \in Elements PROVE InList(x)' <=> InList(x)
    BY <1>2 DEF LinkOf
  <2>1. CASE x = c
    BY <2>1, <1>0, <1>2 DEF InList
  <2>2. CASE x # c
    <3>1. x # Null
      BY NullIsFresh
    <3> QED
      BY <2>2, <3>1, <1>0, <1>2 DEF InList
  <2> QED
    BY <2>1, <2>2
<1>10. \A x \in Elements \cup {Null} : x # c => (Exists(x)' <=> Exists(x)) /\ (Spare(x)' <=> Spare(x))
  BY <1>2 DEF Exists, Spare
<1>11. PointerInv'
  <2>1. \A x \in Elements : LinkOf(x) \in Elements \cup {Null}
    BY DEF IInv, TypeOK, LinkOf
  <2>2. /\ \A b \in Addrs : Exists(value[b])'
        /\ \A u \in Threads : Exists(list[u])' /\ Exists(cur[u])' /\ Exists(elt[u])'
        /\ \A x \in Elements : Exists(LinkOf(x))'
    BY <2>1, <1>2, <1>7, <1>9, <1>10 DEF IInv, TypeOK, PointerInv, Exists
  <2>3. \A u, w \in Threads :
          /\ u # w => Differ(cur'[u], cur'[w])
          /\ Differ(list[u], cur'[w]) /\ Differ(cur'[u], elt[w])
    BY <1>2, <1>7 DEF IInv, PointerInv, Differ
  <2>4. /\ \A b \in Addrs, u \in Threads : Differ(value[b], cur'[u])
        /\ \A x \in Elements, u \in Threads : Differ(LinkOf(x), cur'[u])
    BY <1>2, <1>7 DEF IInv, PointerInv, Differ
  <2> QED
    BY <2>2, <2>3, <2>4, <1>2, <1>9 DEF IInv, PointerInv
<1>12. SpareInv'
  <2>1. \A x \in Elements : LinkOf(x) \in Elements \cup {Null}
    BY DEF IInv, TypeOK, LinkOf
  <2>2. ASSUME NEW x \in Elements, state'[x] = "late" PROVE Spare(LinkOf(x))'
    <3>1. state[x] = "late"
      BY <2>2, <1>2
    <3> QED
      BY <3>1, <2>1, <1>7, <1>9, <1>10 DEF IInv, SpareInv, Spare
  <2>3. \A b \in Addrs : Spare(value[b])' <=> Spare(value[b])
    BY <1>2, <1>7, <1>10 DEF IInv, TypeOK, Spare
  <2> QED
    BY <2>2, <2>3, <1>2, <1>6 DEF IInv, SpareInv
<1>13. ChainInv'
  <2> SUFFICES ASSUME NEW u \in Threads PROVE \E k \in 0..MaxElements : Chain(u, k)'
    BY DEF ChainInv
  <2>1. Head(u)' = Head(u) /\ Head(u) # c /\ Head(u) \in Elements \cup {Null}
    <3>1. InFunction(u) => addr[u] \in Addrs
      BY DEF IInv, TypeOK, PlaceInv, InFunction, Registering
    <3> QED
      BY <3>1, <1>2, <1>6, <1>7 DEF Head, IInv, TypeOK
  <2>2. \A i \in 1..MaxElements : <<u, i>> \in Elements /\ <<u, i>> # Null /\ <<u, i>>[1] = u
    BY NullIsFresh DEF Elements
  <2>3. ASSUME NEW i \in 1..MaxElements PROVE OnList(u, i)' <=> OnList(u, i)
    <3>1. CASE <<u, i>> = c
      <4>1. ~ OnList(u, i)'
        BY <3>1, <1>2 DEF OnList
      <4>2. ~ OnList(u, i)
        BY <3>1, <2>2, <1>0, <1>3 DEF OnList
      <4> QED
        BY <4>1, <4>2
    <3>2. CASE <<u, i>> # c
      BY <3>2, <2>2, <1>0, <1>2 DEF OnList
    <3> QED
      BY <3>1, <3>2
  <2>4. ASSUME NEW i \in 1..MaxElements, OnList(u, i)
        PROVE  next[<<u, i>>] # c /\ next[<<u, i>>] \in Elements \cup {Null}
    <3>1. InList(<<u, i>>)
      <4>1. \A w \in Threads : elt[w] # <<u, i>>
        BY <2>2, <2>4 DEF IInv, PlaceInv, OnList
      <4>2. \A w \in Threads : cur[w] # <<u, i>>
        BY <2>2, <2>4 DEF IInv, PlaceInv, OnList
      <4> QED
        BY <4>1, <4>2, <2>4 DEF InList, OnList
    <3>2. LinkOf(<<u, i>>) = next[<<u, i>>]
      BY <3>1 DEF LinkOf
    <3> QED
      BY <3>2, <2>2, <1>7 DEF IInv, TypeOK
  <2>5. \A i \in 1..MaxElements : OnList(u, i) /\ Spare(next[<<u, i>>]) => Spare(next[<<u, i>>])'
    BY <2>4, <1>2, <1>10 DEF Spare
  <2>6. Spare(Head(u)) => Spare(Head(u))'
    BY <2>1, <1>10 DEF Spare
  <2>7. elt[u] # Null => (cur'[u] = Null <=> cur[u] = Null)
    BY <1>2, <1>3
  <2> QED
    BY <2>1, <2>3, <2>5, <2>6, <2>7, <1>2, ChainKept DEF IInv, ChainInv
<1> QED
  BY <1>4, <1>5, <1>8, <1>11, <1>12, <1>13 DEF IInv

(***************************************************************************)
(* The invariants.                                                         *)
(***************************************************************************)
LEMMA NextKeepsIInv == IInv /\ [Next]_vars => IInv'
<1> SUFFICES ASSUME IInv, [Next]_vars PROVE IInv'
  OBVIOUS
<1>1. CASE UNCHANGED vars
  <2>1. Quiet
    BY <1>1 DEF vars, IInv, PlaceInv, Quiet, InFunction, Lives
  <2>2. TypeOK' /\ KeyInv'
    BY <1>1 DEF vars, IInv, TypeOK, KeyInv
  <2> QED
    BY <2>1, <2>2, QuietKeepsPlaces, QuietKeepsPointers, QuietKeepsSpare, QuietKeepsChains DEF IInv
<1> QED
  BY <1>1, StartKeeps, RegisterKeeps, ReturnKeeps, OnceTakeKeeps, OnceSwapKeeps, KeyCreateKeeps,
     KeyStoreKeeps, OnceGiveKeeps, GetSpecificKeeps, SetSpecificKeeps, TestKeyKeeps, TakeValueKeeps,
     LoopKeeps, CallbackEndsKeeps, VanishKeeps DEF Next, Library

(* The inductive invariant holds.                                          *)
THEOREM InductiveInvariant == Spec => []IInv
BY InitIInv, NextKeepsIInv, PTL DEF Spec

(* The variables keep their types.                                         *)
THEOREM TypesCorrect == Spec => []TypeOK
<1>1. IInv => TypeOK
  BY DEF IInv
<1> QED
  BY <1>1, InductiveInvariant, PTL

(* The key is made once (gthr_key.cpp:33) and before anybody uses it.      *)
THEOREM KeysAreReady == Spec => []KeyIsReady
<1>1. IInv => KeyIsReady
  BY DEF IInv, KeyInv, KeyIsReady
<1> QED
  BY <1>1, InductiveInvariant, PTL

(* When a thread can be joined, all that its function registered has run:  *)
(* notify_all_at_thread_exit and the futures' counterpart lose nothing.    *)
THEOREM NoCallbackIsLost == Spec => []CallbacksRunBeforeJoin
<1>1. IInv => CallbacksRunBeforeJoin
  <2> SUFFICES ASSUME IInv, NEW t \in Threads, pc[t] \in {"joined", "gone"},
                      NEW e \in Elements, e[1] = t, state[e] = "linked"
               PROVE  FALSE
    BY DEF CallbacksRunBeforeJoin
  <2>1. list[t] = Null /\ cur[t] = Null /\ elt[t] = Null /\ ~ InFunction(t)
    BY DEF IInv, PlaceInv, InFunction, Registering
  <2>2. PICK k \in 0..MaxElements : Chain(t, k)
    BY DEF IInv, ChainInv
  <2>3. k = 0
    <3>1. Head(t) = Null
      BY <2>1 DEF Head
    <3>2. ASSUME k # 0 PROVE FALSE
      <4>1. <<t, k>> \in Elements
        BY <3>2, Bounds DEF Elements
      <4> QED
        BY <3>1, <3>2, <4>1, <2>2, NullIsFresh DEF Chain
    <3> QED
      BY <3>2
  <2>4. PICK i \in 1..MaxElements : e = <<t, i>>
    BY DEF Elements
  <2>5. e # Null
    BY NullIsFresh
  <2>6. ~ (i <= k)
    BY <2>3
  <2> QED
    BY <2>1, <2>2, <2>4, <2>5, <2>6 DEF Chain
<1> QED
  BY <1>1, InductiveInvariant, PTL

(* No callback is run twice, after its element is gone, or by a thread     *)
(* that it does not belong to, but for those that callbacks register.      *)
THEOREM CallbacksAreOwn == Spec => []RunsOwnCallbacks
<1>1. IInv => RunsOwnCallbacks
  <2> SUFFICES ASSUME IInv, NEW t \in Threads, NEW e \in {list[t], cur[t]} \ {Null}
               PROVE  \/ e[1] = t /\ state[e] = "linked"
                      \/ state[e] = "late"
    BY DEF RunsOwnCallbacks
  <2>1. CASE e = cur[t]
    BY <2>1 DEF IInv, PlaceInv
  <2>2. CASE e = list[t]
    <3>1. ~ InFunction(t)
      BY <2>2 DEF IInv, PlaceInv, InFunction, Registering
    <3>2. Head(t) = e
      BY <2>2, <3>1 DEF Head
    <3>3. PICK k \in 0..MaxElements : Chain(t, k)
      BY DEF IInv, ChainInv
    <3>4. CASE k = 0
      BY <3>2, <3>3, <3>4 DEF Chain, Spare
    <3>5. CASE k # 0
      <4>1. e = <<t, k>> /\ k \in 1..MaxElements /\ k <= k
        BY <3>2, <3>3, <3>5, Bounds DEF Chain
      <4> QED
        BY <3>3, <4>1 DEF Chain
    <3> QED
      BY <3>4, <3>5
  <2> QED
    BY <2>1, <2>2
<1> QED
  BY <1>1, InductiveInvariant, PTL
=============================================================================
