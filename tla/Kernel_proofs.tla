---------------------------- MODULE Kernel_proofs ----------------------------
(***************************************************************************)
(* Proofs about the kernel with its services, for every program, task set   *)
(* and configuration that the assumptions of Kernel allow: that its queues  *)
(* implement their contract, what the calls of the kernel do to the lists   *)
(* of the scheduler, and that the delayed lists keep time.                  *)
(***************************************************************************)
EXTENDS Services, TLAPS, SequenceTheorems, WellFoundedInduction

(***************************************************************************)
(* The ring of a queue.                                                    *)
(***************************************************************************)

Values == Items \cup {None}
Fields == {"kind", "length", "slots", "writeTo", "readFrom", "count",
           "rxLock", "txLock", "holder", "calls"}

\* What every queue, semaphore and mutex of a program is like between two
\* critical sections: the write position of a queue follows its last item, and
\* a mutex is empty exactly while it has a holder.
Sound(q) ==
    /\ DOMAIN q = Fields
    /\ q.length \in Nat \ {0} /\ q.count \in 0 .. q.length
    /\ q.readFrom \in 0 .. q.length - 1 /\ q.writeTo \in 0 .. q.length - 1
    /\ q.slots \in [0 .. q.length - 1 -> Values]
    /\ HoldsData(q) => q.writeTo = (q.readFrom + (q.count + 1)) % q.length
    /\ ~ HoldsData(q) => \A i \in 0 .. q.length - 1 : q.slots[i] = None
    /\ ~ IsMutex(q) => q.holder = None
    /\ IsMutex(q) => /\ q.length = 1 /\ q.holder \in Tasks \cup {None}
                     /\ q.count = 1 <=> q.holder = None

\* Positions wrap once.
LEMMA Wrap ==
    ASSUME NEW n \in Nat \ {0}, NEW x \in 0 .. 2 * n
    PROVE  x % n = IF x < n THEN x ELSE IF x < 2 * n THEN x - n ELSE 0
<1>1. CASE x < n
  BY <1>1
<1>2. CASE n <= x /\ x < 2 * n
  <2>1. x = n * 1 + (x - n) /\ x - n \in 0 .. n - 1
    BY <1>2
  <2>. QED  BY <2>1, <1>2
<1>3. CASE x = 2 * n
  BY <1>3
<1>. QED  BY <1>1, <1>2, <1>3

\* The position after one that has wrapped.
LEMMA NextPosition ==
    ASSUME NEW n \in Nat \ {0}, NEW x \in 0 .. 2 * n - 1
    PROVE  ((x % n) + 1) % n = (x + 1) % n
<1>. DEFINE w == x % n
<1>0. x \in 0 .. 2 * n /\ x < 2 * n
  OBVIOUS
<1>1. w = IF x < n THEN x ELSE x - n
  BY <1>0, Wrap
<1>. HIDE DEF w
<1>2. x + 1 \in 0 .. 2 * n /\ w + 1 \in 0 .. 2 * n
  BY <1>1
<1>3. /\ (x + 1) % n = IF x + 1 < n THEN x + 1 ELSE IF x + 1 < 2 * n THEN (x + 1) - n ELSE 0
      /\ (w + 1) % n = IF w + 1 < n THEN w + 1 ELSE IF w + 1 < 2 * n THEN (w + 1) - n ELSE 0
  BY <1>2, Wrap
<1>. QED  BY <1>1, <1>2, <1>3 DEF w

\* The slot of an item: the positions of a ring's items are different, and none
\* of them is where the next item is written at the back.
LEMMA Positions ==
    ASSUME NEW q, Sound(q), NEW i \in 1 .. q.length, NEW j \in 1 .. q.length
    PROVE  /\ (q.readFrom + i) % q.length \in 0 .. q.length - 1
           /\ (q.readFrom + i) % q.length = (q.readFrom + j) % q.length => i = j
           /\ (q.readFrom + i) % q.length = q.readFrom => i = q.length
<1>. DEFINE n == q.length
            r == q.readFrom
<1>1. n \in Nat \ {0} /\ r \in 0 .. n - 1 /\ i \in 1 .. n /\ j \in 1 .. n
  BY DEF Sound
<1>. HIDE DEF n, r
<1>2. i \in Int /\ j \in Int /\ r + i \in 0 .. 2 * n /\ r + j \in 0 .. 2 * n
  BY <1>1
<1>3. /\ (r + i) % n = IF r + i < n THEN r + i ELSE IF r + i < 2 * n THEN (r + i) - n ELSE 0
      /\ (r + j) % n = IF r + j < n THEN r + j ELSE IF r + j < 2 * n THEN (r + j) - n ELSE 0
  BY <1>1, <1>2, Wrap
<1>4. (r + i) % n \in 0 .. n - 1
  BY <1>1, <1>2, <1>3
<1>5. (r + i) % n = (r + j) % n => i = j
  BY <1>1, <1>2, <1>3
<1>6. (r + i) % n = r => i = n
  BY <1>1, <1>2, <1>3
<1>. QED  BY <1>4, <1>5, <1>6 DEF n, r

\* Contents is a sequence of values, as long as the count.
LEMMA ContentsType ==
    ASSUME NEW q, Sound(q)
    PROVE  /\ Contents(q) \in Seq(Values) /\ Len(Contents(q)) = q.count
           /\ q.count \in Nat /\ q.length \in Nat /\ q.count <= q.length
           /\ \A i \in 1 .. q.count : Contents(q)[i] = q.slots[(q.readFrom + i) % q.length]
           /\ Contents(q) = <<>> <=> IsEmpty(q)
<1>1. q.count \in Nat /\ q.length \in Nat /\ q.count <= q.length
  BY DEF Sound
<1>2. \A i \in 1 .. q.count : q.slots[(q.readFrom + i) % q.length] \in Values
  <2>1. \A i \in 1 .. q.count : i \in 1 .. q.length
    BY <1>1
  <2>2. \A i \in 1 .. q.count : (q.readFrom + i) % q.length \in 0 .. q.length - 1
    BY <2>1, Positions
  <2>. QED  BY <2>2 DEF Sound
<1>3. Contents(q) \in [1 .. q.count -> Values]
  BY <1>2 DEF Contents
<1>4. Contents(q) \in Seq(Values) /\ Len(Contents(q)) = q.count
  BY <1>1, <1>3
<1>. QED  BY <1>1, <1>4 DEF Contents, IsEmpty

\* What a call never changes of an object.
SameMake(q, r) == r.kind = q.kind /\ r.length = q.length

\* Two rings with the same items have the same contents.
LEMMA ContentsAre ==
    ASSUME NEW q, Sound(q), NEW c \in Seq(Values), Len(c) = q.count,
           \A i \in 1 .. q.count : q.slots[(q.readFrom + i) % q.length] = c[i]
    PROVE  Contents(q) = c
<1>1. c = [i \in 1 .. q.count |-> c[i]]
  OBVIOUS
<1>. QED  BY <1>1 DEF Contents

\* A value sent to the back of a queue is the last of its contents.
LEMMA SentToBack ==
    ASSUME NEW q, Sound(q), HoldsData(q), q.count < q.length, NEW v \in Values,
           NEW r, r = CopyDataToQueue(q, v, "back")
    PROVE  Sound(r) /\ SameMake(q, r) /\ r.holder = q.holder
           /\ Contents(r) = Append(Contents(q), v)
<1>. DEFINE n == q.length
            w == q.writeTo
<1>1. /\ DOMAIN r = Fields /\ r.kind = q.kind /\ r.length = n /\ r.readFrom = q.readFrom
      /\ r.holder = q.holder /\ r.count = q.count + 1 /\ r.writeTo = (w + 1) % n
      /\ r.slots = [q.slots EXCEPT ![w] = v]
  BY DEF CopyDataToQueue, After, Sound, Fields
<1>2. /\ n \in Nat \ {0} /\ q.count \in 0 .. n - 1 /\ q.readFrom \in 0 .. n - 1
      /\ w \in 0 .. n - 1 /\ w = (q.readFrom + (q.count + 1)) % n
      /\ q.slots \in [0 .. n - 1 -> Values]
  BY DEF Sound
<1>3. q.count + 1 \in 1 .. n
  BY <1>2
<1>4. HoldsData(r) /\ ~ IsMutex(r)
  BY <1>1 DEF HoldsData, IsMutex
<1>5. r.writeTo = (q.readFrom + (r.count + 1)) % n
  <2>. DEFINE x == q.readFrom + (q.count + 1)
  <2>1. x \in 0 .. 2 * n - 1 /\ x + 1 = q.readFrom + (r.count + 1)
    <3>1. /\ n \in Nat \ {0} /\ q.count \in 0 .. n - 1 /\ q.readFrom \in 0 .. n - 1
          /\ r.count = q.count + 1
      BY <1>1, <1>2
    <3>. HIDE DEF n
    <3>2. x \in 0 .. 2 * n - 1
      BY <3>1
    <3>3. x + 1 = q.readFrom + (r.count + 1)
      BY <3>1
    <3>. QED  BY <3>2, <3>3
  <2>. HIDE DEF x
  <2>2. ((x % n) + 1) % n = (x + 1) % n
    BY <1>2, <2>1, NextPosition
  <2>. QED  BY <2>1, <2>2, <1>1, <1>2 DEF x
<1>6. Sound(r)
  <2>1. r.slots \in [0 .. n - 1 -> Values]
    BY <1>1, <1>2
  <2>2. r.writeTo \in 0 .. n - 1
    BY <1>1, <1>2
  <2>3. r.holder = None /\ r.count \in 0 .. n
    BY <1>1, <1>2, <1>3 DEF Sound, HoldsData, IsMutex
  <2>4. r.writeTo = (r.readFrom + (r.count + 1)) % r.length
    BY <1>1, <1>5
  <2>. QED  BY <2>1, <2>2, <2>3, <2>4, <1>1, <1>2, <1>4 DEF Sound
<1>7. Contents(r) = Append(Contents(q), v)
  <2>. DEFINE c == Append(Contents(q), v)
  <2>1. c \in Seq(Values) /\ Len(c) = r.count
    BY <1>1, ContentsType
  <2>2. ASSUME NEW i \in 1 .. r.count
        PROVE  r.slots[(r.readFrom + i) % r.length] = c[i]
    <3>1. CASE i = q.count + 1
      <4>1. c[i] = v
        BY <3>1, ContentsType
      <4>2. (r.readFrom + i) % r.length = w
        BY <3>1, <1>1, <1>2
      <4>. QED  BY <4>1, <4>2, <1>1, <1>2
    <3>2. CASE i \in 1 .. q.count
      <4>1. c[i] = q.slots[(q.readFrom + i) % q.length]
        BY <3>2, ContentsType
      <4>2. i \in 1 .. n /\ i # q.count + 1
        BY <3>2, <1>2
      <4>3. (q.readFrom + i) % n # w /\ (q.readFrom + i) % n \in 0 .. n - 1
        BY <4>2, <1>2, <1>3, Positions
      <4>. QED  BY <4>1, <4>3, <1>1, <1>2
    <3>3. i = q.count + 1 \/ i \in 1 .. q.count
      BY <1>1, <1>2
    <3>. QED  BY <3>1, <3>2, <3>3
  <2>. HIDE DEF c
  <2>. QED  BY <2>1, <2>2, <1>6, ContentsAre DEF c
<1>. QED  BY <1>1, <1>6, <1>7 DEF SameMake

\* The position before another, and those that follow both.
LEMMA PreviousPosition ==
    ASSUME NEW n \in Nat \ {0}, NEW x \in 0 .. n - 1, NEW k \in 0 .. n
    PROVE  /\ (x + n - 1) % n \in 0 .. n - 1
           /\ (((x + n - 1) % n) + (k + 1)) % n = (x + k) % n
<1>. DEFINE p == (x + n - 1) % n
<1>1. x + n - 1 \in 0 .. 2 * n /\ x + n - 1 < 2 * n /\ x + k \in 0 .. 2 * n
  OBVIOUS
<1>2. p = IF x = 0 THEN n - 1 ELSE x - 1
  <2>1. p = IF x + n - 1 < n THEN x + n - 1 ELSE (x + n - 1) - n
    BY <1>1, Wrap
  <2>. QED  BY <2>1
<1>. HIDE DEF p
<1>3. p \in 0 .. n - 1 /\ p + (k + 1) \in 0 .. 2 * n
  BY <1>2
<1>4. /\ (p + (k + 1)) % n = IF p + (k + 1) < n THEN p + (k + 1)
                             ELSE IF p + (k + 1) < 2 * n THEN (p + (k + 1)) - n ELSE 0
      /\ (x + k) % n = IF x + k < n THEN x + k
                      ELSE IF x + k < 2 * n THEN (x + k) - n ELSE 0
  BY <1>1, <1>3, Wrap
<1>5. (p + (k + 1)) % n = (x + k) % n
  BY <1>2, <1>3, <1>4
<1>. QED  BY <1>3, <1>5 DEF p

\* A position further on from one that has wrapped.
LEMMA LaterPosition ==
    ASSUME NEW n \in Nat \ {0}, NEW x \in 0 .. n, NEW k \in 0 .. n
    PROVE  ((x % n) + k) % n = (x + k) % n
<1>. DEFINE w == x % n
<1>0. x \in 0 .. 2 * n /\ x < 2 * n
  OBVIOUS
<1>1. w = IF x < n THEN x ELSE x - n
  BY <1>0, Wrap
<1>. HIDE DEF w
<1>2. x + k \in 0 .. 2 * n /\ w + k \in 0 .. 2 * n
  BY <1>1
<1>3. /\ (x + k) % n = IF x + k < n THEN x + k ELSE IF x + k < 2 * n THEN (x + k) - n ELSE 0
      /\ (w + k) % n = IF w + k < n THEN w + k ELSE IF w + k < 2 * n THEN (w + k) - n ELSE 0
  BY <1>2, Wrap
<1>. QED  BY <1>1, <1>2, <1>3 DEF w

\* A value sent to the front is the first of the contents.
LEMMA SentToFront ==
    ASSUME NEW q, Sound(q), HoldsData(q), q.count < q.length, NEW v \in Values,
           NEW position, position # "back", position = "overwrite" => q.count = 0,
           NEW r, r = CopyDataToQueue(q, v, position)
    PROVE  Sound(r) /\ SameMake(q, r) /\ r.holder = q.holder
           /\ Contents(r) = <<v>> \o Contents(q)
<1>. DEFINE n == q.length
            x == q.readFrom
            c == q.count
<1>1. /\ DOMAIN r = Fields /\ r.kind = q.kind /\ r.length = n /\ r.writeTo = q.writeTo
      /\ r.holder = q.holder /\ r.count = c + 1 /\ r.readFrom = (x + n - 1) % n
      /\ r.slots = [q.slots EXCEPT ![x] = v]
  <2>. DEFINE more == IF position = "overwrite" /\ q.count > 0 THEN q.count ELSE q.count + 1
  <2>1. more = c + 1
    <3>1. q.count = 0 => ~ q.count > 0
      OBVIOUS
    <3>. QED  BY <3>1
  <2>2. r = [q EXCEPT !.slots[q.readFrom] = v, !.readFrom = Before(q, @), !.count = more]
    BY DEF CopyDataToQueue
  <2>. HIDE DEF more
  <2>. QED  BY <2>1, <2>2 DEF Before, Sound, Fields
<1>2. /\ n \in Nat \ {0} /\ c \in 0 .. n - 1 /\ x \in 0 .. n - 1
      /\ q.writeTo = (x + (c + 1)) % n
      /\ q.slots \in [0 .. n - 1 -> Values] /\ q.writeTo \in 0 .. n - 1
  BY DEF Sound
<1>3. HoldsData(r) /\ ~ IsMutex(r) /\ r.holder = None
  BY <1>1 DEF HoldsData, IsMutex, Sound
<1>4. r.slots \in [0 .. n - 1 -> Values]
  BY <1>1, <1>2
<1>. HIDE DEF n, x, c
<1>5. /\ c + 1 \in 0 .. n /\ r.readFrom \in 0 .. n - 1
      /\ r.writeTo = (r.readFrom + (r.count + 1)) % n
  <2>. DEFINE k == c + 1
  <2>1. k \in 0 .. n
    BY <1>2
  <2>. HIDE DEF k
  <2>2. /\ (x + n - 1) % n \in 0 .. n - 1
        /\ (((x + n - 1) % n) + (k + 1)) % n = (x + k) % n
    BY <2>1, <1>2, PreviousPosition
  <2>. QED  BY <2>1, <2>2, <1>1, <1>2 DEF k
<1>6. Sound(r)
  BY <1>1, <1>2, <1>3, <1>4, <1>5 DEF Sound
<1>7. Contents(r) = <<v>> \o Contents(q)
  <2>. DEFINE d == <<v>> \o Contents(q)
  <2>1. d \in Seq(Values) /\ Len(d) = r.count
    BY <1>1, ContentsType DEF c
  <2>2. ASSUME NEW i \in 1 .. r.count
        PROVE  r.slots[(r.readFrom + i) % r.length] = d[i]
    <3>. DEFINE k == i - 1
    <3>1. k \in 0 .. c /\ k \in 0 .. n /\ i = k + 1
      BY <1>1, <1>2
    <3>. HIDE DEF k
    <3>2. (r.readFrom + i) % n = (x + k) % n
      <4>1. (((x + n - 1) % n) + (k + 1)) % n = (x + k) % n
        BY <3>1, <1>2, PreviousPosition
      <4>. QED  BY <4>1, <3>1, <1>1
    <3>3. CASE k = 0
      <4>1. d[i] = v
        BY <3>1, <3>3, ContentsType
      <4>2. (x + k) % n = x
        BY <3>3, <1>2
      <4>3. r.slots[x] = v
        BY <1>1, <1>2
      <4>. QED  BY <4>1, <4>2, <4>3, <3>2, <1>1
    <3>4. CASE k # 0
      <4>1. k \in 1 .. c /\ k \in 1 .. n /\ k # n
        BY <3>1, <3>4, <1>2
      <4>2. d[i] = Contents(q)[k]
        BY <4>1, <3>1, ContentsType DEF c
      <4>3. d[i] = q.slots[(x + k) % n]
        BY <4>1, <4>2, ContentsType DEF c, n, x
      <4>4. (x + k) % n # x /\ (x + k) % n \in 0 .. n - 1
        BY <4>1, Positions DEF n, x
      <4>. QED  BY <4>3, <4>4, <3>2, <1>1, <1>2
    <3>. QED  BY <3>3, <3>4
  <2>. HIDE DEF d
  <2>. QED  BY <2>1, <2>2, <1>6, ContentsAre DEF d
<1>. QED  BY <1>1, <1>6, <1>7 DEF SameMake, n

\* What is written over the one item of a queue of length one.
LEMMA Overwritten ==
    ASSUME NEW q, Sound(q), HoldsData(q), q.length = 1, q.count > 0, NEW v \in Values,
           NEW r, r = CopyDataToQueue(q, v, "overwrite")
    PROVE  Sound(r) /\ SameMake(q, r) /\ r.holder = q.holder /\ Contents(r) = <<v>>
<1>1. q.count = 1 /\ q.readFrom = 0 /\ q.writeTo = 0 /\ q.slots \in [0 .. 0 -> Values]
  BY DEF Sound
<1>2. \A i \in 0 .. 3 : i % 1 = 0
  OBVIOUS
<1>3. /\ DOMAIN r = Fields /\ r.kind = q.kind /\ r.length = 1 /\ r.writeTo = 0
      /\ r.holder = q.holder /\ r.count = 1 /\ r.readFrom = 0
      /\ r.slots = [q.slots EXCEPT ![0] = v]
  <2>1. r = [q EXCEPT !.slots[q.readFrom] = v, !.readFrom = Before(q, @), !.count = @]
    BY <1>1 DEF CopyDataToQueue, Sound
  <2>2. (0 + 1 - 1) % 1 = 0
    OBVIOUS
  <2>. QED  BY <2>1, <2>2, <1>1 DEF Before, Sound, Fields
<1>4. HoldsData(r) /\ ~ IsMutex(r) /\ r.holder = None
  BY <1>3 DEF HoldsData, IsMutex, Sound
<1>5. Sound(r)
  <2>1. r.slots \in [0 .. 0 -> Values]
    BY <1>1, <1>3
  <2>2. (0 + (1 + 1)) % 1 = 0 /\ 1 - 1 = 0
    OBVIOUS
  <2>3. /\ r.count \in 0 .. r.length /\ r.readFrom \in 0 .. r.length - 1
        /\ r.writeTo \in 0 .. r.length - 1 /\ r.length \in Nat \ {0}
    BY <1>3
  <2>4. r.slots \in [0 .. r.length - 1 -> Values]
    BY <2>1, <2>2, <1>3
  <2>5. r.writeTo = (r.readFrom + (r.count + 1)) % r.length
    BY <2>2, <1>3
  <2>. QED  BY <2>3, <2>4, <2>5, <1>3, <1>4 DEF Sound
<1>6. \A i \in 1 .. 1 : r.slots[(0 + i) % 1] = <<v>>[i]
  <2>1. r.slots[0] = v
    BY <1>1, <1>3
  <2>. QED  BY <2>1, <1>2
<1>7. Contents(r) = <<v>>
  <2>1. <<v>> \in Seq(Values) /\ Len(<<v>>) = r.count
    BY <1>3
  <2>2. \A i \in 1 .. r.count : r.slots[(r.readFrom + i) % r.length] = <<v>>[i]
    BY <1>3, <1>6
  <2>. QED  BY <2>1, <2>2, <1>5, ContentsAre
<1>. QED  BY <1>3, <1>5, <1>7 DEF SameMake

\* What a receive copies out is the first item, and the others stay.
LEMMA ReceivedFirst ==
    ASSUME NEW q, Sound(q), HoldsData(q), ~ IsEmpty(q), NEW r, r = Received(q)
    PROVE  Sound(r) /\ SameMake(q, r) /\ r.holder = q.holder
           /\ Contents(r) = Tail(Contents(q)) /\ NextValue(q) = Head(Contents(q))
<1>. DEFINE n == q.length
            x == q.readFrom
            c == q.count
<1>1. /\ DOMAIN r = Fields /\ r.kind = q.kind /\ r.length = n /\ r.writeTo = q.writeTo
      /\ r.holder = q.holder /\ r.count = c - 1 /\ r.readFrom = (x + 1) % n
      /\ r.slots = q.slots
  BY DEF Received, After, Sound, Fields
<1>2. /\ n \in Nat \ {0} /\ c \in 1 .. n /\ x \in 0 .. n - 1
      /\ q.writeTo = (x + (c + 1)) % n
      /\ q.slots \in [0 .. n - 1 -> Values] /\ q.writeTo \in 0 .. n - 1
  BY DEF Sound, IsEmpty
<1>3. HoldsData(r) /\ ~ IsMutex(r) /\ r.holder = None
  BY <1>1 DEF HoldsData, IsMutex, Sound
<1>4. NextValue(q) = q.slots[(x + 1) % n]
  BY DEF NextValue, After
<1>. HIDE DEF n, x, c
<1>5. \A k \in 0 .. n : (((x + 1) % n) + k) % n = (x + 1 + k) % n
  <2>1. x + 1 \in 0 .. n
    BY <1>2
  <2>. QED  BY <2>1, <1>2, LaterPosition
<1>6. /\ r.readFrom \in 0 .. n - 1 /\ r.count \in 0 .. n
      /\ r.writeTo = (r.readFrom + (r.count + 1)) % n
  <2>1. (x + 1) % n \in 0 .. n - 1 /\ r.count \in 0 .. n
    BY <1>1, <1>2
  <2>2. r.count + 1 = c /\ c \in 0 .. n /\ x + 1 + c = x + (c + 1)
    <3>1. r.count = c - 1 /\ c \in 1 .. n /\ n \in Nat /\ x \in Nat
      BY <1>1, <1>2
    <3>. QED  BY <3>1
  <2>3. (((x + 1) % n) + c) % n = (x + (c + 1)) % n
    BY <2>2, <1>5
  <2>. QED  BY <2>1, <2>2, <2>3, <1>1, <1>2
<1>7. Sound(r)
  BY <1>1, <1>2, <1>3, <1>6 DEF Sound
<1>8. /\ Contents(q) \in Seq(Values) /\ Len(Contents(q)) = c
      /\ \A i \in 1 .. c : Contents(q)[i] = q.slots[(x + i) % n]
  BY ContentsType DEF c, x, n
<1>9. Contents(r) = Tail(Contents(q))
  <2>. DEFINE d == Tail(Contents(q))
  <2>0. Contents(q) # <<>>
    BY <1>2, <1>8
  <2>1. d \in Seq(Values) /\ Len(d) = r.count
    BY <2>0, <1>1, <1>8
  <2>2. ASSUME NEW i \in 1 .. r.count
        PROVE  r.slots[(r.readFrom + i) % r.length] = d[i]
    <3>1. i \in 0 .. n /\ i + 1 \in 1 .. c /\ x + 1 + i = x + (i + 1)
      BY <1>1, <1>2
    <3>2. d[i] = Contents(q)[i + 1]
      BY <2>0, <3>1, <1>8
    <3>3. (r.readFrom + i) % n = (x + (i + 1)) % n
      BY <3>1, <1>1, <1>5
    <3>. QED  BY <3>1, <3>2, <3>3, <1>1, <1>8
  <2>. HIDE DEF d
  <2>. QED  BY <2>1, <2>2, <1>7, ContentsAre DEF d
<1>10. NextValue(q) = Head(Contents(q))
  BY <1>2, <1>4, <1>8
<1>. QED  BY <1>1, <1>7, <1>9, <1>10 DEF SameMake, n

\* A semaphore or mutex is a sequence of the value None.
LEMMA CountsOnly ==
    ASSUME NEW q, Sound(q), ~ HoldsData(q)
    PROVE  /\ \A i \in 1 .. q.count : Contents(q)[i] = None
           /\ q.count > 0 => Head(Contents(q)) = None
<1>1. q.count \in Nat /\ q.length \in Nat /\ q.count <= q.length
  BY ContentsType
<1>2. ASSUME NEW i \in 1 .. q.count PROVE Contents(q)[i] = None
  <2>1. i \in 1 .. q.length
    BY <1>1
  <2>2. (q.readFrom + i) % q.length \in 0 .. q.length - 1
    BY <2>1, Positions
  <2>. QED  BY <2>2, ContentsType DEF Sound
<1>3. q.count > 0 => Head(Contents(q)) = None
  BY <1>1, <1>2, ContentsType
<1>. QED  BY <1>2, <1>3

\* A give adds to the count of a semaphore or mutex, and a take takes from it.
LEMMA Counting ==
    ASSUME NEW q, Sound(q), ~ HoldsData(q), NEW r, Sound(r), SameMake(q, r)
    PROVE  /\ r.count = q.count + 1 => Contents(r) = Append(Contents(q), None)
           /\ r.count = q.count - 1 => Contents(r) = Tail(Contents(q))
<1>1. ~ HoldsData(r)
  BY DEF SameMake, HoldsData
<1>2. /\ Contents(q) \in Seq(Values) /\ Len(Contents(q)) = q.count /\ q.count \in Nat
      /\ Contents(r) \in Seq(Values) /\ Len(Contents(r)) = r.count /\ r.count \in Nat
      /\ \A i \in 1 .. q.count : Contents(q)[i] = None
      /\ \A i \in 1 .. r.count : Contents(r)[i] = None
  BY <1>1, ContentsType, CountsOnly
<1>. DEFINE cq == Contents(q)
            cr == Contents(r)
<1>. HIDE DEF cq, cr
<1>3. ASSUME r.count = q.count + 1 PROVE cr = Append(cq, None)
  <2>. DEFINE d == Append(cq, None)
  <2>1. d \in Seq(Values) /\ Len(d) = r.count
    BY <1>2, <1>3 DEF cq, Values
  <2>2. \A i \in 1 .. r.count : d[i] = None
    BY <1>2, <1>3 DEF cq
  <2>. HIDE DEF d
  <2>3. cr = d
    BY <2>1, <2>2, <1>2 DEF cr
  <2>. QED  BY <2>3 DEF d
<1>4. ASSUME r.count = q.count - 1 PROVE cr = Tail(cq)
  <2>. DEFINE d == Tail(cq)
  <2>0. cq # <<>> /\ q.count > 0
    BY <1>2, <1>4 DEF cq
  <2>1. d \in Seq(Values) /\ Len(d) = r.count
    BY <2>0, <1>2, <1>4 DEF cq
  <2>2. \A i \in 1 .. r.count : d[i] = None
    <3>1. \A i \in 1 .. r.count : d[i] = cq[i + 1] /\ i + 1 \in 1 .. q.count
      BY <2>0, <1>2, <1>4 DEF cq
    <3>. QED  BY <3>1, <1>2 DEF cq
  <2>. HIDE DEF d
  <2>3. cr = d
    BY <2>1, <2>2, <1>2 DEF cr
  <2>. QED  BY <2>3 DEF d
<1>. QED  BY <1>3, <1>4 DEF cq, cr

(***************************************************************************)
(* Queues, semaphores and mutexes implement their contract.                *)
(***************************************************************************)

Lasting == {"at", "received", "owns"}

\* Inductive: the objects of the program are sound and what they were created
\* as; a task that believes it owns a mutex is its holder.
QueueInv ==
    /\ program \in Programs /\ raised \in Nat
    /\ DOMAIN queues = Objects
    /\ \A o \in ProgramObjects : Sound(queues[o]) /\ SameMake(program.queues[o], queues[o])
    /\ DOMAIN local = Tasks
    /\ \A t \in Tasks :
          /\ Lasting \subseteq DOMAIN local[t]
          /\ local[t].at \in Nat \ {0} /\ local[t].received \in Values
          /\ \A o \in ProgramObjects :
                o \in local[t].owns /\ IsMutex(queues[o]) => queues[o].holder = t

\* A step that changes nothing the contract sees: neither what a task has
\* received and owns, nor more of an object than its locks and call count.
SameLocals ==
    /\ DOMAIN local' = Tasks
    /\ \A t \in Tasks : /\ Lasting \subseteq DOMAIN local'[t]
                        /\ local'[t].at \in Nat \ {0}
                        /\ local'[t].received = local[t].received
                        /\ local'[t].owns = local[t].owns
SameRing(q, r) ==
    /\ DOMAIN r = Fields
    /\ r.kind = q.kind /\ r.length = q.length /\ r.slots = q.slots /\ r.count = q.count
    /\ r.writeTo = q.writeTo /\ r.readFrom = q.readFrom /\ r.holder = q.holder
SameQueues ==
    /\ DOMAIN queues' = Objects
    /\ \A o \in ProgramObjects : SameRing(queues[o], queues'[o])
Unseen == program' = program /\ raised' \in Nat /\ SameLocals /\ SameQueues

ContractUnchanged == UNCHANGED Contract!vars

\* An object of which only the locks changed is what it was.
LEMMA SameRingKeeps ==
    ASSUME NEW q, NEW r, Sound(q), SameRing(q, r)
    PROVE  Sound(r) /\ SameMake(q, r) /\ Contents(r) = Contents(q) /\ (IsMutex(r) <=> IsMutex(q))
BY DEF Sound, SameRing, SameMake, Contents, IsMutex, HoldsData

\* A step the contract does not see keeps the invariant, and is a stutter of it.
LEMMA UnseenStep ==
    ASSUME QueueInv, Unseen
    PROVE  QueueInv' /\ ContractUnchanged
<1>1. \A o \in ProgramObjects :
         /\ Sound(queues'[o]) /\ SameMake(queues[o], queues'[o])
         /\ Contents(queues'[o]) = Contents(queues[o])
         /\ (IsMutex(queues'[o]) <=> IsMutex(queues[o]))
         /\ queues'[o].holder = queues[o].holder /\ queues'[o].length = queues[o].length
  BY SameRingKeeps DEF QueueInv, Unseen, SameQueues, SameRing
<1>2. QueueInv'
  <2>1. program' \in Programs /\ raised' \in Nat /\ DOMAIN queues' = Objects
    BY DEF QueueInv, Unseen, SameQueues
  <2>2. \A o \in ProgramObjects :
           Sound(queues'[o]) /\ SameMake(program'.queues[o], queues'[o])
    BY <1>1 DEF QueueInv, Unseen, SameMake
  <2>3. DOMAIN local' = Tasks
    BY DEF Unseen, SameLocals
  <2>4. ASSUME NEW t \in Tasks
        PROVE  /\ Lasting \subseteq DOMAIN local'[t]
               /\ local'[t].at \in Nat \ {0} /\ local'[t].received \in Values
               /\ \A o \in ProgramObjects :
                     o \in local'[t].owns /\ IsMutex(queues'[o]) => queues'[o].holder = t
    BY <1>1 DEF QueueInv, Unseen, SameLocals
  <2>. QED  BY <2>1, <2>2, <2>3, <2>4 DEF QueueInv, Sound, SameMake, HoldsData, IsMutex
<1>3. ContractUnchanged
  <2>1. [o \in ProgramObjects |-> queues[o].length]' = [o \in ProgramObjects |-> queues[o].length]
    BY <1>1
  <2>2. {o \in ProgramObjects : IsMutex(queues[o])}' = {o \in ProgramObjects : IsMutex(queues[o])}
    BY <1>1 DEF IsMutex
  <2>3. [o \in ProgramObjects |-> Contents(queues[o])]' = [o \in ProgramObjects |-> Contents(queues[o])]
    BY <1>1 DEF Contents
  <2>4. [o \in ProgramObjects |-> queues[o].holder]' = [o \in ProgramObjects |-> queues[o].holder]
    BY <1>1
  <2>5. [t \in Tasks |-> local[t].received]' = [t \in Tasks |-> local[t].received]
    BY DEF Unseen, SameLocals
  <2>. QED  BY <2>1, <2>2, <2>3, <2>4, <2>5 DEF ContractUnchanged, Contract!vars
<1>. QED  BY <1>2, <1>3

\* What a record is with some fields replaced or added.
LEMMA AfterUpdate ==
    ASSUME NEW r, NEW changes
    PROVE  /\ DOMAIN Updated(r, changes) = DOMAIN r \cup DOMAIN changes
           /\ \A x \in DOMAIN r \cup DOMAIN changes :
                 Updated(r, changes)[x] = IF x \in DOMAIN changes THEN changes[x] ELSE r[x]
BY DEF Updated

\* What a task's local variables are after a step of its own inside a call.
LEMMA AfterGoto ==
    ASSUME QueueInv, NEW t \in Tasks, NEW changes, Goto(t, changes)
    PROVE  /\ DOMAIN local' = Tasks /\ \A u \in Tasks : u # t => local'[u] = local[u]
           /\ DOMAIN local'[t] = DOMAIN local[t] \cup DOMAIN changes
           /\ \A x \in Lasting :
                 local'[t][x] = IF x \in DOMAIN changes THEN changes[x] ELSE local[t][x]
<1>1. /\ DOMAIN local' = Tasks /\ \A u \in Tasks : u # t => local'[u] = local[u]
      /\ local'[t] = Updated(local[t], changes)
  BY DEF QueueInv, Goto
<1>2. Lasting \subseteq DOMAIN local[t]
  BY DEF QueueInv
<1>3. DOMAIN local'[t] = DOMAIN local[t] \cup DOMAIN changes
  BY <1>1, AfterUpdate
<1>4. ASSUME NEW x \in Lasting
      PROVE  local'[t][x] = IF x \in DOMAIN changes THEN changes[x] ELSE local[t][x]
  <2>1. x \in DOMAIN local[t] \cup DOMAIN changes
    BY <1>2
  <2>2. Updated(local[t], changes)[x] = IF x \in DOMAIN changes THEN changes[x] ELSE local[t][x]
    BY <2>1, AfterUpdate
  <2>. QED  BY <1>1, <2>2
<1>. QED  BY <1>1, <1>3, <1>4

\* And after the last step of a call.
LEMMA AfterReturn ==
    ASSUME QueueInv, NEW t \in Tasks, NEW changes, "at" \notin DOMAIN changes, Return(t, changes)
    PROVE  /\ DOMAIN local' = Tasks /\ \A u \in Tasks : u # t => local'[u] = local[u]
           /\ DOMAIN local[t] \subseteq DOMAIN local'[t] /\ local'[t].at = local[t].at + 1
           /\ \A x \in {"received", "owns"} :
                 local'[t][x] = IF x \in DOMAIN changes THEN changes[x] ELSE local[t][x]
<1>. DEFINE next == [at |-> local[t].at + 1]
            one == Updated(NewCall, next)
            all == Updated(one, changes)
<1>1. Goto(t, all)
  BY DEF Return
<1>2. /\ DOMAIN next = {"at"} /\ next["at"] = local[t].at + 1
      /\ "received" \notin DOMAIN NewCall /\ "owns" \notin DOMAIN NewCall
  BY DEF NewCall
<1>. HIDE DEF next
<1>3. DOMAIN one = DOMAIN NewCall \cup {"at"}
  BY <1>2, AfterUpdate
<1>4. one["at"] = local[t].at + 1
  <2>1. "at" \in DOMAIN NewCall \cup DOMAIN next /\ "at" \in DOMAIN next
    BY <1>2
  <2>. QED  BY <1>2, <2>1, AfterUpdate
<1>. HIDE DEF one
<1>5. DOMAIN all = DOMAIN one \cup DOMAIN changes
  BY AfterUpdate
<1>6. \A x \in DOMAIN one \cup DOMAIN changes :
         all[x] = IF x \in DOMAIN changes THEN changes[x] ELSE one[x]
  BY AfterUpdate
<1>. HIDE DEF all
<1>7. "at" \in DOMAIN all /\ all["at"] = local[t].at + 1
  BY <1>3, <1>4, <1>5, <1>6
<1>8. \A x \in {"received", "owns"} :
         /\ x \in DOMAIN all <=> x \in DOMAIN changes
         /\ x \in DOMAIN changes => all[x] = changes[x]
  BY <1>2, <1>3, <1>5, <1>6
<1>9. /\ DOMAIN local' = Tasks /\ \A u \in Tasks : u # t => local'[u] = local[u]
      /\ DOMAIN local'[t] = DOMAIN local[t] \cup DOMAIN all
      /\ \A x \in Lasting : local'[t][x] = IF x \in DOMAIN all THEN all[x] ELSE local[t][x]
  BY <1>1, AfterGoto
<1>10. local'[t]["at"] = local[t].at + 1
  BY <1>7, <1>9 DEF Lasting
<1>11. \A x \in {"received", "owns"} :
         local'[t][x] = IF x \in DOMAIN changes THEN changes[x] ELSE local[t][x]
  BY <1>8, <1>9 DEF Lasting
<1>. QED  BY <1>9, <1>10, <1>11

\* Changes of what is local to the call.
Quiet(changes) == "at" \notin DOMAIN changes /\ "received" \notin DOMAIN changes
                  /\ "owns" \notin DOMAIN changes

\* A step inside a call.
LEMMA QuietGoto ==
    ASSUME QueueInv, NEW t \in Tasks, NEW changes, Quiet(changes), Goto(t, changes)
    PROVE  SameLocals
<1>1. \A x \in Lasting : local'[t][x] = local[t][x]
  BY AfterGoto DEF Quiet, Lasting
<1>2. Lasting \subseteq DOMAIN local[t] /\ local[t]["at"] \in Nat \ {0}
  BY DEF QueueInv
<1>3. Lasting \subseteq DOMAIN local'[t]
  BY <1>2, AfterGoto
<1>4. DOMAIN local' = Tasks /\ \A u \in Tasks : u # t => local'[u] = local[u]
  BY AfterGoto
<1>5. /\ local'[t]["at"] = local[t]["at"] /\ local'[t]["received"] = local[t]["received"]
      /\ local'[t]["owns"] = local[t]["owns"]
  BY <1>1 DEF Lasting
<1>. QED  BY <1>2, <1>3, <1>4, <1>5 DEF SameLocals, QueueInv

\* A call that returns nothing.
LEMMA QuietReturn ==
    ASSUME QueueInv, NEW t \in Tasks, NEW changes, Quiet(changes), Return(t, changes)
    PROVE  SameLocals
<1>1. /\ DOMAIN local' = Tasks /\ \A u \in Tasks : u # t => local'[u] = local[u]
      /\ DOMAIN local[t] \subseteq DOMAIN local'[t] /\ local'[t].at = local[t].at + 1
      /\ \A x \in {"received", "owns"} : local'[t][x] = local[t][x]
  BY AfterReturn DEF Quiet
<1>2. Lasting \subseteq DOMAIN local[t] /\ local[t].at \in Nat \ {0}
  BY DEF QueueInv
<1>3. Lasting \subseteq DOMAIN local'[t] /\ local'[t].at \in Nat \ {0}
  BY <1>1, <1>2
<1>4. local'[t]["received"] = local[t]["received"] /\ local'[t]["owns"] = local[t]["owns"]
  BY <1>1
<1>. QED  BY <1>1, <1>3, <1>4 DEF SameLocals, QueueInv

\* The results of the two kinds of call that have one.
LEMMA ReturnReceived ==
    ASSUME QueueInv, NEW t \in Tasks, NEW v \in Values, Return(t, [received |-> v])
    PROVE  /\ DOMAIN local' = Tasks
           /\ \A u \in Tasks : Lasting \subseteq DOMAIN local'[u] /\ local'[u].at \in Nat \ {0}
                               /\ local'[u].owns = local[u].owns
                               /\ local'[u].received = IF u = t THEN v ELSE local[u].received
<1>. DEFINE changes == [received |-> v]
<1>0. DOMAIN changes = {"received"} /\ changes["received"] = v
  OBVIOUS
<1>. HIDE DEF changes
<1>1. /\ DOMAIN local' = Tasks /\ \A u \in Tasks : u # t => local'[u] = local[u]
      /\ DOMAIN local[t] \subseteq DOMAIN local'[t] /\ local'[t].at = local[t].at + 1
      /\ \A x \in {"received", "owns"} :
            local'[t][x] = IF x \in DOMAIN changes THEN changes[x] ELSE local[t][x]
  BY <1>0, AfterReturn DEF changes
<1>2. local'[t]["received"] = v /\ local'[t]["owns"] = local[t]["owns"]
  BY <1>0, <1>1
<1>3. Lasting \subseteq DOMAIN local[t] /\ local[t].at \in Nat \ {0}
  BY DEF QueueInv
<1>4. Lasting \subseteq DOMAIN local'[t] /\ local'[t].at \in Nat \ {0}
  BY <1>1, <1>3
<1>. QED  BY <1>1, <1>2, <1>4 DEF QueueInv

\* A return that changes what the task owns, and no more of what lasts.
LEMMA ReturnOwns ==
    ASSUME QueueInv, NEW t \in Tasks, NEW v, Return(t, [owns |-> v])
    PROVE  /\ DOMAIN local' = Tasks
           /\ \A u \in Tasks : Lasting \subseteq DOMAIN local'[u] /\ local'[u].at \in Nat \ {0}
                               /\ local'[u].received = local[u].received
                               /\ local'[u].owns = IF u = t THEN v ELSE local[u].owns
<1>. DEFINE changes == [owns |-> v]
<1>0. DOMAIN changes = {"owns"} /\ changes["owns"] = v
  OBVIOUS
<1>. HIDE DEF changes
<1>1. /\ DOMAIN local' = Tasks /\ \A u \in Tasks : u # t => local'[u] = local[u]
      /\ DOMAIN local[t] \subseteq DOMAIN local'[t] /\ local'[t].at = local[t].at + 1
      /\ \A x \in {"received", "owns"} :
            local'[t][x] = IF x \in DOMAIN changes THEN changes[x] ELSE local[t][x]
  BY <1>0, AfterReturn DEF changes
<1>2. local'[t]["owns"] = v /\ local'[t]["received"] = local[t]["received"]
  BY <1>0, <1>1
<1>3. Lasting \subseteq DOMAIN local[t] /\ local[t].at \in Nat \ {0}
  BY DEF QueueInv
<1>4. Lasting \subseteq DOMAIN local'[t] /\ local'[t].at \in Nat \ {0}
  BY <1>1, <1>3
<1>. QED  BY <1>1, <1>2, <1>4 DEF QueueInv

\* What becomes of the queues in a step the contract does not see: nothing, a
\* change of the timer queue, of a lock or of the call count of a mutex.
LEMMA LocalsStay == ASSUME QueueInv, UNCHANGED local PROVE SameLocals
BY DEF QueueInv, SameLocals

\* Objects that stay as they are.
LEMMA QueuesStay == ASSUME QueueInv, UNCHANGED queues PROVE SameQueues
BY DEF QueueInv, SameQueues, SameRing, Sound

\* The timer task's queue is none of the program's.
LEMMA OnlyTimerQueue ==
    ASSUME QueueInv, NEW q, queues' = [queues EXCEPT ![TimerQueue] = q] PROVE SameQueues
<1>1. DOMAIN queues' = Objects /\ \A o \in ProgramObjects : queues'[o] = queues[o]
  BY DEF QueueInv, ProgramObjects
<1>. QED  BY <1>1 DEF QueueInv, SameQueues, SameRing, Sound

\* The two locks, and how often the owner has taken a mutex.
LEMMA OnlyLocks ==
    ASSUME QueueInv, NEW o,
           \/ queues' = [queues EXCEPT ![o] = LockQueue(@)]
           \/ queues' = [queues EXCEPT ![o].txLock = Unlocked]
           \/ queues' = [queues EXCEPT ![o].rxLock = Unlocked]
           \/ queues' = [queues EXCEPT ![o].calls = @ + 1]
           \/ queues' = [queues EXCEPT ![o].calls = @ - 1]
    PROVE  SameQueues
<1>1. DOMAIN queues' = Objects /\ \A p \in ProgramObjects : p # o => queues'[p] = queues[p]
  BY DEF QueueInv, ProgramObjects
<1>2. \A p \in ProgramObjects : SameRing(queues[p], queues[p])
  BY DEF QueueInv, SameRing, Sound
<1>3. ASSUME o \in ProgramObjects PROVE SameRing(queues[o], queues'[o])
  <2>1. DOMAIN queues[o] = Fields /\ o \in DOMAIN queues
    BY <1>3 DEF QueueInv, Sound, ProgramObjects
  <2>. DEFINE q == queues[o]
  <2>2. \/ queues'[o] = LockQueue(q)
        \/ queues'[o] = [q EXCEPT !.txLock = Unlocked]
        \/ queues'[o] = [q EXCEPT !.rxLock = Unlocked]
        \/ queues'[o] = [q EXCEPT !.calls = @ + 1]
        \/ queues'[o] = [q EXCEPT !.calls = @ - 1]
    BY <2>1
  <2>3. DOMAIN q = Fields
    BY <2>1
  <2>. HIDE DEF q
  <2>4. DOMAIN queues'[o] = Fields
    BY <2>2, <2>3 DEF LockQueue
  <2>5. /\ queues'[o].kind = q.kind /\ queues'[o].length = q.length
        /\ queues'[o].slots = q.slots /\ queues'[o].count = q.count
        /\ queues'[o].writeTo = q.writeTo /\ queues'[o].readFrom = q.readFrom
        /\ queues'[o].holder = q.holder
    BY <2>2, <2>3 DEF LockQueue, Fields
  <2>. QED  BY <2>4, <2>5 DEF SameRing, q
<1>. QED  BY <1>1, <1>2, <1>3 DEF SameQueues

\* A step of a task inside a call that changes no more than this is unseen.
LEMMA QuietStep ==
    ASSUME QueueInv, SameQueues, UNCHANGED <<program, raised>>,
           NEW t \in Tasks, NEW changes, Quiet(changes), Goto(t, changes) \/ Return(t, changes)
    PROVE  Unseen
BY QuietGoto, QuietReturn DEF Unseen, QueueInv

\* A step of a call that changes no more than where the call is.
LEMMA Nothing == Quiet(<< >>)
BY DEF Quiet

(***************************************************************************)
(* The steps the contract does not see.                                    *)
(***************************************************************************)

\* Of a blocking call: all but the ones that move an item.
LEMMA QueueStepsUnseen ==
    ASSUME QueueInv, NEW t \in Tasks,
           \/ TakeAgain(t) \/ GiveOnce(t) \/ GiveNothing(t) \/ Refuse(t) \/ GoWait(t)
           \/ LockAndCheck(t) \/ CheckStill(t) \/ Place(t) \/ UnlockTx(t) \/ UnlockRx(t)
           \/ Resume(t) \/ GiveUp(t) \/ DisinheritAfterTimeout(t)
    PROVE  Unseen
<1>1. CASE TakeAgain(t)
  BY <1>1, OnlyLocks, QuietStep, Nothing DEF TakeAgain
<1>2. CASE GiveOnce(t)
  BY <1>2, OnlyLocks, QuietStep, Nothing DEF GiveOnce
<1>3. CASE GiveNothing(t)
  BY <1>3, QueuesStay, QuietStep, Nothing DEF GiveNothing
<1>4. CASE Refuse(t)
  BY <1>4, QueuesStay, QuietStep, Nothing DEF Refuse
<1>5. CASE GoWait(t)
  BY <1>5, QueuesStay, QuietStep DEF GoWait, Quiet
<1>6. CASE LockAndCheck(t)
  <2>1. queues' = [queues EXCEPT ![Object(t)] = LockQueue(@)]
    BY <1>6 DEF LockAndCheck
  <2>2. SameQueues
    BY <2>1, OnlyLocks
  <2>. QED  BY <1>6, <2>2, QuietStep DEF LockAndCheck, Quiet
<1>7. CASE CheckStill(t)
  BY <1>7, QueuesStay, QuietStep DEF CheckStill, Quiet
<1>8. CASE Place(t)
  BY <1>8, QueuesStay, QuietStep DEF Place, Quiet
<1>9. CASE UnlockTx(t)
  <2>1. queues' = [queues EXCEPT ![Object(t)].txLock = Unlocked]
    BY <1>9 DEF UnlockTx
  <2>2. SameQueues
    BY <2>1, OnlyLocks
  <2>. QED  BY <1>9, <2>2, QuietStep DEF UnlockTx, Quiet
<1>10. CASE UnlockRx(t)
  <2>1. queues' = [queues EXCEPT ![Object(t)].rxLock = Unlocked]
    BY <1>10 DEF UnlockRx
  <2>2. SameQueues
    BY <2>1, OnlyLocks
  <2>. QED  BY <1>10, <2>2, QuietStep DEF UnlockRx, Quiet
<1>11. CASE Resume(t)
  BY <1>11, QueuesStay, QuietStep DEF Resume, Quiet
<1>12. CASE GiveUp(t)
  BY <1>12, QueuesStay, QuietStep DEF GiveUp, Quiet
<1>13. CASE DisinheritAfterTimeout(t)
  BY <1>13, QueuesStay, QuietStep, Nothing DEF DisinheritAfterTimeout
<1>. QED  BY <1>1, <1>2, <1>3, <1>4, <1>5, <1>6, <1>7, <1>8, <1>9, <1>10, <1>11, <1>12, <1>13

\* Of the calls that use no queue.
LEMMA OtherStepsUnseen ==
    ASSUME QueueInv, NEW t \in Tasks, OtherStep(t)
    PROVE  Unseen
<1>1. CASE Delay(t)
  BY <1>1, QueuesStay, QuietStep DEF Delay, Quiet
<1>2. CASE DelayUntil(t)
  BY <1>2, QueuesStay, QuietStep DEF DelayUntil, Quiet
<1>3. CASE ReturnFromDelay(t)
  BY <1>3, QueuesStay, QuietStep, Nothing DEF ReturnFromDelay
<1>4. CASE WaitForNotification(t)
  BY <1>4, QueuesStay, QuietStep DEF WaitForNotification, Quiet
<1>5. CASE NotifyTaken(t)
  BY <1>5, QueuesStay, QuietStep, Nothing DEF NotifyTaken
<1>6. CASE WaitBits(t)
  BY <1>6, QueuesStay, QuietStep DEF WaitBits, WaitForBits, Quiet
<1>7. CASE SetBits(t)
  BY <1>7, QueuesStay, QuietStep DEF SetBits, Quiet
<1>8. CASE SyncBits(t)
  <2>1. SameQueues /\ UNCHANGED <<program, raised>>
    BY <1>8, QueuesStay DEF SyncBits
  <2>2. \E changes : Quiet(changes) /\ (Goto(t, changes) \/ Return(t, changes))
    BY <1>8 DEF SyncBits, WaitForBits, Quiet
  <2>. QED  BY <2>1, <2>2, QuietStep
<1>9. CASE BitsCame(t)
  BY <1>9, QueuesStay, QuietStep, Nothing DEF BitsCame
<1>10. CASE ReadBits(t)
  BY <1>10, QueuesStay, QuietStep, Nothing DEF ReadBits
<1>11. CASE ClearBits(t)
  BY <1>11, QueuesStay, QuietStep, Nothing DEF ClearBits
<1>12. CASE DeleteGroup(t)
  BY <1>12, QueuesStay, QuietStep DEF DeleteGroup, Quiet
<1>13. CASE ResumeOther(t)
  BY <1>13, QueuesStay, QuietStep, Nothing DEF ResumeOther, Quiet
<1>14. CASE TaskCall(t)
  BY <1>14, QueuesStay, QuietStep, Nothing DEF TaskCall
<1>15. CASE AbortDelayOf(t)
  BY <1>15, QueuesStay, QuietStep DEF AbortDelayOf, Quiet
<1>16. CASE Exit(t)
  BY <1>16, QueuesStay, LocalsStay DEF Exit, Unseen, QueueInv
<1>17. CASE DelayNothing(t)
  BY <1>17, QueuesStay, QuietStep, Nothing DEF DelayNothing
<1>. QED  BY <1>1, <1>2, <1>3, <1>4, <1>5, <1>6, <1>7, <1>8, <1>9, <1>10, <1>11, <1>12, <1>13,
             <1>14, <1>15, <1>16, <1>17 DEF OtherStep

\* Of the stream buffers.
LEMMA StreamStepsUnseen ==
    ASSUME QueueInv, NEW t \in Tasks, StreamStep(t)
    PROVE  Unseen
<1>1. CASE StreamSend(t)
  BY <1>1, QueuesStay, QuietStep DEF StreamSend, Quiet
<1>2. CASE CheckSpace(t)
  <2>1. SameQueues /\ UNCHANGED <<program, raised>>
    BY <1>2, QueuesStay DEF CheckSpace
  <2>2. \E changes : Quiet(changes) /\ (Goto(t, changes) \/ Return(t, changes))
    BY <1>2 DEF CheckSpace, Quiet
  <2>. QED  BY <2>1, <2>2, QuietStep
<1>3. CASE SendTimeout(t)
  BY <1>3, QueuesStay, QuietStep DEF SendTimeout, Quiet
<1>4. CASE WriteStream(t)
  BY <1>4, QueuesStay, QuietStep, Nothing DEF WriteStream, Quiet
<1>5. CASE WriteData(t)
  BY <1>5, QueuesStay, QuietStep DEF WriteData, Quiet
<1>6. CASE TestTrigger(t)
  BY <1>6, QueuesStay, QuietStep, Nothing DEF TestTrigger, Quiet
<1>7. CASE StreamWait(t)
  BY <1>7, QueuesStay, QuietStep DEF StreamWait, Quiet
<1>8. CASE StreamWaited(t)
  BY <1>8, QueuesStay, QuietStep DEF StreamWaited, Quiet
<1>9. CASE Forget(t)
  BY <1>9, QueuesStay, QuietStep DEF Forget, Quiet
<1>10. CASE Complete(t)
  BY <1>10, QueuesStay, QuietStep DEF Complete, Quiet
<1>11. CASE NotifyPeer(t)
  BY <1>11, QueuesStay, QuietStep DEF NotifyPeer, Quiet
<1>12. CASE ForgetPeer(t)
  BY <1>12, QueuesStay, QuietStep DEF ForgetPeer, Quiet
<1>13. CASE StreamReceive(t)
  <2>1. SameQueues /\ UNCHANGED <<program, raised>>
    BY <1>13, QueuesStay DEF StreamReceive
  <2>2. \E changes : Quiet(changes) /\ (Goto(t, changes) \/ Return(t, changes))
    BY <1>13 DEF StreamReceive, Quiet
  <2>. QED  BY <2>1, <2>2, QuietStep
<1>14. CASE Recheck(t)
  BY <1>14, QueuesStay, QuietStep DEF Recheck, Quiet
<1>15. CASE ReadStream(t)
  BY <1>15, QueuesStay, QuietStep, Nothing DEF ReadStream, Quiet
<1>16. CASE ReadData(t)
  BY <1>16, QueuesStay, QuietStep, Nothing DEF ReadData, Quiet
<1>17. CASE NextLength(t)
  <2>1. SameQueues /\ UNCHANGED <<program, raised>>
    BY <1>17, QueuesStay DEF NextLength
  <2>2. \E changes : Quiet(changes) /\ (Goto(t, changes) \/ Return(t, changes))
    BY <1>17, Nothing DEF NextLength, Quiet
  <2>. QED  BY <2>1, <2>2, QuietStep
<1>. QED  BY <1>1, <1>2, <1>3, <1>4, <1>5, <1>6, <1>7, <1>8, <1>9, <1>10, <1>11, <1>12, <1>13,
             <1>14, <1>15, <1>16, <1>17 DEF StreamStep

\* Of the timer task, which has the timer queue to itself, and of those who
\* compose a command to it.
LEMMA DaemonStepsUnseen ==
    ASSUME QueueInv, NEW t \in Tasks, ComposeCommand(t) \/ DaemonStep(t)
    PROVE  Unseen
<1>0. ASSUME NEW h, NEW v, SendReload(h, v) PROVE SameQueues
  BY <1>0, OnlyTimerQueue, QueuesStay DEF SendReload
<1>1. CASE ComposeCommand(t)
  BY <1>1, QueuesStay, QuietStep DEF ComposeCommand, Quiet
<1>2. CASE LookAtTimers(t)
  BY <1>2, QueuesStay, QuietStep DEF LookAtTimers, Quiet
<1>3. CASE AwaitCommand(t)
  <2>1. queues' = [queues EXCEPT ![TimerQueue] = LockQueue(@)]
    BY <1>3 DEF AwaitCommand
  <2>2. SameQueues
    BY <2>1, OnlyLocks
  <2>. QED  BY <1>3, <2>2, QuietStep DEF AwaitCommand, Quiet
<1>4. CASE PlaceDaemon(t)
  BY <1>4, QueuesStay, QuietStep DEF PlaceDaemon, Quiet
<1>5. CASE ResumeDaemon(t)
  BY <1>5, QueuesStay, QuietStep DEF ResumeDaemon, Quiet
<1>6. CASE ExpireTimer(t)
  BY <1>0, <1>6, QueuesStay, QuietStep DEF ExpireTimer, Quiet
<1>7. CASE Callback(t)
  BY <1>7, QueuesStay, QuietStep DEF Callback, Quiet
<1>8. CASE SwitchOne(t)
  BY <1>8, QueuesStay, QuietStep DEF SwitchOne, Quiet
<1>9. CASE ReloadSwitched(t)
  BY <1>0, <1>9, QueuesStay, QuietStep DEF ReloadSwitched, Quiet
<1>10. CASE SwitchLists(t)
  BY <1>10, QueuesStay, QuietStep DEF SwitchLists, Quiet
<1>11. CASE ReceiveCommand(t)
  BY <1>11, QueuesStay, OnlyTimerQueue, QuietStep DEF ReceiveCommand, Quiet
<1>12. CASE SampleTime(t)
  BY <1>12, QueuesStay, QuietStep DEF SampleTime, Quiet
<1>13. CASE ApplyStart(t)
  BY <1>13, QueuesStay, QuietStep DEF ApplyStart, Quiet
<1>14. CASE ReloadStarted(t)
  BY <1>0, <1>14, QueuesStay, QuietStep DEF ReloadStarted, Quiet
<1>15. CASE ApplyChangePeriod(t)
  BY <1>15, QueuesStay, QuietStep DEF ApplyChangePeriod, Quiet
<1>16. CASE ApplyStop(t)
  BY <1>16, QueuesStay, QuietStep DEF ApplyStop, Quiet
<1>. QED  BY <1>1, <1>2, <1>3, <1>4, <1>5, <1>6, <1>7, <1>8, <1>9, <1>10, <1>11, <1>12, <1>13,
             <1>14, <1>15, <1>16 DEF DaemonStep

\* Of the wall clock.
LEMMA ClockStepsUnseen ==
    ASSUME QueueInv, NEW t \in Tasks, ClockStep(t)
    PROVE  Unseen
<1>1. CASE ReadClock(t)
  BY <1>1, QueuesStay, QuietStep DEF ReadClock, WaitUntil, Quiet
<1>2. CASE SleepFor(t)
  BY <1>2, QueuesStay, QuietStep DEF SleepFor, WaitFor, Quiet
<1>3. CASE BeginSetClock(t)
  BY <1>3, QueuesStay, QuietStep DEF BeginSetClock, Quiet
<1>4. CASE StoreClock(t)
  BY <1>4, QueuesStay, QuietStep, Nothing DEF StoreClock
<1>. QED  BY <1>1, <1>2, <1>3, <1>4 DEF ClockStep

\* Of the scheduler and the interrupts.
LEMMA InterruptsUnseen ==
    ASSUME QueueInv,
           Switch \/ IdleCleansUp \/ TickInterrupt \/ TaskInterrupt \/ StreamInterrupt
              \/ CommandInterrupt
    PROVE  Unseen
<1>1. CASE Switch \/ IdleCleansUp \/ TickInterrupt
  BY <1>1, QueuesStay, LocalsStay DEF Switch, IdleCleansUp, TickInterrupt, Unseen, QueueInv
<1>2. ASSUME NEW operations, Raise(operations), SameQueues PROVE Unseen
  BY <1>2, LocalsStay DEF Raise, Unseen, QueueInv
<1>3. CASE TaskInterrupt
  BY <1>2, <1>3, QueuesStay DEF TaskInterrupt
<1>4. CASE StreamInterrupt
  BY <1>2, <1>4, QueuesStay DEF StreamInterrupt, StreamSendInterrupt, StreamReceiveInterrupt
<1>5. CASE CommandInterrupt
  BY <1>2, <1>5, QueuesStay, OnlyTimerQueue DEF CommandInterrupt
<1>. QED  BY <1>1, <1>3, <1>4, <1>5

(***************************************************************************)
(* The steps the contract sees.                                            *)
(***************************************************************************)

\* A task is in a call of its script, and legal calls name a fitting object.
LEMMA CallsLegally ==
    ASSUME QueueInv, NEW t \in Tasks, NEW operations, Calls(t, operations),
           operations \subseteq Sends \cup Receives \cup Takes \cup Gives
    PROVE  Call(t).op \in operations /\ Legal(Call(t), program.queues)
<1>1. local[t].at \in 1 .. Len(program.script[t])
  <2>1. Len(program.script[t]) \in Nat /\ local[t].at \in Nat \ {0}
    BY ProgramAssumption DEF QueueInv
  <2>. QED  BY <2>1 DEF Calls, HasCall
<1>2. Legal(Call(t), program.queues)
  BY <1>1, ProgramAssumption DEF QueueInv, Call
<1>3. Operation(t) \in operations
  BY DEF Calls
<1>4. Operation(t) \notin {"compose", "readClock", "convert"}
  BY <1>3 DEF Sends, Receives, Takes, Gives
<1>5. Operation(t) = Call(t).op
  BY <1>4 DEF Operation
<1>. QED  BY <1>2, <1>3, <1>5

\* An object is of the kind the program created it as.
LEMMA KindStays ==
    ASSUME QueueInv, NEW o \in ProgramObjects
    PROVE  /\ Sound(queues[o]) /\ o \in Objects
           /\ HoldsData(program.queues[o]) <=> HoldsData(queues[o])
           /\ IsMutex(program.queues[o]) <=> IsMutex(queues[o])
           /\ program.queues[o].length = queues[o].length
BY DEF QueueInv, SameMake, HoldsData, IsMutex, ProgramObjects

\* A step that changes one object into another sound one.
OneObject(o, r) ==
    /\ program' = program /\ raised' \in Nat
    /\ Sound(r) /\ SameMake(queues[o], r)
    /\ queues' = [queues EXCEPT ![o] = r]

\* The variables of the contract.
Lengths  == [o \in ProgramObjects |-> queues[o].length]
Mutexes  == {o \in ProgramObjects : IsMutex(queues[o])}
Held     == [o \in ProgramObjects |-> Contents(queues[o])]
Owners   == [o \in ProgramObjects |-> queues[o].holder]
Results  == [t \in Tasks |-> local[t].received]

\* What the contract sees of it.
LEMMA SeenOfOneObject ==
    ASSUME QueueInv, NEW o \in ProgramObjects, NEW r, OneObject(o, r)
    PROVE  /\ DOMAIN queues' = Objects
           /\ \A p \in ProgramObjects :
                 Sound(queues'[p]) /\ SameMake(program'.queues[p], queues'[p])
           /\ \A p \in ProgramObjects : queues'[p] = IF p = o THEN r ELSE queues[p]
           /\ \A p \in ProgramObjects : IsMutex(queues'[p]) <=> IsMutex(queues[p])
           /\ Lengths' = Lengths /\ Mutexes' = Mutexes
           /\ Held' = [Held EXCEPT ![o] = Contents(r)]
           /\ Owners' = [Owners EXCEPT ![o] = r.holder]
           /\ r.holder = queues[o].holder => Owners' = Owners
<1>1. /\ DOMAIN queues' = Objects
      /\ \A p \in ProgramObjects : queues'[p] = IF p = o THEN r ELSE queues[p]
  BY DEF QueueInv, OneObject, ProgramObjects
<1>2. \A p \in ProgramObjects : Sound(queues'[p]) /\ SameMake(program'.queues[p], queues'[p])
                                /\ SameMake(queues[p], queues'[p])
  BY <1>1 DEF QueueInv, OneObject, SameMake
<1>3. \A p \in ProgramObjects : IsMutex(queues'[p]) <=> IsMutex(queues[p])
  BY <1>2 DEF SameMake, IsMutex
<1>4. Lengths' = Lengths
  BY <1>2 DEF SameMake, Lengths
<1>5. Mutexes' = Mutexes
  BY <1>3 DEF Mutexes
<1>6. Held' = [Held EXCEPT ![o] = Contents(r)]
  BY <1>1 DEF Held
<1>7. Owners' = [Owners EXCEPT ![o] = r.holder]
  BY <1>1 DEF Owners
<1>8. r.holder = queues[o].holder => Owners' = Owners
  BY <1>1 DEF Owners
<1>. QED  BY <1>1, <1>2, <1>3, <1>4, <1>5, <1>6, <1>7, <1>8

\* The contract's actions, in those names.
LEMMA ContractActions ==
    ASSUME NEW o \in ProgramObjects, NEW t \in Tasks
    PROVE  /\ Contract!vars = <<Lengths, Mutexes, Held, Owners, Results>>
           /\ Contract!Send(o) <=>
                 /\ o \notin Mutexes /\ Len(Held[o]) < Lengths[o]
                 /\ \E v \in Values : \/ Held' = [Held EXCEPT ![o] = Append(Held[o], v)]
                                      \/ Held' = [Held EXCEPT ![o] = <<v>> \o Held[o]]
                 /\ UNCHANGED <<Lengths, Mutexes, Owners, Results>>
           /\ Contract!Overwrite(o) <=>
                 /\ o \notin Mutexes /\ Lengths[o] = 1
                 /\ \E v \in Values : Held' = [Held EXCEPT ![o] = <<v>>]
                 /\ UNCHANGED <<Lengths, Mutexes, Owners, Results>>
           /\ Contract!Receive(o) <=>
                 /\ o \notin Mutexes /\ Held[o] # <<>>
                 /\ Held' = [Held EXCEPT ![o] = Tail(Held[o])]
                 /\ \/ \E u \in Tasks : Results' = [Results EXCEPT ![u] = Head(Held[o])]
                    \/ UNCHANGED Results
                 /\ UNCHANGED <<Lengths, Mutexes, Owners>>
           /\ Contract!Peek(o) <=>
                 /\ o \notin Mutexes /\ Held[o] # <<>>
                 /\ \E u \in Tasks : Results' = [Results EXCEPT ![u] = Head(Held[o])]
                 /\ UNCHANGED <<Lengths, Mutexes, Held, Owners>>
           /\ Contract!Lock(t, o) <=>
                 /\ o \in Mutexes /\ Owners[o] = None /\ Held[o] # <<>>
                 /\ Held' = [Held EXCEPT ![o] = <<>>]
                 /\ Owners' = [Owners EXCEPT ![o] = t]
                 /\ UNCHANGED <<Lengths, Mutexes, Results>>
           /\ Contract!Unlock(t, o) <=>
                 /\ o \in Mutexes /\ Owners[o] = t
                 /\ Held' = [Held EXCEPT ![o] = <<None>>]
                 /\ Owners' = [Owners EXCEPT ![o] = None]
                 /\ UNCHANGED <<Lengths, Mutexes, Results>>
<1>1. Contract!vars = <<Lengths, Mutexes, Held, Owners, Results>>
  BY DEF Contract!vars, Lengths, Mutexes, Held, Owners, Results
<1>2. Contract!Send(o) <=>
                 /\ o \notin Mutexes /\ Len(Held[o]) < Lengths[o]
                 /\ \E v \in Values : \/ Held' = [Held EXCEPT ![o] = Append(Held[o], v)]
                                      \/ Held' = [Held EXCEPT ![o] = <<v>> \o Held[o]]
                 /\ UNCHANGED <<Lengths, Mutexes, Owners, Results>>
  BY Zenon DEF Contract!Send, Contract!Becomes, Lengths, Mutexes, Held, Owners, Results, Values
<1>3. Contract!Overwrite(o) <=>
                 /\ o \notin Mutexes /\ Lengths[o] = 1
                 /\ \E v \in Values : Held' = [Held EXCEPT ![o] = <<v>>]
                 /\ UNCHANGED <<Lengths, Mutexes, Owners, Results>>
  BY Zenon DEF Contract!Overwrite, Contract!Becomes, Lengths, Mutexes, Held, Owners, Results, Values
<1>4. Contract!Receive(o) <=>
                 /\ o \notin Mutexes /\ Held[o] # <<>>
                 /\ Held' = [Held EXCEPT ![o] = Tail(Held[o])]
                 /\ \/ \E u \in Tasks : Results' = [Results EXCEPT ![u] = Head(Held[o])]
                    \/ UNCHANGED Results
                 /\ UNCHANGED <<Lengths, Mutexes, Owners>>
  BY Zenon DEF Contract!Receive, Contract!Becomes, Lengths, Mutexes, Held, Owners, Results
<1>5. Contract!Peek(o) <=>
                 /\ o \notin Mutexes /\ Held[o] # <<>>
                 /\ \E u \in Tasks : Results' = [Results EXCEPT ![u] = Head(Held[o])]
                 /\ UNCHANGED <<Lengths, Mutexes, Held, Owners>>
  BY Zenon DEF Contract!Peek, Lengths, Mutexes, Held, Owners, Results
<1>6. Contract!Lock(t, o) <=>
                 /\ o \in Mutexes /\ Owners[o] = None /\ Held[o] # <<>>
                 /\ Held' = [Held EXCEPT ![o] = <<>>]
                 /\ Owners' = [Owners EXCEPT ![o] = t]
                 /\ UNCHANGED <<Lengths, Mutexes, Results>>
  BY Zenon DEF Contract!Lock, Contract!Becomes, Lengths, Mutexes, Held, Owners, Results
<1>7. Contract!Unlock(t, o) <=>
                 /\ o \in Mutexes /\ Owners[o] = t
                 /\ Held' = [Held EXCEPT ![o] = <<None>>]
                 /\ Owners' = [Owners EXCEPT ![o] = None]
                 /\ UNCHANGED <<Lengths, Mutexes, Results>>
  BY Zenon DEF Contract!Unlock, Contract!Becomes, Lengths, Mutexes, Held, Owners, Results
<1>. QED  BY <1>1, <1>2, <1>3, <1>4, <1>5, <1>6, <1>7

\* The invariant after such a step of an object that is no mutex.
LEMMA InvOfOneObject ==
    ASSUME QueueInv, NEW o \in ProgramObjects, NEW r, OneObject(o, r),
           DOMAIN local' = Tasks, ~ IsMutex(queues[o]),
           \A u \in Tasks :
              /\ Lasting \subseteq DOMAIN local'[u] /\ local'[u].at \in Nat \ {0}
              /\ local'[u].received \in Values
              /\ local'[u].owns \subseteq local[u].owns \cup {o}
    PROVE  QueueInv'
<1>1. \A p \in ProgramObjects : queues'[p] = IF p = o THEN r ELSE queues[p]
  BY SeenOfOneObject
<1>2. \A p \in ProgramObjects : IsMutex(queues'[p]) <=> IsMutex(queues[p])
  BY SeenOfOneObject
<1>3. DOMAIN queues' = Objects /\ \A p \in ProgramObjects :
         Sound(queues'[p]) /\ SameMake(program'.queues[p], queues'[p])
  BY SeenOfOneObject
<1>4. ASSUME NEW u \in Tasks, NEW p \in ProgramObjects, p \in local'[u].owns, IsMutex(queues'[p])
      PROVE  queues'[p].holder = u
  BY <1>1, <1>2, <1>4 DEF QueueInv
<1>5. program' \in Programs /\ raised' \in Nat
  BY DEF QueueInv, OneObject
<1>. QED  BY <1>3, <1>4, <1>5 DEF QueueInv

\* A semaphore or mutex whose count and holder change is sound if they agree.
LEMMA CountChanged ==
    ASSUME NEW q, Sound(q), ~ HoldsData(q), NEW r, SameMake(q, r), DOMAIN r = Fields,
           r.slots = q.slots, r.writeTo = q.writeTo, r.readFrom = q.readFrom,
           r.count \in 0 .. q.length, ~ IsMutex(q) => r.holder = None,
           IsMutex(q) => r.holder \in Tasks \cup {None} /\ (r.count = 1 <=> r.holder = None)
    PROVE  Sound(r)
BY DEF Sound, SameMake, HoldsData, IsMutex

\* A step of the contract, or none that it sees.
LEMMA ContractStep ==
    ASSUME NEW o \in ProgramObjects, NEW t \in Tasks,
           \/ Contract!Send(o) \/ Contract!Overwrite(o) \/ Contract!Receive(o)
           \/ Contract!Peek(o) \/ Contract!Lock(t, o) \/ Contract!Unlock(t, o)
    PROVE  [Contract!Next]_(Contract!vars)
BY DEF Contract!Next

\* A receive that copies the first item out, into a task or an interrupt.
LEMMA ReceiveSeen ==
    ASSUME QueueInv, NEW o \in ProgramObjects, NEW r, OneObject(o, r), ~ IsMutex(queues[o]),
           ~ IsEmpty(queues[o]), r.holder = queues[o].holder,
           Contents(r) = Tail(Contents(queues[o])),
           \/ Results' = Results
           \/ \E t \in Tasks : Results' = [Results EXCEPT ![t] = Head(Contents(queues[o]))]
    PROVE  [Contract!Next]_(Contract!vars)
<1>1. Held[o] = Contents(queues[o]) /\ o \notin Mutexes
  BY DEF Held, Mutexes
<1>2. Contents(queues[o]) # <<>>
  BY KindStays, ContentsType
<1>3. Contract!Receive(o)
  BY <1>1, <1>2, SeenOfOneObject, ContractActions, KernelAssumption
<1>. QED  BY <1>3, ContractStep, KernelAssumption

\* A send that adds a value to the back or to the front.
LEMMA SendSeen ==
    ASSUME QueueInv, NEW o \in ProgramObjects, NEW r, OneObject(o, r), ~ IsMutex(queues[o]),
           queues[o].count < queues[o].length, r.holder = queues[o].holder, NEW v \in Values,
           \/ Contents(r) = Append(Contents(queues[o]), v)
           \/ Contents(r) = <<v>> \o Contents(queues[o]),
           Results' = Results
    PROVE  [Contract!Next]_(Contract!vars)
<1>1. Held[o] = Contents(queues[o]) /\ Lengths[o] = queues[o].length /\ o \notin Mutexes
  BY DEF Held, Mutexes, Lengths
<1>2. Len(Contents(queues[o])) < queues[o].length
  BY KindStays, ContentsType
<1>3. Contract!Send(o)
  <2>1. Held' = [Held EXCEPT ![o] = Append(Held[o], v)] \/ Held' = [Held EXCEPT ![o] = <<v>> \o Held[o]]
    BY <1>1, SeenOfOneObject
  <2>2. UNCHANGED <<Lengths, Mutexes, Owners, Results>>
    BY SeenOfOneObject
  <2>3. Len(Held[o]) < Lengths[o]
    BY <1>1, <1>2
  <2>. QED  BY <1>1, <2>1, <2>2, <2>3, ContractActions, KernelAssumption
<1>. QED  BY <1>3, ContractStep, KernelAssumption

\* A value sent over the one item of a queue.
LEMMA OverwriteSeen ==
    ASSUME QueueInv, NEW o \in ProgramObjects, NEW r, OneObject(o, r), ~ IsMutex(queues[o]),
           queues[o].length = 1, r.holder = queues[o].holder, NEW v \in Values,
           Contents(r) = <<v>>, Results' = Results
    PROVE  [Contract!Next]_(Contract!vars)
<1>1. Lengths[o] = 1 /\ o \notin Mutexes
  BY DEF Mutexes, Lengths
<1>2. Contract!Overwrite(o)
  BY <1>1, SeenOfOneObject, ContractActions, KernelAssumption
<1>. QED  BY <1>2, ContractStep, KernelAssumption

\* A peek of the first value.
LEMMA PeekSeen ==
    ASSUME QueueInv, NEW o \in ProgramObjects, queues' = queues, ~ IsMutex(queues[o]),
           Contents(queues[o]) # <<>>, NEW t \in Tasks,
           Results' = [Results EXCEPT ![t] = Head(Contents(queues[o]))]
    PROVE  [Contract!Next]_(Contract!vars)
<1>1. Held[o] = Contents(queues[o]) /\ o \notin Mutexes
  BY DEF Held, Mutexes
<1>2. UNCHANGED <<Lengths, Mutexes, Held, Owners>>
  BY DEF Lengths, Mutexes, Held, Owners, IsMutex, Contents
<1>3. Contract!Peek(o)
  BY <1>1, <1>2, ContractActions
<1>. QED  BY <1>3, ContractStep

\* What a task received last, before and after a call.
LEMMA ResultsStay ==
    ASSUME \A t \in Tasks : local'[t].received = local[t].received
    PROVE  Results' = Results
BY DEF Results

\* One task receives, the others keep what they had.
LEMMA ResultChanges ==
    ASSUME NEW t \in Tasks, NEW v,
           \A u \in Tasks : local'[u].received = IF u = t THEN v ELSE local[u].received
    PROVE  Results' = [Results EXCEPT ![t] = v]
BY DEF Results

\* A send by a task to a queue of the program.
LEMMA SendNowSeen ==
    ASSUME QueueInv, NEW t \in Tasks, SendNow(t)
    PROVE  QueueInv' /\ [Contract!Next]_(Contract!vars)
<1>. DEFINE o == Object(t)
            q == queues[o]
            r == CopyDataToQueue(q, Value(t), Call(t).position)
<1>1. Call(t).op \in Sends /\ Legal(Call(t), program.queues)
  BY CallsLegally DEF SendNow
<1>2. SameLocals
  BY QuietReturn, Nothing DEF SendNow
<1>3. CASE Call(t).op = "command"
  <2>1. o = TimerQueue
    BY <1>1, <1>3 DEF Legal, Object
  <2>2. Unseen
    BY <1>2, <2>1, OnlyTimerQueue DEF SendNow, Unseen, QueueInv
  <2>. QED  BY <2>2, UnseenStep DEF ContractUnchanged
<1>4. CASE Call(t).op = "send"
  <2>1. /\ o \in ProgramObjects /\ HoldsData(program.queues[o]) /\ Value(t) \in Values
        /\ Call(t).position = "overwrite" => program.queues[o].length = 1
    BY <1>1, <1>4 DEF Legal, Object, Value, Values
  <2>2. Sound(q) /\ HoldsData(q) /\ (Call(t).position = "overwrite" => q.length = 1) /\ o \in Objects
    BY <2>1, KindStays
  <2>3. ~ IsMutex(q)
    BY <2>2 DEF HoldsData, IsMutex
  <2>4. q.count < q.length \/ Call(t).position = "overwrite"
    BY <1>4 DEF SendNow, Possible, Accepts, Queue, Sends
  <2>5. q.count \in Nat /\ q.length \in Nat
    BY <2>2, ContentsType
  <2>6. /\ Sound(r) /\ SameMake(q, r) /\ r.holder = q.holder
        /\ \/ q.count < q.length /\ Contents(r) = Append(Contents(q), Value(t))
           \/ q.count < q.length /\ Contents(r) = <<Value(t)>> \o Contents(q)
           \/ q.length = 1 /\ Contents(r) = <<Value(t)>>
    <3>1. CASE Call(t).position = "back"
      BY <2>1, <2>2, <2>4, <3>1, SentToBack
    <3>2. CASE Call(t).position = "overwrite" /\ q.count > 0
      BY <2>1, <2>2, <3>2, Overwritten
    <3>3. CASE Call(t).position # "back" /\ ~ (Call(t).position = "overwrite" /\ q.count > 0)
      <4>1. Call(t).position = "overwrite" => q.count = 0
        BY <2>5, <3>3
      <4>2. q.count < q.length
        BY <2>2, <2>4, <2>5, <4>1
      <4>. QED  BY <2>1, <2>2, <3>3, <4>1, <4>2, SentToFront
    <3>. QED  BY <3>1, <3>2, <3>3
  <2>7. OneObject(o, r)
    <3>1. queues' = [queues EXCEPT ![o] = r]
      BY DEF SendNow
    <3>. HIDE DEF r
    <3>. QED  BY <2>6, <3>1 DEF SendNow, OneObject, QueueInv
  <2>. HIDE DEF r, o
  <2>8. QueueInv'
    BY <1>2, <2>1, <2>3, <2>7, InvOfOneObject DEF SameLocals, QueueInv
  <2>9. Results' = Results
    BY <1>2, ResultsStay DEF SameLocals
  <2>10. [Contract!Next]_(Contract!vars)
    <3>1. CASE q.length = 1 /\ Contents(r) = <<Value(t)>>
      BY <2>1, <2>3, <2>6, <2>7, <2>9, <3>1, OverwriteSeen
    <3>2. CASE q.count < q.length /\ (\/ Contents(r) = Append(Contents(q), Value(t))
                                      \/ Contents(r) = <<Value(t)>> \o Contents(q))
      BY <2>1, <2>3, <2>6, <2>7, <2>9, <3>2, SendSeen
    <3>. QED  BY <2>6, <3>1, <3>2
  <2>. QED  BY <2>8, <2>10
<1>. QED  BY <1>1, <1>3, <1>4 DEF Sends

\* A receive by a task.
LEMMA ReceiveNowSeen ==
    ASSUME QueueInv, NEW t \in Tasks, ReceiveNow(t)
    PROVE  QueueInv' /\ [Contract!Next]_(Contract!vars)
<1>. DEFINE o == Object(t)
            q == queues[o]
            r == Received(q)
<1>1. Call(t).op = "receive" /\ Legal(Call(t), program.queues)
  BY CallsLegally DEF ReceiveNow, Receives
<1>2. o \in ProgramObjects /\ HoldsData(program.queues[o])
  BY <1>1 DEF Legal, Object, Receives
<1>3. Sound(q) /\ HoldsData(q)
  BY <1>2, KindStays
<1>4. ~ IsMutex(q) /\ ~ IsEmpty(q)
  BY <1>1, <1>3 DEF HoldsData, IsMutex, ReceiveNow, Possible, Queue, Sends
<1>5. /\ Sound(r) /\ SameMake(q, r) /\ r.holder = q.holder
      /\ Contents(r) = Tail(Contents(q)) /\ NextValue(q) = Head(Contents(q))
  BY <1>3, <1>4, ReceivedFirst
<1>6. NextValue(q) \in Values
  BY <1>3, <1>4, <1>5, ContentsType
<1>7. OneObject(o, r)
  <2>1. queues' = [queues EXCEPT ![o] = r]
    BY DEF ReceiveNow
  <2>. HIDE DEF r
  <2>. QED  BY <1>5, <2>1 DEF ReceiveNow, OneObject, QueueInv
<1>8. /\ DOMAIN local' = Tasks
      /\ \A u \in Tasks : Lasting \subseteq DOMAIN local'[u] /\ local'[u].at \in Nat \ {0}
                          /\ local'[u].owns = local[u].owns
                          /\ local'[u].received = IF u = t THEN NextValue(q) ELSE local[u].received
  BY <1>6, ReturnReceived DEF ReceiveNow, Queue
<1>. HIDE DEF r, o
<1>9. QueueInv'
  BY <1>2, <1>4, <1>6, <1>7, <1>8, InvOfOneObject DEF QueueInv
<1>10. Results' = [Results EXCEPT ![t] = Head(Contents(q))]
  <2>1. \A u \in Tasks : local'[u].received =
            IF u = t THEN Head(Contents(q)) ELSE local[u].received
    BY <1>5, <1>8
  <2>. QED  BY <2>1, ResultChanges
<1>11. [Contract!Next]_(Contract!vars)
  BY <1>2, <1>4, <1>5, <1>7, <1>10, ReceiveSeen
<1>. QED  BY <1>9, <1>11

\* A peek copies the same item and leaves it.
LEMMA PeekNowSeen ==
    ASSUME QueueInv, NEW t \in Tasks, PeekNow(t)
    PROVE  QueueInv' /\ [Contract!Next]_(Contract!vars)
<1>. DEFINE o == Object(t)
            q == queues[o]
<1>1. Call(t).op = "peek" /\ Legal(Call(t), program.queues)
  BY CallsLegally DEF PeekNow, Receives
<1>2. o \in ProgramObjects /\ HoldsData(program.queues[o])
  BY <1>1 DEF Legal, Object, Receives
<1>3. Sound(q) /\ HoldsData(q)
  BY <1>2, KindStays
<1>4. ~ IsMutex(q) /\ ~ IsEmpty(q)
  BY <1>1, <1>3 DEF HoldsData, IsMutex, PeekNow, Possible, Queue, Sends
<1>5. NextValue(q) = Head(Contents(q)) /\ NextValue(q) \in Values /\ Contents(q) # <<>>
  BY <1>3, <1>4, ReceivedFirst, ContentsType
<1>6. /\ DOMAIN local' = Tasks
      /\ \A u \in Tasks : Lasting \subseteq DOMAIN local'[u] /\ local'[u].at \in Nat \ {0}
                          /\ local'[u].owns = local[u].owns
                          /\ local'[u].received = IF u = t THEN NextValue(q) ELSE local[u].received
  BY <1>5, ReturnReceived DEF PeekNow, Queue
<1>7. queues' = queues /\ program' = program /\ raised' = raised
  BY DEF PeekNow
<1>. HIDE DEF o
<1>8. QueueInv'
  BY <1>5, <1>6, <1>7 DEF QueueInv, Sound, SameMake, IsMutex, HoldsData
<1>9. Results' = [Results EXCEPT ![t] = Head(Contents(q))]
  <2>1. \A u \in Tasks : local'[u].received =
            IF u = t THEN Head(Contents(q)) ELSE local[u].received
    BY <1>5, <1>6
  <2>. QED  BY <2>1, ResultChanges
<1>10. [Contract!Next]_(Contract!vars)
  BY <1>2, <1>4, <1>5, <1>7, <1>9, PeekSeen
<1>. QED  BY <1>8, <1>10

\* The steps of a mutex.
LEMMA LockSeen ==
    ASSUME QueueInv, NEW o \in ProgramObjects, NEW t \in Tasks, NEW r, OneObject(o, r),
           IsMutex(queues[o]), queues[o].count > 0, r.count = queues[o].count - 1,
           r.holder = t, DOMAIN local' = Tasks,
           \A u \in Tasks :
              /\ Lasting \subseteq DOMAIN local'[u] /\ local'[u].at \in Nat \ {0}
              /\ local'[u].received = local[u].received
              /\ local'[u].owns = IF u = t THEN local[t].owns \cup {o} ELSE local[u].owns
    PROVE  QueueInv' /\ [Contract!Next]_(Contract!vars)
<1>1. Sound(queues[o]) /\ Sound(r) /\ ~ HoldsData(queues[o]) /\ SameMake(queues[o], r)
  BY KindStays DEF OneObject, IsMutex, HoldsData
<1>2. /\ queues[o].count = 1 /\ queues[o].holder = None /\ r.count = 0
      /\ Contents(queues[o]) # <<>>
  <2>1. /\ queues[o].length = 1 /\ queues[o].count \in 0 .. queues[o].length
        /\ queues[o].count = 1 <=> queues[o].holder = None
    BY <1>1 DEF Sound
  <2>2. queues[o].count = 1 /\ r.count = 0
    BY <2>1
  <2>. QED  BY <1>1, <2>1, <2>2, ContentsType DEF IsEmpty
<1>3. Contents(r) = <<>>
  BY <1>1, <1>2, ContentsType DEF IsEmpty
<1>4. QueueInv'
  <2>1. \A p \in ProgramObjects : queues'[p] = IF p = o THEN r ELSE queues[p]
    BY SeenOfOneObject
  <2>2. \A p \in ProgramObjects : IsMutex(queues'[p]) <=> IsMutex(queues[p])
    BY SeenOfOneObject
  <2>3. DOMAIN queues' = Objects /\ \A p \in ProgramObjects :
           Sound(queues'[p]) /\ SameMake(program'.queues[p], queues'[p])
    BY SeenOfOneObject
  <2>4. ASSUME NEW u \in Tasks, NEW p \in ProgramObjects, p \in local'[u].owns,
               IsMutex(queues'[p])
        PROVE  queues'[p].holder = u
    <3>1. CASE p = o
      <4>1. o \notin local[u].owns
        BY <1>2, KernelAssumption DEF QueueInv
      <4>. QED  BY <2>1, <2>4, <3>1, <4>1
    <3>2. CASE p # o
      <4>0. local'[u].owns \subseteq local[u].owns \cup {o}
        OBVIOUS
      <4>1. p \in local[u].owns /\ IsMutex(queues[p]) /\ queues'[p] = queues[p]
        BY <2>1, <2>2, <2>4, <3>2, <4>0
      <4>. QED  BY <4>1 DEF QueueInv
    <3>. QED  BY <3>1, <3>2
  <2>5. program' \in Programs /\ raised' \in Nat
    BY DEF QueueInv, OneObject
  <2>6. \A u \in Tasks : local'[u].received \in Values
    BY DEF QueueInv
  <2>. QED  BY <2>3, <2>4, <2>5, <2>6 DEF QueueInv
<1>5. Held[o] = Contents(queues[o]) /\ o \in Mutexes /\ Owners[o] = None
  BY <1>2 DEF Held, Mutexes, Owners
<1>6. Results' = Results
  BY ResultsStay
<1>7. Contract!Lock(t, o)
  BY <1>2, <1>3, <1>5, <1>6, SeenOfOneObject, ContractActions
<1>. QED  BY <1>4, <1>7, ContractStep

\* A mutex that its owner gives, for the last time if it took it more than once.
LEMMA UnlockSeen ==
    ASSUME QueueInv, NEW o \in ProgramObjects, NEW t \in Tasks, NEW r, OneObject(o, r),
           IsMutex(queues[o]), o \in local[t].owns, r.count = queues[o].count + 1,
           r.holder = None, DOMAIN local' = Tasks,
           \A u \in Tasks :
              /\ Lasting \subseteq DOMAIN local'[u] /\ local'[u].at \in Nat \ {0}
              /\ local'[u].received = local[u].received
              /\ local'[u].owns = IF u = t THEN local[t].owns \ {o} ELSE local[u].owns
    PROVE  QueueInv' /\ [Contract!Next]_(Contract!vars)
<1>1. Sound(queues[o]) /\ Sound(r) /\ ~ HoldsData(queues[o]) /\ SameMake(queues[o], r)
  BY KindStays DEF OneObject, IsMutex, HoldsData
<1>2. queues[o].holder = t /\ t # None /\ queues[o].count = 0
  <2>1. queues[o].holder = t /\ t # None
    BY KernelAssumption DEF QueueInv
  <2>2. /\ queues[o].length = 1 /\ queues[o].count \in 0 .. queues[o].length
        /\ queues[o].count = 1 <=> queues[o].holder = None
    BY <1>1 DEF Sound
  <2>. QED  BY <2>1, <2>2
<1>3. Contents(r) = <<None>>
  <2>1. Contents(queues[o]) = <<>> /\ r.count = queues[o].count + 1
    BY <1>1, <1>2, ContentsType DEF IsEmpty
  <2>2. Contents(r) = Append(Contents(queues[o]), None)
    BY <1>1, <2>1, Counting
  <2>. QED  BY <2>1, <2>2
<1>4. QueueInv'
  <2>1. \A p \in ProgramObjects : queues'[p] = IF p = o THEN r ELSE queues[p]
    BY SeenOfOneObject
  <2>2. \A p \in ProgramObjects : IsMutex(queues'[p]) <=> IsMutex(queues[p])
    BY SeenOfOneObject
  <2>3. DOMAIN queues' = Objects /\ \A p \in ProgramObjects :
           Sound(queues'[p]) /\ SameMake(program'.queues[p], queues'[p])
    BY SeenOfOneObject
  <2>4. ASSUME NEW u \in Tasks, NEW p \in ProgramObjects, p \in local'[u].owns,
               IsMutex(queues'[p])
        PROVE  queues'[p].holder = u
    <3>1. p # o
      <4>1. ASSUME p = o PROVE u # t /\ queues[o].holder = u
        BY <2>4, <4>1 DEF QueueInv
      <4>. QED  BY <1>2, <4>1
    <3>2. p \in local[u].owns /\ IsMutex(queues[p]) /\ queues'[p] = queues[p]
      BY <2>1, <2>2, <2>4, <3>1
    <3>. QED  BY <3>2 DEF QueueInv
  <2>5. program' \in Programs /\ raised' \in Nat
    BY DEF QueueInv, OneObject
  <2>6. \A u \in Tasks : local'[u].received \in Values
    BY DEF QueueInv
  <2>. QED  BY <2>3, <2>4, <2>5, <2>6 DEF QueueInv
<1>5. Held[o] = Contents(queues[o]) /\ o \in Mutexes /\ Owners[o] = t
  BY <1>2 DEF Held, Mutexes, Owners
<1>6. Results' = Results
  BY ResultsStay
<1>7. Contract!Unlock(t, o)
  BY <1>3, <1>5, <1>6, SeenOfOneObject, ContractActions
<1>. QED  BY <1>4, <1>7, ContractStep

\* A take of a semaphore or mutex.
LEMMA TakeNowSeen ==
    ASSUME QueueInv, NEW t \in Tasks, TakeNow(t)
    PROVE  QueueInv' /\ [Contract!Next]_(Contract!vars)
<1>. DEFINE o == Object(t)
            q == queues[o]
            r == [Taken(q, t) EXCEPT !.calls = IF Call(t).op = "takeRecursive" THEN 1 ELSE @]
<1>1. Call(t).op \in Takes /\ Legal(Call(t), program.queues)
  BY CallsLegally DEF TakeNow
<1>2. o \in ProgramObjects /\ ~ HoldsData(program.queues[o])
  BY <1>1 DEF Legal, Object
<1>3. Sound(q) /\ ~ HoldsData(q)
  BY <1>2, KindStays
<1>4. ~ IsEmpty(q) /\ q.count \in Nat /\ q.count > 0 /\ q.count <= q.length /\ q.length \in Nat
  <2>1. ~ IsEmpty(q)
    BY <1>1 DEF TakeNow, Possible, Queue, Sends, Takes
  <2>. QED  BY <1>3, <2>1, ContentsType DEF IsEmpty
<1>5. /\ DOMAIN r = Fields /\ SameMake(q, r) /\ r.slots = q.slots /\ r.writeTo = q.writeTo
      /\ r.readFrom = q.readFrom /\ r.count = q.count - 1
      /\ r.holder = IF IsMutex(q) THEN t ELSE q.holder
  <2>1. DOMAIN q = Fields
    BY <1>3 DEF Sound
  <2>. HIDE DEF q
  <2>. QED  BY <2>1 DEF Taken, SameMake, Fields
<1>6. queues' = [queues EXCEPT ![o] = r] /\ program' = program /\ raised' \in Nat
  <2>1. queues' = [queues EXCEPT ![o] = r]
    BY DEF TakeNow, Queue
  <2>2. program' = program /\ raised' \in Nat
    BY DEF TakeNow, QueueInv
  <2>. QED  BY <2>1, <2>2
<1>. HIDE DEF r
<1>7. Sound(r)
  <2>1. r.count \in 0 .. q.length
    BY <1>4, <1>5
  <2>2. ~ IsMutex(q) => r.holder = None
    BY <1>3, <1>5 DEF Sound
  <2>3. IsMutex(q) => r.holder \in Tasks \cup {None} /\ r.holder # None /\ r.count = 0
    BY <1>3, <1>4, <1>5, KernelAssumption DEF Sound
  <2>4. IsMutex(q) => (r.count = 1 <=> r.holder = None)
    BY <2>3
  <2>. QED  BY <1>3, <1>5, <2>1, <2>2, <2>3, <2>4, CountChanged
<1>8. OneObject(o, r)
  BY <1>5, <1>6, <1>7 DEF OneObject
<1>9. /\ DOMAIN local' = Tasks
      /\ \A u \in Tasks : Lasting \subseteq DOMAIN local'[u] /\ local'[u].at \in Nat \ {0}
                          /\ local'[u].received = local[u].received
                          /\ local'[u].owns = IF u = t THEN local[t].owns \cup {o} ELSE local[u].owns
  BY ReturnOwns DEF TakeNow
<1>. HIDE DEF o
<1>10. CASE IsMutex(q)
  BY <1>2, <1>4, <1>5, <1>8, <1>9, <1>10, LockSeen
<1>11. CASE ~ IsMutex(q)
  <2>1. QueueInv'
    BY <1>2, <1>8, <1>9, <1>11, InvOfOneObject DEF QueueInv
  <2>2. Results' = Results
    BY <1>9, ResultsStay
  <2>3. Contents(r) = Tail(Contents(q)) /\ r.holder = q.holder
    BY <1>3, <1>5, <1>7, <1>11, Counting
  <2>. QED  BY <1>2, <1>4, <1>8, <1>11, <2>1, <2>2, <2>3, ReceiveSeen
<1>. QED  BY <1>10, <1>11

\* A give by a task.
LEMMA GiveSeen ==
    ASSUME QueueInv, NEW t \in Tasks, Give(t)
    PROVE  QueueInv' /\ [Contract!Next]_(Contract!vars)
<1>. DEFINE o == Object(t)
            q == queues[o]
            r == [CopyDataToQueue(q, None, "back") EXCEPT !.calls = 0]
<1>1. Call(t).op \in Gives /\ Legal(Call(t), program.queues)
  BY CallsLegally DEF Give
<1>2. o \in ProgramObjects /\ ~ HoldsData(program.queues[o])
  BY <1>1 DEF Legal, Object
<1>3. Sound(q) /\ ~ HoldsData(q)
  BY <1>2, KindStays
<1>4. ~ IsFull(q) /\ q.count \in Nat /\ q.count < q.length /\ q.length \in Nat
  <2>1. ~ IsFull(q)
    BY DEF Give, Queue
  <2>. QED  BY <1>3, <2>1, ContentsType DEF IsFull
<1>5. /\ DOMAIN r = Fields /\ SameMake(q, r) /\ r.slots = q.slots /\ r.writeTo = q.writeTo
      /\ r.readFrom = q.readFrom /\ r.count = q.count + 1
      /\ r.holder = IF IsMutex(q) THEN None ELSE q.holder
  <2>1. DOMAIN q = Fields
    BY <1>3 DEF Sound
  <2>. HIDE DEF q
  <2>. QED  BY <1>3, <2>1 DEF CopyDataToQueue, SameMake, Fields
<1>6. queues' = [queues EXCEPT ![o] = r] /\ program' = program /\ raised' \in Nat
  BY DEF Give, QueueInv
<1>. HIDE DEF r
<1>7. Sound(r)
  <2>1. r.count \in 0 .. q.length
    BY <1>4, <1>5
  <2>2. ~ IsMutex(q) => r.holder = None
    BY <1>3, <1>5 DEF Sound
  <2>3. IsMutex(q) => r.holder = None /\ r.count = 1
    BY <1>3, <1>4, <1>5 DEF Sound
  <2>. QED  BY <1>3, <1>5, <2>1, <2>2, <2>3, CountChanged
<1>8. OneObject(o, r)
  BY <1>5, <1>6, <1>7 DEF OneObject
<1>9. /\ DOMAIN local' = Tasks
      /\ \A u \in Tasks : Lasting \subseteq DOMAIN local'[u] /\ local'[u].at \in Nat \ {0}
                          /\ local'[u].received = local[u].received
                          /\ local'[u].owns = IF u = t THEN local[t].owns \ {o} ELSE local[u].owns
  BY ReturnOwns DEF Give
<1>10. IsMutex(q) => o \in local[t].owns
  BY DEF Give, Queue
<1>. HIDE DEF o
<1>11. CASE IsMutex(q)
  <2>1. r.holder = None /\ r.count = queues[o].count + 1
    BY <1>5, <1>11
  <2>2. o \in local[t].owns
    BY <1>10, <1>11
  <2>. QED  BY <1>2, <1>8, <1>9, <1>11, <2>1, <2>2, UnlockSeen
<1>12. CASE ~ IsMutex(q)
  <2>1. QueueInv'
    BY <1>2, <1>8, <1>9, <1>12, InvOfOneObject DEF QueueInv
  <2>2. Results' = Results
    BY <1>9, ResultsStay
  <2>3. Contents(r) = Append(Contents(q), None) /\ r.holder = q.holder /\ None \in Values
    BY <1>3, <1>5, <1>7, <1>12, Counting DEF Values
  <2>. QED  BY <1>2, <1>4, <1>8, <1>12, <2>1, <2>2, <2>3, SendSeen
<1>. QED  BY <1>11, <1>12

\* A send or give by an interrupt, which counts it for a queue that is locked.
LEMMA SendInterruptSeen ==
    ASSUME QueueInv, SendInterrupt
    PROVE  QueueInv' /\ [Contract!Next]_(Contract!vars)
<1>. DEFINE o == Raised.object
            q == queues[o]
            c == CopyDataToQueue(q, Raised.value, "back")
            r == CountTx(c)
<1>1. Raised.op \in {"send", "give"} /\ LegalInterrupt(Raised, program.queues)
  <2>1. raised + 1 \in 1 .. Len(program.interrupts)
    BY ProgramAssumption DEF QueueInv, SendInterrupt, Raise, Interrupts
  <2>2. Raised = program.interrupts[raised + 1]
    BY DEF Raised, Interrupts
  <2>. QED  BY <2>1, <2>2, ProgramAssumption DEF QueueInv, SendInterrupt, Raise, Interrupts
<1>2. /\ o \in ProgramObjects /\ ~ IsMutex(program.queues[o])
      /\ \/ HoldsData(program.queues[o]) /\ Raised.value \in Values
         \/ ~ HoldsData(program.queues[o])
  BY <1>1 DEF LegalInterrupt, Values
<1>3. /\ Sound(q) /\ ~ IsMutex(q) /\ (HoldsData(q) => Raised.value \in Values)
      /\ q.count \in Nat /\ q.length \in Nat /\ q.count <= q.length
  BY <1>2, KindStays, ContentsType
<1>4. SameLocals /\ program' = program /\ raised' \in Nat /\ Results' = Results
  BY LocalsStay DEF SendInterrupt, Raise, QueueInv, Results
<1>5. CASE IsFull(q)
  <2>1. Unseen
    BY <1>4, <1>5, QueuesStay DEF SendInterrupt, Unseen
  <2>. QED  BY <2>1, UnseenStep DEF ContractUnchanged
<1>6. CASE ~ IsFull(q)
  <2>1. queues' = [queues EXCEPT ![o] = r] /\ q.count < q.length
    BY <1>3, <1>6 DEF SendInterrupt, IsFull
  <2>2. PICK v \in Values : /\ Sound(c) /\ SameMake(q, c) /\ c.holder = q.holder
                            /\ Contents(c) = Append(Contents(q), v)
    <3>1. CASE HoldsData(q)
      BY <1>3, <2>1, <3>1, SentToBack
    <3>2. CASE ~ HoldsData(q)
      <4>1. /\ DOMAIN c = Fields /\ SameMake(q, c) /\ c.slots = q.slots /\ c.writeTo = q.writeTo
            /\ c.readFrom = q.readFrom /\ c.count = q.count + 1 /\ c.holder = q.holder
        <5>1. DOMAIN q = Fields
          BY <1>3 DEF Sound
        <5>. HIDE DEF q
        <5>. QED  BY <1>3, <3>2, <5>1 DEF CopyDataToQueue, SameMake, Fields
      <4>. HIDE DEF c
      <4>2. c.count \in 0 .. q.length /\ c.holder = None
        BY <1>3, <2>1, <4>1 DEF Sound
      <4>3. Sound(c)
        BY <1>3, <3>2, <4>1, <4>2, CountChanged
      <4>4. Contents(c) = Append(Contents(q), None)
        BY <1>3, <3>2, <4>1, <4>3, Counting
      <4>. QED  BY <4>1, <4>3, <4>4 DEF Values
    <3>. QED  BY <3>1, <3>2
  <2>. HIDE DEF c
  <2>3. SameRing(c, r)
    BY <2>2 DEF CountTx, SameRing, Sound, Fields
  <2>4. Sound(r) /\ SameMake(q, r) /\ Contents(r) = Append(Contents(q), v) /\ r.holder = q.holder
    BY <2>2, <2>3, SameRingKeeps DEF SameMake, SameRing
  <2>. HIDE DEF r
  <2>5. OneObject(o, r)
    BY <1>4, <2>1, <2>4 DEF OneObject
  <2>. HIDE DEF o
  <2>6. QueueInv'
    BY <1>2, <1>3, <1>4, <2>5, InvOfOneObject DEF QueueInv, SameLocals
  <2>. QED  BY <1>2, <1>3, <1>4, <2>1, <2>4, <2>5, <2>6, SendSeen
<1>. QED  BY <1>5, <1>6

\* A receive by an interrupt.
LEMMA ReceiveInterruptSeen ==
    ASSUME QueueInv, ReceiveInterrupt
    PROVE  QueueInv' /\ [Contract!Next]_(Contract!vars)
<1>. DEFINE o == Raised.object
            q == queues[o]
            c == Received(q)
            r == CountRx(c)
<1>1. Raised.op = "receive" /\ LegalInterrupt(Raised, program.queues)
  <2>1. raised + 1 \in 1 .. Len(program.interrupts)
    BY ProgramAssumption DEF QueueInv, ReceiveInterrupt, Raise, Interrupts
  <2>2. Raised = program.interrupts[raised + 1]
    BY DEF Raised, Interrupts
  <2>. QED  BY <2>1, <2>2, ProgramAssumption DEF QueueInv, ReceiveInterrupt, Raise, Interrupts
<1>2. o \in ProgramObjects /\ ~ IsMutex(program.queues[o]) /\ HoldsData(program.queues[o])
  BY <1>1 DEF LegalInterrupt
<1>3. Sound(q) /\ ~ IsMutex(q) /\ HoldsData(q)
  BY <1>2, KindStays
<1>4. SameLocals /\ program' = program /\ raised' \in Nat /\ Results' = Results
  BY LocalsStay DEF ReceiveInterrupt, Raise, QueueInv, Results
<1>5. CASE IsEmpty(q)
  <2>1. Unseen
    BY <1>4, <1>5, QueuesStay DEF ReceiveInterrupt, Unseen
  <2>. QED  BY <2>1, UnseenStep DEF ContractUnchanged
<1>6. CASE ~ IsEmpty(q)
  <2>1. queues' = [queues EXCEPT ![o] = r]
    BY <1>6 DEF ReceiveInterrupt
  <2>2. /\ Sound(c) /\ SameMake(q, c) /\ c.holder = q.holder
        /\ Contents(c) = Tail(Contents(q))
    BY <1>3, <1>6, ReceivedFirst
  <2>. HIDE DEF c
  <2>3. SameRing(c, r)
    BY <2>2 DEF CountRx, SameRing, Sound, Fields
  <2>4. Sound(r) /\ SameMake(q, r) /\ Contents(r) = Tail(Contents(q)) /\ r.holder = q.holder
    BY <2>2, <2>3, SameRingKeeps DEF SameMake, SameRing
  <2>. HIDE DEF r
  <2>5. OneObject(o, r)
    BY <1>4, <2>1, <2>4 DEF OneObject
  <2>. HIDE DEF o
  <2>6. QueueInv'
    BY <1>2, <1>3, <1>4, <2>5, InvOfOneObject DEF QueueInv, SameLocals
  <2>. QED  BY <1>2, <1>3, <1>4, <1>6, <2>4, <2>5, <2>6, ReceiveSeen
<1>. QED  BY <1>5, <1>6

--------------------------------------------------------------------------

\* What a queue is created as is sound, and holds nothing but free slots.
LEMMA CreatedIsSound ==
    ASSUME NEW q, Created(q)
    PROVE  Sound(q) /\ q.holder = None
<1>. DEFINE n == q.length
<1>1. n \in Nat \ {0}
  BY DEF Created
<1>2. CASE q = NewQueue("queue", n)
  <2>1. /\ DOMAIN q = Fields /\ q.kind = "queue" /\ q.count = 0 /\ q.readFrom = n - 1
        /\ q.writeTo = 0 /\ q.slots = [i \in 0 .. n - 1 |-> None] /\ q.holder = None
    BY <1>2 DEF NewQueue, Fields
  <2>2. HoldsData(q) /\ ~ IsMutex(q)
    BY <2>1 DEF HoldsData, IsMutex
  <2>. HIDE DEF n
  <2>3. (n - 1 + (0 + 1)) % n = 0
    BY <1>1
  <2>4. n - 1 \in 0 .. n - 1 /\ 0 \in 0 .. n - 1 /\ 0 \in 0 .. n
    BY <1>1
  <2>5. [i \in 0 .. n - 1 |-> None] \in [0 .. n - 1 -> Values]
    BY DEF Values
  <2>. QED  BY <1>1, <2>1, <2>2, <2>3, <2>4, <2>5 DEF Sound, n
<1>3. CASE q = NewSemaphore(n, q.count) /\ q.count \in 0 .. n
  <2>1. /\ DOMAIN q = Fields /\ q.kind = "semaphore" /\ q.readFrom = n - 1
        /\ q.writeTo = 0 /\ q.slots = [i \in 0 .. n - 1 |-> None] /\ q.holder = None
    BY <1>3 DEF NewQueue, NewSemaphore, Fields
  <2>2. ~ HoldsData(q) /\ ~ IsMutex(q)
    BY <2>1 DEF HoldsData, IsMutex
  <2>. HIDE DEF n
  <2>4. n - 1 \in 0 .. n - 1 /\ 0 \in 0 .. n - 1
    BY <1>1
  <2>5. [i \in 0 .. n - 1 |-> None] \in [0 .. n - 1 -> Values]
    BY DEF Values
  <2>. QED  BY <1>1, <1>3, <2>1, <2>2, <2>4, <2>5 DEF Sound, n
<1>4. CASE q = NewMutex
  <2>1. /\ DOMAIN q = Fields /\ q.kind = "mutex" /\ q.readFrom = 0 /\ q.count = 1 /\ n = 1
        /\ q.writeTo = 0 /\ q.slots = [i \in 0 .. 0 |-> None] /\ q.holder = None
    BY <1>4 DEF NewQueue, NewMutex, Fields
  <2>2. ~ HoldsData(q) /\ IsMutex(q)
    BY <2>1 DEF HoldsData, IsMutex
  <2>. HIDE DEF n
  <2>4. n - 1 = 0 /\ 0 \in 0 .. 0 /\ 1 \in 0 .. 1
    BY <2>1
  <2>5. [i \in 0 .. 0 |-> None] \in [0 .. 0 -> Values]
    BY DEF Values
  <2>. QED  BY <1>1, <2>1, <2>2, <2>4, <2>5 DEF Sound, n
<1>. QED  BY <1>2, <1>3, <1>4 DEF Created

\* Objects are sound when they are created, and look so to the callers.
LEMMA QueuesStart ==
    ASSUME SystemInit
    PROVE  QueueInv /\ Contract!Init
<1>1. program \in Programs /\ raised = 0 /\ queues = program.queues
  BY DEF SystemInit, Init
<1>2. /\ DOMAIN queues = Objects
      /\ \A o \in ProgramObjects : Sound(queues[o]) /\ queues[o].holder = None
  BY <1>1, ProgramAssumption, CreatedIsSound DEF ProgramObjects
<1>3. /\ DOMAIN local = Tasks
      /\ \A t \in Tasks : /\ Lasting \subseteq DOMAIN local[t]
                          /\ local[t].at = 1 /\ local[t].received = None /\ local[t].owns = {}
  <2>. DEFINE changes == [at |-> 1, received |-> None, lastWake |-> InitialTick, owns |-> {}]
  <2>1. local = [t \in Tasks |-> Updated(NewCall, changes)]
    BY DEF SystemInit, Init
  <2>2. /\ DOMAIN changes = {"at", "received", "lastWake", "owns"}
        /\ changes["at"] = 1 /\ changes["received"] = None /\ changes["owns"] = {}
    OBVIOUS
  <2>. HIDE DEF changes
  <2>. DEFINE first == Updated(NewCall, changes)
  <2>3. /\ DOMAIN first = DOMAIN NewCall \cup DOMAIN changes
        /\ \A x \in DOMAIN changes : first[x] = changes[x]
    BY AfterUpdate
  <2>. HIDE DEF first
  <2>4. /\ Lasting \subseteq DOMAIN first
        /\ first["at"] = 1 /\ first["received"] = None /\ first["owns"] = {}
    BY <2>2, <2>3 DEF Lasting
  <2>5. local = [t \in Tasks |-> first]
    BY <2>1 DEF first
  <2>. QED  BY <2>4, <2>5
<1>4. QueueInv
  BY <1>1, <1>2, <1>3 DEF QueueInv, SameMake, Values
<1>5. Contract!Init
  <2>1. Held \in [ProgramObjects -> Seq(Values)]
    BY <1>2, ContentsType DEF Held
  <2>2. \A o \in ProgramObjects : Len(Held[o]) <= Lengths[o]
    BY <1>2, ContentsType DEF Held, Lengths
  <2>3. \A m \in Mutexes : Len(Held[m]) = 1
    <3>1. ASSUME NEW m \in Mutexes PROVE Len(Held[m]) = 1
      <4>1. m \in ProgramObjects /\ IsMutex(queues[m]) /\ Sound(queues[m]) /\ queues[m].holder = None
        BY <1>2, <3>1 DEF Mutexes
      <4>2. queues[m].count = 1
        BY <4>1 DEF Sound
      <4>. QED  BY <4>1, <4>2, ContentsType DEF Held
    <3>. QED  BY <3>1
  <2>4. Owners = [o \in ProgramObjects |-> None]
    BY <1>2 DEF Owners
  <2>5. Results = [t \in Tasks |-> None]
    BY <1>3 DEF Results
  <2>. QED  BY <2>1, <2>2, <2>3, <2>4, <2>5
            DEF Contract!Init, Held, Lengths, Mutexes, Owners, Results, Values
<1>. QED  BY <1>4, <1>5

\* Every step keeps the invariant, and is one of the contract or unseen by it.
LEMMA QueuesStep ==
    ASSUME QueueInv, [SystemNext]_systemVars
    PROVE  QueueInv' /\ [Contract!Next]_(Contract!vars)
<1>1. ASSUME Unseen PROVE QueueInv' /\ [Contract!Next]_(Contract!vars)
  BY <1>1, UnseenStep DEF ContractUnchanged
<1>2. CASE UNCHANGED systemVars
  <2>1. Unseen
    BY <1>2, LocalsStay, QueuesStay DEF Unseen, QueueInv, systemVars, vars
  <2>. QED  BY <1>1, <2>1
<1>3. ASSUME NEW t \in Tasks, QueueStep(t)
      PROVE  QueueInv' /\ [Contract!Next]_(Contract!vars)
  BY <1>1, <1>3, QueueStepsUnseen, SendNowSeen, ReceiveNowSeen, PeekNowSeen, TakeNowSeen, GiveSeen
     DEF QueueStep
<1>4. ASSUME NEW t \in Tasks,
             \/ OtherStep(t) \/ StreamStep(t) \/ ComposeCommand(t) \/ DaemonStep(t)
             \/ ClockStep(t)
      PROVE  Unseen
  BY <1>4, OtherStepsUnseen, StreamStepsUnseen, DaemonStepsUnseen, ClockStepsUnseen
<1>5. CASE SystemProcessor
  BY <1>1, <1>3, <1>4, <1>5, InterruptsUnseen DEF SystemProcessor, Processor
<1>6. CASE SystemInterrupt
  BY <1>1, <1>6, InterruptsUnseen, SendInterruptSeen, ReceiveInterruptSeen
     DEF SystemInterrupt, Interrupt
<1>7. CASE Tick
  BY <1>1, <1>7, InterruptsUnseen DEF Tick
<1>. QED  BY <1>2, <1>5, <1>6, <1>7 DEF SystemNext

\* In every program, whatever its tasks, interrupts, timers and stream buffers
\* do: the ring of each queue stays in order, a mutex is empty exactly while it
\* has a holder, and a task that took a mutex is its holder until it gives it.
THEOREM QueuesStaySound == SystemSpec => []QueueInv
<1>1. QueueInv /\ [SystemNext]_systemVars => QueueInv'
  BY QueuesStep
<1>. QED  BY <1>1, QueuesStart, PTL DEF SystemSpec

\* Every call on a queue, semaphore or mutex, of a task or an interrupt, in one
\* critical section or several, with its waits, locks and timeouts, is one
\* atomic step of the contract: values are received once, in the order they
\* were sent, and a mutex has one owner, who alone gives it back (queue.c).
THEOREM QueuesImplementContract == SystemSpec => ImplementsContract
<1>1. QueueInv /\ [SystemNext]_systemVars => QueueInv' /\ [Contract!Next]_(Contract!vars)
  BY QueuesStep
<1>2. SystemInit => QueueInv /\ Contract!Init
  BY QueuesStart
<1>. QED  BY <1>1, <1>2, PTL DEF SystemSpec, ImplementsContract, Contract!Spec

(***************************************************************************)
(* The lists of the scheduler.                                             *)
(***************************************************************************)

\* A list names no task twice.
Lists(S) == {seq \in Seq(S) : IsInjective(seq)}

\* Every set of numbers that has an element has a least one.
LEMMA LeastOf ==
    ASSUME NEW S, S \subseteq Nat, S # {}
    PROVE  Min(S) \in S /\ \A x \in S : Min(S) <= x
<1>. DEFINE R == {ss \in Nat \X Nat : ss[1] < ss[2]}
<1>1. IsWellFoundedOn(R, Nat)
  BY NatLessThanWellFounded DEF OpToRel
<1>2. \A m, n \in Nat : <<m, n>> \in R <=> m < n
  OBVIOUS
<1>. HIDE DEF R
<1>3. PICK n \in S : \A m \in S : ~ (<<m, n>> \in R)
  BY <1>1, WFMin, Zenon
<1>4. ASSUME NEW m \in S PROVE n <= m
  <2>1. m \in Nat /\ n \in Nat /\ ~ (<<m, n>> \in R)
    BY <1>3
  <2>2. ~ (m < n)
    BY <1>2, <2>1
  <2>. QED  BY <2>1, <2>2
<1>. QED  BY <1>4 DEF Min

\* A finite set of numbers has a largest one.
LEMMA LargestOf ==
    ASSUME NEW n \in Nat, NEW S, S \subseteq 0 .. n, S # {}
    PROVE  Max(S) \in S /\ \A x \in S : x <= Max(S)
<1>. DEFINE D == {n - x : x \in S}
<1>a. ASSUME NEW y \in S PROVE n - y \in D
  OBVIOUS
<1>b. ASSUME NEW y \in S PROVE n - y \in Nat
  OBVIOUS
<1>1. D \subseteq Nat /\ D # {}
  <2>1. PICK y \in S : TRUE
    OBVIOUS
  <2>2. n - y \in D
    BY <1>a
  <2>3. D # {}
    BY <2>2
  <2>4. ASSUME NEW d \in D PROVE d \in Nat
    BY <1>b
  <2>. QED  BY <2>3, <2>4
<1>2. Min(D) \in D /\ \A d \in D : Min(D) <= d
  BY <1>1, LeastOf
<1>3. PICK x \in S : Min(D) = n - x
  BY <1>2
<1>. HIDE DEF D
<1>5. \A y \in S : y <= x
  BY <1>2, <1>3, <1>a
<1>. QED  BY <1>5 DEF Max

LEMMA ContainsIs ==
    ASSUME NEW S, NEW seq \in Seq(S), NEW x
    PROVE  Contains(seq, x) <=> x \in Range(seq)
BY DEF Contains, Range

\* A part of a sequence.
LEMMA PartOf ==
    ASSUME NEW S, NEW seq \in Seq(S), NEW m \in 1 .. Len(seq) + 1, NEW n \in m - 1 .. Len(seq)
    PROVE  /\ SubSeq(seq, m, n) \in Seq(S) /\ Len(SubSeq(seq, m, n)) = (n + 1) - m
           /\ \A i \in 1 .. (n + 1) - m : SubSeq(seq, m, n)[i] = seq[(m - 1) + i]
<1>1. Len(seq) \in Nat /\ m \in Int /\ n \in Int /\ (n - m) + 1 = (n + 1) - m
  OBVIOUS
<1>2. \A i \in m .. n : seq[i] \in S
  BY <1>1, ElementOfSeq
<1>3. \A i \in Int : (m + i) - 1 = (m - 1) + i
  BY <1>1
<1>. QED  BY <1>1, <1>2, <1>3, SubSeqProperties

\* One element less.
LEMMA WithoutOne ==
    ASSUME NEW S, NEW seq \in Lists(S), NEW k \in 1 .. Len(seq)
    PROVE  /\ RemoveAt(seq, k) \in Lists(S)
           /\ Range(RemoveAt(seq, k)) = Range(seq) \ {seq[k]}
           /\ Len(RemoveAt(seq, k)) = Len(seq) - 1
           /\ \A i \in 1 .. Len(seq) - 1 : RemoveAt(seq, k)[i] = IF i < k THEN seq[i] ELSE seq[i + 1]
<1>. DEFINE n == Len(seq)
            r == RemoveAt(seq, k)
            a == SubSeq(seq, 1, k - 1)
            b == SubSeq(seq, k + 1, n)
<1>1. seq \in Seq(S) /\ n \in Nat /\ DOMAIN seq = 1 .. n /\ IsInjective(seq)
  BY DEF Lists
<1>2. /\ a \in Seq(S) /\ Len(a) = k - 1 /\ \A i \in 1 .. k - 1 : a[i] = seq[i]
  <2>1. 1 \in 1 .. n + 1 /\ k - 1 \in 1 - 1 .. n /\ ((k - 1) + 1) - 1 = k - 1
        /\ \A i \in 1 .. k - 1 : (1 - 1) + i = i
    BY <1>1
  <2>. QED  BY <1>1, <2>1, PartOf
<1>3. /\ b \in Seq(S) /\ Len(b) = n - k /\ \A i \in 1 .. n - k : b[i] = seq[k + i]
  <2>1. k + 1 \in 1 .. n + 1 /\ n \in (k + 1) - 1 .. n /\ (n + 1) - (k + 1) = n - k
        /\ (k + 1) - 1 = k
    BY <1>1
  <2>2. /\ b \in Seq(S) /\ Len(b) = (n + 1) - (k + 1)
        /\ \A i \in 1 .. (n + 1) - (k + 1) : b[i] = seq[((k + 1) - 1) + i]
    BY <1>1, <2>1, PartOf
  <2>. HIDE DEF b
  <2>. QED  BY <2>1, <2>2
<1>4. r = a \o b
  BY DEF RemoveAt
<1>5. /\ r \in Seq(S) /\ Len(r) = n - 1
      /\ \A i \in 1 .. n - 1 : r[i] = IF i <= k - 1 THEN a[i] ELSE b[i - (k - 1)]
  <2>1. (k - 1) + (n - k) = n - 1
    BY <1>1
  <2>. HIDE DEF a, b, r
  <2>2. /\ a \o b \in Seq(S) /\ Len(a \o b) = Len(a) + Len(b)
        /\ \A i \in 1 .. Len(a) + Len(b) : (a \o b)[i] = IF i <= Len(a) THEN a[i] ELSE b[i - Len(a)]
    BY <1>2, <1>3, ConcatProperties
  <2>. QED  BY <1>2, <1>3, <1>4, <2>1, <2>2
<1>6. \A i \in 1 .. n - 1 : r[i] = IF i < k THEN seq[i] ELSE seq[i + 1]
  <2>. HIDE DEF a, b, r
  <2>1. ASSUME NEW i \in 1 .. n - 1, i < k PROVE r[i] = seq[i]
    BY <1>1, <1>2, <1>5, <2>1
  <2>2. ASSUME NEW i \in 1 .. n - 1, ~ (i < k) PROVE r[i] = seq[i + 1]
    <3>1. i - (k - 1) \in 1 .. n - k /\ k + (i - (k - 1)) = i + 1 /\ ~ (i <= k - 1)
      BY <1>1, <2>2
    <3>. QED  BY <1>3, <1>5, <3>1
  <2>. QED  BY <2>1, <2>2
<1>. HIDE DEF a, b, r
<1>7. DOMAIN r = 1 .. n - 1
  BY <1>1, <1>5
<1>8. IsInjective(r)
  <2>1. ASSUME NEW i \in 1 .. n - 1, NEW j \in 1 .. n - 1, r[i] = r[j] PROVE i = j
    <3>. DEFINE at(m) == IF m < k THEN m ELSE m + 1
    <3>1. \A m \in 1 .. n - 1 : at(m) \in 1 .. n /\ r[m] = seq[at(m)]
      BY <1>1, <1>6
    <3>2. seq[at(i)] = seq[at(j)] /\ at(i) \in 1 .. n /\ at(j) \in 1 .. n
      BY <2>1, <3>1
    <3>3. at(i) = at(j)
      BY <1>1, <3>2 DEF IsInjective
    <3>. QED  BY <1>1, <3>3
  <2>. QED  BY <1>7, <2>1 DEF IsInjective
<1>9. Range(r) = Range(seq) \ {seq[k]}
  <2>1. ASSUME NEW i \in 1 .. n - 1 PROVE r[i] \in Range(seq) \ {seq[k]}
    BY <1>1, <1>6 DEF IsInjective, Range
  <2>2. ASSUME NEW j \in 1 .. n, j # k PROVE seq[j] \in Range(r)
    <3>1. CASE j < k
      BY <1>1, <1>6, <1>7, <3>1 DEF Range
    <3>2. CASE j > k
      <4>1. j - 1 \in 1 .. n - 1 /\ ~ (j - 1 < k) /\ (j - 1) + 1 = j
        BY <1>1, <3>2
      <4>2. r[j - 1] = seq[j]
        BY <1>6, <4>1
      <4>. QED  BY <1>7, <4>1, <4>2 DEF Range
    <3>. QED  BY <1>1, <2>2, <3>1, <3>2
  <2>. QED  BY <1>1, <1>7, <2>1, <2>2 DEF Range
<1>. QED  BY <1>5, <1>6, <1>8, <1>9 DEF r, Lists

\* uxListRemove.
LEMMA ListRemove ==
    ASSUME NEW S, NEW seq \in Lists(S), NEW x
    PROVE  /\ RemoveFirst(seq, x) \in Lists(S)
           /\ Range(RemoveFirst(seq, x)) = Range(seq) \ {x}
<1>1. seq \in Seq(S) /\ Len(seq) \in Nat /\ DOMAIN seq = 1 .. Len(seq)
  BY DEF Lists
<1>2. CASE \E i \in 1 .. Len(seq) : seq[i] = x
  <2>. DEFINE I == {i \in 1 .. Len(seq) : seq[i] = x}
  <2>1. I \subseteq Nat /\ I # {}
    BY <1>1, <1>2
  <2>2. Min(I) \in I
    BY <2>1, LeastOf
  <2>3. RemoveFirst(seq, x) = RemoveAt(seq, Min(I))
    BY <1>2 DEF RemoveFirst, SelectInSeq
  <2>. HIDE DEF I
  <2>4. Min(I) \in 1 .. Len(seq) /\ seq[Min(I)] = x
    BY <2>2 DEF I
  <2>. QED  BY <2>3, <2>4, WithoutOne
<1>3. CASE ~ \E i \in 1 .. Len(seq) : seq[i] = x
  <2>1. RemoveFirst(seq, x) = seq
    BY <1>3 DEF RemoveFirst
  <2>2. x \notin Range(seq)
    BY <1>1, <1>3 DEF Range
  <2>. QED  BY <2>1, <2>2
<1>. QED  BY <1>2, <1>3

\* One element more.
LEMMA WithOneMore ==
    ASSUME NEW S, NEW seq \in Lists(S), NEW x \in S, x \notin Range(seq),
           NEW k \in 1 .. Len(seq) + 1
    PROVE  /\ InsertAt(seq, k, x) \in Lists(S)
           /\ Range(InsertAt(seq, k, x)) = Range(seq) \cup {x}
           /\ Len(InsertAt(seq, k, x)) = Len(seq) + 1
           /\ \A i \in 1 .. Len(seq) + 1 :
                 InsertAt(seq, k, x)[i] = IF i < k THEN seq[i] ELSE IF i = k THEN x ELSE seq[i - 1]
<1>. DEFINE n == Len(seq)
            r == InsertAt(seq, k, x)
            a == SubSeq(seq, 1, k - 1)
            b == SubSeq(seq, k, n)
            c == a \o <<x>>
<1>1. seq \in Seq(S) /\ n \in Nat /\ DOMAIN seq = 1 .. n /\ IsInjective(seq)
  BY DEF Lists
<1>2. /\ a \in Seq(S) /\ Len(a) = k - 1 /\ \A i \in 1 .. k - 1 : a[i] = seq[i]
  <2>1. 1 \in 1 .. n + 1 /\ k - 1 \in 1 - 1 .. n /\ ((k - 1) + 1) - 1 = k - 1
        /\ \A i \in 1 .. k - 1 : (1 - 1) + i = i
    BY <1>1
  <2>. QED  BY <1>1, <2>1, PartOf
<1>3. /\ b \in Seq(S) /\ Len(b) = (n + 1) - k /\ \A i \in 1 .. (n + 1) - k : b[i] = seq[(k - 1) + i]
  <2>1. k \in 1 .. n + 1 /\ n \in k - 1 .. n
    BY <1>1
  <2>. QED  BY <1>1, <2>1, PartOf
<1>4. r = c \o b
  BY DEF InsertAt
<1>5. /\ c \in Seq(S) /\ Len(c) = k
      /\ \A i \in 1 .. k : c[i] = IF i < k THEN a[i] ELSE x
  <2>1. <<x>> \in Seq(S) /\ Len(<<x>>) = 1 /\ <<x>>[1] = x
    OBVIOUS
  <2>. DEFINE one == <<x>>
  <2>. HIDE DEF a, one
  <2>2. one \in Seq(S) /\ Len(one) = 1 /\ one[1] = x /\ c = a \o one
    BY <2>1 DEF one
  <2>3. (k - 1) + 1 = k
    OBVIOUS
  <2>4. /\ a \o one \in Seq(S) /\ Len(a \o one) = k
        /\ \A i \in 1 .. k : (a \o one)[i] = IF i <= k - 1 THEN a[i] ELSE one[i - (k - 1)]
    BY <1>2, <2>2, <2>3, ConcatProperties
  <2>. HIDE DEF c
  <2>. QED  BY <2>2, <2>4
<1>6. /\ r \in Seq(S) /\ Len(r) = n + 1
      /\ \A i \in 1 .. n + 1 : r[i] = IF i <= k THEN c[i] ELSE b[i - k]
  <2>1. k + ((n + 1) - k) = n + 1
    BY <1>1
  <2>. HIDE DEF a, b, c, r
  <2>2. /\ c \o b \in Seq(S) /\ Len(c \o b) = Len(c) + Len(b)
        /\ \A i \in 1 .. Len(c) + Len(b) : (c \o b)[i] = IF i <= Len(c) THEN c[i] ELSE b[i - Len(c)]
    BY <1>3, <1>5, ConcatProperties
  <2>. QED  BY <1>3, <1>4, <1>5, <2>1, <2>2
<1>. HIDE DEF a, b, c, r
<1>7. \A i \in 1 .. n + 1 : r[i] = IF i < k THEN seq[i] ELSE IF i = k THEN x ELSE seq[i - 1]
  <2>1. ASSUME NEW i \in 1 .. n + 1, i < k PROVE r[i] = seq[i]
    BY <1>1, <1>2, <1>5, <1>6, <2>1
  <2>2. r[k] = x
    BY <1>1, <1>5, <1>6
  <2>3. ASSUME NEW i \in 1 .. n + 1, i > k PROVE r[i] = seq[i - 1]
    <3>1. i - k \in 1 .. (n + 1) - k /\ (k - 1) + (i - k) = i - 1 /\ ~ (i <= k)
      BY <1>1, <2>3
    <3>. QED  BY <1>3, <1>6, <3>1
  <2>. QED  BY <1>1, <2>1, <2>2, <2>3
<1>8. DOMAIN r = 1 .. n + 1
  BY <1>1, <1>6
<1>9. \A i \in 1 .. n : seq[i] # x
  BY <1>1 DEF Range
<1>10. IsInjective(r)
  <2>1. ASSUME NEW i \in 1 .. n + 1, NEW j \in 1 .. n + 1, r[i] = r[j] PROVE i = j
    <3>. DEFINE at(m) == IF m < k THEN m ELSE m - 1
    <3>1. \A m \in 1 .. n + 1 : m # k => at(m) \in 1 .. n /\ r[m] = seq[at(m)]
      BY <1>1, <1>7
    <3>2. r[k] = x
      BY <1>1, <1>7
    <3>3. CASE i = k \/ j = k
      BY <1>9, <2>1, <3>1, <3>2, <3>3
    <3>4. CASE i # k /\ j # k
      <4>1. seq[at(i)] = seq[at(j)] /\ at(i) \in 1 .. n /\ at(j) \in 1 .. n
        BY <2>1, <3>1, <3>4
      <4>2. at(i) = at(j)
        BY <1>1, <4>1 DEF IsInjective
      <4>. QED  BY <1>1, <3>4, <4>2
    <3>. QED  BY <3>3, <3>4
  <2>. QED  BY <1>8, <2>1 DEF IsInjective
<1>11. Range(r) = Range(seq) \cup {x}
  <2>1. ASSUME NEW i \in 1 .. n + 1 PROVE r[i] \in Range(seq) \cup {x}
    BY <1>1, <1>7 DEF Range
  <2>2. ASSUME NEW j \in 1 .. n PROVE seq[j] \in Range(r)
    <3>1. CASE j < k
      BY <1>1, <1>7, <1>8, <3>1 DEF Range
    <3>2. CASE j >= k
      <4>1. j + 1 \in 1 .. n + 1 /\ ~ (j + 1 < k) /\ j + 1 # k /\ (j + 1) - 1 = j
        BY <1>1, <3>2
      <4>2. r[j + 1] = seq[j]
        BY <1>7, <4>1
      <4>. QED  BY <1>8, <4>1, <4>2 DEF Range
    <3>. QED  BY <1>1, <3>1, <3>2
  <2>3. k \in 1 .. n + 1 /\ r[k] = x
    BY <1>1, <1>7
  <2>4. x \in Range(r)
    BY <1>8, <2>3 DEF Range
  <2>. QED  BY <1>1, <1>8, <2>1, <2>2, <2>4 DEF Range
<1>. QED  BY <1>6, <1>7, <1>10, <1>11 DEF r, Lists

LEMMA AppendOne ==
    ASSUME NEW S, NEW seq \in Lists(S), NEW x \in S, x \notin Range(seq)
    PROVE  /\ Append(seq, x) \in Lists(S)
           /\ Range(Append(seq, x)) = Range(seq) \cup {x}
<1>1. seq \in Seq(S) /\ Len(seq) \in Nat /\ DOMAIN seq = 1 .. Len(seq) /\ IsInjective(seq)
  BY DEF Lists
<1>. DEFINE r == Append(seq, x)
<1>2. /\ r \in Seq(S) /\ Len(r) = Len(seq) + 1 /\ DOMAIN r = 1 .. Len(seq) + 1
      /\ \A i \in 1 .. Len(seq) : r[i] = seq[i]
      /\ r[Len(seq) + 1] = x
  BY <1>1, AppendProperties
<1>. HIDE DEF r
<1>3. IsInjective(r)
  BY <1>1, <1>2 DEF IsInjective, Range
<1>4. Range(r) = Range(seq) \cup {x}
  BY <1>1, <1>2 DEF Range
<1>. QED  BY <1>2, <1>3, <1>4 DEF r, Lists

\* vListInsert.
LEMMA ListInserted ==
    ASSUME NEW S, NEW seq \in Lists(S), NEW x \in S, x \notin Range(seq), NEW value
    PROVE  /\ ListInsert(seq, x, value) \in Lists(S)
           /\ Range(ListInsert(seq, x, value)) = Range(seq) \cup {x}
<1>. DEFINE larger == {i \in DOMAIN seq : value[seq[i]] > value[x]}
<1>1. seq \in Seq(S) /\ Len(seq) \in Nat /\ DOMAIN seq = 1 .. Len(seq)
  BY DEF Lists
<1>2. CASE larger = {}
  <2>1. ListInsert(seq, x, value) = Append(seq, x)
    BY <1>2 DEF ListInsert
  <2>. QED  BY <2>1, AppendOne
<1>3. CASE larger # {}
  <2>1. ListInsert(seq, x, value) = InsertAt(seq, Min(larger), x)
    BY <1>3 DEF ListInsert
  <2>2. larger \subseteq Nat /\ larger \subseteq 1 .. Len(seq)
    BY <1>1
  <2>. HIDE DEF larger
  <2>3. Min(larger) \in 1 .. Len(seq)
    BY <1>3, <2>2, LeastOf
  <2>4. Min(larger) \in 1 .. Len(seq) + 1
    BY <1>1, <2>3
  <2>. QED  BY <2>1, <2>4, WithOneMore
<1>. QED  BY <1>2, <1>3

(***************************************************************************)
(* Sequences, and sequences of sequences, by induction.                    *)
(***************************************************************************)

\* Induction over the natural numbers: the least number that is not in T.
LEMMA NumbersFrom ==
    ASSUME NEW T, 0 \in T, \A n \in Nat : n \in T => n + 1 \in T
    PROVE  Nat \subseteq T
<1>. DEFINE R == {ss \in Nat \X Nat : ss[1] < ss[2]}
            C == Nat \ T
<1>1. IsWellFoundedOn(R, Nat)
  BY NatLessThanWellFounded DEF OpToRel
<1>2. \A m, n \in Nat : <<m, n>> \in R <=> m < n
  OBVIOUS
<1>. HIDE DEF R
<1>3. SUFFICES ASSUME C # {} PROVE FALSE
  OBVIOUS
<1>4. C \in SUBSET Nat
  OBVIOUS
<1>. HIDE DEF C
<1>5. PICK n \in C : \A m \in C : ~ (<<m, n>> \in R)
  BY <1>1, <1>3, <1>4, WFMin, Zenon
<1>6. n \in Nat /\ n # 0 /\ n - 1 \in Nat /\ n - 1 < n /\ n \notin T
  BY DEF C
<1>7. n - 1 \in T
  BY <1>2, <1>5, <1>6 DEF C
<1>8. (n - 1) + 1 = n
  BY <1>6
<1>. QED  BY <1>6, <1>7, <1>8

(***************************************************************************)
(* What the scheduler's record is like.                                    *)
(***************************************************************************)

SchedFields ==
    {"current", "switchPending", "yieldPending", "suspended", "failed", "ready", "topReady",
     "delayed", "overflowDelayed", "suspendedTasks", "terminating", "waiting", "tick",
     "overflows", "nextUnblock", "pendedTicks", "priority", "basePriority", "mutexesHeld",
     "wakeTime", "eventOrder", "eventBits", "delayAborted", "notifiedValue", "notifyState"}
AllLists == EventLists \cup {Pending}
Rings == {ring \in Lists(Tasks \cup {End}) : End \in Range(ring)}

InReady(s, t)   == \E p \in Priorities : t \in Range(s.ready[p])
InEvents(s, t)  == \E l \in EventLists : t \in Range(s.waiting[l])
InPending(s, t) == t \in Range(s.waiting[Pending])

\* A task that is ready is in the ready list of its priority, whose bit is set.
ReadyLists(s) ==
    /\ s.ready \in [Priorities -> Rings]
    /\ s.topReady \subseteq Priorities
    /\ \A p \in Priorities : \A t \in Tasks :
          t \in Range(s.ready[p]) => p \in s.topReady /\ p = s.priority[t]
OtherLists(s) ==
    /\ s.delayed \in Lists(Tasks) /\ s.overflowDelayed \in Lists(Tasks)
    /\ s.suspendedTasks \subseteq Tasks /\ s.terminating \in Lists(Tasks)
    /\ s.waiting \in [AllLists -> Lists(Tasks)]
Numbers(s) ==
    /\ s.priority \in [Tasks -> Priorities] /\ s.basePriority \in [Tasks -> Priorities]
    /\ s.eventOrder \in [Tasks -> Priorities]
    /\ DOMAIN s.eventBits = Tasks /\ DOMAIN s.notifyState = Tasks
    /\ s.tick \in 0 .. TickCount - 1 /\ s.overflows \in Nat /\ s.pendedTicks \in Nat
    /\ s.suspended \in Nat
Shape(s) == DOMAIN s = SchedFields /\ ReadyLists(s) /\ OtherLists(s) /\ Numbers(s)

\* A task is in one state list at most, in one event list at most, and in one of
\* the event groups and queues only while it is blocked.
Homed(s, t) ==
    /\ InReady(s, t) =>
          /\ t \notin Range(s.delayed) /\ t \notin Range(s.overflowDelayed)
          /\ t \notin s.suspendedTasks /\ t \notin Range(s.terminating) /\ ~ InEvents(s, t)
    /\ t \in Range(s.delayed) =>
          /\ t \notin Range(s.overflowDelayed)
          /\ t \notin s.suspendedTasks /\ t \notin Range(s.terminating)
    /\ t \in Range(s.overflowDelayed) => t \notin s.suspendedTasks /\ t \notin Range(s.terminating)
    /\ t \in Range(s.terminating) => t \notin s.suspendedTasks /\ ~ InEvents(s, t)
    /\ \A k, l \in AllLists : t \in Range(s.waiting[k]) /\ t \in Range(s.waiting[l]) => k = l

\* Tasks are pending only while the scheduler is suspended; the running one only
\* after it has placed itself in an event list.
Settled(s) ==
    /\ s.suspended = 0 => \A t \in Tasks : ~ InPending(s, t)
    /\ InPending(s, s.current) => ~ InReady(s, s.current)

InPlace(s) == Shape(s) /\ \A t \in Tasks : Homed(s, t)
Well(s) == InPlace(s) /\ Settled(s)

\* A task that is not created yet, or not any more.
Unused(s, t) ==
    /\ ~ InReady(s, t) /\ t \notin Range(s.delayed) /\ t \notin Range(s.overflowDelayed)
    /\ t \notin s.suspendedTasks /\ t \notin Range(s.terminating)
    /\ \A l \in AllLists : t \notin Range(s.waiting[l])
    /\ s.notifyState[t] # "waiting"

\* The ticks counted and still to be counted.
Ticks(s) == s.overflows * TickCount + s.tick + s.pendedTicks

\* What no critical section does to the tasks other than the running one, except
\* those in T: they stay ready, enter no event list, keep the bits they wait for
\* and the notification they have received, and are not used when they were not.
Spares(s, r, T, u) ==
    /\ InReady(s, u) => InReady(r, u)
    /\ \A l \in EventLists : u \in Range(r.waiting[l]) => u \in Range(s.waiting[l])
    /\ InEvents(r, u) => r.eventBits[u] = s.eventBits[u]
    /\ r.notifyState[u] = "waiting" => s.notifyState[u] = "waiting"
    /\ s.notifyState[u] = "received" => r.notifyState[u] = "received"
    /\ u \notin T /\ Unused(s, u) => Unused(r, u)
Steady(s, r) ==
    /\ r.current = s.current /\ r.suspended = s.suspended
    /\ s.switchPending => r.switchPending
    /\ Ticks(r) = Ticks(s)
Gently(s, r, T) == Steady(s, r) /\ \A u \in Tasks : Spares(s, r, T, u)

\* The same of a step that counts ticks or (un)locks the scheduler.
Spared(s, r, T) ==
    /\ r.current = s.current /\ (s.switchPending => r.switchPending)
    /\ \A u \in Tasks : Spares(s, r, T, u)

\* A task whose places are what they were.
SamePlaces(s, r, u) ==
    /\ InReady(r, u) <=> InReady(s, u)
    /\ u \in Range(r.delayed) <=> u \in Range(s.delayed)
    /\ u \in Range(r.overflowDelayed) <=> u \in Range(s.overflowDelayed)
    /\ u \in r.suspendedTasks <=> u \in s.suspendedTasks
    /\ u \in Range(r.terminating) <=> u \in Range(s.terminating)
    /\ \A l \in AllLists : u \in Range(r.waiting[l]) <=> u \in Range(s.waiting[l])
SameNotes(s, r) == r.eventBits = s.eventBits /\ r.notifyState = s.notifyState

LEMMA GentlyTwice ==
    ASSUME NEW s, NEW q, NEW r, NEW T, Gently(s, q, T), Gently(q, r, T)
    PROVE  Gently(s, r, T)
<1>1. Steady(s, r)
  BY DEF Gently, Steady
<1>2. ASSUME NEW u \in Tasks PROVE Spares(s, r, T, u)
  <2>1. Spares(s, q, T, u) /\ Spares(q, r, T, u)
    BY DEF Gently
  <2>2. InEvents(r, u) => InEvents(q, u)
    BY <2>1 DEF Spares, InEvents
  <2>. QED  BY <2>1, <2>2 DEF Spares
<1>. QED  BY <1>1, <1>2 DEF Gently

LEMMA SparedTwice ==
    ASSUME NEW s, NEW q, NEW r, NEW T, Spared(s, q, T), Spared(q, r, T)
    PROVE  Spared(s, r, T)
<1>1. ASSUME NEW u \in Tasks PROVE Spares(s, r, T, u)
  <2>1. Spares(s, q, T, u) /\ Spares(q, r, T, u)
    BY DEF Spared
  <2>2. InEvents(r, u) => InEvents(q, u)
    BY <2>1 DEF Spares, InEvents
  <2>. QED  BY <2>1, <2>2 DEF Spares
<1>. QED  BY <1>1 DEF Spared

LEMMA GentlySpared ==
    ASSUME NEW s, NEW r, NEW T, Gently(s, r, T)
    PROVE  Spared(s, r, T)
BY DEF Gently, Spared, Steady

LEMMA GentlyAll ==
    ASSUME NEW s, NEW r, NEW T, NEW S, Gently(s, r, T), \A u \in Tasks : u \in T => u \in S \/ ~ Unused(s, u)
    PROVE  Gently(s, r, S)
BY DEF Gently, Spares

LEMMA GentlySame ==
    ASSUME NEW s, NEW T
    PROVE  Gently(s, s, T)
BY DEF Gently, Spares, Steady

LEMMA PlacesKeep ==
    ASSUME NEW s, NEW r, NEW u \in Tasks, SamePlaces(s, r, u)
    PROVE  /\ Homed(s, u) => Homed(r, u)
           /\ InEvents(r, u) <=> InEvents(s, u)
           /\ SameNotes(s, r) => \A T : Spares(s, r, T, u)
<1>1. InEvents(r, u) <=> InEvents(s, u)
  BY DEF SamePlaces, InEvents, AllLists
<1>2. Homed(s, u) => Homed(r, u)
  BY <1>1 DEF SamePlaces, Homed
<1>3. SameNotes(s, r) /\ Unused(s, u) => Unused(r, u)
  BY DEF SamePlaces, Unused, SameNotes
<1>4. SameNotes(s, r) => \A T : Spares(s, r, T, u)
  BY <1>1, <1>3 DEF SamePlaces, Spares, SameNotes, AllLists
<1>. QED  BY <1>1, <1>2, <1>4

(***************************************************************************)
(* Moving a task between lists.                                            *)
(***************************************************************************)

LEMMA RangeIn ==
    ASSUME NEW S, NEW seq \in Lists(S)
    PROVE  Range(seq) \subseteq S
BY ElementOfSeq DEF Lists, Range

LEMMA EventItemRemoved ==
    ASSUME NEW s, Shape(s), NEW t \in Tasks, NEW r, r = RemoveEventItem(s, t)
    PROVE  /\ Shape(r)
           /\ \A x \in SchedFields \ {"waiting"} : r[x] = s[x]
           /\ \A l \in AllLists : Range(r.waiting[l]) = Range(s.waiting[l]) \ {t}
<1>1. /\ DOMAIN r = SchedFields
      /\ \A x \in SchedFields \ {"waiting"} : r[x] = s[x]
      /\ r.waiting = [list \in DOMAIN s.waiting |-> RemoveFirst(s.waiting[list], t)]
  BY DEF RemoveEventItem, Shape, SchedFields
<1>2. DOMAIN s.waiting = AllLists /\ \A l \in AllLists : s.waiting[l] \in Lists(Tasks)
  BY DEF Shape, OtherLists
<1>3. \A l \in AllLists : /\ r.waiting[l] \in Lists(Tasks)
                          /\ Range(r.waiting[l]) = Range(s.waiting[l]) \ {t}
  BY <1>1, <1>2, ListRemove
<1>4. r.waiting \in [AllLists -> Lists(Tasks)]
  BY <1>1, <1>2, <1>3
<1>. QED  BY <1>1, <1>3, <1>4 DEF Shape, ReadyLists, OtherLists, Numbers, SchedFields

LEMMA RingWithout ==
    ASSUME NEW ring \in Rings, NEW t \in Tasks
    PROVE  RemoveFirst(ring, t) \in Rings /\ Range(RemoveFirst(ring, t)) = Range(ring) \ {t}
BY ListRemove, ListAssumption DEF Rings

StateFields == {"ready", "delayed", "overflowDelayed", "suspendedTasks", "terminating"}
LEMMA StateItemRemoved ==
    ASSUME NEW s, Shape(s), NEW t \in Tasks, NEW r, r = RemoveStateItem(s, t)
    PROVE  /\ Shape(r)
           /\ \A x \in SchedFields \ StateFields : r[x] = s[x]
           /\ \A p \in Priorities : Range(r.ready[p]) = Range(s.ready[p]) \ {t}
           /\ Range(r.delayed) = Range(s.delayed) \ {t}
           /\ Range(r.overflowDelayed) = Range(s.overflowDelayed) \ {t}
           /\ r.suspendedTasks = s.suspendedTasks \ {t}
           /\ Range(r.terminating) = Range(s.terminating) \ {t}
<1>1. /\ DOMAIN r = SchedFields
      /\ \A x \in SchedFields \ StateFields : r[x] = s[x]
      /\ r.ready = [p \in Priorities |-> RemoveFirst(s.ready[p], t)]
      /\ r.delayed = RemoveFirst(s.delayed, t)
      /\ r.overflowDelayed = RemoveFirst(s.overflowDelayed, t)
      /\ r.suspendedTasks = s.suspendedTasks \ {t}
      /\ r.terminating = RemoveFirst(s.terminating, t)
  BY DEF RemoveStateItem, Shape, SchedFields, StateFields
<1>2. \A p \in Priorities : /\ r.ready[p] \in Rings
                            /\ Range(r.ready[p]) = Range(s.ready[p]) \ {t}
  BY <1>1, RingWithout DEF Shape, ReadyLists
<1>3. /\ r.delayed \in Lists(Tasks) /\ Range(r.delayed) = Range(s.delayed) \ {t}
      /\ r.overflowDelayed \in Lists(Tasks)
      /\ Range(r.overflowDelayed) = Range(s.overflowDelayed) \ {t}
      /\ r.terminating \in Lists(Tasks) /\ Range(r.terminating) = Range(s.terminating) \ {t}
  BY <1>1, ListRemove DEF Shape, OtherLists
<1>4. ReadyLists(r)
  <2>1. r.topReady = s.topReady /\ r.priority = s.priority
    BY <1>1 DEF SchedFields, StateFields
  <2>2. r.ready \in [Priorities -> Rings]
    BY <1>1, <1>2
  <2>. QED  BY <1>2, <2>1, <2>2 DEF Shape, ReadyLists
<1>5. OtherLists(r)
  <2>1. r.waiting = s.waiting
    BY <1>1 DEF SchedFields, StateFields
  <2>. QED  BY <1>1, <1>3, <2>1 DEF Shape, OtherLists
<1>6. Numbers(r)
  BY <1>1 DEF Shape, Numbers, SchedFields, StateFields
<1>. QED  BY <1>1, <1>2, <1>3, <1>4, <1>5, <1>6 DEF Shape

LEMMA RingWith ==
    ASSUME NEW ring \in Rings, NEW t \in Tasks, t \notin Range(ring)
    PROVE  RingInsert(ring, t) \in Rings /\ Range(RingInsert(ring, t)) = Range(ring) \cup {t}
<1>1. ring \in Lists(Tasks \cup {End}) /\ Len(ring) \in Nat /\ ring # <<>>
  BY DEF Rings, Lists, Range
<1>2. Len(ring) \in 1 .. Len(ring) + 1
  BY <1>1 DEF Lists
<1>. QED  BY <1>1, <1>2, WithOneMore DEF Rings, RingInsert

LEMMA AddedToReady ==
    ASSUME NEW s, Shape(s), NEW t \in Tasks, ~ InReady(s, t), NEW r, r = AddTaskToReadyList(s, t)
    PROVE  /\ Shape(r)
           /\ \A x \in SchedFields \ {"ready", "topReady"} : r[x] = s[x]
           /\ \A p \in Priorities :
                 Range(r.ready[p]) = Range(s.ready[p]) \cup (IF p = s.priority[t] THEN {t} ELSE {})
<1>. PICK p : p = s.priority[t]
  OBVIOUS
<1>0. p \in Priorities /\ s.ready \in [Priorities -> Rings] /\ t \notin Range(s.ready[p])
  BY DEF Shape, Numbers, ReadyLists, InReady
<1>1. /\ DOMAIN r = SchedFields
      /\ \A x \in SchedFields \ {"ready", "topReady"} : r[x] = s[x]
      /\ r.topReady = s.topReady \cup {p}
      /\ r.ready = [s.ready EXCEPT ![p] = RingInsert(s.ready[p], t)]
  BY DEF AddTaskToReadyList, Shape, SchedFields
<1>2. r.ready[p] \in Rings /\ Range(r.ready[p]) = Range(s.ready[p]) \cup {t}
  BY <1>0, <1>1, RingWith
<1>3. r.ready \in [Priorities -> Rings] /\ \A q \in Priorities : q # p => r.ready[q] = s.ready[q]
  BY <1>0, <1>1, <1>2
<1>4. ReadyLists(r)
  <2>1. r.priority = s.priority
    BY <1>1 DEF SchedFields
  <2>2. r.topReady \subseteq Priorities
    BY <1>0, <1>1 DEF Shape, ReadyLists
  <2>3. ASSUME NEW q \in Priorities, NEW u \in Tasks, u \in Range(r.ready[q])
        PROVE  q \in r.topReady /\ q = r.priority[u]
    BY <1>1, <1>2, <1>3, <2>1, <2>3 DEF Shape, ReadyLists
  <2>. QED  BY <1>3, <2>2, <2>3 DEF ReadyLists
<1>5. OtherLists(r) /\ Numbers(r)
  BY <1>1 DEF Shape, OtherLists, Numbers, SchedFields
<1>. QED  BY <1>1, <1>2, <1>3, <1>4, <1>5 DEF Shape

\* A ready list without a task has the end marker alone.
LEMMA RingAlone ==
    ASSUME NEW ring \in Rings, RingLength(ring) = 0, NEW t \in Tasks
    PROVE  t \notin Range(ring)
<1>1. ring \in Seq(Tasks \cup {End}) /\ Len(ring) = 1 /\ DOMAIN ring = 1 .. 1
  BY DEF Rings, Lists, RingLength
<1>2. Range(ring) = {ring[1]} /\ End \in Range(ring)
  BY <1>1 DEF Range, Rings
<1>. QED  BY <1>2, ListAssumption

LEMMA PriorityReset ==
    ASSUME NEW s, Shape(s), NEW p \in Priorities, NEW r, r = ResetReadyPriority(s, p)
    PROVE  Shape(r) /\ \A x \in SchedFields \ {"topReady"} : r[x] = s[x]
<1>1. CASE RingLength(s.ready[p]) # 0
  <2>1. r = s
    BY <1>1 DEF ResetReadyPriority
  <2>. QED  BY <2>1
<1>2. CASE RingLength(s.ready[p]) = 0
  <2>1. /\ DOMAIN r = SchedFields
        /\ \A x \in SchedFields \ {"topReady"} : r[x] = s[x]
        /\ r.topReady = s.topReady \ {p}
    BY <1>2 DEF ResetReadyPriority, Shape, SchedFields
  <2>2. \A t \in Tasks : t \notin Range(s.ready[p])
    BY <1>2, RingAlone DEF Shape, ReadyLists
  <2>3. r.ready = s.ready /\ r.priority = s.priority
    BY <2>1 DEF SchedFields
  <2>4. ReadyLists(r)
    BY <2>1, <2>2, <2>3 DEF Shape, ReadyLists
  <2>5. OtherLists(r) /\ Numbers(r)
    BY <2>1 DEF Shape, OtherLists, Numbers, SchedFields
  <2>. QED  BY <2>1, <2>4, <2>5 DEF Shape
<1>. QED  BY <1>1, <1>2

\* The fields that few steps change.
Still == {"current", "suspended", "switchPending", "tick", "overflows", "pendedTicks",
          "eventBits", "notifyState"}
Lasts(s, r, fields) == \A x \in fields : r[x] = s[x]

LEMMA StillSteady ==
    ASSUME NEW s, NEW r, Lasts(s, r, Still)
    PROVE  Steady(s, r) /\ SameNotes(s, r)
BY DEF Steady, Lasts, Still, Ticks, SameNotes

\* Only t moves.
Moves1(s, r, t) == \A u \in Tasks : u # t => SamePlaces(s, r, u)

LEMMA MovesGently ==
    ASSUME NEW s, NEW r, NEW t \in Tasks, Lasts(s, r, Still), Moves1(s, r, t),
           \A u \in Tasks : Homed(s, u), Homed(r, t),
           InReady(s, t) => InReady(r, t),
           \A l \in EventLists : t \in Range(r.waiting[l]) => t \in Range(s.waiting[l])
    PROVE  (\A u \in Tasks : Homed(r, u)) /\ Gently(s, r, {t})
<1>1. Steady(s, r) /\ SameNotes(s, r)
  BY StillSteady
<1>2. ASSUME NEW u \in Tasks, u # t PROVE Homed(r, u) /\ Spares(s, r, {t}, u)
  BY <1>1, <1>2, PlacesKeep DEF Moves1
<1>3. Spares(s, r, {t}, t)
  BY <1>1 DEF Spares, SameNotes
<1>. QED  BY <1>1, <1>2, <1>3 DEF Gently

LEMMA MadeReady ==
    ASSUME NEW s, Shape(s), \A u \in Tasks : Homed(s, u),
           NEW t \in Tasks, ~ InEvents(s, t), NEW r, r = MakeReady(s, t)
    PROVE  /\ Shape(r) /\ \A u \in Tasks : Homed(r, u)
           /\ InReady(r, t) /\ Gently(s, r, {t})
           /\ Lasts(s, r, SchedFields \ (StateFields \cup {"topReady"}))
           /\ Moves1(s, r, t)
<1>. PICK q : q = RemoveStateItem(s, t)
  OBVIOUS
<1>1. /\ Shape(q)
      /\ \A x \in SchedFields \ StateFields : q[x] = s[x]
      /\ \A p \in Priorities : Range(q.ready[p]) = Range(s.ready[p]) \ {t}
      /\ Range(q.delayed) = Range(s.delayed) \ {t}
      /\ Range(q.overflowDelayed) = Range(s.overflowDelayed) \ {t}
      /\ q.suspendedTasks = s.suspendedTasks \ {t}
      /\ Range(q.terminating) = Range(s.terminating) \ {t}
  BY StateItemRemoved
<1>2. ~ InReady(q, t)
  BY <1>1 DEF InReady
<1>3. r = AddTaskToReadyList(q, t)
  BY DEF MakeReady
<1>4. /\ Shape(r)
      /\ \A x \in SchedFields \ {"ready", "topReady"} : r[x] = q[x]
      /\ \A p \in Priorities :
            Range(r.ready[p]) = Range(q.ready[p]) \cup (IF p = q.priority[t] THEN {t} ELSE {})
  BY <1>1, <1>2, <1>3, AddedToReady
<1>5. Lasts(s, r, SchedFields \ (StateFields \cup {"topReady"}))
  BY <1>1, <1>4 DEF Lasts, StateFields
<1>6. r.waiting = s.waiting
  BY <1>5 DEF Lasts, SchedFields, StateFields
<1>7. /\ Range(r.delayed) = Range(s.delayed) \ {t}
      /\ Range(r.overflowDelayed) = Range(s.overflowDelayed) \ {t}
      /\ r.suspendedTasks = s.suspendedTasks \ {t}
      /\ Range(r.terminating) = Range(s.terminating) \ {t}
  BY <1>1, <1>4 DEF SchedFields
<1>8. InReady(r, t)
  <2>1. q.priority[t] \in Priorities
    BY <1>1 DEF Shape, Numbers
  <2>. QED  BY <1>4, <2>1 DEF InReady
<1>9. ASSUME NEW u \in Tasks, u # t PROVE SamePlaces(s, r, u)
  <2>1. InReady(r, u) <=> InReady(s, u)
    BY <1>1, <1>4, <1>9 DEF InReady
  <2>. QED  BY <1>6, <1>7, <1>9, <2>1 DEF SamePlaces
<1>10. Homed(r, t)
  <2>1. ~ InEvents(r, t)
    BY <1>6 DEF InEvents
  <2>. QED  BY <1>6, <1>7, <2>1 DEF Homed
<1>11. Lasts(s, r, Still)
  BY <1>5 DEF Lasts, Still, SchedFields, StateFields
<1>12. Moves1(s, r, t)
  BY <1>9 DEF Moves1
<1>13. (\A u \in Tasks : Homed(r, u)) /\ Gently(s, r, {t})
  BY <1>6, <1>8, <1>10, <1>11, <1>12, MovesGently
<1>. QED  BY <1>4, <1>5, <1>8, <1>12, <1>13

LEMMA EventItemLeft ==
    ASSUME NEW s, Shape(s), \A u \in Tasks : Homed(s, u),
           NEW t \in Tasks, NEW r, r = RemoveEventItem(s, t)
    PROVE  /\ Shape(r) /\ \A u \in Tasks : Homed(r, u)
           /\ Gently(s, r, {t}) /\ \A l \in AllLists : t \notin Range(r.waiting[l])
           /\ Lasts(s, r, SchedFields \ {"waiting"})
           /\ Moves1(s, r, t)
<1>1. /\ Shape(r)
      /\ \A x \in SchedFields \ {"waiting"} : r[x] = s[x]
      /\ \A l \in AllLists : Range(r.waiting[l]) = Range(s.waiting[l]) \ {t}
  BY EventItemRemoved
<1>2. /\ r.ready = s.ready /\ r.delayed = s.delayed /\ r.overflowDelayed = s.overflowDelayed
      /\ r.suspendedTasks = s.suspendedTasks /\ r.terminating = s.terminating
  BY <1>1 DEF SchedFields
<1>3. ASSUME NEW u \in Tasks PROVE InReady(r, u) <=> InReady(s, u)
  BY <1>2 DEF InReady
<1>4. ASSUME NEW u \in Tasks, u # t PROVE SamePlaces(s, r, u)
  BY <1>1, <1>2, <1>3, <1>4 DEF SamePlaces
<1>5. ~ InEvents(r, t) /\ \A l \in AllLists : t \notin Range(r.waiting[l])
  BY <1>1 DEF InEvents, AllLists
<1>6. Homed(r, t)
  BY <1>2, <1>3, <1>5 DEF Homed
<1>7. Lasts(s, r, Still) /\ Lasts(s, r, SchedFields \ {"waiting"})
  BY <1>1 DEF Lasts, Still, SchedFields
<1>8. Moves1(s, r, t)
  BY <1>4 DEF Moves1
<1>9. \A l \in EventLists : t \notin Range(r.waiting[l])
  BY <1>5 DEF AllLists
<1>10. InReady(s, t) => InReady(r, t)
  BY <1>3
<1>11. (\A u \in Tasks : Homed(r, u)) /\ Gently(s, r, {t})
  BY <1>6, <1>7, <1>8, <1>9, <1>10, MovesGently
<1>. QED  BY <1>1, <1>5, <1>7, <1>8, <1>11

\* A task leaves its event list and becomes ready.
LEMMA OneReady ==
    ASSUME NEW s, InPlace(s), NEW t \in Tasks, NEW r, r = MakeReady(RemoveEventItem(s, t), t)
    PROVE  /\ InPlace(r) /\ Gently(s, r, {t}) /\ (Settled(s) => Settled(r))
           /\ InReady(r, t) /\ \A l \in AllLists : t \notin Range(r.waiting[l])
           /\ Lasts(s, r, SchedFields \ (StateFields \cup {"topReady", "waiting"}))
           /\ Moves1(s, r, t)
<1>. PICK q : q = RemoveEventItem(s, t)
  OBVIOUS
<1>1. /\ Shape(q) /\ \A u \in Tasks : Homed(q, u)
      /\ Gently(s, q, {t}) /\ \A l \in AllLists : t \notin Range(q.waiting[l])
      /\ Lasts(s, q, SchedFields \ {"waiting"})
      /\ Moves1(s, q, t)
  BY EventItemLeft DEF InPlace
<1>2. ~ InEvents(q, t)
  BY <1>1 DEF InEvents, AllLists
<1>3. /\ Shape(r) /\ \A u \in Tasks : Homed(r, u)
      /\ InReady(r, t) /\ Gently(q, r, {t})
      /\ Lasts(q, r, SchedFields \ (StateFields \cup {"topReady"}))
      /\ Moves1(q, r, t)
  BY <1>1, <1>2, MadeReady
<1>4. Gently(s, r, {t})
  BY <1>1, <1>3, GentlyTwice
<1>5. Lasts(s, r, SchedFields \ (StateFields \cup {"topReady", "waiting"}))
  BY <1>1, <1>3 DEF Lasts
<1>6. r.waiting = q.waiting
  BY <1>3 DEF Lasts, SchedFields, StateFields
<1>7. \A l \in AllLists : t \notin Range(r.waiting[l])
  BY <1>1, <1>6
<1>8. Moves1(s, r, t)
  BY <1>1, <1>3 DEF Moves1, SamePlaces
<1>9. Settled(s) => Settled(r)
  <2>1. r.suspended = s.suspended /\ r.current = s.current
    BY <1>4 DEF Gently, Steady
  <2>2. ~ InPending(r, t)
    BY <1>7 DEF InPending, AllLists
  <2>3. \A u \in Tasks : u # t => (InPending(r, u) <=> InPending(s, u)) /\ (InReady(r, u) <=> InReady(s, u))
    BY <1>8 DEF Moves1, SamePlaces, InPending, AllLists
  <2>4. InPending(r, r.current) => r.current \in Tasks
    <3>1. r.waiting[Pending] \in Lists(Tasks)
      BY <1>3 DEF Shape, OtherLists, AllLists
    <3>. QED  BY <3>1, RangeIn DEF InPending
  <2>. QED  BY <2>1, <2>2, <2>3, <2>4 DEF Settled
<1>. QED  BY <1>3, <1>4, <1>5, <1>7, <1>8, <1>9 DEF InPlace

(***************************************************************************)
(* The steps of the scheduler.                                             *)
(***************************************************************************)

FreeFields ==
    {"switchPending", "yieldPending", "failed", "nextUnblock", "basePriority", "mutexesHeld",
     "wakeTime", "eventOrder", "delayAborted", "notifiedValue"}

LEMMA FreeStep ==
    ASSUME NEW s, Well(s), NEW r, NEW T, DOMAIN r = SchedFields,
           Lasts(s, r, SchedFields \ FreeFields),
           r.basePriority \in [Tasks -> Priorities], r.eventOrder \in [Tasks -> Priorities],
           s.switchPending => r.switchPending
    PROVE  Well(r) /\ Gently(s, r, T)
<1>1. /\ r.current = s.current /\ r.suspended = s.suspended /\ r.ready = s.ready
      /\ r.topReady = s.topReady /\ r.delayed = s.delayed
      /\ r.overflowDelayed = s.overflowDelayed /\ r.suspendedTasks = s.suspendedTasks
      /\ r.terminating = s.terminating /\ r.waiting = s.waiting /\ r.tick = s.tick
      /\ r.overflows = s.overflows /\ r.pendedTicks = s.pendedTicks
      /\ r.priority = s.priority /\ r.eventBits = s.eventBits /\ r.notifyState = s.notifyState
  BY DEF Lasts, SchedFields, FreeFields
<1>2. Shape(r)
  BY <1>1 DEF Well, InPlace, Shape, ReadyLists, OtherLists, Numbers
<1>3. \A u \in Tasks : SamePlaces(s, r, u)
  BY <1>1 DEF SamePlaces, InReady
<1>4. SameNotes(s, r)
  BY <1>1 DEF SameNotes
<1>5. \A u \in Tasks : Homed(r, u) /\ Spares(s, r, T, u)
  BY <1>3, <1>4, PlacesKeep DEF Well, InPlace
<1>6. Settled(r)
  BY <1>1 DEF Well, Settled, InPending, InReady
<1>7. Steady(s, r)
  BY <1>1 DEF Steady, Ticks
<1>. QED  BY <1>2, <1>5, <1>6, <1>7 DEF Well, InPlace, Gently

\* The changes of those fields alone that the steps make.
LEMMA FreeChanges ==
    ASSUME NEW s, Well(s), NEW T
    PROVE  /\ \A r : r = Yield(s) => Well(r) /\ Gently(s, r, T) /\ r.switchPending
           /\ \A c, r : r = YieldIf(s, c) => Well(r) /\ Gently(s, r, T)
           /\ \A a, r : r = Fail(s, a) => Well(r) /\ Gently(s, r, T)
           /\ \A r : r = ResetNextTaskUnblockTime(s) => Well(r) /\ Gently(s, r, T)
           /\ \A r : r = ClearAborted(s) => Well(r) /\ Gently(s, r, T)
           /\ \A b, r : r = [s EXCEPT !.yieldPending = b] => Well(r) /\ Gently(s, r, T)
           /\ \A t, n, r : r = [s EXCEPT !.mutexesHeld[t] = n] => Well(r) /\ Gently(s, r, T)
<1>. DEFINE Free(r) == Well(r) /\ Gently(s, r, T)
<1>1. /\ DOMAIN s = SchedFields
      /\ s.basePriority \in [Tasks -> Priorities] /\ s.eventOrder \in [Tasks -> Priorities]
  BY DEF Well, InPlace, Shape, Numbers
<1>2. Free(Yield(s)) /\ Yield(s).switchPending
  <2>. PICK r : r = Yield(s)
    OBVIOUS
  <2>1. /\ DOMAIN r = SchedFields /\ Lasts(s, r, SchedFields \ FreeFields) /\ r.switchPending
        /\ r.basePriority = s.basePriority /\ r.eventOrder = s.eventOrder
    BY <1>1 DEF Yield, Lasts, FreeFields, SchedFields
  <2>. QED  BY <1>1, <2>1, FreeStep
<1>3. \A c : Free(YieldIf(s, c))
  <2>1. Free(s)
    BY GentlySame
  <2>. HIDE DEF Free
  <2>. QED  BY <1>2, <2>1 DEF YieldIf
<1>4. ASSUME NEW a PROVE Free(Fail(s, a))
  <2>. PICK r : r = Fail(s, a)
    OBVIOUS
  <2>1. /\ DOMAIN r = SchedFields /\ Lasts(s, r, SchedFields \ FreeFields)
        /\ r.switchPending = s.switchPending
        /\ r.basePriority = s.basePriority /\ r.eventOrder = s.eventOrder
    BY <1>1 DEF Fail, Lasts, FreeFields, SchedFields
  <2>. QED  BY <1>1, <2>1, FreeStep
<1>5. Free(ResetNextTaskUnblockTime(s))
  <2>. PICK r : r = ResetNextTaskUnblockTime(s)
    OBVIOUS
  <2>1. /\ DOMAIN r = SchedFields /\ Lasts(s, r, SchedFields \ FreeFields)
        /\ r.switchPending = s.switchPending
        /\ r.basePriority = s.basePriority /\ r.eventOrder = s.eventOrder
    BY <1>1 DEF ResetNextTaskUnblockTime, Lasts, FreeFields, SchedFields
  <2>. QED  BY <1>1, <2>1, FreeStep
<1>6. Free(ClearAborted(s))
  <2>. PICK r : r = ClearAborted(s)
    OBVIOUS
  <2>1. /\ DOMAIN r = SchedFields /\ Lasts(s, r, SchedFields \ FreeFields)
        /\ r.switchPending = s.switchPending
        /\ r.basePriority = s.basePriority /\ r.eventOrder = s.eventOrder
    BY <1>1 DEF ClearAborted, Lasts, FreeFields, SchedFields
  <2>. QED  BY <1>1, <2>1, FreeStep
<1>7. ASSUME NEW b, NEW r, r = [s EXCEPT !.yieldPending = b] PROVE Free(r)
  <2>1. /\ DOMAIN r = SchedFields /\ Lasts(s, r, SchedFields \ FreeFields)
        /\ r.switchPending = s.switchPending
        /\ r.basePriority = s.basePriority /\ r.eventOrder = s.eventOrder
    BY <1>1, <1>7 DEF Lasts, FreeFields, SchedFields
  <2>. QED  BY <1>1, <2>1, FreeStep
<1>8. ASSUME NEW t, NEW n, NEW r, r = [s EXCEPT !.mutexesHeld[t] = n] PROVE Free(r)
  <2>1. /\ DOMAIN r = SchedFields /\ Lasts(s, r, SchedFields \ FreeFields)
        /\ r.switchPending = s.switchPending
        /\ r.basePriority = s.basePriority /\ r.eventOrder = s.eventOrder
    BY <1>1, <1>8 DEF Lasts, FreeFields, SchedFields
  <2>. QED  BY <1>1, <2>1, FreeStep
<1>. QED  BY <1>2, <1>3, <1>4, <1>5, <1>6, <1>7, <1>8

\* A task whose event has come.
LEMMA Unblocked ==
    ASSUME NEW s, Well(s), NEW t \in Tasks, NEW r, r = Unblock(s, t),
           s.suspended # 0 => ~ (InReady(s, t) /\ t = s.current)
    PROVE  /\ Well(r) /\ Gently(s, r, {t}) /\ Moves1(s, r, t)
           /\ \A l \in EventLists : t \notin Range(r.waiting[l])
<1>. PICK b : b = (s.yieldPending \/ Outranks(s, t))
  OBVIOUS
<1>1. CASE s.suspended = 0
  <2>. PICK q : q = MakeReady(RemoveEventItem(s, t), t)
    OBVIOUS
  <2>1. /\ Well(q) /\ Gently(s, q, {t}) /\ Moves1(s, q, t)
        /\ \A l \in AllLists : t \notin Range(q.waiting[l])
        /\ q.yieldPending = s.yieldPending
    BY OneReady DEF Well, Lasts, SchedFields, StateFields
  <2>2. r = [q EXCEPT !.yieldPending = b]
    BY <1>1, <2>1 DEF Unblock
  <2>3. Well(r) /\ Gently(q, r, {t})
    BY <2>1, <2>2, FreeChanges
  <2>4. /\ r.waiting = q.waiting /\ r.ready = q.ready /\ r.delayed = q.delayed
        /\ r.overflowDelayed = q.overflowDelayed /\ r.suspendedTasks = q.suspendedTasks
        /\ r.terminating = q.terminating
    BY <2>1, <2>2 DEF Well, InPlace, Shape, SchedFields
  <2>5. Moves1(s, r, t)
    BY <2>1, <2>4 DEF Moves1, SamePlaces, InReady
  <2>6. Gently(s, r, {t})
    BY <2>1, <2>3, GentlyTwice
  <2>. QED  BY <2>1, <2>3, <2>4, <2>5, <2>6 DEF AllLists
<1>2. CASE s.suspended # 0
  <2>. PICK q : q = RemoveEventItem(s, t)
    OBVIOUS
  <2>1. /\ Shape(q) /\ \A u \in Tasks : Homed(q, u)
        /\ \A l \in AllLists : t \notin Range(q.waiting[l])
        /\ Lasts(s, q, SchedFields \ {"waiting"}) /\ Moves1(s, q, t)
    BY EventItemLeft DEF Well, InPlace
  <2>2. r = [[q EXCEPT !.waiting[Pending] = Append(@, t)] EXCEPT !.yieldPending = @ \/ Outranks(s, t)]
    BY <1>2 DEF Unblock
  <2>3. /\ DOMAIN r = SchedFields
        /\ \A x \in SchedFields \ {"waiting", "yieldPending"} : r[x] = q[x]
        /\ r.waiting = [q.waiting EXCEPT ![Pending] = Append(@, t)]
    BY <2>1, <2>2 DEF Shape, SchedFields
  <2>4. q.waiting \in [AllLists -> Lists(Tasks)] /\ Pending \in AllLists
    BY <2>1 DEF Shape, OtherLists, AllLists
  <2>5. /\ r.waiting \in [AllLists -> Lists(Tasks)]
        /\ Range(r.waiting[Pending]) = Range(q.waiting[Pending]) \cup {t}
        /\ \A l \in EventLists : r.waiting[l] = q.waiting[l]
    <3>1. /\ Append(q.waiting[Pending], t) \in Lists(Tasks)
          /\ Range(Append(q.waiting[Pending], t)) = Range(q.waiting[Pending]) \cup {t}
      BY <2>1, <2>4, AppendOne
    <3>. QED  BY <2>3, <2>4, <3>1, ListAssumption
  <2>6. Lasts(s, r, SchedFields \ {"waiting", "yieldPending"})
    BY <2>1, <2>3 DEF Lasts
  <2>7. /\ r.ready = s.ready /\ r.delayed = s.delayed /\ r.overflowDelayed = s.overflowDelayed
        /\ r.suspendedTasks = s.suspendedTasks /\ r.terminating = s.terminating
        /\ r.suspended = s.suspended /\ r.current = s.current
        /\ Lasts(s, r, Still) /\ q.ready = s.ready /\ q.delayed = s.delayed
        /\ q.overflowDelayed = s.overflowDelayed
        /\ q.suspendedTasks = s.suspendedTasks /\ q.terminating = s.terminating
    BY <2>1, <2>6 DEF Lasts, SchedFields, Still
  <2>8. Shape(r)
    BY <2>1, <2>3, <2>5 DEF Shape, ReadyLists, OtherLists, Numbers, SchedFields
  <2>9. ASSUME NEW u \in Tasks PROVE InReady(r, u) <=> InReady(s, u)
    BY <2>7 DEF InReady
  <2>10. ASSUME NEW u \in Tasks, u # t, NEW l \in AllLists
         PROVE  u \in Range(r.waiting[l]) <=> u \in Range(s.waiting[l])
    BY <2>1, <2>5, <2>10 DEF Moves1, SamePlaces, AllLists
  <2>11. Moves1(s, r, t)
    BY <2>7, <2>9, <2>10 DEF Moves1, SamePlaces
  <2>12. \A l \in EventLists : t \notin Range(r.waiting[l])
    BY <2>1, <2>5 DEF AllLists
  <2>13. Homed(r, t)
    <3>1. ~ InEvents(r, t)
      BY <2>12 DEF InEvents
    <3>2. \A k, l \in AllLists : t \in Range(r.waiting[k]) /\ t \in Range(r.waiting[l]) => k = l
      BY <2>12 DEF AllLists
    <3>3. Homed(s, t)
      BY DEF Well, InPlace
    <3>. QED  BY <2>7, <2>9, <3>1, <3>2, <3>3 DEF Homed
  <2>14. (\A u \in Tasks : Homed(r, u)) /\ Gently(s, r, {t})
    BY <2>7, <2>9, <2>11, <2>12, <2>13, MovesGently DEF Well, InPlace
  <2>15. Settled(r)
    <3>1. CASE s.current = t
      BY <1>2, <2>7, <2>9, <3>1 DEF Settled
    <3>2. CASE s.current # t
      <4>1. InPending(r, s.current) => InPending(s, s.current)
        <5>1. Range(r.waiting[Pending]) \subseteq Tasks
          BY <2>4, <2>5, RangeIn
        <5>. QED  BY <2>4, <2>10, <3>2, <5>1 DEF InPending
      <4>2. InReady(r, s.current) => InReady(s, s.current)
        BY <2>7 DEF InReady
      <4>. QED  BY <1>2, <2>7, <4>1, <4>2 DEF Well, Settled
    <3>. QED  BY <3>1, <3>2
  <2>. QED  BY <2>8, <2>11, <2>12, <2>14, <2>15 DEF Well, InPlace
<1>. QED  BY <1>1, <1>2

(***************************************************************************)
(* The walks over lists of tasks, step by step.                            *)
(***************************************************************************)

ReadyOne(v, t, those) == IF t \in those THEN MakeReady(RemoveEventItem(v, t), t) ELSE v
WakeOne(v, t, those)  == IF t \in those THEN Unblock(v, t) ELSE v
ReplayOne(v) == [AdvanceTick(v) EXCEPT !.yieldPending = @ \/ TickSwitches(v)]
FirstOf(s, list, n) == {s.waiting[list][i] : i \in {j \in DOMAIN s.waiting[list] : j <= n}}

\* Of ReadyThose.
LEMMA ReadySteps ==
    ASSUME NEW s, NEW seq, NEW those, Len(seq) \in Nat
    PROVE  \E f : /\ f[0] = s /\ f[Len(seq)] = ReadyThose(s, seq, those)
                 /\ \A i \in 1 .. Len(seq) : f[i] = ReadyOne(f[i - 1], seq[i], those)
<1>. DEFINE Is(f, n) == f = [i \in 0 .. n |-> IF i = 0 THEN s
                               ELSE CHOOSE r \in {ReadyOne(v, seq[i], those) : v \in {f[i - 1]}} : TRUE]
            N == {n \in Nat : \E f : Is(f, n)}
            last == Len(seq)
<1>1. \A v, i : (CHOOSE r \in {ReadyOne(x, seq[i], those) : x \in {v}} : TRUE) = ReadyOne(v, seq[i], those)
  <2>1. ASSUME NEW v, NEW i
        PROVE  (CHOOSE r \in {ReadyOne(x, seq[i], those) : x \in {v}} : TRUE) = ReadyOne(v, seq[i], those)
    <3>1. {ReadyOne(x, seq[i], those) : x \in {v}} = {ReadyOne(v, seq[i], those)}
      OBVIOUS
    <3>. QED  BY <3>1
  <2>. QED  BY <2>1
<1>2. \A f, n : n \in Nat /\ Is(f, n) =>
         f[0] = s /\ \A i \in 1 .. n : f[i] = ReadyOne(f[i - 1], seq[i], those)
  BY <1>1
<1>3. 0 \in N
  <2>1. Is([i \in 0 .. 0 |-> s], 0)
    OBVIOUS
  <2>. QED  BY <2>1
<1>4. ASSUME NEW n \in Nat, n \in N PROVE n + 1 \in N
  <2>1. PICK f : Is(f, n)
    BY <1>4
  <2>. DEFINE at(i) == IF i = 0 THEN s
                       ELSE CHOOSE r \in {ReadyOne(v, seq[i], those) : v \in {f[i - 1]}} : TRUE
              g == [i \in 0 .. n + 1 |-> at(i)]
              h == [i \in 0 .. n + 1 |-> IF i = 0 THEN s
                      ELSE CHOOSE r \in {ReadyOne(v, seq[i], those) : v \in {g[i - 1]}} : TRUE]
  <2>2. \A i \in 0 .. n : f[i] = at(i)
    BY <2>1
  <2>3. \A i \in 0 .. n : g[i] = f[i]
    <3>. HIDE DEF at
    <3>. QED  BY <2>2
  <2>4. \A i \in 1 .. n + 1 : g[i - 1] = f[i - 1]
    <3>. HIDE DEF g, at, Is
    <3>1. \A i \in 1 .. n + 1 : i - 1 \in 0 .. n
      OBVIOUS
    <3>. QED  BY <2>3, <3>1
  <2>5. ASSUME NEW i \in 0 .. n + 1 PROVE g[i] = h[i]
    <3>1. CASE i = 0
      BY <3>1
    <3>2. CASE i # 0
      <4>1. i \in 1 .. n + 1
        BY <3>2
      <4>2. g[i - 1] = f[i - 1]
        BY <2>4, <4>1
      <4>3. g[i] = at(i) /\ at(i) = (CHOOSE r \in {ReadyOne(v, seq[i], those) : v \in {f[i - 1]}} : TRUE)
        BY <3>2
      <4>4. h[i] = (CHOOSE r \in {ReadyOne(v, seq[i], those) : v \in {g[i - 1]}} : TRUE)
        <5>. HIDE DEF g
        <5>. QED  BY <3>2
      <4>. HIDE DEF g, h, at
      <4>. QED  BY <4>2, <4>3, <4>4
    <3>. QED  BY <3>1, <3>2
  <2>6. DOMAIN g = 0 .. n + 1 /\ DOMAIN h = 0 .. n + 1
        /\ g = [i \in DOMAIN g |-> g[i]] /\ h = [i \in DOMAIN h |-> h[i]]
    OBVIOUS
  <2>7. g = h
    <3>. HIDE DEF g, h, at
    <3>. QED  BY <2>5, <2>6
  <2>8. Is(g, n + 1)
    <3>. HIDE DEF at
    <3>. QED  BY <2>7
  <2>. HIDE DEF g, Is
  <2>. QED  BY <2>8
<1>. HIDE DEF N
<1>5. Nat \subseteq N
  BY <1>3, <1>4, NumbersFrom
<1>6. \E f : Is(f, last)
  <2>. HIDE DEF Is
  <2>. QED  BY <1>5 DEF N
<1>. DEFINE after == CHOOSE f : Is(f, last)
<1>7. Is(after, last)
  <2>. HIDE DEF Is
  <2>. QED  BY <1>6
<1>8. after[last] = ReadyThose(s, seq, those)
  BY DEF ReadyThose, Each, ReadyOne
<1>. HIDE DEF Is, after
<1>. QED  BY <1>2, <1>7, <1>8

\* Of prvUnlockQueue.
LEMMA WakeSteps ==
    ASSUME NEW s, NEW list, NEW k, Len(s.waiting[list]) \in Nat
    PROVE  \E f : /\ f[0] = s /\ f[Len(s.waiting[list])] = WakeUpTo(s, list, k)
                 /\ \A i \in 1 .. Len(s.waiting[list]) : f[i] = WakeOne(f[i - 1], s.waiting[list][i], FirstOf(s, list, k))
<1>. DEFINE Is(f, n) == f = [i \in 0 .. n |-> IF i = 0 THEN s
                               ELSE CHOOSE r \in {WakeOne(v, s.waiting[list][i], FirstOf(s, list, k)) : v \in {f[i - 1]}} : TRUE]
            N == {n \in Nat : \E f : Is(f, n)}
            last == Len(s.waiting[list])
<1>1. \A v, i : (CHOOSE r \in {WakeOne(x, s.waiting[list][i], FirstOf(s, list, k)) : x \in {v}} : TRUE) = WakeOne(v, s.waiting[list][i], FirstOf(s, list, k))
  <2>1. ASSUME NEW v, NEW i
        PROVE  (CHOOSE r \in {WakeOne(x, s.waiting[list][i], FirstOf(s, list, k)) : x \in {v}} : TRUE) = WakeOne(v, s.waiting[list][i], FirstOf(s, list, k))
    <3>1. {WakeOne(x, s.waiting[list][i], FirstOf(s, list, k)) : x \in {v}} = {WakeOne(v, s.waiting[list][i], FirstOf(s, list, k))}
      OBVIOUS
    <3>. QED  BY <3>1
  <2>. QED  BY <2>1
<1>2. \A f, n : n \in Nat /\ Is(f, n) =>
         f[0] = s /\ \A i \in 1 .. n : f[i] = WakeOne(f[i - 1], s.waiting[list][i], FirstOf(s, list, k))
  BY <1>1
<1>3. 0 \in N
  <2>1. Is([i \in 0 .. 0 |-> s], 0)
    OBVIOUS
  <2>. QED  BY <2>1
<1>4. ASSUME NEW n \in Nat, n \in N PROVE n + 1 \in N
  <2>1. PICK f : Is(f, n)
    BY <1>4
  <2>. DEFINE at(i) == IF i = 0 THEN s
                       ELSE CHOOSE r \in {WakeOne(v, s.waiting[list][i], FirstOf(s, list, k)) : v \in {f[i - 1]}} : TRUE
              g == [i \in 0 .. n + 1 |-> at(i)]
              h == [i \in 0 .. n + 1 |-> IF i = 0 THEN s
                      ELSE CHOOSE r \in {WakeOne(v, s.waiting[list][i], FirstOf(s, list, k)) : v \in {g[i - 1]}} : TRUE]
  <2>2. \A i \in 0 .. n : f[i] = at(i)
    BY <2>1
  <2>3. \A i \in 0 .. n : g[i] = f[i]
    <3>. HIDE DEF at
    <3>. QED  BY <2>2
  <2>4. \A i \in 1 .. n + 1 : g[i - 1] = f[i - 1]
    <3>. HIDE DEF g, at, Is
    <3>1. \A i \in 1 .. n + 1 : i - 1 \in 0 .. n
      OBVIOUS
    <3>. QED  BY <2>3, <3>1
  <2>5. ASSUME NEW i \in 0 .. n + 1 PROVE g[i] = h[i]
    <3>1. CASE i = 0
      BY <3>1
    <3>2. CASE i # 0
      <4>1. i \in 1 .. n + 1
        BY <3>2
      <4>2. g[i - 1] = f[i - 1]
        BY <2>4, <4>1
      <4>3. g[i] = at(i) /\ at(i) = (CHOOSE r \in {WakeOne(v, s.waiting[list][i], FirstOf(s, list, k)) : v \in {f[i - 1]}} : TRUE)
        BY <3>2
      <4>4. h[i] = (CHOOSE r \in {WakeOne(v, s.waiting[list][i], FirstOf(s, list, k)) : v \in {g[i - 1]}} : TRUE)
        <5>. HIDE DEF g
        <5>. QED  BY <3>2
      <4>. HIDE DEF g, h, at
      <4>. QED  BY <4>2, <4>3, <4>4
    <3>. QED  BY <3>1, <3>2
  <2>6. DOMAIN g = 0 .. n + 1 /\ DOMAIN h = 0 .. n + 1
        /\ g = [i \in DOMAIN g |-> g[i]] /\ h = [i \in DOMAIN h |-> h[i]]
    OBVIOUS
  <2>7. g = h
    <3>. HIDE DEF g, h, at
    <3>. QED  BY <2>5, <2>6
  <2>8. Is(g, n + 1)
    <3>. HIDE DEF at
    <3>. QED  BY <2>7
  <2>. HIDE DEF g, Is
  <2>. QED  BY <2>8
<1>. HIDE DEF N
<1>5. Nat \subseteq N
  BY <1>3, <1>4, NumbersFrom
<1>6. \E f : Is(f, last)
  <2>. HIDE DEF Is
  <2>. QED  BY <1>5 DEF N
<1>. DEFINE after == CHOOSE f : Is(f, last)
<1>7. Is(after, last)
  <2>. HIDE DEF Is
  <2>. QED  BY <1>6
<1>8. after[last] = WakeUpTo(s, list, k)
  BY DEF WakeUpTo, Each, WakeOne, FirstOf
<1>. HIDE DEF Is, after
<1>. QED  BY <1>2, <1>7, <1>8

\* Of the pended ticks.
LEMMA ReplaySteps ==
    ASSUME NEW s, NEW seq, seq = [i \in 1 .. s.pendedTicks |-> i], Len(seq) \in Nat
    PROVE  \E f : /\ f[0] = s /\ ReplayTicks(s) = [f[Len(seq)] EXCEPT !.pendedTicks = 0]
                 /\ \A i \in 1 .. Len(seq) : f[i] = ReplayOne(f[i - 1])
<1>. DEFINE Is(f, n) == f = [i \in 0 .. n |-> IF i = 0 THEN s
                               ELSE CHOOSE r \in {ReplayOne(v) : v \in {f[i - 1]}} : TRUE]
            N == {n \in Nat : \E f : Is(f, n)}
            last == Len(seq)
<1>1. \A v, i : (CHOOSE r \in {ReplayOne(x) : x \in {v}} : TRUE) = ReplayOne(v)
  <2>1. ASSUME NEW v, NEW i
        PROVE  (CHOOSE r \in {ReplayOne(x) : x \in {v}} : TRUE) = ReplayOne(v)
    <3>1. {ReplayOne(x) : x \in {v}} = {ReplayOne(v)}
      OBVIOUS
    <3>. QED  BY <3>1
  <2>. QED  BY <2>1
<1>2. \A f, n : n \in Nat /\ Is(f, n) =>
         f[0] = s /\ \A i \in 1 .. n : f[i] = ReplayOne(f[i - 1])
  BY <1>1
<1>3. 0 \in N
  <2>1. Is([i \in 0 .. 0 |-> s], 0)
    OBVIOUS
  <2>. QED  BY <2>1
<1>4. ASSUME NEW n \in Nat, n \in N PROVE n + 1 \in N
  <2>1. PICK f : Is(f, n)
    BY <1>4
  <2>. DEFINE at(i) == IF i = 0 THEN s
                       ELSE CHOOSE r \in {ReplayOne(v) : v \in {f[i - 1]}} : TRUE
              g == [i \in 0 .. n + 1 |-> at(i)]
              h == [i \in 0 .. n + 1 |-> IF i = 0 THEN s
                      ELSE CHOOSE r \in {ReplayOne(v) : v \in {g[i - 1]}} : TRUE]
  <2>2. \A i \in 0 .. n : f[i] = at(i)
    BY <2>1
  <2>3. \A i \in 0 .. n : g[i] = f[i]
    <3>. HIDE DEF at
    <3>. QED  BY <2>2
  <2>4. \A i \in 1 .. n + 1 : g[i - 1] = f[i - 1]
    <3>. HIDE DEF g, at, Is
    <3>1. \A i \in 1 .. n + 1 : i - 1 \in 0 .. n
      OBVIOUS
    <3>. QED  BY <2>3, <3>1
  <2>5. ASSUME NEW i \in 0 .. n + 1 PROVE g[i] = h[i]
    <3>1. CASE i = 0
      BY <3>1
    <3>2. CASE i # 0
      <4>1. i \in 1 .. n + 1
        BY <3>2
      <4>2. g[i - 1] = f[i - 1]
        BY <2>4, <4>1
      <4>3. g[i] = at(i) /\ at(i) = (CHOOSE r \in {ReplayOne(v) : v \in {f[i - 1]}} : TRUE)
        BY <3>2
      <4>4. h[i] = (CHOOSE r \in {ReplayOne(v) : v \in {g[i - 1]}} : TRUE)
        <5>. HIDE DEF g
        <5>. QED  BY <3>2
      <4>. HIDE DEF g, h, at
      <4>. QED  BY <4>2, <4>3, <4>4
    <3>. QED  BY <3>1, <3>2
  <2>6. DOMAIN g = 0 .. n + 1 /\ DOMAIN h = 0 .. n + 1
        /\ g = [i \in DOMAIN g |-> g[i]] /\ h = [i \in DOMAIN h |-> h[i]]
    OBVIOUS
  <2>7. g = h
    <3>. HIDE DEF g, h, at
    <3>. QED  BY <2>5, <2>6
  <2>8. Is(g, n + 1)
    <3>. HIDE DEF at
    <3>. QED  BY <2>7
  <2>. HIDE DEF g, Is
  <2>. QED  BY <2>8
<1>. HIDE DEF N
<1>5. Nat \subseteq N
  BY <1>3, <1>4, NumbersFrom
<1>6. \E f : Is(f, last)
  <2>. HIDE DEF Is
  <2>. QED  BY <1>5 DEF N
<1>. DEFINE after == CHOOSE f : Is(f, last)
<1>7. Is(after, last)
  <2>. HIDE DEF Is
  <2>. QED  BY <1>6
<1>8. ReplayTicks(s) = [after[last] EXCEPT !.pendedTicks = 0]
  BY DEF ReplayTicks, Each, ReplayOne
<1>. HIDE DEF Is, after
<1>. QED  BY <1>2, <1>7, <1>8

\* Of the creation of the tasks.
LEMMA StartSteps ==
    ASSUME NEW seq, Len(seq) \in Nat
    PROVE  \E f : /\ f[0] = NoScheduler /\ f[Len(seq)] = Each(StartTask, NoScheduler, seq)
                 /\ \A i \in 1 .. Len(seq) : f[i] = StartTask(f[i - 1], seq[i])
<1>. DEFINE Is(f, n) == f = [i \in 0 .. n |-> IF i = 0 THEN NoScheduler
                               ELSE CHOOSE r \in {StartTask(v, seq[i]) : v \in {f[i - 1]}} : TRUE]
            N == {n \in Nat : \E f : Is(f, n)}
            last == Len(seq)
<1>1. \A v, i : (CHOOSE r \in {StartTask(x, seq[i]) : x \in {v}} : TRUE) = StartTask(v, seq[i])
  <2>1. ASSUME NEW v, NEW i
        PROVE  (CHOOSE r \in {StartTask(x, seq[i]) : x \in {v}} : TRUE) = StartTask(v, seq[i])
    <3>1. {StartTask(x, seq[i]) : x \in {v}} = {StartTask(v, seq[i])}
      OBVIOUS
    <3>. QED  BY <3>1
  <2>. QED  BY <2>1
<1>2. \A f, n : n \in Nat /\ Is(f, n) =>
         f[0] = NoScheduler /\ \A i \in 1 .. n : f[i] = StartTask(f[i - 1], seq[i])
  BY <1>1
<1>3. 0 \in N
  <2>1. Is([i \in 0 .. 0 |-> NoScheduler], 0)
    OBVIOUS
  <2>. QED  BY <2>1
<1>4. ASSUME NEW n \in Nat, n \in N PROVE n + 1 \in N
  <2>1. PICK f : Is(f, n)
    BY <1>4
  <2>. DEFINE at(i) == IF i = 0 THEN NoScheduler
                       ELSE CHOOSE r \in {StartTask(v, seq[i]) : v \in {f[i - 1]}} : TRUE
              g == [i \in 0 .. n + 1 |-> at(i)]
              h == [i \in 0 .. n + 1 |-> IF i = 0 THEN NoScheduler
                      ELSE CHOOSE r \in {StartTask(v, seq[i]) : v \in {g[i - 1]}} : TRUE]
  <2>2. \A i \in 0 .. n : f[i] = at(i)
    BY <2>1
  <2>3. \A i \in 0 .. n : g[i] = f[i]
    <3>. HIDE DEF at
    <3>. QED  BY <2>2
  <2>4. \A i \in 1 .. n + 1 : g[i - 1] = f[i - 1]
    <3>. HIDE DEF g, at, Is
    <3>1. \A i \in 1 .. n + 1 : i - 1 \in 0 .. n
      OBVIOUS
    <3>. QED  BY <2>3, <3>1
  <2>5. ASSUME NEW i \in 0 .. n + 1 PROVE g[i] = h[i]
    <3>1. CASE i = 0
      BY <3>1
    <3>2. CASE i # 0
      <4>1. i \in 1 .. n + 1
        BY <3>2
      <4>2. g[i - 1] = f[i - 1]
        BY <2>4, <4>1
      <4>3. g[i] = at(i) /\ at(i) = (CHOOSE r \in {StartTask(v, seq[i]) : v \in {f[i - 1]}} : TRUE)
        BY <3>2
      <4>4. h[i] = (CHOOSE r \in {StartTask(v, seq[i]) : v \in {g[i - 1]}} : TRUE)
        <5>. HIDE DEF g
        <5>. QED  BY <3>2
      <4>. HIDE DEF g, h, at
      <4>. QED  BY <4>2, <4>3, <4>4
    <3>. QED  BY <3>1, <3>2
  <2>6. DOMAIN g = 0 .. n + 1 /\ DOMAIN h = 0 .. n + 1
        /\ g = [i \in DOMAIN g |-> g[i]] /\ h = [i \in DOMAIN h |-> h[i]]
    OBVIOUS
  <2>7. g = h
    <3>. HIDE DEF g, h, at
    <3>. QED  BY <2>5, <2>6
  <2>8. Is(g, n + 1)
    <3>. HIDE DEF at
    <3>. QED  BY <2>7
  <2>. HIDE DEF g, Is
  <2>. QED  BY <2>8
<1>. HIDE DEF N
<1>5. Nat \subseteq N
  BY <1>3, <1>4, NumbersFrom
<1>6. \E f : Is(f, last)
  <2>. HIDE DEF Is
  <2>. QED  BY <1>5 DEF N
<1>. DEFINE after == CHOOSE f : Is(f, last)
<1>7. Is(after, last)
  <2>. HIDE DEF Is
  <2>. QED  BY <1>6
<1>8. after[last] = Each(StartTask, NoScheduler, seq)
  BY DEF Each
<1>. HIDE DEF Is, after
<1>. QED  BY <1>2, <1>7, <1>8

\* A walk readies those tasks of a list it meets.
LEMMA ReadiedThose ==
    ASSUME NEW s, InPlace(s), NEW seq \in Seq(Tasks), NEW those,
           NEW r, r = ReadyThose(s, seq, those)
    PROVE  /\ InPlace(r) /\ Gently(s, r, those) /\ (Settled(s) => Settled(r))
           /\ Lasts(s, r, SchedFields \ (StateFields \cup {"topReady", "waiting"}))
           /\ \A l \in AllLists : Range(r.waiting[l]) \subseteq Range(s.waiting[l])
           /\ \A t \in Range(seq) : t \in those => \A l \in AllLists : t \notin Range(r.waiting[l])
<1>. PICK n : n = Len(seq)
  OBVIOUS
<1>1. n \in Nat /\ \A i \in 1 .. n : seq[i] \in Tasks
  BY ElementOfSeq
<1>2. PICK f : f[0] = s /\ f[n] = r /\ \A i \in 1 .. n : f[i] = ReadyOne(f[i - 1], seq[i], those)
  BY <1>1, ReadySteps
<1>. DEFINE Ok(v) == /\ InPlace(v) /\ Gently(s, v, those) /\ (Settled(s) => Settled(v))
                     /\ Lasts(s, v, SchedFields \ (StateFields \cup {"topReady", "waiting"}))
                     /\ \A l \in AllLists : Range(v.waiting[l]) \subseteq Range(s.waiting[l])
            Out(v, t) == \A l \in AllLists : t \notin Range(v.waiting[l])
            N == {i \in Nat : i <= n =>
                     Ok(f[i]) /\ \A j \in 1 .. i : seq[j] \in those => Out(f[i], seq[j])}
<1>3. ASSUME NEW v, Ok(v), NEW t \in Tasks, NEW q, q = ReadyOne(v, t, those)
      PROVE  Ok(q) /\ (t \in those => Out(q, t)) /\ \A u \in Tasks : Out(v, u) => Out(q, u)
  <2>1. CASE t \notin those
    BY <1>3, <2>1 DEF ReadyOne
  <2>2. CASE t \in those
    <3>1. q = MakeReady(RemoveEventItem(v, t), t)
      BY <1>3, <2>2 DEF ReadyOne
    <3>2. /\ InPlace(q) /\ Gently(v, q, {t}) /\ (Settled(v) => Settled(q))
          /\ Out(q, t)
          /\ Lasts(v, q, SchedFields \ (StateFields \cup {"topReady", "waiting"}))
          /\ Moves1(v, q, t)
      BY <1>3, <3>1, OneReady
    <3>3. Gently(s, q, those)
      BY <1>3, <2>2, <3>2, GentlyAll, GentlyTwice
    <3>4. Lasts(s, q, SchedFields \ (StateFields \cup {"topReady", "waiting"}))
      BY <1>3, <3>2 DEF Lasts
    <3>5. \A l \in AllLists : Range(q.waiting[l]) \subseteq Tasks
      BY <3>2, RangeIn DEF InPlace, Shape, OtherLists
    <3>6. \A l \in AllLists : Range(q.waiting[l]) \subseteq Range(v.waiting[l])
      BY <3>2, <3>5 DEF Moves1, SamePlaces
    <3>7. \A u \in Tasks : Out(v, u) => Out(q, u)
      BY <3>6
    <3>. QED  BY <1>3, <3>2, <3>3, <3>4, <3>6, <3>7
  <2>. QED  BY <2>1, <2>2
<1>4. 0 \in N
  <2>1. Gently(s, s, those) /\ Lasts(s, s, SchedFields \ (StateFields \cup {"topReady", "waiting"}))
    BY GentlySame DEF Lasts
  <2>. QED  BY <1>2, <2>1
<1>. HIDE DEF Ok, Out
<1>5. ASSUME NEW i \in Nat, i \in N PROVE i + 1 \in N
  <2>1. SUFFICES ASSUME i + 1 <= n
        PROVE  Ok(f[i + 1]) /\ \A j \in 1 .. i + 1 : seq[j] \in those => Out(f[i + 1], seq[j])
    OBVIOUS
  <2>2. /\ i + 1 \in 1 .. n /\ (i + 1) - 1 = i /\ i <= n
        /\ \A j \in 1 .. i + 1 : (j \in 1 .. i \/ j = i + 1) /\ j \in 1 .. n
    BY <1>1, <2>1
  <2>3. f[i + 1] = ReadyOne(f[i], seq[i + 1], those) /\ seq[i + 1] \in Tasks
    BY <1>1, <1>2, <2>2
  <2>4. Ok(f[i]) /\ \A j \in 1 .. i : seq[j] \in those => Out(f[i], seq[j])
    BY <1>5, <2>2
  <2>5. /\ Ok(f[i + 1]) /\ (seq[i + 1] \in those => Out(f[i + 1], seq[i + 1]))
        /\ \A u \in Tasks : Out(f[i], u) => Out(f[i + 1], u)
    BY <1>3, <2>3, <2>4
  <2>. QED  BY <1>1, <2>2, <2>4, <2>5
<1>. HIDE DEF N
<1>6. n \in N
  BY <1>1, <1>4, <1>5, NumbersFrom
<1>7. Ok(r) /\ \A j \in 1 .. n : seq[j] \in those => Out(r, seq[j])
  BY <1>1, <1>2, <1>6 DEF N
<1>8. \A t \in Range(seq) : \E j \in 1 .. n : t = seq[j]
  BY <1>1 DEF Range
<1>. QED  BY <1>7, <1>8 DEF Ok, Out

\* The first of the tasks that wait in a list.
LEMMA HeadWaits ==
    ASSUME NEW s, Well(s), NEW list \in EventLists, s.waiting[list] # <<>>,
           NEW t, t = Head(s.waiting[list])
    PROVE  t \in Tasks /\ InEvents(s, t) /\ ~ InReady(s, t) /\ ~ Unused(s, t)
<1>1. s.waiting[list] \in Seq(Tasks) /\ list \in AllLists
  BY DEF Well, InPlace, Shape, OtherLists, AllLists, Lists
<1>2. t \in Tasks /\ t \in Range(s.waiting[list])
  BY <1>1 DEF Range
<1>3. InEvents(s, t)
  BY <1>2 DEF InEvents
<1>. QED  BY <1>1, <1>2, <1>3 DEF Well, InPlace, Homed, Unused

LEMMA WokenAndYielded ==
    ASSUME NEW s, Well(s), NEW list \in EventLists, NEW r, r = WakeAndYield(s, list)
    PROVE  Well(r) /\ Gently(s, r, {})
<1>1. CASE s.waiting[list] = <<>>
  BY <1>1, GentlySame DEF WakeAndYield
<1>2. CASE s.waiting[list] # <<>>
  <2>. PICK t, q, c : t = Head(s.waiting[list]) /\ q = Unblock(s, t) /\ c = RemovesHigher(s, list)
    OBVIOUS
  <2>1. t \in Tasks /\ ~ InReady(s, t) /\ ~ Unused(s, t)
    BY <1>2, HeadWaits
  <2>2. Well(q) /\ Gently(s, q, {t})
    BY <2>1, Unblocked
  <2>3. Gently(s, q, {})
    BY <2>1, <2>2, GentlyAll
  <2>4. r = YieldIf(q, c)
    BY <1>2 DEF WakeAndYield, RemoveFromEventList
  <2>5. Well(r) /\ Gently(q, r, {})
    BY <2>2, <2>4, FreeChanges
  <2>. QED  BY <2>3, <2>5, GentlyTwice
<1>. QED  BY <1>1, <1>2

\* prvUnlockQueue wakes as many as it has counted items.
LEMMA WokenUpTo ==
    ASSUME NEW s, Well(s), NEW list \in EventLists, NEW k, NEW r, r = WakeUpTo(s, list, k)
    PROVE  Well(r) /\ Gently(s, r, {})
<1>. PICK seq, n, those : seq = s.waiting[list] /\ n = Len(seq) /\ those = FirstOf(s, list, k)
  OBVIOUS
<1>1. /\ seq \in Seq(Tasks) /\ IsInjective(seq) /\ n \in Nat /\ DOMAIN seq = 1 .. n
      /\ \A i \in 1 .. n : seq[i] \in Tasks /\ seq[i] \in Range(seq)
      /\ \A i, j \in 1 .. n : seq[i] = seq[j] => i = j
  <2>1. seq \in Seq(Tasks) /\ IsInjective(seq)
    BY DEF Well, InPlace, Shape, OtherLists, AllLists, Lists
  <2>. QED  BY <2>1, ElementOfSeq DEF Range, IsInjective
<1>2. PICK f : f[0] = s /\ f[n] = r /\ \A i \in 1 .. n : f[i] = WakeOne(f[i - 1], seq[i], those)
  BY <1>1, WakeSteps
<1>. DEFINE Ok(v) == Well(v) /\ Gently(s, v, {})
            N == {i \in Nat : i <= n =>
                     Ok(f[i]) /\ \A j \in i + 1 .. n : seq[j] \in Range(f[i].waiting[list])}
<1>3. ASSUME NEW v, Ok(v), NEW t \in Tasks, t \in Range(v.waiting[list]),
             NEW q, q = WakeOne(v, t, those)
      PROVE  Ok(q) /\ \A u \in Tasks : u # t /\ u \in Range(v.waiting[list]) => u \in Range(q.waiting[list])
  <2>1. CASE t \notin those
    BY <1>3, <2>1 DEF WakeOne
  <2>2. CASE t \in those
    <3>1. q = Unblock(v, t)
      BY <1>3, <2>2 DEF WakeOne
    <3>2. InEvents(v, t) /\ list \in AllLists
      BY <1>3 DEF InEvents, AllLists
    <3>3. ~ InReady(v, t) /\ ~ Unused(v, t)
      BY <1>3, <3>2 DEF Well, InPlace, Homed, Unused
    <3>4. Well(q) /\ Gently(v, q, {t}) /\ Moves1(v, q, t)
      BY <1>3, <3>1, <3>3, Unblocked
    <3>5. Gently(v, q, {})
      BY <3>3, <3>4, GentlyAll
    <3>6. Gently(s, q, {})
      BY <1>3, <3>5, GentlyTwice
    <3>. QED  BY <3>2, <3>4, <3>6 DEF Moves1, SamePlaces
  <2>. QED  BY <2>1, <2>2
<1>4. 0 \in N
  BY <1>1, <1>2, GentlySame
<1>. HIDE DEF Ok
<1>5. ASSUME NEW i \in Nat, i \in N PROVE i + 1 \in N
  <2>1. SUFFICES ASSUME i + 1 <= n
        PROVE  /\ Ok(f[i + 1])
               /\ \A j \in (i + 1) + 1 .. n : seq[j] \in Range(f[i + 1].waiting[list])
    OBVIOUS
  <2>2. /\ i + 1 \in 1 .. n /\ (i + 1) - 1 = i /\ i <= n
        /\ \A j \in (i + 1) + 1 .. n : j \in i + 1 .. n /\ j # i + 1 /\ j \in 1 .. n
        /\ i + 1 \in i + 1 .. n
    BY <1>1, <2>1
  <2>3. f[i + 1] = WakeOne(f[i], seq[i + 1], those) /\ seq[i + 1] \in Tasks
    BY <1>1, <1>2, <2>2
  <2>4. Ok(f[i]) /\ \A j \in i + 1 .. n : seq[j] \in Range(f[i].waiting[list])
    BY <1>5, <2>2
  <2>5. /\ Ok(f[i + 1])
        /\ \A u \in Tasks : u # seq[i + 1] /\ u \in Range(f[i].waiting[list])
              => u \in Range(f[i + 1].waiting[list])
    BY <1>3, <2>2, <2>3, <2>4
  <2>. QED  BY <1>1, <2>2, <2>4, <2>5
<1>. HIDE DEF N
<1>6. n \in N
  BY <1>1, <1>4, <1>5, NumbersFrom
<1>7. Ok(r)
  BY <1>1, <1>2, <1>6 DEF N
<1>. QED  BY <1>7 DEF Ok

\* The waiting tasks that an event group releases.
LEMMA ReleasedThose ==
    ASSUME NEW s, Well(s), NEW list \in EventLists, NEW those, those \subseteq Range(s.waiting[list]),
           NEW bits, NEW r, r = Release(s, list, those, bits)
    PROVE  /\ Well(r) /\ Gently(s, r, {})
           /\ \A t \in those : t \notin Range(r.waiting[list])
<1>a. PICK e : e = [t \in Tasks |-> IF t \in those
                                  THEN [s.eventBits[t] EXCEPT !.bits = bits, !.set = TRUE]
                                  ELSE s.eventBits[t]]
  OBVIOUS
<1>b. PICK q : q = [s EXCEPT !.eventBits = e]
  OBVIOUS
<1>1. /\ Shape(s) /\ s.waiting[list] \in Seq(Tasks) /\ Range(s.waiting[list]) \subseteq Tasks
      /\ list \in AllLists
  BY RangeIn DEF Well, InPlace, Shape, OtherLists, AllLists, Lists
<1>2. /\ DOMAIN q = SchedFields /\ \A x \in SchedFields \ {"eventBits"} : q[x] = s[x]
      /\ q.eventBits = e
  BY <1>1, <1>b DEF Shape, SchedFields
<1>3. Shape(q)
  BY <1>a, <1>1, <1>2 DEF Shape, ReadyLists, OtherLists, Numbers, SchedFields
<1>4. ASSUME NEW u \in Tasks PROVE SamePlaces(s, q, u)
  BY <1>2 DEF SamePlaces, InReady, SchedFields
<1>5. InPlace(q)
  BY <1>3, <1>4, PlacesKeep DEF Well, InPlace
<1>6. Settled(q)
  <2>1. /\ q.suspended = s.suspended /\ q.waiting = s.waiting /\ q.ready = s.ready
        /\ q.current = s.current
    BY <1>2 DEF SchedFields
  <2>. QED  BY <2>1 DEF Well, Settled, InPending, InReady
<1>. PICK seq : seq = s.waiting[list]
  OBVIOUS
<1>. PICK v : v = ReadyThose(q, seq, those)
  OBVIOUS
<1>7. /\ InPlace(v) /\ Gently(q, v, those) /\ Settled(v)
      /\ Lasts(q, v, SchedFields \ (StateFields \cup {"topReady", "waiting"}))
      /\ \A l \in AllLists : Range(v.waiting[l]) \subseteq Range(q.waiting[l])
      /\ \A t \in those : \A l \in AllLists : t \notin Range(v.waiting[l])
  <2>. seq \in Seq(Tasks)
    BY <1>1
  <2>1. InPlace(v)
    BY <1>5, ReadiedThose
  <2>2. Gently(q, v, those)
    BY <1>5, ReadiedThose
  <2>3. Settled(v)
    BY <1>5, <1>6, ReadiedThose
  <2>4. Lasts(q, v, SchedFields \ (StateFields \cup {"topReady", "waiting"}))
    BY <1>5, ReadiedThose
  <2>5. \A l \in AllLists : Range(v.waiting[l]) \subseteq Range(q.waiting[l])
    BY <1>5, ReadiedThose
  <2>6. \A t \in Range(seq) : t \in those => \A l \in AllLists : t \notin Range(v.waiting[l])
    BY <1>5, ReadiedThose
  <2>. QED  BY <2>1, <2>2, <2>3, <2>4, <2>5, <2>6
<1>. PICK b : b = (v.yieldPending \/ \E t \in those : Outranks(s, t))
  OBVIOUS
<1>8. r = [v EXCEPT !.yieldPending = b]
  BY <1>a, <1>b DEF Release
<1>9. Well(r) /\ Gently(v, r, {})
  <2>1. Well(v)
    BY <1>7 DEF Well
  <2>. QED  BY <1>8, <2>1, FreeChanges
<1>10. ASSUME NEW u \in Tasks PROVE Spares(s, v, {}, u)
  <2>1. Spares(q, v, those, u)
    BY <1>7 DEF Gently
  <2>2. q.waiting = s.waiting /\ q.notifyState = s.notifyState
    BY <1>2 DEF SchedFields
  <2>3. (InReady(q, u) <=> InReady(s, u)) /\ (Unused(s, u) => Unused(q, u))
    BY <1>4, <2>2 DEF SamePlaces, Unused
  <2>4. u \in those => ~ Unused(s, u)
    BY <1>1 DEF Unused
  <2>5. InEvents(v, u) => u \notin those
    BY <1>7 DEF InEvents, AllLists
  <2>6. u \notin those => q.eventBits[u] = s.eventBits[u]
    BY <1>2, <1>a
  <2>. QED  BY <2>1, <2>2, <2>3, <2>4, <2>5, <2>6 DEF Spares
<1>11. Gently(s, v, {})
  <2>1. Steady(q, v)
    BY <1>7 DEF Gently
  <2>2. Steady(s, q)
    BY <1>2 DEF Steady, Ticks, SchedFields
  <2>. QED  BY <1>10, <2>1, <2>2 DEF Gently, Steady
<1>12. r.waiting = v.waiting
  BY <1>7, <1>8 DEF InPlace, Shape, SchedFields
<1>. QED  BY <1>1, <1>7, <1>9, <1>11, <1>12, GentlyTwice

LEMMA ReadyIs ==
    ASSUME NEW s, Shape(s), NEW t \in Tasks
    PROVE  /\ IsReady(s, t) <=> InReady(s, t)
           /\ \A p \in Priorities : t \in Range(s.ready[p]) => p = s.priority[t]
<1>1. s.priority[t] \in Priorities /\ s.ready[s.priority[t]] \in Seq(Tasks \cup {End})
  BY DEF Shape, Numbers, ReadyLists, Rings, Lists
<1>2. IsReady(s, t) <=> t \in Range(s.ready[s.priority[t]])
  BY <1>1, ContainsIs DEF IsReady
<1>. QED  BY <1>1, <1>2 DEF InReady, Shape, ReadyLists

LEMMA ChangedPriority ==
    ASSUME NEW s, Well(s), NEW t \in Tasks, NEW p \in Priorities,
           NEW cleared \in {s.priority[t], p}, NEW r, r = ChangePriority(s, t, p, cleared)
    PROVE  Well(r) /\ Gently(s, r, {})
<1>. PICK old, moved : old = s.priority[t] /\ moved = RemoveStateItem(s, t)
  OBVIOUS
<1>1. Shape(s) /\ old \in Priorities /\ Settled(s) /\ \A u \in Tasks : Homed(s, u)
  BY DEF Well, InPlace, Shape, Numbers
<1>2. CASE ~ IsReady(s, t)
  <2>1. /\ DOMAIN r = SchedFields /\ \A x \in SchedFields \ {"priority"} : r[x] = s[x]
        /\ r.priority = [s.priority EXCEPT ![t] = p]
    BY <1>1, <1>2 DEF ChangePriority, Shape, SchedFields
  <2>2. /\ r.current = s.current /\ r.suspended = s.suspended /\ r.ready = s.ready
        /\ r.topReady = s.topReady /\ r.delayed = s.delayed
        /\ r.overflowDelayed = s.overflowDelayed /\ r.suspendedTasks = s.suspendedTasks
        /\ r.terminating = s.terminating /\ r.waiting = s.waiting
        /\ Lasts(s, r, Still)
    BY <2>1 DEF SchedFields, Lasts, Still
  <2>3. ~ InReady(s, t)
    BY <1>1, <1>2, ReadyIs
  <2>4. ReadyLists(r)
    BY <1>1, <2>1, <2>2, <2>3 DEF Shape, ReadyLists, InReady, Numbers
  <2>5. Shape(r)
    BY <1>1, <2>1, <2>4 DEF Shape, OtherLists, Numbers, SchedFields
  <2>6. \A u \in Tasks : SamePlaces(s, r, u)
    BY <2>2 DEF SamePlaces, InReady
  <2>7. Steady(s, r) /\ SameNotes(s, r)
    BY <2>2, StillSteady
  <2>8. \A u \in Tasks : Homed(r, u) /\ Spares(s, r, {}, u)
    BY <1>1, <2>6, <2>7, PlacesKeep
  <2>9. Settled(r)
    BY <1>1, <2>2 DEF Settled, InPending, InReady
  <2>. QED  BY <2>5, <2>7, <2>8, <2>9 DEF Well, InPlace, Gently
<1>3. CASE IsReady(s, t)
  <2>1. InReady(s, t) /\ ~ Unused(s, t)
    BY <1>1, <1>3, ReadyIs DEF Unused
  <2>2. /\ Shape(moved)
        /\ \A x \in SchedFields \ StateFields : moved[x] = s[x]
        /\ \A q \in Priorities : Range(moved.ready[q]) = Range(s.ready[q]) \ {t}
        /\ Range(moved.delayed) = Range(s.delayed) \ {t}
        /\ Range(moved.overflowDelayed) = Range(s.overflowDelayed) \ {t}
        /\ moved.suspendedTasks = s.suspendedTasks \ {t}
        /\ Range(moved.terminating) = Range(s.terminating) \ {t}
    <3>1. Shape(s)
      BY <1>1
    <3>. QED  BY <3>1, StateItemRemoved, SMTT(30)
  <2>3. PICK top : /\ top = IF RingLength(moved.ready[old]) = 0 THEN moved.topReady \ {cleared}
                            ELSE moved.topReady
    OBVIOUS
  <2>4. DOMAIN moved = SchedFields
    BY <2>2 DEF Shape
  <2>5. /\ DOMAIN r = SchedFields
        /\ \A x \in SchedFields \ {"ready", "topReady", "priority"} : r[x] = moved[x]
        /\ r.topReady = top \cup {p}
        /\ r.ready = [moved.ready EXCEPT ![p] = RingInsert(@, t)]
        /\ r.priority = [moved.priority EXCEPT ![t] = p]
    <3>1. PICK reset : reset = IF RingLength(moved.ready[old]) = 0
                               THEN [moved EXCEPT !.topReady = @ \ {cleared}] ELSE moved
      OBVIOUS
    <3>2. /\ DOMAIN reset = SchedFields
          /\ \A x \in SchedFields \ {"topReady"} : reset[x] = moved[x]
          /\ reset.topReady = top
      BY <2>3, <2>4, <3>1 DEF SchedFields
    <3>3. r = AddTaskToReadyList([reset EXCEPT !.priority[t] = p], t)
      BY <1>3, <3>1 DEF ChangePriority
    <3>4. PICK q : q = [reset EXCEPT !.priority[t] = p]
      OBVIOUS
    <3>5. /\ DOMAIN q = SchedFields
          /\ \A x \in SchedFields \ {"priority"} : q[x] = reset[x]
          /\ q.priority = [reset.priority EXCEPT ![t] = p]
      BY <3>2, <3>4 DEF SchedFields
    <3>6. q.priority[t] = p
      BY <1>1, <2>2, <3>2, <3>5 DEF Shape, Numbers, SchedFields
    <3>7. r = [q EXCEPT !.topReady = @ \cup {p}, !.ready[p] = RingInsert(@, t)]
      BY <3>3, <3>4, <3>6 DEF AddTaskToReadyList
    <3>8. /\ DOMAIN r = SchedFields
          /\ \A x \in SchedFields \ {"ready", "topReady"} : r[x] = q[x]
          /\ r.topReady = q.topReady \cup {p}
          /\ r.ready = [q.ready EXCEPT ![p] = RingInsert(@, t)]
      BY <3>5, <3>7 DEF SchedFields
    <3>9. \A x \in SchedFields \ {"ready", "topReady", "priority"} : r[x] = moved[x]
      BY <3>2, <3>5, <3>8
    <3>10. /\ q.topReady = top /\ q.ready = moved.ready /\ r.priority = q.priority
           /\ reset.priority = moved.priority
      BY <3>2, <3>5, <3>8 DEF SchedFields
    <3>. QED  BY <3>5, <3>8, <3>9, <3>10
  <2>6. moved.ready \in [Priorities -> Rings] /\ t \notin Range(moved.ready[p])
    BY <2>2 DEF Shape, ReadyLists
  <2>7. /\ r.ready \in [Priorities -> Rings]
        /\ \A q \in Priorities :
              Range(r.ready[q]) = Range(moved.ready[q]) \cup (IF q = p THEN {t} ELSE {})
    <3>1. /\ RingInsert(moved.ready[p], t) \in Rings
          /\ Range(RingInsert(moved.ready[p], t)) = Range(moved.ready[p]) \cup {t}
      BY <2>6, RingWith
    <3>. QED  BY <2>5, <2>6, <3>1
  <2>8. moved.priority = s.priority /\ moved.topReady = s.topReady /\ moved.waiting = s.waiting
    BY <2>2 DEF SchedFields, StateFields
  <2>9. r.priority \in [Tasks -> Priorities] /\ r.priority[t] = p
        /\ \A u \in Tasks : u # t => r.priority[u] = s.priority[u]
    BY <1>1, <2>5, <2>8 DEF Shape, Numbers
  <2>10. ReadyLists(r)
    <3>1. r.topReady \subseteq Priorities
      BY <1>1, <2>3, <2>5, <2>8 DEF Shape, ReadyLists
    <3>2. ASSUME NEW q \in Priorities, NEW u \in Tasks, u \in Range(r.ready[q])
          PROVE  q \in r.topReady /\ q = r.priority[u]
      <4>1. CASE u = t
        <5>1. q = p
          BY <2>2, <2>7, <3>2, <4>1
        <5>. QED  BY <2>5, <2>9, <4>1, <5>1
      <4>2. CASE u # t
        <5>1. u \in Range(moved.ready[q]) /\ u \in Range(s.ready[q])
          BY <2>2, <2>7, <3>2, <4>2
        <5>2. q \in s.topReady /\ q = s.priority[u]
          BY <1>1, <5>1 DEF Shape, ReadyLists
        <5>3. q \in top \/ q = p
          <6>1. CASE RingLength(moved.ready[old]) # 0
            BY <2>3, <2>8, <5>2, <6>1
          <6>2. CASE RingLength(moved.ready[old]) = 0
            <7>1. q # old
              BY <1>1, <2>6, <5>1, <6>2, RingAlone
            <7>. QED  BY <2>3, <2>8, <5>2, <6>2, <7>1
          <6>. QED  BY <6>1, <6>2
        <5>. QED  BY <2>5, <2>9, <4>2, <5>2, <5>3
      <4>. QED  BY <4>1, <4>2
    <3>. QED  BY <2>7, <3>1, <3>2 DEF ReadyLists
  <2>11. Shape(r)
    BY <2>2, <2>5, <2>9, <2>10 DEF Shape, OtherLists, Numbers, SchedFields
  <2>12. /\ Lasts(s, r, Still) /\ r.waiting = s.waiting /\ r.delayed = moved.delayed
         /\ r.overflowDelayed = moved.overflowDelayed /\ r.suspendedTasks = moved.suspendedTasks
         /\ r.terminating = moved.terminating
    BY <2>2, <2>5 DEF Lasts, Still, SchedFields, StateFields
  <2>13. ASSUME NEW u \in Tasks PROVE InReady(r, u) <=> InReady(s, u)
    <3>1. CASE u = t
      BY <2>1, <2>7, <3>1 DEF InReady
    <3>2. CASE u # t
      <4>1. \A q \in Priorities : u \in Range(r.ready[q]) <=> u \in Range(s.ready[q])
        BY <2>2, <2>7, <3>2
      <4>. QED  BY <4>1 DEF InReady
    <3>. QED  BY <3>1, <3>2
  <2>14. Moves1(s, r, t)
    BY <2>2, <2>12, <2>13 DEF Moves1, SamePlaces
  <2>15. Homed(r, t)
    <3>1. ~ InEvents(r, t)
      BY <1>1, <2>1, <2>12 DEF Homed, InEvents
    <3>2. Homed(s, t)
      BY <1>1
    <3>. QED  BY <2>2, <2>12, <3>1, <3>2 DEF Homed
  <2>16. (\A u \in Tasks : Homed(r, u)) /\ Gently(s, r, {t})
    BY <1>1, <2>12, <2>13, <2>14, <2>15, MovesGently
  <2>17. Gently(s, r, {})
    BY <2>1, <2>16, GentlyAll
  <2>18. Settled(r)
    <3>1. r.suspended = s.suspended /\ r.current = s.current
      BY <2>12 DEF Lasts, Still
    <3>2. InPending(r, r.current) => r.current \in Tasks
      BY <2>11, RangeIn DEF Shape, OtherLists, AllLists, InPending
    <3>3. \A u \in Tasks : InPending(r, u) <=> InPending(s, u)
      BY <2>12 DEF InPending
    <3>. QED  BY <1>1, <2>13, <3>1, <3>2, <3>3 DEF Settled
  <2>. QED  BY <2>11, <2>16, <2>17, <2>18 DEF Well, InPlace
<1>. QED  BY <1>2, <1>3

LEMMA EventOrderSet ==
    ASSUME NEW s, Well(s), NEW t \in Tasks, NEW p \in Priorities, NEW r, r = SetEventOrder(s, t, p)
    PROVE  Well(r) /\ Gently(s, r, {}) /\ r.priority = s.priority /\ r.basePriority = s.basePriority
           /\ r.mutexesHeld = s.mutexesHeld /\ r.current = s.current
<1>1. CASE s.eventBits[t] # None
  BY <1>1, GentlySame DEF SetEventOrder
<1>2. CASE s.eventBits[t] = None
  <2>1. /\ DOMAIN s = SchedFields /\ s.eventOrder \in [Tasks -> Priorities]
        /\ s.basePriority \in [Tasks -> Priorities]
    BY DEF Well, InPlace, Shape, Numbers
  <2>2. TopPriority - p \in Priorities
    BY KernelAssumption DEF Priorities
  <2>3. /\ DOMAIN r = SchedFields /\ Lasts(s, r, SchedFields \ {"eventOrder"})
        /\ r.eventOrder = [s.eventOrder EXCEPT ![t] = TopPriority - p]
    BY <1>2, <2>1 DEF SetEventOrder, Lasts, SchedFields
  <2>4. /\ r.eventOrder \in [Tasks -> Priorities] /\ r.basePriority = s.basePriority
        /\ Lasts(s, r, SchedFields \ FreeFields) /\ r.switchPending = s.switchPending
        /\ r.priority = s.priority /\ r.mutexesHeld = s.mutexesHeld /\ r.current = s.current
    BY <2>1, <2>2, <2>3 DEF Lasts, SchedFields, FreeFields
  <2>. QED  BY <2>1, <2>3, <2>4, FreeStep
<1>. QED  BY <1>1, <1>2

\* The priority of the holder of a mutex.
LEMMA PriorityInherited ==
    ASSUME NEW s, Well(s), s.current \in Tasks, NEW holder \in Tasks \cup {None},
           NEW r, r = PriorityInherit(s, holder)
    PROVE  Well(r) /\ Gently(s, r, {})
<1>. PICK p : p = s.priority[s.current]
  OBVIOUS
<1>1. p \in Priorities
  BY DEF Well, InPlace, Shape, Numbers
<1>2. CASE holder = None \/ ~ s.priority[holder] < p
  BY <1>2, GentlySame DEF PriorityInherit
<1>3. CASE holder # None /\ s.priority[holder] < p
  <2>. PICK q, cleared : q = SetEventOrder(s, holder, p) /\ cleared = s.priority[holder]
    OBVIOUS
  <2>1. holder \in Tasks
    BY <1>3
  <2>2. Well(q) /\ Gently(s, q, {}) /\ q.priority = s.priority
    BY <1>1, <2>1, EventOrderSet
  <2>3. r = ChangePriority(q, holder, p, cleared)
    BY <1>3 DEF PriorityInherit
  <2>4. Well(r) /\ Gently(q, r, {})
    BY <1>1, <2>1, <2>2, <2>3, ChangedPriority
  <2>. QED  BY <2>2, <2>4, GentlyTwice
<1>. QED  BY <1>2, <1>3

LEMMA PriorityDisinherited ==
    ASSUME NEW s, Well(s), NEW holder \in Tasks \cup {None}, NEW r, r = PriorityDisinherit(s, holder)
    PROVE  Well(r) /\ Gently(s, r, {})
<1>1. CASE holder = None
  BY <1>1, GentlySame DEF PriorityDisinherit
<1>2. CASE holder # None /\ (holder # s.current \/ s.mutexesHeld[holder] = 0)
  <2>1. r = Fail(s, "the holder gives its mutex")
    BY <1>2 DEF PriorityDisinherit
  <2>. QED  BY <2>1, FreeChanges
<1>3. CASE holder # None /\ ~ (holder # s.current \/ s.mutexesHeld[holder] = 0)
  <2>. PICK n, given : n = s.mutexesHeld[holder] - 1 /\ given = [s EXCEPT !.mutexesHeld[holder] = n]
    OBVIOUS
  <2>1. Well(given) /\ Gently(s, given, {})
    BY FreeChanges
  <2>2. /\ holder \in Tasks /\ s.basePriority[holder] \in Priorities
        /\ given.priority = s.priority
    BY <1>3 DEF Well, InPlace, Shape, Numbers, SchedFields
  <2>3. CASE ~ Disinherits(s, holder)
    <3>1. r = given
      BY <1>3, <2>3 DEF PriorityDisinherit
    <3>. QED  BY <2>1, <3>1
  <2>4. CASE Disinherits(s, holder)
    <3>. PICK base, cleared, q : /\ base = s.basePriority[holder] /\ cleared = s.priority[holder]
                                 /\ q = ChangePriority(given, holder, base, cleared)
      OBVIOUS
    <3>1. r = [q EXCEPT !.eventOrder[holder] = TopPriority - base]
      BY <1>3, <2>4 DEF PriorityDisinherit
    <3>2. Well(q) /\ Gently(given, q, {})
      BY <2>1, <2>2, ChangedPriority
    <3>3. /\ DOMAIN q = SchedFields /\ q.eventOrder \in [Tasks -> Priorities]
          /\ q.basePriority \in [Tasks -> Priorities] /\ TopPriority - base \in Priorities
      BY <2>2, <3>2, KernelAssumption DEF Well, InPlace, Shape, Numbers, Priorities
    <3>4. /\ DOMAIN r = SchedFields /\ Lasts(q, r, SchedFields \ {"eventOrder"})
          /\ r.eventOrder = [q.eventOrder EXCEPT ![holder] = TopPriority - base]
      BY <3>1, <3>3 DEF Lasts, SchedFields
    <3>5. /\ r.basePriority = q.basePriority
          /\ Lasts(q, r, SchedFields \ FreeFields) /\ r.switchPending = q.switchPending
      BY <3>4 DEF Lasts, SchedFields, FreeFields
    <3>7. r.eventOrder \in [Tasks -> Priorities]
      BY <2>2, <3>3, <3>4
    <3>6. Well(r) /\ Gently(q, r, {})
      BY <3>2, <3>3, <3>4, <3>5, <3>7, FreeStep
    <3>. QED  BY <2>1, <3>2, <3>6, GentlyTwice
  <2>. QED  BY <2>3, <2>4
<1>. QED  BY <1>1, <1>2, <1>3

LEMMA HighestIsPriority ==
    ASSUME NEW s, Well(s), NEW o \in Objects
    PROVE  HighestWaiting(s, o) \in Priorities
<1>1. CASE s.waiting[ToReceive(o)] = <<>>
  BY <1>1, KernelAssumption DEF HighestWaiting, Priorities
<1>2. CASE s.waiting[ToReceive(o)] # <<>>
  <2>1. ToReceive(o) \in EventLists
    BY ListAssumption
  <2>2. Head(s.waiting[ToReceive(o)]) \in Tasks
    BY <1>2, <2>1, HeadWaits
  <2>3. s.eventOrder[Head(s.waiting[ToReceive(o)])] \in Priorities
    BY <2>2 DEF Well, InPlace, Shape, Numbers
  <2>. QED  BY <1>2, <2>3, KernelAssumption DEF HighestWaiting, Priorities
<1>. QED  BY <1>1, <1>2

LEMMA DisinheritedLate ==
    ASSUME NEW s, Well(s), NEW holder \in Tasks \cup {None}, NEW highest \in Priorities,
           NEW r, r = PriorityDisinheritAfterTimeout(s, holder, highest)
    PROVE  Well(r) /\ Gently(s, r, {})
<1>. PICK p, checked : /\ p = Max({s.basePriority[holder], highest})
                       /\ checked = IF holder # s.current THEN s
                                    ELSE Fail(s, "the holder is another task")
  OBVIOUS
<1>1. CASE holder = None
  BY <1>1, GentlySame DEF PriorityDisinheritAfterTimeout
<1>2. CASE holder # None /\ s.mutexesHeld[holder] = 0
  <2>1. r = Fail(s, "the holder holds a mutex")
    BY <1>2 DEF PriorityDisinheritAfterTimeout
  <2>. QED  BY <2>1, FreeChanges
<1>3. CASE /\ holder # None /\ s.mutexesHeld[holder] # 0
           /\ s.priority[holder] = p \/ s.mutexesHeld[holder] > 1
  BY <1>3, GentlySame DEF PriorityDisinheritAfterTimeout
<1>4. CASE /\ holder # None /\ s.mutexesHeld[holder] # 0
           /\ ~ (s.priority[holder] = p \/ s.mutexesHeld[holder] > 1)
  <2>1. holder \in Tasks /\ s.basePriority[holder] \in Priorities
    BY <1>4 DEF Well, InPlace, Shape, Numbers
  <2>2. p \in Priorities
    <3>. PICK S : S = {s.basePriority[holder], highest}
      OBVIOUS
    <3>1. S \subseteq 0 .. TopPriority /\ S # {} /\ TopPriority \in Nat
      BY <2>1, KernelAssumption DEF Priorities
    <3>2. Max(S) \in S
      BY <3>1, LargestOf
    <3>. QED  BY <3>1, <3>2 DEF Priorities
  <2>3. Well(checked) /\ Gently(s, checked, {})
    BY FreeChanges, GentlySame
  <2>. PICK q : q = SetEventOrder(checked, holder, p)
    OBVIOUS
  <2>4. Well(q) /\ Gently(checked, q, {})
    BY <2>1, <2>2, <2>3, EventOrderSet
  <2>5. r = ChangePriority(q, holder, p, p)
    BY <1>4 DEF PriorityDisinheritAfterTimeout
  <2>6. Well(r) /\ Gently(q, r, {})
    BY <2>1, <2>2, <2>4, <2>5, ChangedPriority
  <2>. QED  BY <2>3, <2>4, <2>6, GentlyTwice
<1>. QED  BY <1>1, <1>2, <1>3, <1>4

(***************************************************************************)
(* The running task goes to sleep, and what else only moves itself.        *)
(***************************************************************************)

\* A step after which t alone may have lost its place.
Leaves(s, r, t) == Steady(s, r) /\ \A u \in Tasks : u # t => Spares(s, r, {}, u)

SleepFields == StateFields \cup {"topReady", "wakeTime", "delayAborted", "nextUnblock"}
LEMMA AddedCurrent ==
    ASSUME NEW s, Shape(s), NEW t \in Tasks, t = s.current, NEW ticks, NEW forever,
           NEW r, r = AddCurrentTaskToDelayedList(s, ticks, forever)
    PROVE  /\ Shape(r) /\ Lasts(s, r, SchedFields \ SleepFields)
           /\ \A u \in Tasks : u # t => SamePlaces(s, r, u)
           /\ ~ InReady(r, t) /\ t \notin Range(r.terminating)
           /\ t \in Range(r.delayed) => t \notin Range(r.overflowDelayed) /\ t \notin r.suspendedTasks
           /\ t \in Range(r.overflowDelayed) => t \notin r.suspendedTasks
<1>. PICK out, p, taken : /\ out = RemoveStateItem(s, t) /\ p = s.priority[t]
                          /\ taken = ResetReadyPriority(out, p)
  OBVIOUS
<1>1. p \in Priorities
  BY DEF Shape, Numbers
<1>2. /\ Shape(out)
      /\ \A x \in SchedFields \ StateFields : out[x] = s[x]
      /\ \A q \in Priorities : Range(out.ready[q]) = Range(s.ready[q]) \ {t}
      /\ Range(out.delayed) = Range(s.delayed) \ {t}
      /\ Range(out.overflowDelayed) = Range(s.overflowDelayed) \ {t}
      /\ out.suspendedTasks = s.suspendedTasks \ {t}
      /\ Range(out.terminating) = Range(s.terminating) \ {t}
  BY StateItemRemoved, SMTT(30)
<1>3. Shape(taken) /\ \A x \in SchedFields \ {"topReady"} : taken[x] = out[x]
  BY <1>1, <1>2, PriorityReset
<1>4. /\ DOMAIN taken = SchedFields
      /\ \A q \in Priorities : Range(taken.ready[q]) = Range(s.ready[q]) \ {t}
      /\ Range(taken.delayed) = Range(s.delayed) \ {t}
      /\ Range(taken.overflowDelayed) = Range(s.overflowDelayed) \ {t}
      /\ taken.suspendedTasks = s.suspendedTasks \ {t}
      /\ Range(taken.terminating) = Range(s.terminating) \ {t}
  BY <1>2, <1>3 DEF SchedFields, Shape
<1>. DEFINE changed == {"delayed", "overflowDelayed", "suspendedTasks", "wakeTime", "delayAborted",
                        "nextUnblock"}
<1>5. \E value :
        /\ DOMAIN r = SchedFields /\ \A x \in SchedFields \ changed : r[x] = taken[x]
        /\ \/ /\ r.suspendedTasks = taken.suspendedTasks \cup {t}
              /\ r.delayed = taken.delayed /\ r.overflowDelayed = taken.overflowDelayed
           \/ /\ r.overflowDelayed = ListInsert(taken.overflowDelayed, t, value)
              /\ r.delayed = taken.delayed /\ r.suspendedTasks = taken.suspendedTasks
           \/ /\ r.delayed = ListInsert(taken.delayed, t, value)
              /\ r.overflowDelayed = taken.overflowDelayed /\ r.suspendedTasks = taken.suspendedTasks
  <2>. PICK wake, timed : /\ wake = (s.tick + ticks) % TickCount
                          /\ timed = [taken EXCEPT !.wakeTime[t] = wake, !.delayAborted[t] = FALSE]
    OBVIOUS
  <2>1. /\ DOMAIN timed = SchedFields
        /\ \A x \in SchedFields \ {"wakeTime", "delayAborted"} : timed[x] = taken[x]
    BY <1>4 DEF SchedFields
  <2>. PICK value : value = timed.wakeTime
    OBVIOUS
  <2>2. CASE ticks = MaxDelay /\ forever
    <3>1. r = [taken EXCEPT !.suspendedTasks = @ \cup {t}, !.delayAborted[t] = FALSE]
      BY <2>2 DEF AddCurrentTaskToDelayedList
    <3>. QED  BY <1>4, <3>1 DEF SchedFields
  <2>3. CASE ~ (ticks = MaxDelay /\ forever) /\ wake < s.tick
    <3>1. r = [timed EXCEPT !.overflowDelayed = ListInsert(@, t, value)]
      BY <2>3 DEF AddCurrentTaskToDelayedList
    <3>2. /\ DOMAIN r = SchedFields
          /\ \A x \in SchedFields \ {"overflowDelayed"} : r[x] = timed[x]
          /\ r.overflowDelayed = ListInsert(timed.overflowDelayed, t, value)
      BY <2>1, <3>1 DEF SchedFields
    <3>. QED  BY <2>1, <3>2 DEF SchedFields
  <2>4. CASE ~ (ticks = MaxDelay /\ forever) /\ ~ wake < s.tick
    <3>1. r = [timed EXCEPT !.delayed = ListInsert(@, t, value), !.nextUnblock = Min({@, wake})]
      BY <2>4 DEF AddCurrentTaskToDelayedList
    <3>2. /\ DOMAIN r = SchedFields
          /\ \A x \in SchedFields \ {"delayed", "nextUnblock"} : r[x] = timed[x]
          /\ r.delayed = ListInsert(timed.delayed, t, value)
      BY <2>1, <3>1 DEF SchedFields
    <3>. QED  BY <2>1, <3>2 DEF SchedFields
  <2>. QED  BY <2>2, <2>3, <2>4
<1>6. PICK value :
        /\ DOMAIN r = SchedFields /\ \A x \in SchedFields \ changed : r[x] = taken[x]
        /\ \/ /\ r.suspendedTasks = taken.suspendedTasks \cup {t}
              /\ r.delayed = taken.delayed /\ r.overflowDelayed = taken.overflowDelayed
           \/ /\ r.overflowDelayed = ListInsert(taken.overflowDelayed, t, value)
              /\ r.delayed = taken.delayed /\ r.suspendedTasks = taken.suspendedTasks
           \/ /\ r.delayed = ListInsert(taken.delayed, t, value)
              /\ r.overflowDelayed = taken.overflowDelayed /\ r.suspendedTasks = taken.suspendedTasks
  BY <1>5
<1>7. /\ taken.delayed \in Lists(Tasks) /\ t \notin Range(taken.delayed)
      /\ taken.overflowDelayed \in Lists(Tasks) /\ t \notin Range(taken.overflowDelayed)
      /\ taken.suspendedTasks \subseteq Tasks /\ t \notin taken.suspendedTasks
  BY <1>3, <1>4 DEF Shape, OtherLists
<1>8. /\ ListInsert(taken.delayed, t, value) \in Lists(Tasks)
      /\ Range(ListInsert(taken.delayed, t, value)) = Range(taken.delayed) \cup {t}
      /\ ListInsert(taken.overflowDelayed, t, value) \in Lists(Tasks)
      /\ Range(ListInsert(taken.overflowDelayed, t, value)) = Range(taken.overflowDelayed) \cup {t}
  BY <1>7, ListInserted
<1>9. /\ r.delayed \in Lists(Tasks) /\ r.overflowDelayed \in Lists(Tasks)
      /\ r.suspendedTasks \subseteq Tasks
      /\ t \in Range(r.delayed) => t \notin Range(r.overflowDelayed) /\ t \notin r.suspendedTasks
      /\ t \in Range(r.overflowDelayed) => t \notin r.suspendedTasks
      /\ \A u \in Tasks : u # t =>
            /\ u \in Range(r.delayed) <=> u \in Range(s.delayed)
            /\ u \in Range(r.overflowDelayed) <=> u \in Range(s.overflowDelayed)
            /\ u \in r.suspendedTasks <=> u \in s.suspendedTasks
  <2>1. CASE /\ r.suspendedTasks = taken.suspendedTasks \cup {t}
             /\ r.delayed = taken.delayed /\ r.overflowDelayed = taken.overflowDelayed
    BY <1>4, <1>7, <2>1
  <2>2. CASE /\ r.overflowDelayed = ListInsert(taken.overflowDelayed, t, value)
             /\ r.delayed = taken.delayed /\ r.suspendedTasks = taken.suspendedTasks
    BY <1>4, <1>7, <1>8, <2>2
  <2>3. CASE /\ r.delayed = ListInsert(taken.delayed, t, value)
             /\ r.overflowDelayed = taken.overflowDelayed /\ r.suspendedTasks = taken.suspendedTasks
    BY <1>4, <1>7, <1>8, <2>3
  <2>. QED  BY <1>6, <2>1, <2>2, <2>3
<1>10. /\ r.ready = taken.ready /\ r.topReady = taken.topReady /\ r.terminating = taken.terminating
       /\ r.waiting = taken.waiting /\ taken.waiting = s.waiting /\ r.priority = taken.priority
       /\ r.basePriority = taken.basePriority /\ r.eventOrder = taken.eventOrder
       /\ r.eventBits = taken.eventBits /\ r.notifyState = taken.notifyState
       /\ r.tick = taken.tick /\ r.overflows = taken.overflows
       /\ r.pendedTicks = taken.pendedTicks /\ r.suspended = taken.suspended
  BY <1>2, <1>3, <1>6 DEF SchedFields, StateFields
<1>11. Shape(r)
  <2>1. ReadyLists(r)
    BY <1>3, <1>10 DEF Shape, ReadyLists
  <2>2. OtherLists(r)
    BY <1>3, <1>9, <1>10 DEF Shape, OtherLists
  <2>3. Numbers(r)
    BY <1>3, <1>10 DEF Shape, Numbers
  <2>. QED  BY <1>6, <2>1, <2>2, <2>3 DEF Shape
<1>12. Lasts(s, r, SchedFields \ SleepFields)
  <2>1. ASSUME NEW x \in SchedFields \ SleepFields PROVE r[x] = s[x]
    <3>1. x \in SchedFields \ changed /\ x \in SchedFields \ StateFields /\ x # "topReady"
      BY DEF SleepFields, StateFields
    <3>. QED  BY <1>2, <1>3, <1>6, <3>1
  <2>. QED  BY <2>1 DEF Lasts
<1>13. ~ InReady(r, t) /\ t \notin Range(r.terminating)
  BY <1>4, <1>10 DEF InReady
<1>14. ASSUME NEW u \in Tasks, u # t PROVE SamePlaces(s, r, u)
  <2>1. InReady(r, u) <=> InReady(s, u)
    BY <1>4, <1>10, <1>14 DEF InReady
  <2>2. u \in Range(r.terminating) <=> u \in Range(s.terminating)
    BY <1>4, <1>10, <1>14
  <2>. QED  BY <1>9, <1>10, <1>14, <2>1, <2>2 DEF SamePlaces
<1>. QED  BY <1>9, <1>11, <1>12, <1>13, <1>14

\* The running task puts itself into the list of L, if any, and goes to sleep.
Joins(s, q, t, L) ==
    /\ Shape(q) /\ Lasts(s, q, SchedFields \ {"waiting", "eventBits", "notifyState"})
    /\ \A l \in AllLists : Range(q.waiting[l]) = Range(s.waiting[l]) \cup (IF l \in L THEN {t} ELSE {})
    /\ \A u \in Tasks : u # t => q.eventBits[u] = s.eventBits[u] /\ q.notifyState[u] = s.notifyState[u]
Awake(s, t) == Well(s) /\ t \in Tasks /\ t = s.current /\ InReady(s, t)
Sleeps1(s, r, t, L) ==
    /\ Well(r) /\ Leaves(s, r, t) /\ ~ InReady(r, t)
    /\ \A l \in EventLists : t \in Range(r.waiting[l]) => l \in L

LEMMA Asleep ==
    ASSUME NEW s, NEW t, Awake(s, t),
           NEW L, L \subseteq EventLists, \A k, l \in L : k = l, NEW q, Joins(s, q, t, L),
           NEW ticks, NEW forever, NEW r, r = AddCurrentTaskToDelayedList(q, ticks, forever)
    PROVE  Sleeps1(s, r, t, L) /\ r.eventBits = q.eventBits /\ r.notifyState = q.notifyState
<1>. /\ Well(s) /\ t \in Tasks /\ t = s.current /\ InReady(s, t)
     /\ Shape(q) /\ Lasts(s, q, SchedFields \ {"waiting", "eventBits", "notifyState"})
     /\ \A l \in AllLists : Range(q.waiting[l]) = Range(s.waiting[l]) \cup (IF l \in L THEN {t} ELSE {})
     /\ \A u \in Tasks : u # t => q.eventBits[u] = s.eventBits[u] /\ q.notifyState[u] = s.notifyState[u]
  BY DEF Joins, Awake
<1>1. t = q.current /\ q.suspended = s.suspended /\ q.switchPending = s.switchPending
  BY DEF Lasts, SchedFields
<1>2. /\ Shape(r) /\ Lasts(q, r, SchedFields \ SleepFields)
      /\ \A u \in Tasks : u # t => SamePlaces(q, r, u)
      /\ ~ InReady(r, t) /\ t \notin Range(r.terminating)
      /\ t \in Range(r.delayed) => t \notin Range(r.overflowDelayed) /\ t \notin r.suspendedTasks
      /\ t \in Range(r.overflowDelayed) => t \notin r.suspendedTasks
  BY <1>1, AddedCurrent, SMTT(30)
<1>3. /\ r.waiting = q.waiting /\ r.eventBits = q.eventBits /\ r.notifyState = q.notifyState
      /\ r.current = q.current /\ r.suspended = q.suspended /\ r.switchPending = q.switchPending
      /\ r.tick = q.tick /\ r.overflows = q.overflows /\ r.pendedTicks = q.pendedTicks
  BY <1>2 DEF Lasts, SchedFields, SleepFields, StateFields
<1>4. Steady(s, r)
  <2>1. q.tick = s.tick /\ q.overflows = s.overflows /\ q.pendedTicks = s.pendedTicks
    BY DEF Lasts, SchedFields
  <2>2. Ticks(r) = Ticks(s)
    BY <1>3, <2>1 DEF Ticks
  <2>. QED  BY <1>1, <1>3, <2>2 DEF Steady
<1>5. ASSUME NEW u \in Tasks, u # t PROVE SamePlaces(s, r, u)
  <2>1. SamePlaces(q, r, u)
    BY <1>2, <1>5
  <2>2. /\ q.ready = s.ready /\ q.delayed = s.delayed /\ q.overflowDelayed = s.overflowDelayed
        /\ q.suspendedTasks = s.suspendedTasks /\ q.terminating = s.terminating
    BY DEF Lasts, SchedFields
  <2>3. SamePlaces(s, q, u)
    BY <1>5, <2>2 DEF SamePlaces, InReady
  <2>. QED  BY <2>1, <2>3 DEF SamePlaces
<1>6. ASSUME NEW u \in Tasks, u # t PROVE Homed(r, u) /\ Spares(s, r, {}, u)
  <2>1. SamePlaces(s, r, u)
    BY <1>5, <1>6
  <2>2. Homed(r, u) /\ (InEvents(r, u) <=> InEvents(s, u))
    BY <2>1, PlacesKeep DEF Well, InPlace
  <2>3. r.eventBits[u] = s.eventBits[u] /\ r.notifyState[u] = s.notifyState[u]
    BY <1>3, <1>6
  <2>4. Unused(s, u) => Unused(r, u)
    BY <2>1, <2>3 DEF SamePlaces, Unused
  <2>. QED  BY <2>1, <2>2, <2>3, <2>4 DEF Spares, SamePlaces, AllLists
<1>7. \A l \in AllLists : t \in Range(r.waiting[l]) => l \in L
  <2>1. ~ InEvents(s, t) /\ ~ InPending(s, t)
    BY DEF Well, InPlace, Homed, Settled
  <2>2. \A l \in AllLists : t \notin Range(s.waiting[l])
    BY <2>1 DEF InEvents, InPending, AllLists
  <2>. QED  BY <1>3, <2>2
<1>8. Homed(r, t)
  BY <1>2, <1>7 DEF Homed
<1>9. Settled(r)
  <2>1. \A u \in Tasks : u # t => (InPending(r, u) <=> InPending(s, u))
    BY <1>5 DEF SamePlaces, InPending, AllLists
  <2>2. ~ InPending(r, t)
    BY <1>7, ListAssumption DEF InPending, AllLists
  <2>. QED  BY <1>1, <1>2, <1>3, <2>1, <2>2 DEF Well, Settled
<1>. QED  BY <1>2, <1>3, <1>4, <1>6, <1>7, <1>8, <1>9 DEF Sleeps1, Well, InPlace, Leaves, AllLists

\* The running task joins a list, at an end or by its priority.
LEMMA JoinsList ==
    ASSUME NEW s, NEW t, Awake(s, t), NEW list \in EventLists,
           NEW new, new \in Lists(Tasks), Range(new) = Range(s.waiting[list]) \cup {t},
           NEW e, DOMAIN e = Tasks, \A u \in Tasks : u # t => e[u] = s.eventBits[u],
           NEW q, DOMAIN q = SchedFields, Lasts(s, q, SchedFields \ {"waiting", "eventBits"}),
           q.waiting = [s.waiting EXCEPT ![list] = new], q.eventBits = e
    PROVE  Joins(s, q, t, {list})
<1>1. /\ list \in AllLists /\ s.waiting \in [AllLists -> Lists(Tasks)]
      /\ {list} \subseteq EventLists /\ Shape(s)
  BY DEF Awake, AllLists, Well, InPlace, Shape, OtherLists
<1>2. q.waiting \in [AllLists -> Lists(Tasks)]
  BY <1>1
<1>3. /\ q.ready = s.ready /\ q.topReady = s.topReady /\ q.delayed = s.delayed
      /\ q.overflowDelayed = s.overflowDelayed /\ q.suspendedTasks = s.suspendedTasks
      /\ q.terminating = s.terminating /\ q.priority = s.priority
      /\ q.basePriority = s.basePriority /\ q.eventOrder = s.eventOrder
      /\ q.notifyState = s.notifyState /\ q.tick = s.tick /\ q.overflows = s.overflows
      /\ q.pendedTicks = s.pendedTicks /\ q.suspended = s.suspended
  BY DEF Lasts, SchedFields
<1>4. Shape(q)
  <2>1. ReadyLists(q)
    BY <1>1, <1>3 DEF Shape, ReadyLists
  <2>2. OtherLists(q)
    BY <1>1, <1>2, <1>3 DEF Shape, OtherLists
  <2>3. Numbers(q)
    BY <1>1, <1>3 DEF Shape, Numbers
  <2>. QED  BY <2>1, <2>2, <2>3 DEF Shape
<1>5. Lasts(s, q, SchedFields \ {"waiting", "eventBits", "notifyState"})
  BY DEF Lasts
<1>6. \A l \in AllLists :
         Range(q.waiting[l]) = Range(s.waiting[l]) \cup (IF l \in {list} THEN {t} ELSE {})
  BY <1>1
<1>. QED  BY <1>3, <1>4, <1>5, <1>6 DEF Joins

LEMMA InNoList ==
    ASSUME NEW s, NEW t, Awake(s, t), NEW list \in EventLists, NEW old, old = s.waiting[list]
    PROVE  /\ old \in Lists(Tasks) /\ list \in AllLists /\ DOMAIN s = SchedFields
           /\ t \in Tasks /\ t \notin Range(old) /\ DOMAIN s.eventBits = Tasks
BY DEF Awake, Well, InPlace, Shape, OtherLists, AllLists, Numbers, Homed, InEvents

LEMMA PlacedOnEventList ==
    ASSUME NEW s, NEW t, Awake(s, t),
           NEW list \in EventLists, NEW ticks, NEW r, r = PlaceOnEventList(s, list, ticks)
    PROVE  Sleeps1(s, r, t, {list}) /\ r.eventBits = s.eventBits /\ r.notifyState = s.notifyState
<1>. PICK old, new : old = s.waiting[list] /\ new = ListInsert(old, t, s.eventOrder)
  OBVIOUS
<1>a. PICK q : q = [s EXCEPT !.waiting[list] = new]
  OBVIOUS
<1>1. old \in Lists(Tasks) /\ list \in AllLists /\ DOMAIN s = SchedFields
  BY InNoList
<1>2. t \notin Range(old) /\ t \in Tasks /\ DOMAIN s.eventBits = Tasks
  BY InNoList
<1>3. new \in Lists(Tasks) /\ Range(new) = Range(s.waiting[list]) \cup {t}
  BY <1>1, <1>2, ListInserted
<1>4. /\ DOMAIN q = SchedFields /\ Lasts(s, q, SchedFields \ {"waiting", "eventBits"})
      /\ q.waiting = [s.waiting EXCEPT ![list] = new] /\ q.eventBits = s.eventBits
  BY <1>1, <1>a DEF Lasts, SchedFields
<1>5. DOMAIN q.eventBits = Tasks
  BY <1>2, <1>4
<1>c. PICK forever : forever = TRUE
  OBVIOUS
<1>6. r = AddCurrentTaskToDelayedList(q, ticks, forever)
  BY <1>a, <1>c DEF PlaceOnEventList, Awake
<1>7. {list} \subseteq EventLists /\ \A k, l \in {list} : k = l
  OBVIOUS
<1>b. PICK e, L : e = q.eventBits /\ L = {list}
  OBVIOUS
<1>8. Joins(s, q, t, L)
  BY <1>b, <1>3, <1>4, <1>5, JoinsList
<1>9. q.notifyState = s.notifyState
  BY <1>4 DEF Lasts, SchedFields
<1>10. Sleeps1(s, r, t, L) /\ r.eventBits = q.eventBits /\ r.notifyState = q.notifyState
  BY <1>b, <1>6, <1>7, <1>8, Asleep
<1>. QED  BY <1>b, <1>4, <1>5, <1>9, <1>10

LEMMA PlacedOnUnorderedEventList ==
    ASSUME NEW s, NEW t, Awake(s, t),
           NEW list \in EventLists, NEW bits, NEW ticks,
           NEW r, r = PlaceOnUnorderedEventList(s, list, bits, ticks)
    PROVE  Sleeps1(s, r, t, {list}) /\ r.eventBits[t] = bits /\ r.notifyState = s.notifyState
<1>. PICK old, new : old = s.waiting[list] /\ new = Append(old, t)
  OBVIOUS
<1>a. PICK q : q = [s EXCEPT !.waiting[list] = new, !.eventBits[t] = bits]
  OBVIOUS
<1>1. /\ old \in Lists(Tasks) /\ list \in AllLists /\ DOMAIN s = SchedFields
      /\ DOMAIN s.eventBits = Tasks
  BY InNoList
<1>2. t \notin Range(old) /\ t \in Tasks
  BY InNoList
<1>3. new \in Lists(Tasks) /\ Range(new) = Range(s.waiting[list]) \cup {t}
  BY <1>1, <1>2, AppendOne
<1>4. /\ DOMAIN q = SchedFields /\ Lasts(s, q, SchedFields \ {"waiting", "eventBits"})
      /\ q.waiting = [s.waiting EXCEPT ![list] = new]
      /\ q.eventBits = [s.eventBits EXCEPT ![t] = bits]
  BY <1>1, <1>a DEF Lasts, SchedFields
<1>5. DOMAIN q.eventBits = Tasks /\ q.eventBits[t] = bits
      /\ \A u \in Tasks : u # t => q.eventBits[u] = s.eventBits[u]
  BY <1>1, <1>2, <1>4
<1>c. PICK forever : forever = TRUE
  OBVIOUS
<1>6. r = AddCurrentTaskToDelayedList(q, ticks, forever)
  BY <1>a, <1>c DEF PlaceOnUnorderedEventList, Awake
<1>7. {list} \subseteq EventLists /\ \A k, l \in {list} : k = l
  OBVIOUS
<1>b. PICK e, L : e = q.eventBits /\ L = {list}
  OBVIOUS
<1>8. Joins(s, q, t, L)
  BY <1>b, <1>3, <1>4, <1>5, JoinsList
<1>9. q.notifyState = s.notifyState
  BY <1>4 DEF Lasts, SchedFields
<1>10. Sleeps1(s, r, t, L) /\ r.eventBits = q.eventBits /\ r.notifyState = q.notifyState
  BY <1>b, <1>6, <1>7, <1>8, Asleep
<1>. QED  BY <1>b, <1>4, <1>5, <1>9, <1>10

\* vTaskPlaceOnEventListRestricted.
Queued(s, t, list) == [s EXCEPT !.waiting[list] = Append(@, t)]
LEMMA PlacedRestricted ==
    ASSUME NEW s, NEW t, Awake(s, t),
           NEW list \in EventLists, NEW ticks, NEW forever,
           NEW r, r = AddCurrentTaskToDelayedList(Queued(s, t, list), ticks, forever)
    PROVE  Sleeps1(s, r, t, {list}) /\ r.eventBits = s.eventBits /\ r.notifyState = s.notifyState
<1>. PICK old, new : old = s.waiting[list] /\ new = Append(old, t)
  OBVIOUS
<1>a. PICK q : q = [s EXCEPT !.waiting[list] = new]
  OBVIOUS
<1>1. old \in Lists(Tasks) /\ list \in AllLists /\ DOMAIN s = SchedFields
  BY InNoList
<1>2. t \notin Range(old) /\ t \in Tasks /\ DOMAIN s.eventBits = Tasks
  BY InNoList
<1>3. new \in Lists(Tasks) /\ Range(new) = Range(s.waiting[list]) \cup {t}
  BY <1>1, <1>2, AppendOne
<1>4. /\ DOMAIN q = SchedFields /\ Lasts(s, q, SchedFields \ {"waiting", "eventBits"})
      /\ q.waiting = [s.waiting EXCEPT ![list] = new] /\ q.eventBits = s.eventBits
  BY <1>1, <1>a DEF Lasts, SchedFields
<1>5. DOMAIN q.eventBits = Tasks
  BY <1>2, <1>4
<1>6. r = AddCurrentTaskToDelayedList(q, ticks, forever)
  BY <1>a DEF Queued
<1>7. {list} \subseteq EventLists /\ \A k, l \in {list} : k = l
  OBVIOUS
<1>b. PICK e, L : e = q.eventBits /\ L = {list}
  OBVIOUS
<1>8. Joins(s, q, t, L)
  BY <1>b, <1>3, <1>4, <1>5, JoinsList
<1>9. q.notifyState = s.notifyState
  BY <1>4 DEF Lasts, SchedFields
<1>10. Sleeps1(s, r, t, L) /\ r.eventBits = q.eventBits /\ r.notifyState = q.notifyState
  BY <1>b, <1>6, <1>7, <1>8, Asleep
<1>. QED  BY <1>b, <1>4, <1>5, <1>9, <1>10

\* A delay: the running task waits in no event list.
LEMMA Delayed ==
    ASSUME NEW s, NEW t, Awake(s, t),
           NEW ticks, NEW forever, NEW r, r = AddCurrentTaskToDelayedList(s, ticks, forever)
    PROVE  Sleeps1(s, r, t, {}) /\ r.eventBits = s.eventBits /\ r.notifyState = s.notifyState
<1>. PICK L : L = {}
  OBVIOUS
<1>1. L \subseteq EventLists /\ \A k, l \in L : k = l
  OBVIOUS
<1>2. Joins(s, s, t, L)
  BY DEF Joins, Lasts, Awake, Well, InPlace
<1>. QED  BY <1>1, <1>2, Asleep

(***************************************************************************)
(* Notifications.                                                          *)
(***************************************************************************)

\* A task that is awake changes only what is its own.
OwnFields == {"notifyState", "notifiedValue", "eventBits", "eventOrder"}
Runs(s, r, t) ==
    Well(r) /\ Leaves(s, r, t) /\ ~ InEvents(r, t) /\ (InReady(r, t) \/ r.switchPending)

LEMMA OwnStep ==
    ASSUME NEW s, NEW t, Awake(s, t), NEW r, DOMAIN r = SchedFields,
           Lasts(s, r, SchedFields \ OwnFields), r.eventOrder \in [Tasks -> Priorities],
           DOMAIN r.eventBits = Tasks, DOMAIN r.notifyState = Tasks,
           \A u \in Tasks : u # t => r.eventBits[u] = s.eventBits[u] /\ r.notifyState[u] = s.notifyState[u]
    PROVE  Runs(s, r, t) /\ Awake(r, t)
<1>1. /\ r.current = s.current /\ r.suspended = s.suspended /\ r.ready = s.ready
      /\ r.topReady = s.topReady /\ r.delayed = s.delayed
      /\ r.overflowDelayed = s.overflowDelayed /\ r.suspendedTasks = s.suspendedTasks
      /\ r.terminating = s.terminating /\ r.waiting = s.waiting /\ r.tick = s.tick
      /\ r.overflows = s.overflows /\ r.pendedTicks = s.pendedTicks
      /\ r.priority = s.priority /\ r.basePriority = s.basePriority
      /\ r.switchPending = s.switchPending
  BY DEF Lasts, SchedFields, OwnFields
<1>2. Shape(s) /\ Settled(s) /\ t \in Tasks /\ InReady(s, t) /\ \A u \in Tasks : Homed(s, u)
  BY DEF Awake, Well, InPlace
<1>3. Shape(r)
  BY <1>1, <1>2 DEF Shape, ReadyLists, OtherLists, Numbers
<1>4. \A u \in Tasks : SamePlaces(s, r, u)
  BY <1>1 DEF SamePlaces, InReady
<1>5. \A u \in Tasks : Homed(r, u) /\ (InEvents(r, u) <=> InEvents(s, u))
  BY <1>2, <1>4, PlacesKeep
<1>6. ASSUME NEW u \in Tasks, u # t PROVE Spares(s, r, {}, u)
  <2>1. SamePlaces(s, r, u)
    BY <1>4
  <2>2. r.eventBits[u] = s.eventBits[u] /\ r.notifyState[u] = s.notifyState[u]
    BY <1>6
  <2>3. Unused(s, u) => Unused(r, u)
    BY <2>1, <2>2 DEF SamePlaces, Unused
  <2>. QED  BY <1>5, <2>1, <2>2, <2>3 DEF Spares, SamePlaces, AllLists
<1>7. Settled(r)
  BY <1>1, <1>2 DEF Settled, InPending, InReady
<1>8. Steady(s, r)
  BY <1>1 DEF Steady, Ticks
<1>9. ~ InEvents(r, t) /\ InReady(r, t)
  BY <1>2, <1>4, <1>5 DEF Homed, SamePlaces
<1>10. Well(r)
  BY <1>3, <1>5, <1>7 DEF Well, InPlace
<1>. QED  BY <1>1, <1>2, <1>6, <1>8, <1>9, <1>10 DEF Leaves, Awake, Runs

LEMMA OwnChanges ==
    ASSUME NEW s, NEW t, Awake(s, t)
    PROVE  /\ \A r : r = NotifyStateClear(s) =>
                 Runs(s, r, t) /\ (r.notifyState[t] = "waiting" => s.notifyState[t] = "waiting")
           /\ \A r : r = NotifyEnd(s) => Runs(s, r, t) /\ r.notifyState[t] = "none"
           /\ \A c, r : r = NotifyTake(s, c) => Runs(s, r, t) /\ r.notifyState[t] = "none"
           /\ \A r : r = ResetEventItemValue(s, t) => Runs(s, r, t) /\ r.notifyState = s.notifyState
<1>1. /\ DOMAIN s = SchedFields /\ t = s.current /\ t \in Tasks
      /\ s.eventOrder \in [Tasks -> Priorities] /\ s.priority[t] \in Priorities
      /\ DOMAIN s.eventBits = Tasks /\ DOMAIN s.notifyState = Tasks
  BY DEF Awake, Well, InPlace, Shape, Numbers
<1>2. ASSUME NEW r, r = NotifyStateClear(s)
      PROVE  Runs(s, r, t) /\ (r.notifyState[t] = "waiting" => s.notifyState[t] = "waiting")
  <2>1. /\ DOMAIN r = SchedFields /\ Lasts(s, r, SchedFields \ {"notifyState"})
        /\ r.notifyState = [s.notifyState EXCEPT ![t] = IF @ = "received" THEN "none" ELSE @]
    BY <1>1, <1>2 DEF NotifyStateClear, Lasts, SchedFields
  <2>2. Lasts(s, r, SchedFields \ OwnFields) /\ r.eventOrder = s.eventOrder /\ r.eventBits = s.eventBits
    BY <2>1 DEF Lasts, OwnFields, SchedFields
  <2>3. DOMAIN r.notifyState = Tasks /\ \A u \in Tasks : u # t => r.notifyState[u] = s.notifyState[u]
    BY <1>1, <2>1
  <2>4. r.notifyState[t] = "waiting" => s.notifyState[t] = "waiting"
    BY <1>1, <2>1
  <2>5. Runs(s, r, t)
    BY <1>1, <2>1, <2>2, <2>3, OwnStep
  <2>. QED  BY <2>4, <2>5
<1>3. ASSUME NEW r, r = NotifyEnd(s) PROVE Runs(s, r, t) /\ r.notifyState[t] = "none"
  <2>1. /\ DOMAIN r = SchedFields /\ Lasts(s, r, SchedFields \ {"notifyState"})
        /\ r.notifyState = [s.notifyState EXCEPT ![t] = "none"]
    BY <1>1, <1>3 DEF NotifyEnd, Lasts, SchedFields
  <2>2. Lasts(s, r, SchedFields \ OwnFields) /\ r.eventOrder = s.eventOrder /\ r.eventBits = s.eventBits
    BY <2>1 DEF Lasts, OwnFields, SchedFields
  <2>3. DOMAIN r.notifyState = Tasks /\ \A u \in Tasks : u # t => r.notifyState[u] = s.notifyState[u]
    BY <1>1, <2>1
  <2>4. r.notifyState[t] = "none"
    BY <1>1, <2>1
  <2>5. Runs(s, r, t)
    BY <1>1, <2>1, <2>2, <2>3, OwnStep
  <2>. QED  BY <2>4, <2>5
<1>4. ASSUME NEW c, NEW r, r = NotifyTake(s, c) PROVE Runs(s, r, t) /\ r.notifyState[t] = "none"
  <2>1. /\ DOMAIN r = SchedFields /\ Lasts(s, r, SchedFields \ {"notifyState", "notifiedValue"})
        /\ r.notifyState = [s.notifyState EXCEPT ![t] = "none"]
    BY <1>1, <1>4 DEF NotifyTake, Lasts, SchedFields
  <2>2. Lasts(s, r, SchedFields \ OwnFields) /\ r.eventOrder = s.eventOrder /\ r.eventBits = s.eventBits
    BY <2>1 DEF Lasts, OwnFields, SchedFields
  <2>3. DOMAIN r.notifyState = Tasks /\ \A u \in Tasks : u # t => r.notifyState[u] = s.notifyState[u]
    BY <1>1, <2>1
  <2>4. r.notifyState[t] = "none"
    BY <1>1, <2>1
  <2>5. Runs(s, r, t)
    BY <1>1, <2>1, <2>2, <2>3, OwnStep
  <2>. QED  BY <2>4, <2>5
<1>5. ASSUME NEW r, r = ResetEventItemValue(s, t) PROVE Runs(s, r, t) /\ r.notifyState = s.notifyState
  <2>1. /\ DOMAIN r = SchedFields /\ Lasts(s, r, SchedFields \ {"eventBits", "eventOrder"})
        /\ r.eventBits = [s.eventBits EXCEPT ![t] = None]
        /\ r.eventOrder = [s.eventOrder EXCEPT ![t] = TopPriority - s.priority[t]]
    BY <1>1, <1>5 DEF ResetEventItemValue, Lasts, SchedFields
  <2>2. Lasts(s, r, SchedFields \ OwnFields) /\ r.notifyState = s.notifyState
    BY <2>1 DEF Lasts, OwnFields, SchedFields
  <2>3. TopPriority - s.priority[t] \in Priorities
    BY <1>1, KernelAssumption DEF Priorities
  <2>4. /\ DOMAIN r.eventBits = Tasks /\ r.eventOrder \in [Tasks -> Priorities]
        /\ \A u \in Tasks : u # t => r.eventBits[u] = s.eventBits[u]
    BY <1>1, <2>1, <2>3
  <2>5. Runs(s, r, t)
    BY <1>1, <2>1, <2>2, <2>4, OwnStep
  <2>. QED  BY <2>2, <2>5
<1>. QED  BY <1>2, <1>3, <1>4, <1>5

\* A task begins to wait for a notification.
LEMMA BeginsToWait ==
    ASSUME NEW s, NEW t, Awake(s, t), NEW ticks, NEW w, DOMAIN w = SchedFields,
           Lasts(s, w, SchedFields \ {"notifyState"}),
           w.notifyState = [s.notifyState EXCEPT ![t] = "waiting"]
    PROVE  /\ Runs(s, w, t)
           /\ \A r : r = Yield(AddCurrentTaskToDelayedList(w, ticks, TRUE)) => Runs(s, r, t)
<1>a. PICK forever : forever = TRUE
  OBVIOUS
<1>b. PICK q : q = AddCurrentTaskToDelayedList(w, ticks, forever)
  OBVIOUS
<1>1. /\ DOMAIN s = SchedFields /\ t = s.current /\ t \in Tasks
      /\ s.eventOrder \in [Tasks -> Priorities]
      /\ DOMAIN s.eventBits = Tasks /\ DOMAIN s.notifyState = Tasks
  BY DEF Awake, Well, InPlace, Shape, Numbers
<1>3. Lasts(s, w, SchedFields \ OwnFields) /\ w.eventOrder = s.eventOrder /\ w.eventBits = s.eventBits
  BY DEF Lasts, OwnFields, SchedFields
<1>4. DOMAIN w.notifyState = Tasks /\ \A u \in Tasks : u # t => w.notifyState[u] = s.notifyState[u]
  BY <1>1
<1>c. /\ w.eventOrder \in [Tasks -> Priorities] /\ DOMAIN w.eventBits = Tasks
      /\ \A u \in Tasks : u # t => w.eventBits[u] = s.eventBits[u] /\ w.notifyState[u] = s.notifyState[u]
  BY <1>1, <1>3, <1>4
<1>d. DOMAIN w.notifyState = Tasks
  BY <1>4
<1>e. Lasts(s, w, SchedFields \ OwnFields)
  BY <1>3
<1>5. Runs(s, w, t) /\ Awake(w, t)
  BY <1>c, <1>d, <1>e, OwnStep
<1>6. Sleeps1(w, q, t, {})
  BY <1>b, <1>5, Delayed
<1>7. ASSUME NEW r, r = Yield(q) PROVE Runs(s, r, t)
  <2>1. Well(r) /\ Gently(q, r, {}) /\ r.switchPending
    BY <1>6, <1>7, FreeChanges DEF Sleeps1
  <2>2. Leaves(s, q, t)
    <3>1. Steady(s, w) /\ Steady(w, q)
      BY <1>5, <1>6 DEF Runs, Leaves, Sleeps1
    <3>2. ASSUME NEW u \in Tasks, u # t PROVE Spares(s, q, {}, u)
      <4>1. Spares(s, w, {}, u) /\ Spares(w, q, {}, u)
        BY <1>5, <1>6, <3>2 DEF Runs, Leaves, Sleeps1
      <4>2. InEvents(q, u) => InEvents(w, u)
        BY <4>1 DEF Spares, InEvents
      <4>. QED  BY <4>1, <4>2 DEF Spares
    <3>3. Steady(s, q)
      BY <3>1 DEF Steady
    <3>. QED  BY <3>2, <3>3 DEF Leaves
  <2>3. Leaves(s, r, t)
    <3>1. Steady(s, r)
      BY <2>1, <2>2 DEF Steady, Leaves, Gently
    <3>2. ASSUME NEW u \in Tasks, u # t PROVE Spares(s, r, {}, u)
      <4>1. Spares(s, q, {}, u) /\ Spares(q, r, {}, u)
        BY <2>1, <2>2, <3>2 DEF Leaves, Gently
      <4>2. InEvents(r, u) => InEvents(q, u)
        BY <4>1 DEF Spares, InEvents
      <4>. QED  BY <4>1, <4>2 DEF Spares
    <3>. QED  BY <3>1, <3>2 DEF Leaves
  <2>4. ~ InEvents(r, t)
    <3>1. Spares(q, r, {}, t)
      BY <1>1, <2>1 DEF Gently
    <3>. QED  BY <1>6, <3>1 DEF Sleeps1, Spares, InEvents
  <2>. QED  BY <2>1, <2>3, <2>4 DEF Runs
<1>. QED  BY <1>a, <1>b, <1>5, <1>7

LEMMA WaitsForNotification ==
    ASSUME NEW s, NEW t, Awake(s, t), NEW ticks
    PROVE  /\ \A r : r = NotifyWait(s, ticks) => Runs(s, r, t)
           /\ \A r : r = NotifyTakeWait(s, ticks) => Runs(s, r, t)
<1>1. t = s.current /\ Runs(s, s, t)
  BY GentlySame DEF Awake, Runs, Leaves, Gently, Well, InPlace, Homed
<1>2. PICK w : w = [s EXCEPT !.notifyState[t] = "waiting"]
  OBVIOUS
<1>w. /\ DOMAIN w = SchedFields /\ Lasts(s, w, SchedFields \ {"notifyState"})
      /\ w.notifyState = [s.notifyState EXCEPT ![t] = "waiting"]
  BY <1>2 DEF Awake, Well, InPlace, Shape, Lasts, SchedFields
<1>3. /\ Runs(s, w, t)
      /\ \A r : r = Yield(AddCurrentTaskToDelayedList(w, ticks, TRUE)) => Runs(s, r, t)
  BY <1>w, BeginsToWait
<1>. QED  BY <1>1, <1>2, <1>3 DEF NotifyWait, NotifyTakeWait

\* What is noted of a notification.
LEMMA NotedWell ==
    ASSUME NEW s, Well(s), NEW t \in Tasks, NEW r \in {Counted(s, t), Signalled(s, t)}
    PROVE  /\ Well(r) /\ Gently(s, r, {})
           /\ r.ready = s.ready /\ r.waiting = s.waiting
           /\ r.current = s.current /\ r.suspended = s.suspended
           /\ Unused(r, t) => Unused(s, t) \/ s.notifyState[t] = "waiting"
           /\ r.notifyState[t] = "received"
<1>1. /\ DOMAIN s = SchedFields /\ Shape(s) /\ Settled(s) /\ DOMAIN s.notifyState = Tasks
      /\ \A u \in Tasks : Homed(s, u)
  BY DEF Well, InPlace, Shape, Numbers
<1>2. /\ DOMAIN r = SchedFields /\ Lasts(s, r, SchedFields \ {"notifyState", "notifiedValue"})
      /\ r.notifyState = [s.notifyState EXCEPT ![t] = "received"]
  BY <1>1 DEF Counted, Signalled, Lasts, SchedFields
<1>3. /\ r.current = s.current /\ r.suspended = s.suspended /\ r.ready = s.ready
      /\ r.topReady = s.topReady /\ r.delayed = s.delayed
      /\ r.overflowDelayed = s.overflowDelayed /\ r.suspendedTasks = s.suspendedTasks
      /\ r.terminating = s.terminating /\ r.waiting = s.waiting /\ r.tick = s.tick
      /\ r.overflows = s.overflows /\ r.pendedTicks = s.pendedTicks
      /\ r.priority = s.priority /\ r.basePriority = s.basePriority
      /\ r.switchPending = s.switchPending /\ r.eventOrder = s.eventOrder
      /\ r.eventBits = s.eventBits
  BY <1>2 DEF Lasts, SchedFields
<1>4. /\ DOMAIN r.notifyState = Tasks /\ r.notifyState[t] = "received"
      /\ \A u \in Tasks : u # t => r.notifyState[u] = s.notifyState[u]
  BY <1>1, <1>2
<1>5. Shape(r)
  BY <1>1, <1>2, <1>3, <1>4 DEF Shape, ReadyLists, OtherLists, Numbers
<1>6. \A u \in Tasks : SamePlaces(s, r, u)
  BY <1>3 DEF SamePlaces, InReady
<1>7. \A u \in Tasks : Homed(r, u) /\ (InEvents(r, u) <=> InEvents(s, u))
  BY <1>1, <1>6, PlacesKeep
<1>8. ASSUME NEW u \in Tasks PROVE Spares(s, r, {}, u)
  <2>1. SamePlaces(s, r, u)
    BY <1>6
  <2>2. /\ r.notifyState[u] = "waiting" => s.notifyState[u] = "waiting"
        /\ s.notifyState[u] = "received" => r.notifyState[u] = "received"
    BY <1>4
  <2>3. Unused(s, u) => Unused(r, u)
    BY <2>1, <2>2 DEF SamePlaces, Unused
  <2>. QED  BY <1>3, <1>7, <2>1, <2>2, <2>3 DEF Spares, SamePlaces, AllLists
<1>9. Settled(r)
  BY <1>1, <1>3 DEF Settled, InPending, InReady
<1>10. Steady(s, r)
  BY <1>3 DEF Steady, Ticks
<1>11. Unused(r, t) => Unused(s, t) \/ s.notifyState[t] = "waiting"
  <2>1. SamePlaces(s, r, t)
    BY <1>6
  <2>. QED  BY <2>1 DEF Unused, SamePlaces
<1>. QED  BY <1>3, <1>4, <1>5, <1>7, <1>8, <1>9, <1>10, <1>11 DEF Well, InPlace, Gently

\* Of a task that is in no event list.
LEMMA MadeReadyWell ==
    ASSUME NEW s, Well(s), NEW t \in Tasks, ~ InEvents(s, t),
           s.suspended # 0 => t # s.current, NEW r, r = MakeReady(s, t)
    PROVE  Well(r) /\ Gently(s, r, {t}) /\ InReady(r, t)
<1>1. /\ Shape(r) /\ \A u \in Tasks : Homed(r, u)
      /\ InReady(r, t) /\ Gently(s, r, {t})
      /\ Lasts(s, r, SchedFields \ (StateFields \cup {"topReady"}))
      /\ Moves1(s, r, t)
  BY MadeReady DEF Well, InPlace
<1>2. r.waiting = s.waiting /\ r.suspended = s.suspended /\ r.current = s.current
  BY <1>1 DEF Lasts, SchedFields, StateFields
<1>3. Settled(r)
  <2>1. \A u \in Tasks : u # t => (InReady(r, u) <=> InReady(s, u))
    BY <1>1 DEF Moves1, SamePlaces
  <2>2. InPending(r, r.current) => r.current \in Tasks
    BY <1>1, RangeIn DEF Shape, OtherLists, AllLists, InPending
  <2>. QED  BY <1>2, <2>1, <2>2 DEF Well, Settled, InPending
<1>. QED  BY <1>1, <1>3 DEF Well, InPlace

LEMMA Notified ==
    ASSUME NEW s, Well(s), NEW t \in Tasks, NEW n \in {Counted(s, t), Signalled(s, t)},
           s.notifyState[t] = "waiting" => ~ InEvents(s, t) /\ (s.suspended # 0 => t # s.current)
    PROVE  /\ \A r : r = Notify(s, t, n) => Well(r) /\ Gently(s, r, {}) /\ r.notifyState[t] = "received"
           /\ \A r : r = NotifyFromISR(s, t, n) => Well(r) /\ Gently(s, r, {})
<1>1. /\ Well(n) /\ Gently(s, n, {}) /\ n.ready = s.ready /\ n.waiting = s.waiting
      /\ n.current = s.current /\ n.suspended = s.suspended /\ n.notifyState[t] = "received"
  BY NotedWell
<1>2. CASE s.notifyState[t] # "waiting"
  BY <1>1, <1>2 DEF Notify, NotifyFromISR
<1>3. CASE s.notifyState[t] = "waiting"
  <2>1. ~ InEvents(n, t) /\ (n.suspended # 0 => t # n.current) /\ ~ Unused(s, t)
    BY <1>1, <1>3 DEF InEvents, Unused
  <2>. PICK m, b, c : m = MakeReady(n, t) /\ b = Unblock(n, t) /\ c = Outranks(s, t)
    OBVIOUS
  <2>2. Well(m) /\ Gently(n, m, {t})
    BY <1>1, <2>1, MadeReadyWell
  <2>3. Well(b) /\ Gently(n, b, {t})
    BY <1>1, <2>1, Unblocked
  <2>4. Gently(s, m, {}) /\ Gently(s, b, {})
    BY <1>1, <2>1, <2>2, <2>3, GentlyAll, GentlyTwice
  <2>5. ASSUME NEW r, r = YieldIf(m, c) \/ r = YieldIf(b, c) PROVE Well(r) /\ Gently(s, r, {})
    BY <2>2, <2>3, <2>4, <2>5, FreeChanges, GentlyTwice
  <2>6. m.notifyState[t] = "received"
    BY <1>1, <2>2 DEF Gently, Spares
  <2>7. YieldIf(m, c).notifyState[t] = "received"
    BY <2>2, <2>6, FreeChanges DEF Gently, Spares
  <2>8. /\ Notify(s, t, n) = YieldIf(m, c)
        /\ NotifyFromISR(s, t, n) = YieldIf(b, c)
    BY <1>3 DEF Notify, NotifyFromISR
  <2>. QED  BY <2>5, <2>7, <2>8
<1>. QED  BY <1>2, <1>3

(***************************************************************************)
(* Calls about other tasks.                                                *)
(***************************************************************************)

\* The lists a task waits in.
LEMMA ContainerIs ==
    ASSUME NEW s, Shape(s), NEW t \in Tasks
    PROVE  /\ EventContainer(s, t) = {l \in AllLists : t \in Range(s.waiting[l])}
           /\ EventContainer(s, t) = {} <=> \A l \in AllLists : t \notin Range(s.waiting[l])
           /\ IsDelayed(s, t) <=> t \in Range(s.delayed) \/ t \in Range(s.overflowDelayed)
<1>1. ASSUME NEW l \in AllLists PROVE WaitsIn(s, t, l) <=> t \in Range(s.waiting[l])
  <2>1. s.waiting[l] \in Seq(Tasks)
    BY DEF Shape, OtherLists, Lists
  <2>. QED  BY <2>1, ContainsIs DEF WaitsIn
<1>2. EventContainer(s, t) = {l \in AllLists : t \in Range(s.waiting[l])}
  BY <1>1 DEF EventContainer, AllLists
<1>3. s.delayed \in Seq(Tasks) /\ s.overflowDelayed \in Seq(Tasks)
  BY DEF Shape, OtherLists, Lists
<1>4. IsDelayed(s, t) <=> t \in Range(s.delayed) \/ t \in Range(s.overflowDelayed)
  BY <1>3, ContainsIs DEF IsDelayed
<1>. QED  BY <1>2, <1>4

\* The tasks vTaskResume resumes.
LEMMA SuspendedIs ==
    ASSUME NEW s, Well(s), NEW t \in Tasks, IsSuspended(s, t)
    PROVE  /\ t \in s.suspendedTasks /\ ~ InEvents(s, t) /\ ~ InReady(s, t) /\ ~ Unused(s, t)
           /\ \A l \in AllLists : t \notin Range(s.waiting[l])
<1>1. t \in s.suspendedTasks /\ \A l \in AllLists : t \notin Range(s.waiting[l])
  BY ContainerIs DEF IsSuspended, Well, InPlace
<1>2. ~ InReady(s, t)
  BY <1>1 DEF Well, InPlace, Homed
<1>. QED  BY <1>1, <1>2 DEF InEvents, AllLists, Unused

LEMMA ResumedTask ==
    ASSUME NEW s, Well(s), NEW t \in Tasks, NEW r, r = ResumeTask(s, t)
    PROVE  Well(r) /\ Gently(s, r, {})
<1>1. CASE t = s.current \/ ~ IsSuspended(s, t)
  BY <1>1, GentlySame DEF ResumeTask
<1>2. CASE t # s.current /\ IsSuspended(s, t)
  <2>1. ~ InEvents(s, t) /\ ~ Unused(s, t)
    BY <1>2, SuspendedIs
  <2>2. PICK m : m = MakeReady(s, t)
    OBVIOUS
  <2>3. Well(m) /\ Gently(s, m, {t})
    BY <1>2, <2>1, <2>2, MadeReadyWell
  <2>4. PICK c : c = (s.priority[t] >= s.priority[s.current])
    OBVIOUS
  <2>5. r = YieldIf(m, c)
    BY <1>2, <2>2, <2>4 DEF ResumeTask
  <2>6. Well(r) /\ Gently(m, r, {t})
    BY <2>3, <2>5, FreeChanges
  <2>7. Gently(s, r, {t})
    BY <2>3, <2>6, GentlyTwice
  <2>. QED  BY <2>1, <2>6, <2>7, GentlyAll
<1>. QED  BY <1>1, <1>2

\* A suspended task that an interrupt resumes while the scheduler is suspended.
LEMMA PendedTask ==
    ASSUME NEW s, Well(s), NEW t \in Tasks, IsSuspended(s, t), s.suspended # 0,
           NEW r, DOMAIN r = SchedFields, Lasts(s, r, SchedFields \ {"waiting"}),
           r.waiting = [s.waiting EXCEPT ![Pending] = Append(@, t)]
    PROVE  Well(r) /\ Gently(s, r, {})
<1>1. /\ Shape(s) /\ Settled(s) /\ DOMAIN s = SchedFields /\ \A u \in Tasks : Homed(s, u)
      /\ s.waiting \in [AllLists -> Lists(Tasks)] /\ Pending \in AllLists
  BY DEF Well, InPlace, Shape, OtherLists, AllLists
<1>2. /\ t \in s.suspendedTasks /\ ~ InReady(s, t) /\ ~ Unused(s, t)
      /\ \A l \in AllLists : t \notin Range(s.waiting[l])
  BY SuspendedIs
<1>3. \A x \in SchedFields \ {"waiting"} : r[x] = s[x]
  BY DEF Lasts
<1>4. /\ r.waiting \in [AllLists -> Lists(Tasks)]
      /\ Range(r.waiting[Pending]) = Range(s.waiting[Pending]) \cup {t}
      /\ \A l \in EventLists : r.waiting[l] = s.waiting[l]
  <2>1. /\ Append(s.waiting[Pending], t) \in Lists(Tasks)
        /\ Range(Append(s.waiting[Pending], t)) = Range(s.waiting[Pending]) \cup {t}
    BY <1>1, <1>2, AppendOne
  <2>. QED  BY <1>1, <1>3, <2>1, ListAssumption DEF AllLists
<1>5. /\ r.ready = s.ready /\ r.delayed = s.delayed /\ r.overflowDelayed = s.overflowDelayed
      /\ r.suspendedTasks = s.suspendedTasks /\ r.terminating = s.terminating
      /\ r.suspended = s.suspended /\ r.current = s.current
      /\ Lasts(s, r, Still)
  BY <1>3 DEF Lasts, SchedFields, Still
<1>6. Shape(r)
  BY <1>1, <1>3, <1>4 DEF Shape, ReadyLists, OtherLists, Numbers, SchedFields
<1>7. ASSUME NEW u \in Tasks PROVE InReady(r, u) <=> InReady(s, u)
  BY <1>5 DEF InReady
<1>8. ASSUME NEW u \in Tasks, u # t, NEW l \in AllLists
      PROVE  u \in Range(r.waiting[l]) <=> u \in Range(s.waiting[l])
  BY <1>4, <1>8 DEF AllLists
<1>9. Moves1(s, r, t)
  BY <1>5, <1>7, <1>8 DEF Moves1, SamePlaces
<1>10. \A l \in EventLists : t \notin Range(r.waiting[l])
  BY <1>2, <1>4 DEF AllLists
<1>11. Homed(r, t)
  <2>1. ~ InEvents(r, t)
    BY <1>10 DEF InEvents
  <2>2. \A k, l \in AllLists : t \in Range(r.waiting[k]) /\ t \in Range(r.waiting[l]) => k = l
    BY <1>10 DEF AllLists
  <2>3. Homed(s, t)
    BY <1>1
  <2>. QED  BY <1>5, <1>7, <2>1, <2>2, <2>3 DEF Homed
<1>12. (\A u \in Tasks : Homed(r, u)) /\ Gently(s, r, {t})
  BY <1>1, <1>5, <1>7, <1>9, <1>10, <1>11, MovesGently
<1>13. Gently(s, r, {})
  BY <1>2, <1>12, GentlyAll
<1>14. Settled(r)
  <2>1. InPending(r, s.current) => InPending(s, s.current) \/ s.current = t
    BY <1>4 DEF InPending
  <2>2. InReady(r, s.current) => InReady(s, s.current)
    BY <1>5 DEF InReady
  <2>. QED  BY <1>1, <1>2, <1>5, <2>1, <2>2 DEF Settled
<1>. QED  BY <1>6, <1>12, <1>13, <1>14 DEF Well, InPlace

LEMMA ResumedFromISR ==
    ASSUME NEW s, Well(s), NEW t \in Tasks, NEW r, r = ResumeTaskFromISR(s, t)
    PROVE  Well(r) /\ Gently(s, r, {})
<1>1. CASE ~ IsSuspended(s, t)
  BY <1>1, GentlySame DEF ResumeTaskFromISR
<1>2. CASE IsSuspended(s, t) /\ s.suspended # 0
  <2>1. r = [s EXCEPT !.waiting[Pending] = Append(@, t)]
    BY <1>2 DEF ResumeTaskFromISR
  <2>2. /\ DOMAIN r = SchedFields /\ Lasts(s, r, SchedFields \ {"waiting"})
        /\ r.waiting = [s.waiting EXCEPT ![Pending] = Append(@, t)]
    BY <2>1 DEF Well, InPlace, Shape, SchedFields, Lasts
  <2>. QED  BY <1>2, <2>2, PendedTask
<1>3. CASE IsSuspended(s, t) /\ s.suspended = 0
  <2>1. ~ InEvents(s, t) /\ ~ Unused(s, t)
    BY <1>3, SuspendedIs
  <2>2. PICK m : m = MakeReady(s, t)
    OBVIOUS
  <2>3. Well(m) /\ Gently(s, m, {t})
    BY <1>3, <2>1, <2>2, MadeReadyWell
  <2>4. PICK c, b, n : /\ c = (s.suspended = 0 /\ s.priority[t] >= s.priority[s.current])
                       /\ b = (m.yieldPending \/ c) /\ n = [m EXCEPT !.yieldPending = b]
    OBVIOUS
  <2>5. r = YieldIf(n, c)
    <3>1. [m EXCEPT !.yieldPending = @ \/ c] = n
      BY <2>3, <2>4 DEF Well, InPlace, Shape, SchedFields
    <3>. QED  BY <1>3, <2>2, <2>4, <3>1 DEF ResumeTaskFromISR
  <2>6. Well(n) /\ Gently(m, n, {t})
    BY <2>3, <2>4, FreeChanges
  <2>7. Well(r) /\ Gently(n, r, {t})
    BY <2>5, <2>6, FreeChanges
  <2>8. Gently(s, r, {t})
    BY <2>3, <2>6, <2>7, GentlyTwice
  <2>. QED  BY <2>1, <2>7, <2>8, GentlyAll
<1>. QED  BY <1>1, <1>2, <1>3

LEMMA PriorityWasSet ==
    ASSUME NEW s, Well(s), NEW t \in Tasks, NEW p \in Priorities, NEW r, r = PrioritySet(s, t, p)
    PROVE  Well(r) /\ Gently(s, r, {})
<1>1. PICK base, used : base = s.basePriority[t] /\ used = s.priority[t]
  OBVIOUS
<1>2. CASE p = base
  BY <1>1, <1>2, GentlySame DEF PrioritySet
<1>3. CASE p # base
  <2>1. PICK b : b = [s EXCEPT !.basePriority[t] = p]
    OBVIOUS
  <2>2. /\ DOMAIN b = SchedFields /\ Lasts(s, b, SchedFields \ FreeFields)
        /\ b.basePriority \in [Tasks -> Priorities] /\ b.eventOrder \in [Tasks -> Priorities]
        /\ b.switchPending = s.switchPending
    BY <2>1 DEF Well, InPlace, Shape, Numbers, SchedFields, Lasts, FreeFields
  <2>3. Well(b) /\ Gently(s, b, {}) /\ b.priority = s.priority
    BY <2>2, FreeStep DEF Lasts, SchedFields, FreeFields
  <2>4. PICK q : q = SetEventOrder(b, t, p)
    OBVIOUS
  <2>5. Well(q) /\ Gently(b, q, {}) /\ q.priority = s.priority
    BY <2>3, <2>4, EventOrderSet
  <2>6. PICK new : new = IF base = used THEN p ELSE used
    OBVIOUS
  <2>7. new \in Priorities /\ used = q.priority[t]
    BY <1>1, <2>5, <2>6 DEF Well, InPlace, Shape, Numbers
  <2>8. PICK c : c = ChangePriority(q, t, new, used)
    OBVIOUS
  <2>9. Well(c) /\ Gently(q, c, {})
    BY <2>5, <2>7, <2>8, ChangedPriority
  <2>10. PICK y : y = IF p > base THEN t # s.current /\ p >= s.priority[s.current] ELSE t = s.current
    OBVIOUS
  <2>11. r = YieldIf(c, y)
    BY <1>1, <1>3, <2>1, <2>4, <2>6, <2>8, <2>10 DEF PrioritySet
  <2>12. Well(r) /\ Gently(c, r, {})
    BY <2>9, <2>11, FreeChanges
  <2>. QED  BY <2>3, <2>5, <2>9, <2>12, GentlyTwice
<1>. QED  BY <1>2, <1>3

LEMMA DelayAborted ==
    ASSUME NEW s, Well(s), NEW t \in Tasks, NEW r, r = AbortDelay(s, t)
    PROVE  Well(r) /\ Gently(s, r, {})
<1>1. CASE ~ IsBlocked(s, t)
  BY <1>1, GentlySame DEF AbortDelay
<1>2. CASE IsBlocked(s, t)
  <2>1. ~ Unused(s, t)
    BY <1>2, ContainerIs DEF IsBlocked, Unused, Well, InPlace
  <2>2. PICK q : q = MakeReady(RemoveEventItem(s, t), t)
    OBVIOUS
  <2>3. Well(q) /\ Gently(s, q, {t})
    BY <2>2, OneReady DEF Well
  <2>4. PICK w, o : w = (EventContainer(s, t) # {}) /\ o = Outranks(s, t)
    OBVIOUS
  <2>5. r = [q EXCEPT !.delayAborted[t] = @ \/ w, !.yieldPending = @ \/ o]
    BY <1>2, <2>2, <2>4 DEF AbortDelay
  <2>6. /\ DOMAIN r = SchedFields /\ Lasts(q, r, SchedFields \ FreeFields)
        /\ r.basePriority \in [Tasks -> Priorities] /\ r.eventOrder \in [Tasks -> Priorities]
        /\ r.switchPending = q.switchPending
    BY <2>3, <2>5 DEF Well, InPlace, Shape, Numbers, SchedFields, Lasts, FreeFields
  <2>7. Well(r) /\ Gently(q, r, {t})
    BY <2>3, <2>6, FreeStep
  <2>8. Gently(s, r, {t})
    BY <2>3, <2>7, GentlyTwice
  <2>. QED  BY <2>1, <2>7, <2>8, GentlyAll
<1>. QED  BY <1>1, <1>2

\* A task leaves all its lists.
Gone(s, q, t) ==
    /\ Shape(q) /\ Moves1(s, q, t) /\ ~ InReady(q, t)
    /\ t \notin Range(q.delayed) /\ t \notin Range(q.overflowDelayed)
    /\ t \notin q.suspendedTasks /\ t \notin Range(q.terminating)
    /\ \A l \in AllLists : t \notin Range(q.waiting[l])
    /\ Lasts(s, q, SchedFields \ (StateFields \cup {"topReady", "waiting"}))

LEMMA LeftAllLists ==
    ASSUME NEW s, Well(s), NEW t \in Tasks, NEW q, q = Unlisted(s, t)
    PROVE  Gone(s, q, t)
<1>. PICK out, p, taken : /\ out = RemoveStateItem(s, t) /\ p = s.priority[t]
                          /\ taken = ResetReadyPriority(out, p)
  OBVIOUS
<1>1. p \in Priorities /\ Shape(s)
  BY DEF Well, InPlace, Shape, Numbers
<1>2. /\ Shape(out)
      /\ \A x \in SchedFields \ StateFields : out[x] = s[x]
      /\ \A r \in Priorities : Range(out.ready[r]) = Range(s.ready[r]) \ {t}
      /\ Range(out.delayed) = Range(s.delayed) \ {t}
      /\ Range(out.overflowDelayed) = Range(s.overflowDelayed) \ {t}
      /\ out.suspendedTasks = s.suspendedTasks \ {t}
      /\ Range(out.terminating) = Range(s.terminating) \ {t}
  BY <1>1, StateItemRemoved, SMTT(30)
<1>3. Shape(taken) /\ \A x \in SchedFields \ {"topReady"} : taken[x] = out[x]
  BY <1>1, <1>2, PriorityReset
<1>4. q = RemoveEventItem(taken, t)
  BY DEF Unlisted
<1>5. /\ Shape(q)
      /\ \A x \in SchedFields \ {"waiting"} : q[x] = taken[x]
      /\ \A l \in AllLists : Range(q.waiting[l]) = Range(taken.waiting[l]) \ {t}
  BY <1>3, <1>4, EventItemRemoved
<1>6. /\ q.ready = out.ready /\ q.delayed = out.delayed /\ q.overflowDelayed = out.overflowDelayed
      /\ q.suspendedTasks = out.suspendedTasks /\ q.terminating = out.terminating
      /\ taken.waiting = s.waiting
  BY <1>2, <1>3, <1>5 DEF SchedFields, StateFields
<1>7. Lasts(s, q, SchedFields \ (StateFields \cup {"topReady", "waiting"}))
  BY <1>2, <1>3, <1>5 DEF Lasts
<1>8. ~ InReady(q, t)
  BY <1>2, <1>6 DEF InReady
<1>9. ASSUME NEW u \in Tasks, u # t PROVE SamePlaces(s, q, u)
  <2>1. InReady(q, u) <=> InReady(s, u)
    BY <1>2, <1>6, <1>9 DEF InReady
  <2>. QED  BY <1>2, <1>5, <1>6, <1>9, <2>1 DEF SamePlaces
<1>10. Moves1(s, q, t)
  BY <1>9 DEF Moves1
<1>. QED  BY <1>2, <1>5, <1>6, <1>7, <1>8, <1>10 DEF Gone

\* A task that another one, or itself, takes out of its lists.
Outs(s, r, t) ==
    /\ Well(r) /\ Leaves(s, r, t) /\ ~ InEvents(r, t)
    /\ t = s.current => r.switchPending
    /\ r.notifyState[t] = "waiting" => s.notifyState[t] = "waiting"
    /\ s.notifyState[t] = "received" => r.notifyState[t] = "received"

\* The step after Unlisted: t goes into the suspended or the terminating list, or into none.
LEMMA OutsOfLists ==
    ASSUME NEW s, Well(s), NEW t \in Tasks, NEW q, Gone(s, q, t), NEW r, DOMAIN r = SchedFields,
           Lasts(q, r, SchedFields \ {"suspendedTasks", "terminating", "notifyState", "switchPending", "nextUnblock"}),
           r.suspendedTasks \subseteq Tasks, r.terminating \in Lists(Tasks),
           \A u \in Tasks : u # t =>
              /\ u \in r.suspendedTasks <=> u \in q.suspendedTasks
              /\ u \in Range(r.terminating) <=> u \in Range(q.terminating),
           ~ (t \in r.suspendedTasks /\ t \in Range(r.terminating)),
           DOMAIN r.notifyState = Tasks,
           \A u \in Tasks : u # t => r.notifyState[u] = s.notifyState[u],
           r.notifyState[t] = "waiting" => s.notifyState[t] = "waiting",
           s.notifyState[t] = "received" => r.notifyState[t] = "received",
           s.switchPending \/ t = s.current => r.switchPending
    PROVE  /\ Outs(s, r, t)
           /\ t \notin r.suspendedTasks /\ t \notin Range(r.terminating) /\ Unused(s, t) => Unused(r, t)
<1>1. /\ r.current = q.current /\ r.suspended = q.suspended /\ r.ready = q.ready
      /\ r.topReady = q.topReady /\ r.delayed = q.delayed
      /\ r.overflowDelayed = q.overflowDelayed
      /\ r.waiting = q.waiting /\ r.tick = q.tick
      /\ r.overflows = q.overflows /\ r.pendedTicks = q.pendedTicks
      /\ r.priority = q.priority /\ r.basePriority = q.basePriority
      /\ r.eventOrder = q.eventOrder /\ r.eventBits = q.eventBits
  BY DEF Lasts, SchedFields
<1>2. /\ q.current = s.current /\ q.suspended = s.suspended /\ q.tick = s.tick
      /\ q.overflows = s.overflows /\ q.pendedTicks = s.pendedTicks
      /\ q.eventBits = s.eventBits /\ q.notifyState = s.notifyState
  BY DEF Gone, Lasts, SchedFields, StateFields
<1>3. Shape(q) /\ Shape(s) /\ Settled(s) /\ \A u \in Tasks : Homed(s, u)
  BY DEF Gone, Well, InPlace
<1>4. Shape(r)
  BY <1>1, <1>3 DEF Shape, ReadyLists, OtherLists, Numbers
<1>5. ASSUME NEW u \in Tasks, u # t PROVE SamePlaces(s, r, u)
  <2>1. SamePlaces(s, q, u)
    BY <1>5 DEF Gone, Moves1
  <2>2. InReady(r, u) <=> InReady(q, u)
    BY <1>1 DEF InReady
  <2>. QED  BY <1>1, <1>5, <2>1, <2>2 DEF SamePlaces
<1>6. /\ ~ InReady(r, t) /\ t \notin Range(r.delayed) /\ t \notin Range(r.overflowDelayed)
      /\ \A l \in AllLists : t \notin Range(r.waiting[l])
  BY <1>1 DEF Gone, InReady
<1>7. ~ InEvents(r, t)
  BY <1>6 DEF InEvents, AllLists
<1>8. Homed(r, t)
  BY <1>6, <1>7 DEF Homed
<1>9. ASSUME NEW u \in Tasks, u # t PROVE Homed(r, u) /\ Spares(s, r, {}, u)
  <2>1. SamePlaces(s, r, u) /\ Homed(s, u) /\ r.eventBits = s.eventBits
    BY <1>1, <1>2, <1>3, <1>5, <1>9
  <2>2. Homed(r, u) /\ (InEvents(r, u) <=> InEvents(s, u))
    BY <2>1, PlacesKeep
  <2>3. r.notifyState[u] = s.notifyState[u]
    BY <1>9
  <2>4. Unused(s, u) => Unused(r, u)
    BY <2>1, <2>3 DEF SamePlaces, Unused
  <2>. QED  BY <2>1, <2>2, <2>3, <2>4 DEF Spares, SamePlaces, AllLists
<1>10. Steady(s, r)
  BY <1>1, <1>2 DEF Steady, Ticks
<1>11. Settled(r)
  <2>1. \A u \in Tasks : InPending(r, u) => u # t
    BY <1>6 DEF InPending, AllLists
  <2>2. \A u \in Tasks : InPending(r, u) => InPending(s, u)
    BY <1>5, <2>1 DEF InPending, SamePlaces, AllLists
  <2>3. \A u \in Tasks : InReady(r, u) => InReady(s, u)
    BY <1>5, <1>6 DEF SamePlaces
  <2>4. InPending(r, r.current) => r.current \in Tasks
    BY <1>4, RangeIn DEF Shape, OtherLists, AllLists, InPending
  <2>. QED  BY <1>1, <1>2, <1>3, <2>2, <2>3, <2>4 DEF Settled
<1>12. Well(r)
  BY <1>4, <1>8, <1>9, <1>11 DEF Well, InPlace
<1>13. Outs(s, r, t)
  BY <1>7, <1>9, <1>10, <1>12 DEF Outs, Leaves
<1>. QED  BY <1>6, <1>13 DEF Unused

LEMMA NextUnblockReset ==
    ASSUME NEW q, DOMAIN q = SchedFields, NEW r, r = ResetNextTaskUnblockTime(q)
    PROVE  DOMAIN r = SchedFields /\ Lasts(q, r, SchedFields \ {"nextUnblock"})
BY DEF ResetNextTaskUnblockTime, SchedFields, Lasts

LEMMA DeletedTask ==
    ASSUME NEW s, Well(s), NEW t \in Tasks, NEW r, r = DeleteTask(s, t)
    PROVE  Outs(s, r, t) /\ (t # s.current /\ Unused(s, t) => Unused(r, t))
<1>1. PICK q : q = Unlisted(s, t)
  OBVIOUS
<1>2. Gone(s, q, t)
  BY <1>1, LeftAllLists
<1>3. /\ DOMAIN q = SchedFields /\ q.suspendedTasks \subseteq Tasks /\ q.terminating \in Lists(Tasks)
      /\ t \notin q.suspendedTasks /\ t \notin Range(q.terminating)
      /\ DOMAIN q.notifyState = Tasks /\ q.notifyState = s.notifyState
      /\ q.switchPending = s.switchPending
  BY <1>2 DEF Gone, Shape, OtherLists, Numbers, Lasts, SchedFields, StateFields
<1>4. CASE t = s.current
  <2>1. r = Yield([q EXCEPT !.terminating = Append(@, t)])
    BY <1>1, <1>4 DEF DeleteTask
  <2>2. /\ DOMAIN r = SchedFields /\ Lasts(q, r, SchedFields \ {"terminating", "switchPending"})
        /\ r.terminating = Append(q.terminating, t) /\ r.switchPending
    BY <1>3, <2>1 DEF Yield, SchedFields, Lasts
  <2>3. r.suspendedTasks = q.suspendedTasks /\ r.notifyState = q.notifyState
    BY <2>2 DEF Lasts, SchedFields
  <2>4. r.terminating \in Lists(Tasks) /\ Range(r.terminating) = Range(q.terminating) \cup {t}
    BY <1>3, <2>2, AppendOne
  <2>5. Lasts(q, r, SchedFields \ {"suspendedTasks", "terminating", "notifyState", "switchPending", "nextUnblock"})
    BY <2>2 DEF Lasts
  <2>6. \A u \in Tasks : u # t => /\ u \in r.suspendedTasks <=> u \in q.suspendedTasks
                                  /\ u \in Range(r.terminating) <=> u \in Range(q.terminating)
    BY <2>3, <2>4
  <2>7. Outs(s, r, t)
    BY <1>2, <1>3, <2>2, <2>3, <2>4, <2>5, <2>6, OutsOfLists
  <2>. QED  BY <1>4, <2>7
<1>5. CASE t # s.current
  <2>1. r = ResetNextTaskUnblockTime(q)
    BY <1>1, <1>5 DEF DeleteTask
  <2>2. DOMAIN r = SchedFields /\ Lasts(q, r, SchedFields \ {"nextUnblock"})
    BY <1>3, <2>1, NextUnblockReset
  <2>3. /\ r.suspendedTasks = q.suspendedTasks /\ r.terminating = q.terminating
        /\ r.notifyState = q.notifyState /\ r.switchPending = q.switchPending
    BY <2>2 DEF Lasts, SchedFields
  <2>4. Lasts(q, r, SchedFields \ {"suspendedTasks", "terminating", "notifyState", "switchPending", "nextUnblock"})
    BY <2>2 DEF Lasts
  <2>5. Outs(s, r, t) /\ (Unused(s, t) => Unused(r, t))
    BY <1>2, <1>3, <1>5, <2>2, <2>3, <2>4, OutsOfLists
  <2>. QED  BY <2>5
<1>. QED  BY <1>4, <1>5

LEMMA SuspendedTask ==
    ASSUME NEW s, Well(s), NEW t \in Tasks, NEW r, r = SuspendTask(s, t)
    PROVE  Outs(s, r, t)
<1>1. PICK q : q = Unlisted(s, t)
  OBVIOUS
<1>2. Gone(s, q, t)
  BY <1>1, LeftAllLists
<1>3. /\ DOMAIN q = SchedFields /\ q.suspendedTasks \subseteq Tasks /\ q.terminating \in Lists(Tasks)
      /\ t \notin q.suspendedTasks /\ t \notin Range(q.terminating)
      /\ DOMAIN q.notifyState = Tasks /\ q.notifyState = s.notifyState
      /\ q.switchPending = s.switchPending
  BY <1>2 DEF Gone, Shape, OtherLists, Numbers, Lasts, SchedFields, StateFields
<1>4. PICK o : o = [q EXCEPT !.suspendedTasks = @ \cup {t},
                             !.notifyState[t] = IF @ = "waiting" THEN "none" ELSE @]
  OBVIOUS
<1>5. /\ DOMAIN o = SchedFields /\ Lasts(q, o, SchedFields \ {"suspendedTasks", "notifyState"})
      /\ o.suspendedTasks = q.suspendedTasks \cup {t}
      /\ o.notifyState = [q.notifyState EXCEPT ![t] = IF @ = "waiting" THEN "none" ELSE @]
  BY <1>3, <1>4 DEF SchedFields, Lasts
<1>6. PICK n : n = ResetNextTaskUnblockTime(o)
  OBVIOUS
<1>7. DOMAIN n = SchedFields /\ Lasts(o, n, SchedFields \ {"nextUnblock"})
  BY <1>5, <1>6, NextUnblockReset
<1>8. r = YieldIf(n, t = s.current)
  BY <1>1, <1>4, <1>6 DEF SuspendTask
<1>9. /\ DOMAIN r = SchedFields /\ Lasts(n, r, SchedFields \ {"switchPending"})
      /\ n.switchPending \/ t = s.current => r.switchPending
  BY <1>7, <1>8 DEF YieldIf, Yield, SchedFields, Lasts
<1>10. /\ r.suspendedTasks = q.suspendedTasks \cup {t} /\ r.terminating = q.terminating
       /\ r.notifyState = [s.notifyState EXCEPT ![t] = IF @ = "waiting" THEN "none" ELSE @]
       /\ n.switchPending = s.switchPending
  BY <1>3, <1>5, <1>7, <1>9 DEF Lasts, SchedFields
<1>11. Lasts(q, r, SchedFields \ {"suspendedTasks", "terminating", "notifyState", "switchPending", "nextUnblock"})
  BY <1>5, <1>7, <1>9 DEF Lasts
<1>12. /\ r.suspendedTasks \subseteq Tasks /\ r.terminating \in Lists(Tasks)
       /\ \A u \in Tasks : u # t => /\ u \in r.suspendedTasks <=> u \in q.suspendedTasks
                                    /\ u \in Range(r.terminating) <=> u \in Range(q.terminating)
       /\ ~ (t \in r.suspendedTasks /\ t \in Range(r.terminating))
  BY <1>3, <1>10
<1>13. /\ DOMAIN r.notifyState = Tasks
       /\ \A u \in Tasks : u # t => r.notifyState[u] = s.notifyState[u]
       /\ r.notifyState[t] = "waiting" => s.notifyState[t] = "waiting"
       /\ s.notifyState[t] = "received" => r.notifyState[t] = "received"
  BY <1>3, <1>10
<1>. QED  BY <1>2, <1>9, <1>10, <1>11, <1>12, <1>13, OutsOfLists

\* prvAddNewTaskToReadyList, of a task nobody has used.
LEMMA CreatedTask ==
    ASSUME NEW s, Well(s), NEW t \in Tasks, Unused(s, t), NEW p \in Priorities,
           NEW r, r = CreateTask(s, t, p)
    PROVE  /\ Well(r) /\ Gently(s, r, {t}) /\ InReady(r, t)
           /\ r.notifyState = s.notifyState /\ r.suspended = s.suspended
           /\ r.current = s.current /\ r.waiting = s.waiting
<1>1. PICK b : b = [s EXCEPT !.priority[t] = p, !.basePriority[t] = p, !.eventOrder[t] = TopPriority - p]
  OBVIOUS
<1>2. /\ DOMAIN b = SchedFields
      /\ \A x \in SchedFields \ {"priority", "basePriority", "eventOrder"} : b[x] = s[x]
      /\ b.priority = [s.priority EXCEPT ![t] = p]
      /\ b.basePriority = [s.basePriority EXCEPT ![t] = p]
      /\ b.eventOrder = [s.eventOrder EXCEPT ![t] = TopPriority - p]
  BY <1>1 DEF Well, InPlace, Shape, SchedFields
<1>3. /\ Shape(s) /\ Settled(s) /\ ~ InReady(s, t) /\ t \notin Range(s.delayed)
      /\ t \notin Range(s.overflowDelayed) /\ t \notin s.suspendedTasks
      /\ t \notin Range(s.terminating) /\ \A l \in AllLists : t \notin Range(s.waiting[l])
      /\ \A u \in Tasks : Homed(s, u)
  BY DEF Well, InPlace, Unused
<1>4. TopPriority - p \in Priorities
  BY KernelAssumption DEF Priorities
<1>5. /\ b.current = s.current /\ b.suspended = s.suspended /\ b.ready = s.ready
      /\ b.topReady = s.topReady /\ b.delayed = s.delayed
      /\ b.overflowDelayed = s.overflowDelayed /\ b.suspendedTasks = s.suspendedTasks
      /\ b.terminating = s.terminating /\ b.waiting = s.waiting
      /\ b.tick = s.tick /\ b.overflows = s.overflows /\ b.pendedTicks = s.pendedTicks
      /\ b.eventBits = s.eventBits /\ b.notifyState = s.notifyState
      /\ Lasts(s, b, Still)
  BY <1>2 DEF SchedFields, Lasts, Still
<1>6. /\ b.priority \in [Tasks -> Priorities] /\ b.basePriority \in [Tasks -> Priorities]
      /\ b.eventOrder \in [Tasks -> Priorities] /\ b.priority[t] = p
      /\ \A u \in Tasks : u # t => b.priority[u] = s.priority[u]
  BY <1>2, <1>3, <1>4 DEF Shape, Numbers
<1>7. Shape(b)
  <2>1. ReadyLists(b)
    BY <1>3, <1>5, <1>6 DEF Shape, ReadyLists, InReady
  <2>. QED  BY <1>2, <1>3, <1>5, <1>6, <2>1 DEF Shape, OtherLists, Numbers
<1>8. ~ InReady(b, t)
  BY <1>3, <1>5 DEF InReady
<1>9. r = AddTaskToReadyList(b, t)
  BY <1>1 DEF CreateTask
<1>10. /\ Shape(r)
       /\ \A x \in SchedFields \ {"ready", "topReady"} : r[x] = b[x]
       /\ \A q \in Priorities :
             Range(r.ready[q]) = Range(b.ready[q]) \cup (IF q = b.priority[t] THEN {t} ELSE {})
  BY <1>7, <1>8, <1>9, AddedToReady
<1>11. /\ r.current = s.current /\ r.suspended = s.suspended /\ r.delayed = s.delayed
       /\ r.overflowDelayed = s.overflowDelayed /\ r.suspendedTasks = s.suspendedTasks
       /\ r.terminating = s.terminating /\ r.waiting = s.waiting
       /\ r.notifyState = s.notifyState /\ Lasts(s, r, Still)
  BY <1>5, <1>10 DEF SchedFields, Lasts, Still
<1>12. InReady(r, t)
  BY <1>6, <1>10 DEF InReady
<1>13. ASSUME NEW u \in Tasks, u # t PROVE SamePlaces(s, r, u)
  <2>1. InReady(r, u) <=> InReady(s, u)
    BY <1>5, <1>10, <1>13 DEF InReady
  <2>. QED  BY <1>11, <2>1 DEF SamePlaces
<1>14. Moves1(s, r, t)
  BY <1>13 DEF Moves1
<1>15. \A l \in AllLists : t \notin Range(r.waiting[l])
  BY <1>3, <1>11
<1>16. ~ InEvents(r, t)
  BY <1>15 DEF InEvents, AllLists
<1>17. Homed(r, t)
  BY <1>3, <1>11, <1>15, <1>16 DEF Homed
<1>18. \A l \in EventLists : t \in Range(r.waiting[l]) => t \in Range(s.waiting[l])
  BY <1>11
<1>19. (\A u \in Tasks : Homed(r, u)) /\ Gently(s, r, {t})
  BY <1>3, <1>11, <1>12, <1>14, <1>17, <1>18, MovesGently
<1>20. Settled(r)
  <2>1. InPending(r, r.current) => r.current \in Tasks
    BY <1>10, RangeIn DEF Shape, OtherLists, AllLists, InPending
  <2>2. ~ InPending(r, t) /\ \A u : InPending(r, u) <=> InPending(s, u)
    BY <1>11, <1>15 DEF InPending, AllLists
  <2>3. \A u \in Tasks : u # t => (InReady(r, u) <=> InReady(s, u))
    BY <1>13 DEF SamePlaces
  <2>. QED  BY <1>3, <1>11, <2>1, <2>2, <2>3 DEF Settled
<1>. QED  BY <1>10, <1>11, <1>12, <1>19, <1>20 DEF Well, InPlace

\* prvCheckTasksWaitingTermination.
LEMMA CleanedUp ==
    ASSUME NEW s, Well(s), s.terminating # <<>>, NEW r, r = [s EXCEPT !.terminating = Tail(@)]
    PROVE  Well(r) /\ Gently(s, r, {})
<1>. PICK old, new : old = s.terminating /\ new = Tail(s.terminating)
  OBVIOUS
<1>1. /\ Shape(s) /\ Settled(s) /\ DOMAIN s = SchedFields /\ \A u \in Tasks : Homed(s, u)
      /\ old \in Seq(Tasks) /\ old # <<>> /\ IsInjective(old)
  BY DEF Well, InPlace, Shape, OtherLists, Lists
<1>2. new \in Lists(Tasks) /\ Range(new) \subseteq Range(old)
  <2>1. /\ new \in Seq(Tasks) /\ Len(new) = Len(old) - 1 /\ Len(new) \in Nat /\ Len(old) \in Nat
        /\ \A i \in 1 .. Len(new) : new[i] = old[i + 1]
    BY <1>1
  <2>2. DOMAIN new = 1 .. Len(new) /\ DOMAIN old = 1 .. Len(old)
    BY <1>1, <2>1
  <2>3. Range(new) \subseteq Range(old)
    <3>1. \A i \in DOMAIN new : i + 1 \in DOMAIN old /\ new[i] = old[i + 1]
      BY <2>1, <2>2
    <3>. QED  BY <3>1 DEF Range
  <2>4. ASSUME NEW i \in DOMAIN new, NEW j \in DOMAIN new, new[i] = new[j] PROVE i = j
    <3>1. /\ i \in Nat /\ j \in Nat /\ i + 1 \in DOMAIN old /\ j + 1 \in DOMAIN old
          /\ old[i + 1] = old[j + 1]
      BY <2>1, <2>2, <2>4
    <3>2. i + 1 = j + 1
      BY <1>1, <3>1 DEF IsInjective
    <3>. QED  BY <3>1, <3>2
  <2>. QED  BY <2>1, <2>3, <2>4 DEF Lists, IsInjective
<1>3. /\ DOMAIN r = SchedFields /\ \A x \in SchedFields \ {"terminating"} : r[x] = s[x]
      /\ r.terminating = new
  BY <1>1 DEF SchedFields
<1>4. /\ r.current = s.current /\ r.suspended = s.suspended /\ r.ready = s.ready
      /\ r.topReady = s.topReady /\ r.delayed = s.delayed
      /\ r.overflowDelayed = s.overflowDelayed /\ r.suspendedTasks = s.suspendedTasks
      /\ r.waiting = s.waiting
      /\ r.tick = s.tick /\ r.overflows = s.overflows /\ r.pendedTicks = s.pendedTicks
      /\ r.priority = s.priority /\ r.basePriority = s.basePriority /\ r.eventOrder = s.eventOrder
      /\ r.eventBits = s.eventBits /\ r.notifyState = s.notifyState /\ r.switchPending = s.switchPending
  BY <1>3 DEF SchedFields
<1>5. Shape(r)
  BY <1>1, <1>2, <1>3, <1>4 DEF Shape, ReadyLists, OtherLists, Numbers
<1>6. ASSUME NEW u \in Tasks PROVE Homed(r, u) /\ Spares(s, r, {}, u)
  <2>1. /\ InReady(r, u) <=> InReady(s, u)
        /\ InEvents(r, u) <=> InEvents(s, u)
        /\ u \in Range(r.terminating) => u \in Range(s.terminating)
    BY <1>2, <1>3, <1>4 DEF InReady, InEvents
  <2>2. Homed(r, u)
    BY <1>1, <1>4, <2>1 DEF Homed
  <2>3. Unused(s, u) => Unused(r, u)
    BY <1>4, <2>1 DEF Unused
  <2>. QED  BY <1>4, <2>1, <2>2, <2>3 DEF Spares
<1>7. Settled(r)
  BY <1>1, <1>4 DEF Settled, InPending, InReady
<1>8. Steady(s, r)
  BY <1>4 DEF Steady, Ticks
<1>. QED  BY <1>5, <1>6, <1>7, <1>8 DEF Well, InPlace, Gently

(***************************************************************************)
(* The calls on queues.                                                    *)
(***************************************************************************)

LEMMA QueuesWake ==
    ASSUME NEW s, Well(s), s.current \in Tasks, NEW o \in Objects, NEW q, q.holder \in Tasks \cup {None}
    PROVE  /\ \A r : r = SendWakes(s, o, q) => Well(r) /\ Gently(s, r, {})
           /\ \A r : r = ReceiveWakes(s, o) => Well(r) /\ Gently(s, r, {})
           /\ \A r : r = PeekWakes(s, o) => Well(r) /\ Gently(s, r, {})
           /\ \A r : r = TakeWakes(s, o, q) => Well(r) /\ Gently(s, r, {})
           /\ \A r : r = SendFromISRWakes(s, o, q) => Well(r) /\ Gently(s, r, {})
           /\ \A r : r = ReceiveFromISRWakes(s, o, q) => Well(r) /\ Gently(s, r, {})
           /\ \A r : r = UnlockTxWakes(s, o, q) => Well(r) /\ Gently(s, r, {})
           /\ \A r : r = UnlockRxWakes(s, o, q) => Well(r) /\ Gently(s, r, {})
<1>. PICK rx, tx : rx = ToReceive(o) /\ tx = ToSend(o)
  OBVIOUS
<1>1. rx \in EventLists /\ tx \in EventLists
  BY ListAssumption
<1>2. ASSUME NEW r, r = SendWakes(s, o, q) PROVE Well(r) /\ Gently(s, r, {})
  <2>1. PICK gave : gave = IF IsMutex(q) THEN PriorityDisinherit(s, q.holder) ELSE s
    OBVIOUS
  <2>2. Well(gave) /\ Gently(s, gave, {})
    BY <2>1, PriorityDisinherited, GentlySame
  <2>3. PICK c : c = (IsMutex(q) /\ Disinherits(s, q.holder))
    OBVIOUS
  <2>4. r = WakeAndYield(gave, rx) \/ r = YieldIf(gave, c)
    BY <1>2, <2>1, <2>3 DEF SendWakes
  <2>5. Well(r) /\ Gently(gave, r, {})
    BY <1>1, <2>2, <2>4, WokenAndYielded, FreeChanges
  <2>. QED  BY <2>2, <2>5, GentlyTwice
<1>3. ASSUME NEW r, r = WakeAndYield(s, tx) \/ r = WakeAndYield(s, rx) PROVE Well(r) /\ Gently(s, r, {})
  BY <1>1, <1>3, WokenAndYielded
<1>4. ASSUME NEW r, r = TakeWakes(s, o, q) PROVE Well(r) /\ Gently(s, r, {})
  <2>1. PICK n, t : n = s.mutexesHeld[s.current] + 1 /\ t = s.current
    OBVIOUS
  <2>2. PICK m : m = IF IsMutex(q) THEN [s EXCEPT !.mutexesHeld[t] = n] ELSE s
    OBVIOUS
  <2>3. Well(m) /\ Gently(s, m, {})
    BY <2>2, FreeChanges, GentlySame
  <2>4. [s EXCEPT !.mutexesHeld[s.current] = @ + 1] = [s EXCEPT !.mutexesHeld[t] = n]
    BY <2>1
  <2>5. r = WakeAndYield(m, tx)
    BY <1>4, <2>2, <2>4 DEF TakeWakes
  <2>6. Well(r) /\ Gently(m, r, {})
    BY <1>1, <2>3, <2>5, WokenAndYielded
  <2>. QED  BY <2>3, <2>6, GentlyTwice
<1>5. ASSUME NEW k, NEW r, r = WakeUpTo(s, tx, k) \/ r = WakeUpTo(s, rx, k)
      PROVE  Well(r) /\ Gently(s, r, {})
  BY <1>1, <1>5, WokenUpTo
<1>6. Well(s) /\ Gently(s, s, {})
  BY GentlySame
<1>7. ASSUME NEW r, r = SendFromISRWakes(s, o, q) \/ r = ReceiveFromISRWakes(s, o, q)
      PROVE  Well(r) /\ Gently(s, r, {})
  BY <1>3, <1>6, <1>7 DEF SendFromISRWakes, ReceiveFromISRWakes
<1>8. ASSUME NEW r, r = UnlockTxWakes(s, o, q) \/ r = UnlockRxWakes(s, o, q)
      PROVE  Well(r) /\ Gently(s, r, {})
  BY <1>5, <1>8 DEF UnlockTxWakes, UnlockRxWakes
<1>9. ASSUME NEW r, r = ReceiveWakes(s, o) \/ r = PeekWakes(s, o)
      PROVE  Well(r) /\ Gently(s, r, {})
  BY <1>3, <1>9 DEF ReceiveWakes, PeekWakes
<1>. QED  BY <1>2, <1>4, <1>7, <1>8, <1>9

(***************************************************************************)
(* Time.                                                                   *)
(***************************************************************************)

\* The tick count moves on; when it wraps, the delayed lists change places.
LEMMA TickCounted ==
    ASSUME NEW s, Well(s), NEW r, r = CountTick(s)
    PROVE  /\ Well(r) /\ Spared(s, r, {}) /\ Ticks(r) = Ticks(s) + 1
           /\ r.suspended = s.suspended /\ r.pendedTicks = s.pendedTicks
<1>. PICK tick, n : tick = (s.tick + 1) % TickCount /\ n = [s EXCEPT !.tick = tick]
  OBVIOUS
<1>1. /\ Shape(s) /\ Settled(s) /\ DOMAIN s = SchedFields /\ \A u \in Tasks : Homed(s, u)
      /\ s.tick \in 0 .. TickCount - 1 /\ s.overflows \in Nat /\ s.pendedTicks \in Nat
  BY DEF Well, InPlace, Shape, Numbers
<1>2. TickCount \in Nat /\ TickCount > 1
  BY KernelAssumption
<1>3. /\ tick \in 0 .. TickCount - 1
      /\ tick = IF s.tick + 1 = TickCount THEN 0 ELSE s.tick + 1
  BY <1>1, <1>2
<1>4. /\ DOMAIN n = SchedFields /\ Lasts(s, n, SchedFields \ {"tick"}) /\ n.tick = tick
  BY <1>1 DEF SchedFields, Lasts
<1>5. CASE tick # 0
  <2>1. r = n
    BY <1>4, <1>5 DEF CountTick
  <2>2. /\ r.current = s.current /\ r.suspended = s.suspended /\ r.ready = s.ready
        /\ r.topReady = s.topReady /\ r.delayed = s.delayed
        /\ r.overflowDelayed = s.overflowDelayed /\ r.suspendedTasks = s.suspendedTasks
        /\ r.waiting = s.waiting /\ r.terminating = s.terminating
        /\ r.overflows = s.overflows /\ r.pendedTicks = s.pendedTicks
        /\ r.priority = s.priority /\ r.basePriority = s.basePriority /\ r.eventOrder = s.eventOrder
        /\ r.eventBits = s.eventBits /\ r.notifyState = s.notifyState /\ r.switchPending = s.switchPending
        /\ r.tick = tick /\ DOMAIN r = SchedFields
    BY <1>4, <2>1 DEF Lasts, SchedFields
  <2>3. Shape(r)
    BY <1>1, <1>3, <2>2 DEF Shape, ReadyLists, OtherLists, Numbers
  <2>4. \A u \in Tasks : SamePlaces(s, r, u)
    BY <2>2 DEF SamePlaces, InReady
  <2>5. \A u \in Tasks : Homed(r, u) /\ Spares(s, r, {}, u)
    BY <1>1, <2>2, <2>4, PlacesKeep DEF SameNotes
  <2>6. Settled(r)
    BY <1>1, <2>2 DEF Settled, InPending, InReady
  <2>7. Ticks(r) = Ticks(s) + 1
    BY <1>1, <1>2, <1>3, <1>5, <2>2 DEF Ticks
  <2>. QED  BY <2>2, <2>3, <2>5, <2>6, <2>7 DEF Well, InPlace, Spared
<1>6. CASE tick = 0
  <2>1. PICK c : c = IF n.delayed = <<>> THEN n ELSE Fail(n, "delayed list empty")
    OBVIOUS
  <2>2. DOMAIN c = SchedFields /\ Lasts(n, c, SchedFields \ {"failed"})
    BY <1>4, <2>1 DEF Fail, SchedFields, Lasts
  <2>3. PICK w : w = [c EXCEPT !.delayed = n.overflowDelayed, !.overflowDelayed = n.delayed,
                               !.overflows = @ + 1]
    OBVIOUS
  <2>4. r = ResetNextTaskUnblockTime(w)
    BY <1>4, <1>6, <2>1, <2>3 DEF CountTick, SwitchDelayedLists
  <2>5. /\ DOMAIN w = SchedFields
        /\ Lasts(c, w, SchedFields \ {"delayed", "overflowDelayed", "overflows"})
        /\ w.delayed = n.overflowDelayed /\ w.overflowDelayed = n.delayed
        /\ w.overflows = c.overflows + 1
    BY <2>2, <2>3 DEF SchedFields, Lasts
  <2>6. DOMAIN r = SchedFields /\ Lasts(w, r, SchedFields \ {"nextUnblock"})
    BY <2>4, <2>5, NextUnblockReset
  <2>7. /\ Lasts(s, r, SchedFields \ {"tick", "failed", "delayed", "overflowDelayed", "overflows", "nextUnblock"})
        /\ r.delayed = s.overflowDelayed /\ r.overflowDelayed = s.delayed
        /\ r.overflows = s.overflows + 1 /\ r.tick = 0
    BY <1>4, <1>6, <2>2, <2>5, <2>6 DEF Lasts, SchedFields
  <2>8. /\ r.current = s.current /\ r.suspended = s.suspended /\ r.ready = s.ready
        /\ r.topReady = s.topReady /\ r.suspendedTasks = s.suspendedTasks
        /\ r.waiting = s.waiting /\ r.terminating = s.terminating
        /\ r.pendedTicks = s.pendedTicks
        /\ r.priority = s.priority /\ r.basePriority = s.basePriority /\ r.eventOrder = s.eventOrder
        /\ r.eventBits = s.eventBits /\ r.notifyState = s.notifyState /\ r.switchPending = s.switchPending
    BY <2>7 DEF Lasts, SchedFields
  <2>9. Shape(r)
    BY <1>1, <1>3, <1>6, <2>6, <2>7, <2>8 DEF Shape, ReadyLists, OtherLists, Numbers
  <2>10. ASSUME NEW u \in Tasks PROVE Homed(r, u) /\ Spares(s, r, {}, u)
    <3>1. (InReady(r, u) <=> InReady(s, u)) /\ (InEvents(r, u) <=> InEvents(s, u))
      BY <2>8 DEF InReady, InEvents
    <3>2. Homed(r, u)
      BY <1>1, <2>7, <2>8, <3>1 DEF Homed
    <3>3. Unused(s, u) => Unused(r, u)
      BY <2>7, <2>8, <3>1 DEF Unused
    <3>. QED  BY <2>8, <3>1, <3>2, <3>3 DEF Spares
  <2>11. Settled(r)
    BY <1>1, <2>8 DEF Settled, InPending, InReady
  <2>12. Ticks(r) = Ticks(s) + 1
    <3>1. s.tick + 1 = TickCount
      BY <1>1, <1>3, <1>6
    <3>2. (s.overflows + 1) * TickCount = s.overflows * TickCount + TickCount /\ s.overflows * TickCount \in Nat
      BY <1>1, <1>2
    <3>. QED  BY <1>1, <1>2, <2>7, <2>8, <3>1, <3>2 DEF Ticks
  <2>. QED  BY <2>8, <2>9, <2>10, <2>11, <2>12 DEF Well, InPlace, Spared
<1>. QED  BY <1>5, <1>6

\* The delayed tasks whose time has come.
LEMMA ExpiredAre ==
    ASSUME NEW s, Shape(s)
    PROVE  ExpiredTasks(s) \in Seq(Tasks) /\ Range(ExpiredTasks(s)) \subseteq Range(s.delayed)
<1>. PICK list, later : /\ list = s.delayed
                        /\ later = {i \in DOMAIN s.delayed : s.wakeTime[s.delayed[i]] > s.tick}
  OBVIOUS
<1>1. list \in Seq(Tasks) /\ DOMAIN list = 1 .. Len(list) /\ Len(list) \in Nat
  BY DEF Shape, OtherLists, Lists
<1>2. CASE s.tick < s.nextUnblock
  <2>1. ExpiredTasks(s) = <<>>
    BY <1>2 DEF ExpiredTasks
  <2>. QED  BY <2>1 DEF Range
<1>3. CASE ~ s.tick < s.nextUnblock /\ later = {}
  <2>1. ExpiredTasks(s) = list
    BY <1>3 DEF ExpiredTasks
  <2>. QED  BY <1>1, <2>1
<1>4. CASE ~ s.tick < s.nextUnblock /\ later # {}
  <2>1. PICK k : k = Min(later)
    OBVIOUS
  <2>2. k \in 1 .. Len(list)
    <3>1. later \subseteq 1 .. Len(list)
      BY <1>1
    <3>2. later \subseteq Nat
      BY <1>1, <3>1
    <3>3. Min(later) \in later
      BY <1>4, <3>2, LeastOf
    <3>. QED  BY <2>1, <3>1, <3>3
  <2>3. ExpiredTasks(s) = SubSeq(list, 1, k - 1)
    BY <1>4, <2>1 DEF ExpiredTasks
  <2>4. PICK part : part = SubSeq(list, 1, k - 1)
    OBVIOUS
  <2>5. k - 1 \in 1 - 1 .. Len(list) /\ 1 \in 1 .. Len(list) + 1
    BY <1>1, <2>2
  <2>6. /\ part \in Seq(Tasks) /\ Len(part) = (k - 1) + 1 - 1
        /\ \A i \in 1 .. (k - 1) + 1 - 1 : part[i] = list[(1 - 1) + i]
    BY <1>1, <2>4, <2>5, PartOf
  <2>7. Range(part) \subseteq Range(list)
    <3>1. DOMAIN part = 1 .. k - 1
      BY <2>2, <2>6
    <3>2. \A i \in DOMAIN part : i \in DOMAIN list /\ part[i] = list[i]
      BY <1>1, <2>2, <2>6, <3>1
    <3>. QED  BY <3>2 DEF Range
  <2>. QED  BY <2>3, <2>4, <2>6, <2>7
<1>. QED  BY <1>2, <1>3, <1>4

LEMMA ExpiredWoken ==
    ASSUME NEW s, Well(s), NEW r, r = WakeExpired(s)
    PROVE  /\ Well(r) /\ Gently(s, r, {})
           /\ r.suspended = s.suspended /\ r.pendedTicks = s.pendedTicks
<1>1. CASE s.tick < s.nextUnblock
  BY <1>1, GentlySame DEF WakeExpired
<1>2. CASE ~ s.tick < s.nextUnblock
  <2>1. PICK seq, those : seq = ExpiredTasks(s) /\ those = Range(seq)
    OBVIOUS
  <2>2. seq \in Seq(Tasks) /\ those \subseteq Range(s.delayed)
    BY <2>1, ExpiredAre DEF Well, InPlace
  <2>3. PICK q : q = ReadyThose(s, seq, those)
    OBVIOUS
  <2>4. /\ Well(q) /\ Gently(s, q, those)
        /\ Lasts(s, q, SchedFields \ (StateFields \cup {"topReady", "waiting"}))
    BY <2>2, <2>3, ReadiedThose DEF Well
  <2>5. r = ResetNextTaskUnblockTime(q)
    BY <1>2, <2>1, <2>3 DEF WakeExpired, ReadyAll
  <2>6. Well(r) /\ Gently(q, r, those)
    BY <2>4, <2>5, FreeChanges
  <2>7. Gently(s, r, those)
    BY <2>4, <2>6, GentlyTwice
  <2>8. Gently(s, r, {})
    BY <2>2, <2>7, GentlyAll DEF Unused
  <2>9. DOMAIN r = SchedFields /\ Lasts(q, r, SchedFields \ {"nextUnblock"})
    BY <2>4, <2>5, NextUnblockReset DEF Well, InPlace, Shape
  <2>10. r.suspended = s.suspended /\ r.pendedTicks = s.pendedTicks
    BY <2>4, <2>9 DEF Lasts, SchedFields, StateFields
  <2>. QED  BY <2>6, <2>8, <2>10
<1>. QED  BY <1>1, <1>2

LEMMA TickAdvanced ==
    ASSUME NEW s, Well(s), NEW r, r = AdvanceTick(s)
    PROVE  /\ Well(r) /\ Spared(s, r, {}) /\ Ticks(r) = Ticks(s) + 1
           /\ r.suspended = s.suspended /\ r.pendedTicks = s.pendedTicks
<1>1. PICK n : n = CountTick(s)
  OBVIOUS
<1>2. /\ Well(n) /\ Spared(s, n, {}) /\ Ticks(n) = Ticks(s) + 1
      /\ n.suspended = s.suspended /\ n.pendedTicks = s.pendedTicks
  BY <1>1, TickCounted
<1>3. /\ Well(r) /\ Gently(n, r, {}) /\ r.suspended = n.suspended /\ r.pendedTicks = n.pendedTicks
  BY <1>1, <1>2, ExpiredWoken DEF AdvanceTick
<1>4. Ticks(r) = Ticks(n)
  BY <1>3 DEF Gently, Steady
<1>. QED  BY <1>2, <1>3, <1>4, GentlySpared, SparedTwice

\* A change of the number of pended ticks.
LEMMA PendedTicksSet ==
    ASSUME NEW s, Well(s), NEW r, DOMAIN r = SchedFields,
           Lasts(s, r, SchedFields \ {"pendedTicks"}), r.pendedTicks \in Nat
    PROVE  /\ Well(r) /\ Spared(s, r, {}) /\ r.suspended = s.suspended
           /\ Ticks(r) = (Ticks(s) - s.pendedTicks) + r.pendedTicks
           /\ r.pendedTicks = 0 => Ticks(r) = Ticks(s) - s.pendedTicks
<1>3. /\ r.current = s.current /\ r.suspended = s.suspended /\ r.ready = s.ready
      /\ r.topReady = s.topReady /\ r.delayed = s.delayed
      /\ r.overflowDelayed = s.overflowDelayed /\ r.suspendedTasks = s.suspendedTasks
      /\ r.waiting = s.waiting /\ r.terminating = s.terminating
      /\ r.overflows = s.overflows /\ r.tick = s.tick
      /\ r.priority = s.priority /\ r.basePriority = s.basePriority /\ r.eventOrder = s.eventOrder
      /\ r.eventBits = s.eventBits /\ r.notifyState = s.notifyState /\ r.switchPending = s.switchPending
  BY DEF Lasts, SchedFields
<1>4. Shape(s) /\ Settled(s) /\ \A u \in Tasks : Homed(s, u)
  BY DEF Well, InPlace
<1>5. Shape(r)
  BY <1>3, <1>4 DEF Shape, ReadyLists, OtherLists, Numbers
<1>6. \A u \in Tasks : SamePlaces(s, r, u)
  BY <1>3 DEF SamePlaces, InReady
<1>7. \A u \in Tasks : Homed(r, u) /\ Spares(s, r, {}, u)
  BY <1>3, <1>4, <1>6, PlacesKeep DEF SameNotes
<1>8. Settled(r)
  BY <1>3, <1>4 DEF Settled, InPending, InReady
<1>9. s.overflows * TickCount \in Nat /\ s.tick \in Nat /\ s.pendedTicks \in Nat
  BY <1>4, KernelAssumption DEF Shape, Numbers
<1>10. Ticks(r) = (Ticks(s) - s.pendedTicks) + r.pendedTicks
  BY <1>3, <1>9 DEF Ticks
<1>11. r.pendedTicks = 0 => Ticks(r) = Ticks(s) - s.pendedTicks
  BY <1>3, <1>9 DEF Ticks
<1>. QED  BY <1>3, <1>5, <1>7, <1>8, <1>10, <1>11 DEF Well, InPlace, Spared

\* The tick interrupt.
LEMMA TickIncremented ==
    ASSUME NEW s, Well(s), NEW r, r = IncrementTick(s)
    PROVE  Well(r) /\ Spared(s, r, {}) /\ Ticks(r) = Ticks(s) + 1 /\ r.suspended = s.suspended
<1>1. CASE s.suspended = 0
  <2>1. PICK a, c : a = AdvanceTick(s) /\ c = TickSwitches(s)
    OBVIOUS
  <2>2. Well(a) /\ Spared(s, a, {}) /\ Ticks(a) = Ticks(s) + 1 /\ a.suspended = s.suspended
    BY <2>1, TickAdvanced
  <2>3. r = YieldIf(a, c)
    BY <1>1, <2>1 DEF IncrementTick
  <2>4. Well(r) /\ Gently(a, r, {})
    BY <2>2, <2>3, FreeChanges
  <2>5. Ticks(r) = Ticks(a) /\ r.suspended = a.suspended
    BY <2>4 DEF Gently, Steady
  <2>. QED  BY <2>2, <2>4, <2>5, GentlySpared, SparedTwice
<1>2. CASE s.suspended # 0
  <2>1. r = [s EXCEPT !.pendedTicks = @ + 1]
    BY <1>2 DEF IncrementTick
  <2>2. /\ DOMAIN r = SchedFields /\ Lasts(s, r, SchedFields \ {"pendedTicks"})
        /\ r.pendedTicks = s.pendedTicks + 1
    BY <2>1 DEF Well, InPlace, Shape, SchedFields, Lasts
  <2>3. s.overflows * TickCount \in Nat /\ s.tick \in Nat /\ s.pendedTicks \in Nat
    BY KernelAssumption DEF Well, InPlace, Shape, Numbers
  <2>4. /\ Well(r) /\ Spared(s, r, {}) /\ r.suspended = s.suspended
        /\ Ticks(r) = (Ticks(s) - s.pendedTicks) + r.pendedTicks
    BY <2>2, <2>3, PendedTicksSet
  <2>5. Ticks(s) \in Nat
    BY <2>3 DEF Ticks
  <2>. QED  BY <2>2, <2>3, <2>4, <2>5
<1>. QED  BY <1>1, <1>2

\* A change of how often the scheduler is suspended.
LEMMA SuspendedTo ==
    ASSUME NEW s, InPlace(s), NEW n \in Nat, NEW r, DOMAIN r = SchedFields,
           Lasts(s, r, SchedFields \ {"suspended"}), r.suspended = n
    PROVE  /\ InPlace(r) /\ (Settled(s) /\ n # 0 => Settled(r)) /\ Spared(s, r, {}) /\ Ticks(r) = Ticks(s)
           /\ \A u \in Tasks : SamePlaces(s, r, u)
           /\ r.notifyState = s.notifyState /\ r.eventBits = s.eventBits
           /\ r.waiting = s.waiting /\ r.current = s.current
<1>1. /\ r.current = s.current /\ r.ready = s.ready
      /\ r.topReady = s.topReady /\ r.delayed = s.delayed
      /\ r.overflowDelayed = s.overflowDelayed /\ r.suspendedTasks = s.suspendedTasks
      /\ r.waiting = s.waiting /\ r.terminating = s.terminating
      /\ r.overflows = s.overflows /\ r.tick = s.tick /\ r.pendedTicks = s.pendedTicks
      /\ r.priority = s.priority /\ r.basePriority = s.basePriority /\ r.eventOrder = s.eventOrder
      /\ r.eventBits = s.eventBits /\ r.notifyState = s.notifyState /\ r.switchPending = s.switchPending
  BY DEF Lasts, SchedFields
<1>2. Shape(s) /\ \A u \in Tasks : Homed(s, u)
  BY DEF InPlace
<1>3. Shape(r)
  BY <1>1, <1>2 DEF Shape, ReadyLists, OtherLists, Numbers
<1>4. \A u \in Tasks : SamePlaces(s, r, u)
  BY <1>1 DEF SamePlaces, InReady
<1>5. \A u \in Tasks : Homed(r, u) /\ Spares(s, r, {}, u)
  BY <1>1, <1>2, <1>4, PlacesKeep DEF SameNotes
<1>6. Settled(s) /\ n # 0 => Settled(r)
  BY <1>1 DEF Settled, InPending, InReady
<1>7. Ticks(r) = Ticks(s)
  BY <1>1 DEF Ticks
<1>. QED  BY <1>1, <1>3, <1>4, <1>5, <1>6, <1>7 DEF InPlace, Spared

\* vTaskSuspendAll.
LEMMA AllSuspended ==
    ASSUME NEW s, Well(s), NEW r, r = SuspendAll(s)
    PROVE  /\ Well(r) /\ Spared(s, r, {}) /\ Ticks(r) = Ticks(s) /\ r.suspended = s.suspended + 1
           /\ \A u \in Tasks : SamePlaces(s, r, u)
           /\ r.notifyState = s.notifyState /\ r.eventBits = s.eventBits
           /\ r.waiting = s.waiting /\ r.current = s.current
<1>1. PICK n : n = s.suspended + 1
  OBVIOUS
<1>2. s.suspended \in Nat /\ DOMAIN s = SchedFields
  BY DEF Well, InPlace, Shape, Numbers
<1>3. n \in Nat /\ n # 0
  BY <1>1, <1>2
<1>4. DOMAIN r = SchedFields /\ Lasts(s, r, SchedFields \ {"suspended"}) /\ r.suspended = n
  BY <1>1, <1>2 DEF SuspendAll, SchedFields, Lasts
<1>5. InPlace(s) /\ Settled(s)
  BY DEF Well
<1>. QED  BY <1>1, <1>3, <1>4, <1>5, SuspendedTo DEF Well

\* The tasks that became ready while the scheduler was suspended.
LEMMA PendingReadied ==
    ASSUME NEW s, InPlace(s), s.suspended = 0, NEW r, r = ReadyPending(s)
    PROVE  /\ Well(r) /\ Gently(s, r, {})
           /\ r.suspended = 0 /\ r.pendedTicks = s.pendedTicks
<1>1. s.waiting[Pending] \in Lists(Tasks) /\ Pending \in AllLists
  BY DEF InPlace, Shape, OtherLists, AllLists
<1>2. CASE s.waiting[Pending] = <<>>
  <2>1. r = s
    BY <1>2 DEF ReadyPending
  <2>2. Range(s.waiting[Pending]) = {}
    BY <1>2 DEF Range
  <2>3. Settled(s)
    BY <2>2 DEF Settled, InPending
  <2>. QED  BY <2>1, <2>3, GentlySame DEF Well
<1>3. CASE s.waiting[Pending] # <<>>
  <2>1. PICK seq, those : seq = s.waiting[Pending] /\ those = Range(seq)
    OBVIOUS
  <2>2. seq \in Seq(Tasks) /\ those \subseteq Tasks
    BY <1>1, <2>1, RangeIn DEF Lists
  <2>3. PICK q : q = ReadyThose(s, seq, those)
    OBVIOUS
  <2>4. /\ InPlace(q) /\ Gently(s, q, those)
        /\ Lasts(s, q, SchedFields \ (StateFields \cup {"topReady", "waiting"}))
        /\ \A l \in AllLists : Range(q.waiting[l]) \subseteq Range(s.waiting[l])
        /\ \A t \in Range(seq) : t \in those => \A l \in AllLists : t \notin Range(q.waiting[l])
    BY <2>2, <2>3, ReadiedThose
  <2>5. \A u : ~ InPending(q, u)
    BY <1>1, <2>1, <2>4 DEF InPending
  <2>6. Well(q)
    BY <2>4, <2>5 DEF Well, Settled
  <2>7. PICK n : n = ResetNextTaskUnblockTime(q)
    OBVIOUS
  <2>8. Well(n) /\ Gently(q, n, those)
    BY <2>6, <2>7, FreeChanges
  <2>9. DOMAIN n = SchedFields /\ Lasts(q, n, SchedFields \ {"nextUnblock"})
    BY <2>6, <2>7, NextUnblockReset DEF Well, InPlace, Shape
  <2>10. PICK c, b : /\ c = ({t \in Range(s.waiting[Pending]) : s.priority[t] >= s.priority[s.current]} # {})
                     /\ b = (n.yieldPending \/ c)
    OBVIOUS
  <2>11. r = [n EXCEPT !.yieldPending = b]
    <3>1. r = [n EXCEPT !.yieldPending = @ \/ c]
      BY <1>3, <2>1, <2>3, <2>7, <2>10 DEF ReadyPending, ReadyAll
    <3>. QED  BY <2>9, <2>10, <3>1 DEF SchedFields
  <2>12. Well(r) /\ Gently(n, r, those)
    BY <2>8, <2>11, FreeChanges
  <2>13. Gently(s, r, those)
    BY <2>4, <2>8, <2>12, GentlyTwice
  <2>14. Gently(s, r, {})
    <3>1. \A u \in Tasks : u \in those => u \in {} \/ ~ Unused(s, u)
      BY <1>1, <2>1 DEF Unused
    <3>. QED  BY <2>13, <3>1, GentlyAll
  <2>15. r.pendedTicks = n.pendedTicks
    BY <2>9, <2>11 DEF SchedFields
  <2>16. n.pendedTicks = s.pendedTicks /\ q.suspended = s.suspended
    BY <2>4, <2>9 DEF Lasts, SchedFields, StateFields
  <2>17. r.suspended = s.suspended
    BY <2>14 DEF Gently, Steady
  <2>. QED  BY <2>12, <2>14, <2>15, <2>16, <2>17
<1>. QED  BY <1>2, <1>3

\* The ticks that came while the scheduler was suspended.
LEMMA TicksReplayed ==
    ASSUME NEW s, Well(s), NEW r, r = ReplayTicks(s)
    PROVE  Well(r) /\ Spared(s, r, {}) /\ Ticks(r) = Ticks(s) /\ r.suspended = s.suspended
<1>. PICK n, seq : n = s.pendedTicks /\ seq = [i \in 1 .. s.pendedTicks |-> i]
  OBVIOUS
<1>1. n \in Nat /\ Len(seq) = n
  <2>1. s.pendedTicks \in Nat
    BY DEF Well, InPlace, Shape, Numbers
  <2>2. seq \in Seq(Nat)
    BY <2>1
  <2>. QED  BY <2>1, <2>2
<1>2. PICK f : /\ f[0] = s /\ ReplayTicks(s) = [f[n] EXCEPT !.pendedTicks = 0]
               /\ \A i \in 1 .. n : f[i] = ReplayOne(f[i - 1])
  BY <1>1, ReplaySteps
<1>. DEFINE Ok(v, i) == /\ Well(v) /\ Spared(s, v, {}) /\ Ticks(v) = Ticks(s) + i
                        /\ v.suspended = s.suspended /\ v.pendedTicks = n
            N == {i \in Nat : i <= n => Ok(f[i], i)}
<1>3. Ticks(s) \in Nat
  <2>1. s.overflows \in Nat /\ s.tick \in Nat /\ s.pendedTicks \in Nat /\ TickCount \in Nat
    BY KernelAssumption DEF Well, InPlace, Shape, Numbers
  <2>2. s.overflows * TickCount \in Nat
    BY <2>1
  <2>. QED  BY <2>1, <2>2 DEF Ticks
<1>4. ASSUME NEW i \in Nat, NEW v, Ok(v, i), NEW q, q = ReplayOne(v)
      PROVE  Ok(q, i + 1)
  <2>4. PICK a, c, b : a = AdvanceTick(v) /\ c = TickSwitches(v) /\ b = (a.yieldPending \/ c)
    OBVIOUS
  <2>5. /\ Well(a) /\ Spared(v, a, {}) /\ Ticks(a) = Ticks(v) + 1
        /\ a.suspended = v.suspended /\ a.pendedTicks = v.pendedTicks
    BY <1>4, <2>4, TickAdvanced
  <2>6. q = [a EXCEPT !.yieldPending = b]
    <3>1. [a EXCEPT !.yieldPending = @ \/ c] = [a EXCEPT !.yieldPending = b]
      BY <2>4, <2>5 DEF Well, InPlace, Shape, SchedFields
    <3>. QED  BY <1>4, <2>4, <3>1 DEF ReplayOne
  <2>7. Well(q) /\ Gently(a, q, {})
    BY <2>5, <2>6, FreeChanges
  <2>8. q.pendedTicks = a.pendedTicks
    BY <2>5, <2>6 DEF Well, InPlace, Shape, SchedFields
  <2>9. Ticks(q) = Ticks(a) /\ q.suspended = a.suspended
    BY <2>7 DEF Gently, Steady
  <2>10. Spared(s, q, {})
    BY <1>4, <2>5, <2>7, GentlySpared, SparedTwice
  <2>11. Ticks(q) = Ticks(s) + (i + 1)
    BY <1>3, <1>4, <2>5, <2>9
  <2>. QED  BY <1>4, <2>5, <2>7, <2>8, <2>9, <2>10, <2>11
<1>5. 0 \in N
  <2>1. Spared(s, s, {})
    BY GentlySame, GentlySpared
  <2>. QED  BY <1>2, <1>3, <2>1
<1>. HIDE DEF Ok
<1>6. ASSUME NEW i \in Nat, i \in N PROVE i + 1 \in N
  <2>1. SUFFICES ASSUME i + 1 <= n PROVE Ok(f[i + 1], i + 1)
    OBVIOUS
  <2>2. i + 1 \in 1 .. n /\ (i + 1) - 1 = i /\ i <= n
    BY <1>1, <2>1
  <2>3. f[i + 1] = ReplayOne(f[i]) /\ Ok(f[i], i)
    BY <1>2, <1>6, <2>2
  <2>. QED  BY <1>4, <2>3
<1>. HIDE DEF N
<1>7. n \in N
  BY <1>1, <1>5, <1>6, NumbersFrom
<1>8. Ok(f[n], n)
  BY <1>1, <1>7 DEF N
<1>9. /\ Well(f[n]) /\ Spared(s, f[n], {}) /\ Ticks(f[n]) = Ticks(s) + n
      /\ f[n].suspended = s.suspended /\ f[n].pendedTicks = n
  BY <1>8 DEF Ok
<1>a. PICK v : v = f[n]
  OBVIOUS
<1>10. /\ Well(v) /\ Spared(s, v, {}) /\ Ticks(v) = Ticks(s) + n
       /\ v.suspended = s.suspended /\ v.pendedTicks = n /\ r = [v EXCEPT !.pendedTicks = 0]
  BY <1>2, <1>9, <1>a
<1>11. /\ DOMAIN r = SchedFields /\ Lasts(v, r, SchedFields \ {"pendedTicks"}) /\ r.pendedTicks = 0
  BY <1>10 DEF Well, InPlace, Shape, SchedFields, Lasts
<1>b. r.pendedTicks \in Nat /\ Well(v)
  BY <1>10, <1>11
<1>12. /\ Well(r) /\ Spared(v, r, {}) /\ r.suspended = v.suspended
       /\ r.pendedTicks = 0 => Ticks(r) = Ticks(v) - v.pendedTicks
  BY <1>b, <1>11, PendedTicksSet
<1>. QED  BY <1>1, <1>3, <1>10, <1>11, <1>12, SparedTwice

\* xTaskResumeAll, when the scheduler was suspended once.
LEMMA AllResumed ==
    ASSUME NEW s, Well(s), s.suspended = 1, NEW r, r = ResumeAll(s)
    PROVE  Well(r) /\ Spared(s, r, {}) /\ Ticks(r) = Ticks(s) /\ r.suspended = 0
<1>1. PICK up, p, q, c : /\ up = [s EXCEPT !.suspended = @ - 1] /\ p = ReadyPending(up)
                         /\ q = ReplayTicks(p) /\ c = ResumeYields(s)
  OBVIOUS
<1>2. DOMAIN up = SchedFields /\ Lasts(s, up, SchedFields \ {"suspended"}) /\ up.suspended = 0
  BY <1>1 DEF Well, InPlace, Shape, SchedFields, Lasts
<1>3. /\ InPlace(up) /\ Spared(s, up, {}) /\ Ticks(up) = Ticks(s)
  BY <1>2, SuspendedTo DEF Well
<1>4. Well(p) /\ Gently(up, p, {}) /\ p.suspended = 0
  BY <1>1, <1>2, <1>3, PendingReadied
<1>5. Well(q) /\ Spared(p, q, {}) /\ Ticks(q) = Ticks(p) /\ q.suspended = 0
  BY <1>1, <1>4, TicksReplayed
<1>6. r = YieldIf(q, c)
  BY <1>1, <1>2 DEF ResumeAll, Resumed
<1>7. Well(r) /\ Gently(q, r, {})
  BY <1>5, <1>6, FreeChanges
<1>8. Ticks(p) = Ticks(up) /\ Ticks(r) = Ticks(q) /\ r.suspended = q.suspended
  BY <1>4, <1>7 DEF Gently, Steady
<1>9. Spared(s, r, {})
  BY <1>3, <1>4, <1>5, <1>7, GentlySpared, SparedTwice
<1>. QED  BY <1>3, <1>5, <1>7, <1>8, <1>9

\* listGET_OWNER_OF_NEXT_ENTRY goes round the ring.
LEMMA RingRound ==
    ASSUME NEW ring \in Rings, RingLength(ring) # 0, NEW new, new = RingAdvance(ring)
    PROVE  /\ new \in Rings /\ Range(new) = Range(ring)
           /\ Last(new) \in Tasks /\ Last(new) \in Range(ring)
<1>a. PICK n : n = Len(ring)
  OBVIOUS
<1>b. PICK k : k = IF Head(ring) = End THEN 2 ELSE 1
  OBVIOUS
<1>1. /\ Len(ring) = n /\ ring \in Seq(Tasks \cup {End}) /\ n \in Nat /\ DOMAIN ring = 1 .. n
      /\ End \in Range(ring) /\ IsInjective(ring)
  BY <1>a DEF Rings, Lists
<1>2. n # 0 /\ n # 1
  <2>1. n # 0
    BY <1>1 DEF Range
  <2>. QED  BY <1>a, <1>1, <2>1 DEF RingLength
<1>3. k \in {1, 2} /\ k \in 1 .. n /\ ring[k] # End /\ ring[k] \in Tasks
  <2>1. ring[1] = Head(ring) /\ 1 \in 1 .. n /\ 2 \in 1 .. n
    BY <1>1, <1>2
  <2>2. CASE Head(ring) = End
    <3>0. k = 2
      BY <1>b, <2>2
    <3>1. ring[2] # ring[1]
      BY <1>1, <2>1 DEF IsInjective
    <3>. QED  BY <1>1, <2>1, <2>2, <3>0, <3>1
  <2>3. CASE Head(ring) # End
    BY <1>b, <1>1, <2>1, <2>3
  <2>. QED  BY <2>2, <2>3
<1>4. PICK back, front : back = SubSeq(ring, k + 1, n) /\ front = SubSeq(ring, 1, k)
  OBVIOUS
<1>5. /\ back \in Seq(Tasks \cup {End}) /\ Len(back) = n - k
      /\ \A i \in 1 .. n - k : back[i] = ring[k + i]
  <2>. PICK m : m = k + 1
    OBVIOUS
  <2>1. m \in 1 .. Len(ring) + 1 /\ n \in m - 1 .. Len(ring)
    BY <1>1, <1>3
  <2>2. /\ SubSeq(ring, m, n) \in Seq(Tasks \cup {End}) /\ Len(SubSeq(ring, m, n)) = (n + 1) - m
        /\ \A i \in 1 .. (n + 1) - m : SubSeq(ring, m, n)[i] = ring[(m - 1) + i]
    BY <1>1, <2>1, PartOf
  <2>3. (n + 1) - m = n - k /\ m - 1 = k /\ back = SubSeq(ring, m, n)
    BY <1>1, <1>3, <1>4
  <2>. QED  BY <2>2, <2>3
<1>6. /\ front \in Seq(Tasks \cup {End}) /\ Len(front) = k
      /\ \A i \in 1 .. k : front[i] = ring[i]
  <2>1. 1 \in 1 .. Len(ring) + 1 /\ k \in 1 - 1 .. Len(ring)
    BY <1>1, <1>3
  <2>2. /\ front \in Seq(Tasks \cup {End}) /\ Len(front) = (k + 1) - 1
        /\ \A i \in 1 .. (k + 1) - 1 : front[i] = ring[(1 - 1) + i]
    BY <1>1, <1>4, <2>1, PartOf
  <2>. QED  BY <1>3, <2>2
<1>7. new = back \o front
  BY <1>a, <1>b, <1>4 DEF RingAdvance
<1>8. /\ new \in Seq(Tasks \cup {End}) /\ Len(new) = n
      /\ \A i \in 1 .. n : new[i] = IF i <= n - k THEN ring[k + i] ELSE ring[i - (n - k)]
  <2>1. /\ new \in Seq(Tasks \cup {End}) /\ Len(new) = (n - k) + k
        /\ \A i \in 1 .. (n - k) + k : new[i] = IF i <= n - k THEN back[i] ELSE front[i - (n - k)]
    <3>1. Len(back) = n - k /\ Len(front) = k
      BY <1>5, <1>6
    <3>. QED  BY <1>5, <1>6, <1>7, <3>1, ConcatProperties
  <2>2. (n - k) + k = n /\ n - k \in Nat
    BY <1>1, <1>3
  <2>3. ASSUME NEW i \in 1 .. n
        PROVE  new[i] = IF i <= n - k THEN ring[k + i] ELSE ring[i - (n - k)]
    <3>1. CASE i <= n - k
      BY <1>5, <2>1, <2>2, <3>1
    <3>2. CASE ~ i <= n - k
      <4>1. i - (n - k) \in 1 .. k
        BY <1>1, <1>3, <3>2
      <4>. QED  BY <1>6, <2>1, <2>2, <3>2, <4>1
    <3>. QED  BY <3>1, <3>2
  <2>. QED  BY <2>1, <2>2, <2>3
<1>9. DOMAIN new = 1 .. n
  BY <1>8
<1>10. ASSUME NEW i \in 1 .. n, NEW j \in 1 .. n, new[i] = new[j] PROVE i = j
  <2>. PICK a, b : /\ a = IF i <= n - k THEN k + i ELSE i - (n - k)
                   /\ b = IF j <= n - k THEN k + j ELSE j - (n - k)
    OBVIOUS
  <2>1. a \in 1 .. n /\ b \in 1 .. n
    BY <1>1, <1>3
  <2>2. new[i] = ring[a] /\ new[j] = ring[b]
    BY <1>8
  <2>3. a = b
    BY <1>1, <1>10, <2>1, <2>2 DEF IsInjective
  <2>. QED  BY <1>1, <1>3, <2>3
<1>11. Range(new) = Range(ring)
  <2>1. ASSUME NEW i \in 1 .. n PROVE new[i] \in Range(ring)
    <3>1. CASE i <= n - k
      <4>1. k + i \in 1 .. n
        BY <1>1, <1>3, <3>1
      <4>. QED  BY <1>1, <1>8, <3>1, <4>1 DEF Range
    <3>2. CASE ~ i <= n - k
      <4>1. i - (n - k) \in 1 .. n
        BY <1>1, <1>3, <3>2
      <4>. QED  BY <1>1, <1>8, <3>2, <4>1 DEF Range
    <3>. QED  BY <3>1, <3>2
  <2>2. ASSUME NEW j \in 1 .. n PROVE ring[j] \in Range(new)
    <3>1. CASE j > k
      <4>1. j - k \in 1 .. n /\ j - k <= n - k /\ k + (j - k) = j
        BY <1>1, <1>3, <3>1
      <4>. QED  BY <1>8, <1>9, <4>1 DEF Range
    <3>2. CASE ~ j > k
      <4>1. /\ j + (n - k) \in 1 .. n /\ ~ j + (n - k) <= n - k
            /\ (j + (n - k)) - (n - k) = j
        BY <1>1, <1>3, <3>2
      <4>. QED  BY <1>8, <1>9, <4>1 DEF Range
    <3>. QED  BY <3>1, <3>2
  <2>3. Range(new) \subseteq Range(ring)
    BY <1>9, <2>1 DEF Range
  <2>4. Range(ring) \subseteq Range(new)
    BY <1>1, <2>2 DEF Range
  <2>. QED  BY <2>3, <2>4
<1>12. Last(new) = ring[k]
  <2>1. n \in 1 .. n /\ ~ n <= n - k /\ n - (n - k) = k
    BY <1>1, <1>3
  <2>. QED  BY <1>8, <2>1 DEF Last
<1>13. ring[k] \in Range(ring)
  BY <1>1, <1>3 DEF Range
<1>14. IsInjective(new)
  BY <1>9, <1>10 DEF IsInjective
<1>. QED  BY <1>1, <1>3, <1>8, <1>11, <1>12, <1>13, <1>14 DEF Rings, Lists

\* vTaskSwitchContext: nothing but the running task changes, unless the assertion fails.
LEMMA ContextSwitched ==
    ASSUME NEW s, Well(s), NEW i \in Tasks, InReady(s, i), s.failed = None, NEW r, r = SwitchContext(s)
    PROVE  /\ Well(r) /\ Ticks(r) = Ticks(s) /\ r.suspended = s.suspended
           /\ \A u \in Tasks : SamePlaces(s, r, u)
           /\ r.waiting = s.waiting /\ r.eventBits = s.eventBits /\ r.notifyState = s.notifyState
           /\ s.suspended > 0 => r.current = s.current
           /\ \/ s.suspended > 0 \/ (r.current = s.current /\ r.failed # None)
              \/ r.current \in Tasks /\ InReady(r, r.current)
<1>1. PICK done, top, ring, new : /\ done = [s EXCEPT !.switchPending = FALSE]
                                  /\ top = Max(s.topReady) /\ ring = s.ready[top] /\ new = RingAdvance(ring)
  OBVIOUS
<1>2. /\ Shape(s) /\ Settled(s) /\ DOMAIN s = SchedFields /\ s.suspended \in Nat
      /\ \A u \in Tasks : Homed(s, u) /\ s.ready \in [Priorities -> Rings] /\ s.topReady \subseteq Priorities
  BY DEF Well, InPlace, Shape, ReadyLists, Numbers
<1>3. DOMAIN done = SchedFields /\ Lasts(s, done, SchedFields \ {"switchPending"})
  BY <1>1, <1>2 DEF SchedFields, Lasts
<1>4. top \in Priorities
  <2>1. s.topReady # {}
    BY <1>2 DEF InReady, Shape, ReadyLists
  <2>. QED  BY <1>1, <1>2, <2>1, LargestOf, KernelAssumption DEF Priorities
<1>5. ring \in Rings
  BY <1>1, <1>2, <1>4
<1>6. /\ DOMAIN r = SchedFields
      /\ Lasts(s, r, SchedFields \ {"switchPending", "yieldPending", "failed", "ready", "current"})
      /\ r.ready \in [Priorities -> Rings]
      /\ \A p \in Priorities : Range(r.ready[p]) = Range(s.ready[p])
      /\ \/ s.suspended > 0 /\ r.current = s.current
         \/ s.suspended = 0 /\ r.current = s.current /\ r.failed # None
         \/ s.suspended = 0 /\ r.current \in Tasks /\ r.current \in Range(r.ready[top])
  <2>1. CASE s.suspended > 0
    <3>1. r = [done EXCEPT !.yieldPending = TRUE]
      BY <1>1, <2>1 DEF SwitchContext
    <3>2. DOMAIN r = SchedFields /\ Lasts(done, r, SchedFields \ {"yieldPending"})
      BY <1>3, <3>1 DEF SchedFields, Lasts
    <3>3. r.ready = s.ready /\ r.current = s.current
      BY <1>3, <3>2 DEF SchedFields, Lasts
    <3>4. Lasts(s, r, SchedFields \ {"switchPending", "yieldPending", "failed", "ready", "current"})
      BY <1>3, <3>2 DEF Lasts
    <3>. QED  BY <1>2, <2>1, <3>2, <3>3, <3>4
  <2>2. CASE s.suspended = 0 /\ RingLength(ring) = 0
    <3>1. r = Fail(done, "ready list not empty")
      <4>1. ~ s.suspended > 0
        BY <2>2
      <4>. QED  BY <1>1, <2>2, <4>1 DEF SwitchContext
    <3>2. /\ DOMAIN r = SchedFields /\ Lasts(done, r, SchedFields \ {"failed"})
          /\ r.failed = IF done.failed = None THEN "ready list not empty" ELSE done.failed
      BY <1>3, <3>1 DEF Fail, SchedFields, Lasts
    <3>3. r.ready = s.ready /\ r.current = s.current
      BY <1>3, <3>2 DEF SchedFields, Lasts
    <3>4. Lasts(s, r, SchedFields \ {"switchPending", "yieldPending", "failed", "ready", "current"})
      BY <1>3, <3>2 DEF Lasts
    <3>5. r.failed # None
      <4>1. None # "ready list not empty"
        BY KernelAssumption DEF Assertions
      <4>2. done.failed = None
        BY <1>3 DEF SchedFields, Lasts
      <4>. QED  BY <3>2, <4>1, <4>2
    <3>. QED  BY <1>2, <2>2, <3>2, <3>3, <3>4, <3>5
  <2>3. CASE s.suspended = 0 /\ RingLength(ring) # 0
    <3>1. PICK t : t = Last(new)
      OBVIOUS
    <3>2. r = [done EXCEPT !.yieldPending = FALSE, !.ready[top] = new, !.current = t]
      BY <1>1, <2>3, <3>1 DEF SwitchContext
    <3>3. /\ new \in Rings /\ Range(new) = Range(ring) /\ t \in Tasks /\ t \in Range(ring)
      BY <1>1, <1>5, <2>3, <3>1, RingRound
    <3>4. /\ DOMAIN r = SchedFields /\ Lasts(done, r, SchedFields \ {"yieldPending", "ready", "current"})
          /\ r.ready = [done.ready EXCEPT ![top] = new] /\ r.current = t
      BY <1>3, <3>2 DEF SchedFields, Lasts
    <3>5. done.ready = s.ready
      BY <1>3 DEF SchedFields, Lasts
    <3>6. /\ r.ready \in [Priorities -> Rings]
          /\ \A p \in Priorities : Range(r.ready[p]) = Range(s.ready[p])
      BY <1>1, <1>2, <1>4, <3>3, <3>4, <3>5
    <3>7. Lasts(s, r, SchedFields \ {"switchPending", "yieldPending", "failed", "ready", "current"})
      BY <1>3, <3>4 DEF Lasts
    <3>8. r.current \in Range(r.ready[top])
      BY <1>1, <1>4, <3>3, <3>4, <3>6
    <3>. QED  BY <2>3, <3>3, <3>4, <3>6, <3>7, <3>8
  <2>. QED  BY <1>2, <2>1, <2>2, <2>3
<1>7. /\ r.suspended = s.suspended
      /\ r.topReady = s.topReady /\ r.delayed = s.delayed
      /\ r.overflowDelayed = s.overflowDelayed /\ r.suspendedTasks = s.suspendedTasks
      /\ r.waiting = s.waiting /\ r.terminating = s.terminating
      /\ r.overflows = s.overflows /\ r.tick = s.tick /\ r.pendedTicks = s.pendedTicks
      /\ r.priority = s.priority /\ r.basePriority = s.basePriority /\ r.eventOrder = s.eventOrder
      /\ r.eventBits = s.eventBits /\ r.notifyState = s.notifyState
  BY <1>6 DEF Lasts, SchedFields
<1>8. Shape(r)
  <2>1. ReadyLists(r)
    BY <1>2, <1>6, <1>7 DEF Shape, ReadyLists
  <2>. QED  BY <1>2, <1>6, <1>7, <2>1 DEF Shape, OtherLists, Numbers
<1>9. \A u \in Tasks : SamePlaces(s, r, u)
  BY <1>6, <1>7 DEF SamePlaces, InReady
<1>10. \A u \in Tasks : Homed(r, u)
  BY <1>2, <1>9, PlacesKeep
<1>11. r.current \in Tasks /\ r.current \in Range(r.ready[top]) => InReady(r, r.current)
  BY <1>4 DEF InReady
<1>12. Settled(r)
  <2>1. \A u : (InPending(r, u) <=> InPending(s, u)) /\ (InReady(r, u) <=> InReady(s, u))
    BY <1>6, <1>7 DEF InPending, InReady
  <2>. QED  BY <1>2, <1>6, <1>7, <2>1 DEF Settled
<1>13. Ticks(r) = Ticks(s)
  BY <1>7 DEF Ticks
<1>. QED  BY <1>2, <1>6, <1>7, <1>8, <1>9, <1>10, <1>11, <1>12, <1>13 DEF Well, InPlace

(***************************************************************************)
(* The scheduler in the system: an inductive invariant.                    *)
(***************************************************************************)

\* A task is where its call can be.
Using(t, operations) == HasCall(t) /\ Call(t).op \in operations
DaemonLabels ==
    {"lockQueue", "callback", "switchLists", "reloadSwitched", "resumeSwitched",
     "resumeExpired", "receive", "sample", "expire", "apply", "reloadStarted"}
Fits(t, label) ==
    /\ label \in {"lock", "expired", "disinherit"} => Using(t, Blocking)
    /\ label \in {"check", "place", "unlockTx", "unlockRx"} => Using(t, Blocking \cup {"daemon"})
    /\ label \in DaemonLabels => Using(t, {"daemon"})
    /\ label # "call" => t # Idle /\ HasCall(t)
TimersFit ==
    /\ {"then", "switched"} \subseteq DOMAIN timers
    /\ timers.then \in {"receive", "reloadSwitched", "reloadStarted"}
    /\ timers.switched \in {"resumeSwitched", "apply"}
LabelsFit ==
    /\ TimersFit
    /\ \A t \in Tasks : {"pc", "placed"} \subseteq DOMAIN local[t] /\ Fits(t, local[t].pc)

\* Tasks are what holds a mutex and what waits for a buffer; a reader of messages
\* waits for the first byte.
Someone == Tasks \cup {None}
HoldersAreTasks ==
    \A o \in Objects : "holder" \in DOMAIN queues[o] /\ queues[o].holder \in Someone
PeersAreTasks ==
    /\ DOMAIN streams = Streams
    /\ \A b \in Streams :
          /\ {"waitingToReceive", "waitingToSend", "isMessage", "trigger"} \subseteq DOMAIN streams[b]
          /\ streams[b].waitingToReceive \in Someone /\ streams[b].waitingToSend \in Someone
          /\ streams[b].isMessage => streams[b].trigger = 1

\* A task keeps the scheduler suspended between two of its critical sections.
LockLabels == {"check", "place", "unlockTx", "unlockRx", "resume", "notifyPeer", "forgetPeer",
               "lockQueue", "resumeSwitched", "resumeExpired"}
Locks(label) ==
    \/ label \in LockLabels
    \/ /\ timers.switched = "resumeSwitched"
       /\ \/ label \in {"switchLists", "reloadSwitched"}
          \/ label = "callback" /\ timers.then = "reloadSwitched"
OnlyOneLocks ==
    /\ sched.suspended = IF Locks(local[sched.current].pc) THEN 1 ELSE 0
    /\ \A t \in Tasks : Locks(local[t].pc) => t = sched.current

\* A task that has gone to sleep runs no further, unless it is to resume the
\* scheduler first.
Dozes(t) == /\ local[t].pc \in {"unlockTx", "unlockRx", "resume"}
            /\ local[t].placed \/ Using(t, {"daemon"})
StopsInTime ==
    sched.failed = None /\ ~ InReady(sched, sched.current) =>
        (sched.suspended = 0 /\ sched.switchPending) \/ Dozes(sched.current)

\* A task to be created is in no list before.
NotYet(t) ==
    \E u \in Tasks : \E i \in 1 .. Len(program.script[u]) :
        /\ i >= local[u].at
        /\ program.script[u][i].op = "create" /\ program.script[u][i].task = t
NewTasksAreNew == \A t \in Tasks : NotYet(t) => Unused(sched, t) /\ t # sched.current

\* A task waits for a notification only in a call that does.
WaitsRightly ==
    \A t \in Tasks : sched.notifyState[t] = "waiting" =>
        local[t].pc \in {"waited", "notified"} /\ ~ InEvents(sched, t)

\* No task waits for bits that are there, also while the scheduler is suspended.
Lacks(s, t, bits, g) ==
    t \in Range(s.waiting[WaitingForBits(g)]) => ~ Satisfied(bits, s.eventBits[t])
BitsAreMissing ==
    /\ DOMAIN groups = Groups
    /\ \A g \in Groups : "bits" \in DOMAIN groups[g]
    /\ \A g \in Groups : \A t \in Tasks : Lacks(sched, t, groups[g].bits, g)

SchedInv ==
    /\ Well(sched) /\ sched.current \in Tasks /\ InReady(sched, Idle)
    /\ OnlyOneLocks /\ StopsInTime /\ NewTasksAreNew /\ WaitsRightly /\ BitsAreMissing
    /\ now \in Nat /\ Ticks(sched) = InitialTick + now

\* What the lists of a step of t must be for the invariant.
OthersStay(t) ==
    /\ program' = program /\ \A u \in Tasks : u # t => local'[u] = local[u]
    /\ local'[t].at \in Nat /\ local'[t].at >= local[t].at
LocksStay(t) == \A u \in Tasks : u # t => (Locks(local[u].pc)' <=> Locks(local[u].pc))
GroupsShrink ==
    /\ DOMAIN groups' = Groups
    /\ \A g \in Groups : "bits" \in DOMAIN groups'[g] /\ groups'[g].bits \subseteq groups[g].bits
Stops(t) == sched.failed = None /\ ~ InReady(sched, t) =>
                (sched.suspended = 0 /\ sched.switchPending) \/ Dozes(t)
WaitsOnly(t) == sched.notifyState[t] = "waiting" =>
                    local[t].pc \in {"waited", "notified"} /\ ~ InEvents(sched, t)

LEMMA BitsListed ==
    ASSUME NEW g \in Groups
    PROVE  /\ WaitingForBits(g) \in EventLists
           /\ \A o : WaitingForBits(g) # ToSend(o) /\ WaitingForBits(g) # ToReceive(o)
BY ListAssumption DEF WaitingForBits, ToSend, ToReceive

\* Fewer bits satisfy no more.
LEMMA FewerBits ==
    ASSUME NEW old, NEW new, new \subseteq old, NEW wanted, ~ Satisfied(old, wanted)
    PROVE  ~ Satisfied(new, wanted)
BY DEF Satisfied

LEMMA LacksStill ==
    ASSUME NEW s, NEW r, NEW T, NEW t \in Tasks, Spares(s, r, T, t), NEW g \in Groups,
           NEW old, NEW new, new \subseteq old, Lacks(s, t, old, g)
    PROVE  Lacks(r, t, new, g)
<1>1. SUFFICES ASSUME t \in Range(r.waiting[WaitingForBits(g)])
               PROVE  ~ Satisfied(new, r.eventBits[t])
  BY DEF Lacks
<1>2. t \in Range(s.waiting[WaitingForBits(g)]) /\ InEvents(r, t)
  BY <1>1, BitsListed DEF Spares, InEvents
<1>3. r.eventBits[t] = s.eventBits[t]
  BY <1>2 DEF Spares
<1>4. ~ Satisfied(old, s.eventBits[t])
  BY <1>2 DEF Lacks
<1>. QED  BY <1>3, <1>4, FewerBits

\* A task that is in no event list waits for no bits.
LEMMA LacksNothing ==
    ASSUME NEW s, NEW t, ~ InEvents(s, t), NEW g \in Groups, NEW bits
    PROVE  Lacks(s, t, bits, g)
BY BitsListed DEF Lacks, InEvents

\* What a step does: the invariant is kept, and only the task that runs begins to
\* wait for a notification, or uses one up.
Noted(u) ==
    /\ sched'.notifyState[u] = "waiting" => sched.notifyState[u] = "waiting"
    /\ sched.notifyState[u] = "received" => sched'.notifyState[u] = "received"
Kept == SchedInv' /\ \A u \in Tasks : u # sched.current => Noted(u)
AllKept == SchedInv' /\ \A u \in Tasks : Noted(u)

LEMMA NotYetBefore ==
    ASSUME QueueInv, NEW t \in Tasks, OthersStay(t), NEW u \in Tasks, NotYet(u)'
    PROVE  NotYet(u)
<1>1. PICK v \in Tasks : \E i \in 1 .. Len(program.script[v]) :
                /\ i >= local'[v].at
                /\ program.script[v][i].op = "create" /\ program.script[v][i].task = u
  BY DEF NotYet, OthersStay
<1>2. PICK i \in 1 .. Len(program.script[v]) :
                /\ i >= local'[v].at
                /\ program.script[v][i].op = "create" /\ program.script[v][i].task = u
  BY <1>1
<1>3. Len(program.script[v]) \in Nat /\ local[v].at \in Nat
  BY ProgramAssumption DEF QueueInv
<1>4. i >= local[v].at
  BY <1>2, <1>3 DEF OthersStay
<1>. QED  BY <1>2, <1>4 DEF NotYet

\* A step of the running task keeps the invariant.
LEMMA StepKeeps ==
    ASSUME QueueInv, SchedInv, NEW t \in Tasks, Running(t), NEW T \in SUBSET Tasks, now' = now,
           OthersStay(t), LocksStay(t), Well(sched'), sched'.current = t,
           Ticks(sched') = Ticks(sched),
           \A u \in Tasks : u # t => Spares(sched, sched', T, u),
           \A u \in T : ~ NotYet(u)', InReady(sched', Idle),
           sched'.suspended = IF Locks(local[t].pc)' THEN 1 ELSE 0,
           Stops(t)', WaitsOnly(t)', BitsAreMissing'
    PROVE  Kept
<1>0. sched.current = t
  BY DEF Running
<1>1. OnlyOneLocks'
  BY <1>0 DEF SchedInv, OnlyOneLocks, LocksStay
<1>2. StopsInTime'
  BY DEF StopsInTime, Stops
<1>3. NewTasksAreNew'
  <2>1. SUFFICES ASSUME NEW u \in Tasks, NotYet(u)'
                 PROVE  Unused(sched', u) /\ u # sched'.current
    BY DEF NewTasksAreNew
  <2>2. NotYet(u)
    BY <2>1, NotYetBefore
  <2>3. u # t /\ Unused(sched, u) /\ u \notin T
    BY <1>0, <2>1, <2>2 DEF SchedInv, NewTasksAreNew
  <2>4. Spares(sched, sched', T, u)
    BY <2>3
  <2>. QED  BY <2>3, <2>4 DEF Spares
<1>4. WaitsRightly'
  <2>1. SUFFICES ASSUME NEW u \in Tasks, sched'.notifyState[u] = "waiting", u # t
                 PROVE  local'[u].pc \in {"waited", "notified"} /\ ~ InEvents(sched', u)
    BY DEF WaitsRightly, WaitsOnly
  <2>2. Spares(sched, sched', T, u)
    BY <2>1
  <2>3. local[u].pc \in {"waited", "notified"} /\ ~ InEvents(sched, u)
    BY <2>1, <2>2 DEF SchedInv, WaitsRightly, Spares
  <2>. QED  BY <2>1, <2>2, <2>3 DEF OthersStay, Spares, InEvents
<1>5. \A u \in Tasks : u # t => Noted(u)
  BY DEF Spares, Noted
<1>. QED  BY <1>0, <1>1, <1>2, <1>3, <1>4, <1>5 DEF SchedInv, Kept

\* A step that leaves the running task where it is.
LEMMA SparedBits ==
    ASSUME QueueInv, SchedInv, NEW t \in Tasks, Running(t), NEW T \in SUBSET Tasks, now' = now,
           OthersStay(t), LocksStay(t), Well(sched'), Ticks(sched') = Ticks(sched),
           Spared(sched, sched', T), \A u \in T : ~ NotYet(u)',
           sched'.suspended = IF Locks(local[t].pc)' THEN 1 ELSE 0,
           Dozes(t) => Dozes(t)' \/ (sched'.suspended = 0 /\ sched'.switchPending),
           local[t].pc \notin {"waited", "notified"} \/ sched'.notifyState[t] # "waiting",
           BitsAreMissing'
    PROVE  Kept
<1>0. sched.current = t /\ ~ sched.switchPending /\ sched.failed = None /\ sched'.current = t
  BY DEF Running, Spared
<1>1. \A u \in Tasks : Spares(sched, sched', T, u)
  BY DEF Spared
<1>2. InReady(sched', Idle)
  BY <1>1, KernelAssumption DEF SchedInv, Spares
<1>3. Stops(t)'
  <2>1. InReady(sched, t) \/ Dozes(t)
    BY <1>0 DEF SchedInv, StopsInTime
  <2>2. InReady(sched, t) => InReady(sched', t)
    BY <1>1 DEF Spares
  <2>. QED  BY <2>1, <2>2 DEF Stops
<1>4. WaitsOnly(t)'
  <2>1. sched'.notifyState[t] = "waiting" => sched.notifyState[t] = "waiting"
    BY <1>1 DEF Spares
  <2>2. sched'.notifyState[t] # "waiting"
    BY <2>1 DEF SchedInv, WaitsRightly
  <2>. QED  BY <2>2 DEF WaitsOnly
<1>. QED  BY <1>0, <1>1, <1>2, <1>3, <1>4, StepKeeps

\* Unless a group gets more bits.
LEMMA BitsStay ==
    ASSUME SchedInv, NEW T, Spared(sched, sched', T), GroupsShrink
    PROVE  BitsAreMissing'
<1>1. ASSUME NEW g \in Groups, NEW u \in Tasks PROVE Lacks(sched', u, groups'[g].bits, g)
  <2>1. Lacks(sched, u, groups[g].bits, g) /\ Spares(sched, sched', T, u)
    BY DEF SchedInv, BitsAreMissing, Spared
  <2>2. groups'[g].bits \subseteq groups[g].bits
    BY DEF GroupsShrink
  <2>. QED  BY <2>1, <2>2, LacksStill
<1>. QED  BY <1>1 DEF BitsAreMissing, GroupsShrink

LEMMA SparedStep ==
    ASSUME QueueInv, SchedInv, NEW t \in Tasks, Running(t), NEW T \in SUBSET Tasks, now' = now,
           OthersStay(t), LocksStay(t), Well(sched'), Ticks(sched') = Ticks(sched),
           Spared(sched, sched', T), \A u \in T : ~ NotYet(u)',
           sched'.suspended = IF Locks(local[t].pc)' THEN 1 ELSE 0,
           Dozes(t) => Dozes(t)' \/ (sched'.suspended = 0 /\ sched'.switchPending),
           local[t].pc \notin {"waited", "notified"} \/ sched'.notifyState[t] # "waiting",
           GroupsShrink
    PROVE  Kept
BY SparedBits, BitsStay

\* And neither suspends nor resumes the scheduler.
LEMMA GentleStep ==
    ASSUME QueueInv, SchedInv, NEW t \in Tasks, Running(t), NEW T \in SUBSET Tasks, now' = now,
           OthersStay(t), LocksStay(t), Well(sched'), Gently(sched, sched', T), \A u \in T : ~ NotYet(u)',
           Locks(local[t].pc)' <=> Locks(local[t].pc), Dozes(t) => Dozes(t)',
           local[t].pc \notin {"waited", "notified"} \/ sched'.notifyState[t] # "waiting",
           GroupsShrink
    PROVE  Kept
<1>1. Spared(sched, sched', T)
  BY GentlySpared
<1>2. Ticks(sched') = Ticks(sched) /\ sched'.suspended = sched.suspended
  BY DEF Gently, Steady
<1>3. sched.suspended = IF Locks(local[t].pc) THEN 1 ELSE 0
  BY DEF SchedInv, OnlyOneLocks, Running
<1>4. sched'.suspended = IF Locks(local[t].pc)' THEN 1 ELSE 0
  BY <1>2, <1>3
<1>. QED  BY <1>1, <1>2, <1>4, SparedStep

\* A step of no task: an interrupt, or the idle task's.
LEMMA NobodysStep ==
    ASSUME QueueInv, SchedInv, sched.failed = None, program' = program, local' = local,
           timers' = timers, groups' = groups,
           Well(sched'), Spared(sched, sched', {}), sched'.suspended = sched.suspended,
           now' \in Nat, Ticks(sched') - now' = Ticks(sched) - now
    PROVE  AllKept
<1>0. sched'.current = sched.current /\ (sched.switchPending => sched'.switchPending)
  BY DEF Spared
<1>1. \A u \in Tasks : Spares(sched, sched', {}, u)
  BY DEF Spared
<1>2. InReady(sched', Idle)
  BY <1>1, KernelAssumption DEF SchedInv, Spares
<1>3. \A l : Locks(l)' <=> Locks(l)
  BY DEF Locks
<1>4. OnlyOneLocks'
  BY <1>0, <1>3 DEF SchedInv, OnlyOneLocks
<1>5. StopsInTime'
  <2>1. InReady(sched, sched.current) => InReady(sched', sched'.current)
    BY <1>0, <1>1 DEF Spares, SchedInv
  <2>2. Dozes(sched.current)' <=> Dozes(sched.current)
    BY <1>0 DEF Dozes, Using, HasCall, Call
  <2>. QED  BY <1>0, <2>1, <2>2 DEF SchedInv, StopsInTime
<1>6. NewTasksAreNew'
  BY <1>0, <1>1 DEF SchedInv, NewTasksAreNew, NotYet, Spares
<1>7. WaitsRightly'
  BY <1>1 DEF SchedInv, WaitsRightly, Spares, InEvents
<1>8. BitsAreMissing'
  <2>1. ASSUME NEW g \in Groups, NEW u \in Tasks PROVE Lacks(sched', u, groups[g].bits, g)
    <3>1. Lacks(sched, u, groups[g].bits, g) /\ Spares(sched, sched', {}, u)
      BY <1>1 DEF SchedInv, BitsAreMissing
    <3>. QED  BY <3>1, LacksStill
  <2>. QED  BY <2>1 DEF SchedInv, BitsAreMissing
<1>9. Ticks(sched') = InitialTick + now'
  <2>1. Ticks(sched) = InitialTick + now /\ now \in Nat /\ InitialTick \in Nat
    BY KernelAssumption DEF SchedInv
  <2>2. Ticks(sched') \in Int
    BY KernelAssumption DEF Well, InPlace, Shape, Numbers, Ticks
  <2>. QED  BY <2>1, <2>2
<1>10. \A u \in Tasks : Noted(u)
  BY <1>1 DEF Spares, Noted
<1>. QED  BY <1>0, <1>2, <1>4, <1>5, <1>6, <1>7, <1>8, <1>9, <1>10 DEF SchedInv, AllKept

(***************************************************************************)
(* What the steps do to the local variables of the task.                   *)
(***************************************************************************)

LEMMA GoesTo ==
    ASSUME QueueInv, LabelsFit, NEW t \in Tasks, NEW changes, Goto(t, changes),
           program' = program, "at" \notin DOMAIN changes
    PROVE  /\ OthersStay(t) /\ Call(t)' = Call(t) /\ HasCall(t)' = HasCall(t)
           /\ {"pc", "placed"} \subseteq DOMAIN local'[t]
           /\ local'[t].pc = IF "pc" \in DOMAIN changes THEN changes.pc ELSE local[t].pc
           /\ local'[t].placed = IF "placed" \in DOMAIN changes THEN changes.placed ELSE local[t].placed
<1>1. /\ DOMAIN local' = Tasks /\ \A u \in Tasks : u # t => local'[u] = local[u]
      /\ local'[t] = Updated(local[t], changes)
  BY DEF QueueInv, Goto
<1>2. /\ DOMAIN local'[t] = DOMAIN local[t] \cup DOMAIN changes
      /\ \A x \in DOMAIN local[t] \cup DOMAIN changes :
            local'[t][x] = IF x \in DOMAIN changes THEN changes[x] ELSE local[t][x]
  <2>1. DOMAIN Updated(local[t], changes) = DOMAIN local[t] \cup DOMAIN changes
    BY AfterUpdate
  <2>2. \A x \in DOMAIN local[t] \cup DOMAIN changes :
           Updated(local[t], changes)[x] = IF x \in DOMAIN changes THEN changes[x] ELSE local[t][x]
    BY AfterUpdate
  <2>. QED  BY <1>1, <2>1, <2>2
<1>3. {"pc", "placed"} \subseteq DOMAIN local[t]
  BY DEF LabelsFit
<1>4. /\ local'[t]["pc"] = IF "pc" \in DOMAIN changes THEN changes["pc"] ELSE local[t]["pc"]
      /\ local'[t]["placed"] = IF "placed" \in DOMAIN changes THEN changes["placed"] ELSE local[t]["placed"]
      /\ {"pc", "placed"} \subseteq DOMAIN local'[t]
  BY <1>2, <1>3
<1>5. local'[t]["at"] = local[t]["at"] /\ local[t]["at"] \in Nat
  BY <1>2 DEF QueueInv, Lasting
<1>6. HasCall(t)' = HasCall(t) /\ Call(t)' = Call(t)
  BY <1>5 DEF HasCall, Call
<1>. QED  BY <1>1, <1>4, <1>5, <1>6 DEF OthersStay

LEMMA ComesBack ==
    ASSUME QueueInv, NEW t \in Tasks, NEW changes, Return(t, changes), program' = program,
           "pc" \notin DOMAIN changes, "placed" \notin DOMAIN changes, "at" \notin DOMAIN changes
    PROVE  /\ OthersStay(t) /\ local'[t].at = local[t].at + 1
           /\ {"pc", "placed"} \subseteq DOMAIN local'[t] /\ local'[t].pc = "call"
<1>. DEFINE one == Updated(NewCall, [at |-> local[t].at + 1])
            all == Updated(one, changes)
<1>1. /\ DOMAIN local' = Tasks /\ \A u \in Tasks : u # t => local'[u] = local[u]
      /\ local'[t] = Updated(local[t], all)
  BY DEF QueueInv, Return, Goto
<1>2. "pc" \in DOMAIN one /\ "placed" \in DOMAIN one /\ one["pc"] = "call"
  BY DEF Updated, NewCall
<1>. HIDE DEF one
<1>3. "pc" \in DOMAIN all /\ "placed" \in DOMAIN all /\ all["pc"] = "call"
  BY <1>2 DEF Updated
<1>. HIDE DEF all
<1>4. {"pc", "placed"} \subseteq DOMAIN Updated(local[t], all) /\ Updated(local[t], all)["pc"] = "call"
  BY <1>3 DEF Updated
<1>5. local'[t].at = local[t].at + 1
  BY AfterReturn
<1>6. local[t].at \in Nat
  BY DEF QueueInv
<1>. QED  BY <1>1, <1>4, <1>5, <1>6 DEF OthersStay

\* A task is in a call of its script.
LEMMA CallsLawfully ==
    ASSUME QueueInv, NEW t \in Tasks, HasCall(t)
    PROVE  /\ local[t].at \in 1 .. Len(program.script[t])
           /\ Legal(Call(t), program.queues) /\ t # Idle
           /\ Call(t).op = "daemon" => t = Daemon
<1>1. program \in Programs
  BY DEF QueueInv
<1>2. Len(program.script[t]) \in Nat /\ local[t].at \in Nat \ {0}
  BY <1>1, ProgramAssumption DEF QueueInv
<1>3. local[t].at \in 1 .. Len(program.script[t])
  BY <1>2 DEF HasCall
<1>4. Legal(Call(t), program.queues)
  BY <1>1, <1>3, ProgramAssumption DEF Call
<1>5. LegalTasks(program)
  BY <1>1, ProgramAssumption
<1>6. t # Idle
  BY <1>3, <1>5 DEF LegalTasks
<1>7. Call(t).op = "daemon" => t = Daemon
  BY <1>3, <1>5 DEF LegalTasks, Call
<1>. QED  BY <1>3, <1>4, <1>6, <1>7

\* The operation a task begins.
LEMMA BeginsCall ==
    ASSUME QueueInv, NEW t \in Tasks, NEW operations, Calls(t, operations)
    PROVE  /\ HasCall(t) /\ t # Idle /\ local[t].pc = "call" /\ Running(t)
           /\ operations \cap {"compose", "readClock", "convert"} = {} => Using(t, operations)
<1>1. HasCall(t) /\ local[t].pc = "call" /\ Running(t) /\ Operation(t) \in operations
  BY DEF Calls
<1>2. Operation(t) \in {"compose", "readClock", "convert"} \/ Operation(t) = Call(t).op
  BY DEF Operation
<1>. QED  BY <1>1, <1>2, CallsLawfully DEF Using

\* No other task is where only the timer task is.
LEMMA LocksOfOthers ==
    ASSUME QueueInv, LabelsFit, NEW t \in Tasks, OthersStay(t), timers' = timers \/ Using(t, {"daemon"})
    PROVE  LocksStay(t)
<1>1. SUFFICES ASSUME NEW u \in Tasks, u # t
               PROVE  Locks(local[u].pc)' <=> Locks(local[u].pc)
  BY DEF LocksStay
<1>2. local'[u].pc = local[u].pc
  BY <1>1 DEF OthersStay
<1>3. CASE timers' = timers
  BY <1>2, <1>3 DEF Locks
<1>4. CASE Using(t, {"daemon"})
  <2>1. local[u].pc \notin DaemonLabels
    <3>1. SUFFICES ASSUME local[u].pc \in DaemonLabels PROVE FALSE
      OBVIOUS
    <3>2. Using(u, {"daemon"})
      BY <3>1 DEF LabelsFit, Fits
    <3>3. t = Daemon /\ u = Daemon
      BY <1>4, <3>2, CallsLawfully DEF Using
    <3>. QED  BY <1>1, <3>3
  <2>. QED  BY <1>2, <2>1 DEF Locks, LockLabels, DaemonLabels
<1>. QED  BY <1>3, <1>4

LEMMA GroupsSame ==
    ASSUME SchedInv, groups' = groups
    PROVE  GroupsShrink
BY DEF SchedInv, BitsAreMissing, GroupsShrink

(***************************************************************************)
(* Steps that leave the running task where it is.                          *)
(***************************************************************************)

Eases == sched' = sched \/ (Well(sched') /\ Gently(sched, sched', {}))
\* The labels of a task that lets others run.
Plain(label) == label \notin LockLabels \cup {"switchLists", "reloadSwitched", "callback"}
Asks(t) == local[t].pc \notin {"waited", "notified"} \/ sched'.notifyState[t] # "waiting"

LEMMA Eased ==
    ASSUME SchedInv, Eases
    PROVE  Well(sched') /\ Gently(sched, sched', {})
BY GentlySame DEF SchedInv, Eases

LEMMA PlainStep ==
    ASSUME QueueInv, LabelsFit, SchedInv, NEW t \in Tasks, Running(t), Eases, OthersStay(t), now' = now,
           groups' = groups, timers' = timers \/ Using(t, {"daemon"}), Asks(t),
           Plain(local[t].pc), Plain(local'[t].pc)
    PROVE  Kept
<1>1. LocksStay(t) /\ GroupsShrink /\ Well(sched') /\ Gently(sched, sched', {})
  BY LocksOfOthers, GroupsSame, Eased
<1>2. ~ Locks(local[t].pc) /\ ~ Locks(local[t].pc)' /\ ~ Dozes(t)
  BY DEF Plain, Locks, Dozes, LockLabels
<1>3. {} \in SUBSET Tasks
  OBVIOUS
<1>. QED  BY <1>1, <1>2, <1>3, GentleStep DEF Asks

LEMMA PlainGoto ==
    ASSUME QueueInv, LabelsFit, SchedInv, NEW t \in Tasks, Running(t), Eases, now' = now, program' = program,
           groups' = groups, timers' = timers \/ Using(t, {"daemon"}), Asks(t), NEW changes,
           "at" \notin DOMAIN changes, Goto(t, changes), Plain(local[t].pc),
           "pc" \in DOMAIN changes => Plain(changes.pc)
    PROVE  Kept
<1>1. OthersStay(t) /\ Plain(local'[t].pc)
  BY GoesTo
<1>. QED  BY <1>1, PlainStep

LEMMA PlainReturn ==
    ASSUME QueueInv, LabelsFit, SchedInv, NEW t \in Tasks, Running(t), Eases, now' = now, program' = program,
           groups' = groups, timers' = timers \/ Using(t, {"daemon"}), Asks(t), NEW changes,
           "pc" \notin DOMAIN changes, "placed" \notin DOMAIN changes, "at" \notin DOMAIN changes,
           Return(t, changes), Plain(local[t].pc)
    PROVE  Kept
<1>1. OthersStay(t) /\ Plain(local'[t].pc)
  BY ComesBack DEF Plain, LockLabels
<1>. QED  BY <1>1, PlainStep

\* A step of a task that keeps the scheduler suspended.
LEMMA LockedGoto ==
    ASSUME QueueInv, LabelsFit, SchedInv, NEW t \in Tasks, Running(t), Eases, now' = now, program' = program,
           groups' = groups, timers' = timers, NEW changes,
           "at" \notin DOMAIN changes, "placed" \notin DOMAIN changes, "pc" \in DOMAIN changes,
           Goto(t, changes), local[t].pc \in LockLabels \ {"resume"}, changes.pc \in LockLabels,
           local[t].pc \in {"unlockTx", "unlockRx"} => changes.pc \in {"unlockRx", "resume"}
    PROVE  Kept
<1>1. /\ OthersStay(t) /\ Call(t)' = Call(t) /\ HasCall(t)' = HasCall(t)
      /\ local'[t].pc = changes.pc /\ local'[t].placed = local[t].placed
  BY GoesTo
<1>2. LocksStay(t) /\ GroupsShrink /\ Well(sched') /\ Gently(sched, sched', {})
  BY <1>1, LocksOfOthers, GroupsSame, Eased
<1>3. Locks(local[t].pc) /\ Locks(local[t].pc)'
  BY <1>1 DEF Locks
<1>4. Dozes(t) => Dozes(t)'
  BY <1>1 DEF Dozes, Using, LockLabels
<1>5. {} \in SUBSET Tasks /\ local[t].pc \notin {"waited", "notified"}
  BY DEF LockLabels
<1>. QED  BY <1>1, <1>2, <1>3, <1>4, <1>5, GentleStep

(***************************************************************************)
(* Calls on queues, semaphores and mutexes.                                *)
(***************************************************************************)

Calm(changes) == "pc" \notin DOMAIN changes /\ "placed" \notin DOMAIN changes /\ "at" \notin DOMAIN changes
LEMMA CalmResults ==
    /\ Calm(<< >>) /\ \A v : Calm([received |-> v]) /\ Calm([owns |-> v])
<1>1. DOMAIN << >> = {}
  OBVIOUS
<1>. QED  BY <1>1 DEF Calm

LEMMA ObjectOf ==
    ASSUME QueueInv, HoldersAreTasks, NEW t \in Tasks, Using(t, Blocking \cup Gives \cup {"daemon"})
    PROVE  Object(t) \in Objects /\ Queue(t).holder \in Tasks \cup {None}
<1>1. Legal(Call(t), program.queues)
  BY CallsLawfully DEF Using
<1>2. Object(t) \in Objects
  BY <1>1, ListAssumption DEF Legal, Using, Object, Blocking, Sends, Receives, Takes, Gives, ProgramObjects
<1>. QED  BY <1>2 DEF HoldersAreTasks, Queue, Someone

LEMMA QueuesEase ==
    ASSUME SchedInv, NEW o \in Objects, NEW q, q.holder \in Tasks \cup {None},
           \/ sched' = SendWakes(sched, o, q) \/ sched' = ReceiveWakes(sched, o)
           \/ sched' = PeekWakes(sched, o) \/ sched' = TakeWakes(sched, o, q)
           \/ sched' = SendFromISRWakes(sched, o, q) \/ sched' = ReceiveFromISRWakes(sched, o, q)
           \/ sched' = UnlockTxWakes(sched, o, q) \/ sched' = UnlockRxWakes(sched, o, q)
    PROVE  Eases
<1>a. PICK r : r = sched'
  OBVIOUS
<1>1. Well(sched) /\ sched.current \in Tasks
  BY DEF SchedInv
<1>2. Well(r) /\ Gently(sched, r, {})
  BY <1>a, <1>1, QueuesWake
<1>. QED  BY <1>a, <1>2 DEF Eases

LEMMA FreeEase ==
    ASSUME SchedInv,
           \/ \E a : sched' = Fail(sched, a)
           \/ sched' = Yield(sched)
           \/ sched' = ClearAborted(sched)
    PROVE  Eases
<1>a. PICK r : r = sched'
  OBVIOUS
<1>1. Well(sched)
  BY DEF SchedInv
<1>2. Well(r) /\ Gently(sched, r, {})
  BY <1>a, <1>1, FreeChanges
<1>. QED  BY <1>a, <1>2 DEF Eases

\* The running task is awake, but for the end of a wait.
LEMMA IsAwake ==
    ASSUME SchedInv, NEW t \in Tasks, Running(t), ~ Dozes(t)
    PROVE  Awake(sched, t)
BY DEF SchedInv, StopsInTime, Running, Awake

LEMMA LocksOnce ==
    ASSUME SchedInv, NEW t \in Tasks, Running(t)
    PROVE  sched.suspended = IF Locks(local[t].pc) THEN 1 ELSE 0
BY DEF SchedInv, OnlyOneLocks, Running

LEMMA SendSteps ==
    ASSUME QueueInv, LabelsFit, HoldersAreTasks, SchedInv, timers' = timers, NEW t \in Tasks,
           SendNow(t) \/ Give(t) \/ GiveOnce(t) \/ GiveNothing(t)
    PROVE  Kept
<1>1. Plain("call")
  BY DEF Plain, LockLabels
<1>2. CASE SendNow(t)
  <2>1. /\ Calls(t, Sends) /\ sched' = SendWakes(sched, Object(t), Queue(t)) /\ Return(t, << >>)
        /\ UNCHANGED <<program, groups, raised, now>>
    BY <1>2 DEF SendNow
  <2>2. Running(t) /\ local[t].pc = "call" /\ Using(t, Blocking \cup Gives \cup {"daemon"})
    BY <2>1, BeginsCall DEF Sends, Using, Blocking
  <2>3. Eases
    BY <2>1, <2>2, ObjectOf, QueuesEase
  <2>. QED  BY <1>1, <2>1, <2>2, <2>3, CalmResults, PlainReturn DEF Calm, Asks
<1>3. CASE Give(t)
  <2>1. /\ Calls(t, Gives) /\ sched' = SendWakes(sched, Object(t), Queue(t))
        /\ \E v : Return(t, [owns |-> v])
        /\ UNCHANGED <<program, groups, raised, now>>
    BY <1>3 DEF Give
  <2>2. Running(t) /\ local[t].pc = "call" /\ Using(t, Blocking \cup Gives \cup {"daemon"})
    BY <2>1, BeginsCall DEF Gives, Using
  <2>3. Eases
    BY <2>1, <2>2, ObjectOf, QueuesEase
  <2>. QED  BY <1>1, <2>1, <2>2, <2>3, CalmResults, PlainReturn DEF Calm, Asks
<1>4. CASE GiveOnce(t) \/ GiveNothing(t)
  <2>1. /\ Running(t) /\ local[t].pc = "call" /\ Return(t, << >>)
        /\ UNCHANGED <<program, sched, groups, raised, now>>
    BY <1>4, BeginsCall DEF GiveOnce, GiveNothing
  <2>. QED  BY <1>1, <2>1, CalmResults, PlainReturn DEF Calm, Asks, Eases
<1>. QED  BY <1>2, <1>3, <1>4

LEMMA ReceiveSteps ==
    ASSUME QueueInv, LabelsFit, HoldersAreTasks, SchedInv, timers' = timers, NEW t \in Tasks,
           ReceiveNow(t) \/ PeekNow(t) \/ TakeNow(t) \/ TakeAgain(t)
    PROVE  Kept
<1>1. Plain("call")
  BY DEF Plain, LockLabels
<1>2. CASE ReceiveNow(t) \/ PeekNow(t)
  <2>1. /\ Calls(t, Receives) /\ (sched' = ReceiveWakes(sched, Object(t)) \/ sched' = PeekWakes(sched, Object(t)))
        /\ \E v : Return(t, [received |-> v])
        /\ UNCHANGED <<program, groups, raised, now>>
    BY <1>2 DEF ReceiveNow, PeekNow, Receives, Calls
  <2>2. Running(t) /\ local[t].pc = "call" /\ Using(t, Blocking \cup Gives \cup {"daemon"})
    BY <2>1, BeginsCall DEF Receives, Using, Blocking
  <2>3. Eases
    BY <2>1, <2>2, ObjectOf, QueuesEase
  <2>. QED  BY <1>1, <2>1, <2>2, <2>3, CalmResults, PlainReturn DEF Calm, Asks
<1>3. CASE TakeNow(t)
  <2>1. /\ Calls(t, Takes) /\ sched' = TakeWakes(sched, Object(t), Queue(t))
        /\ \E v : Return(t, [owns |-> v])
        /\ UNCHANGED <<program, groups, raised, now>>
    BY <1>3 DEF TakeNow
  <2>2. Running(t) /\ local[t].pc = "call" /\ Using(t, Blocking \cup Gives \cup {"daemon"})
    BY <2>1, BeginsCall DEF Takes, Using, Blocking
  <2>3. Eases
    BY <2>1, <2>2, ObjectOf, QueuesEase
  <2>. QED  BY <1>1, <2>1, <2>2, <2>3, CalmResults, PlainReturn DEF Calm, Asks
<1>4. CASE TakeAgain(t)
  <2>1. /\ Running(t) /\ local[t].pc = "call" /\ Return(t, << >>)
        /\ UNCHANGED <<program, sched, groups, raised, now>>
    BY <1>4, BeginsCall DEF TakeAgain
  <2>. QED  BY <1>1, <2>1, CalmResults, PlainReturn DEF Calm, Asks, Eases
<1>. QED  BY <1>2, <1>3, <1>4

\* The steps around the wait.
LEMMA RefuseSteps ==
    ASSUME QueueInv, LabelsFit, HoldersAreTasks, SchedInv, timers' = timers, NEW t \in Tasks,
           Refuse(t) \/ GoWait(t) \/ CheckStill(t) \/ GiveUp(t) \/ DisinheritAfterTimeout(t)
    PROVE  Kept
<1>1. Plain("call") /\ Plain("lock") /\ Plain("expired") /\ Plain("disinherit")
  BY DEF Plain, LockLabels
<1>2. CASE Refuse(t)
  <2>1. /\ Running(t) /\ local[t].pc = "call" /\ Return(t, << >>)
        /\ UNCHANGED <<program, groups, raised, now>>
        /\ sched' = IF local[t].inherited THEN Fail(sched, "no inheritance") ELSE sched
    BY <1>2, BeginsCall DEF Refuse
  <2>2. sched' = sched \/ sched' = Fail(sched, "no inheritance")
    BY <2>1
  <2>3. Eases
    BY <2>2, FreeEase DEF Eases
  <2>. QED  BY <1>1, <2>1, <2>3, CalmResults, PlainReturn DEF Calm, Asks
<1>3. CASE GoWait(t)
  <2>1. Running(t) /\ local[t].pc = "call" /\ UNCHANGED <<program, sched, groups, raised, now>>
    BY <1>3, BeginsCall DEF GoWait
  <2>2. \E changes : Goto(t, changes) /\ "at" \notin DOMAIN changes /\ "pc" \in DOMAIN changes /\ changes.pc = "lock"
    BY <1>3 DEF GoWait
  <2>. QED  BY <1>1, <2>1, <2>2, PlainGoto DEF Asks, Eases
<1>4. CASE CheckStill(t)
  <2>1. Running(t) /\ local[t].pc = "check" /\ UNCHANGED <<program, sched, groups, raised, now>>
    BY <1>4 DEF CheckStill, At
  <2>2. Goto(t, [pc |-> "place"]) \/ Goto(t, [pc |-> "unlockTx"])
    BY <1>4 DEF CheckStill
  <2>. QED  BY <2>1, <2>2, LockedGoto DEF Eases, LockLabels
<1>5. CASE GiveUp(t)
  <2>1. Running(t) /\ local[t].pc = "expired" /\ UNCHANGED <<program, sched, groups, raised, now>>
    BY <1>5 DEF GiveUp, At
  <2>2. Goto(t, [pc |-> "call"]) \/ Goto(t, [pc |-> "disinherit"]) \/ Return(t, << >>)
    BY <1>5 DEF GiveUp
  <2>3. CASE Return(t, << >>)
    BY <1>1, <2>1, <2>3, CalmResults, PlainReturn DEF Calm, Asks, Eases
  <2>. QED  BY <1>1, <2>1, <2>2, <2>3, PlainGoto DEF Asks, Eases
<1>6. CASE DisinheritAfterTimeout(t)
  <2>1. /\ Running(t) /\ local[t].pc = "disinherit" /\ UNCHANGED <<program, groups, raised, now>>
        /\ sched' = PriorityDisinheritAfterTimeout(sched, Queue(t).holder, HighestWaiting(sched, Object(t)))
        /\ Return(t, << >>)
    BY <1>6 DEF DisinheritAfterTimeout, At
  <2>2. Using(t, Blocking \cup Gives \cup {"daemon"})
    BY <2>1 DEF LabelsFit, Fits, Using
  <2>3. Object(t) \in Objects /\ Queue(t).holder \in Tasks \cup {None} /\ Well(sched)
    BY <2>2, ObjectOf DEF SchedInv
  <2>4. HighestWaiting(sched, Object(t)) \in Priorities
    BY <2>3, HighestIsPriority
  <2>a. PICK h, p, r : h = Queue(t).holder /\ p = HighestWaiting(sched, Object(t)) /\ r = sched'
    OBVIOUS
  <2>5. h \in Tasks \cup {None} /\ p \in Priorities /\ r = PriorityDisinheritAfterTimeout(sched, h, p)
    BY <2>a, <2>1, <2>3, <2>4
  <2>6. Well(r) /\ Gently(sched, r, {})
    BY <2>3, <2>5, DisinheritedLate
  <2>7. Eases
    BY <2>a, <2>6 DEF Eases
  <2>. QED  BY <1>1, <2>1, <2>7, CalmResults, PlainReturn DEF Calm, Asks
<1>. QED  BY <1>2, <1>3, <1>4, <1>5, <1>6

LEMMA UnlockSteps ==
    ASSUME QueueInv, LabelsFit, HoldersAreTasks, SchedInv, timers' = timers, NEW t \in Tasks,
           UnlockTx(t) \/ UnlockRx(t)
    PROVE  Kept
<1>1. local[t].pc \in {"unlockTx", "unlockRx"} /\ Running(t) /\ UNCHANGED <<program, groups, raised, now>>
  BY DEF UnlockTx, UnlockRx, At
<1>2. Using(t, Blocking \cup Gives \cup {"daemon"})
  BY <1>1 DEF LabelsFit, Fits, Using
<1>3. Object(t) \in Objects /\ Queue(t).holder \in Tasks \cup {None}
  BY <1>2, ObjectOf
<1>4. Eases
  BY <1>3, QueuesEase DEF UnlockTx, UnlockRx
<1>5. Goto(t, [pc |-> "unlockRx"]) \/ Goto(t, [pc |-> "resume"])
  BY DEF UnlockTx, UnlockRx
<1>. QED  BY <1>1, <1>4, <1>5, LockedGoto DEF LockLabels

\* The running task puts itself where it sleeps, or changes what is its own.
LEMMA LeavesStep ==
    ASSUME QueueInv, LabelsFit, SchedInv, NEW t \in Tasks, Running(t), t # Idle, now' = now,
           OthersStay(t), timers' = timers \/ Using(t, {"daemon"}), Well(sched'),
           sched'.current = sched.current,
           Ticks(sched') = Ticks(sched),
           \A u \in Tasks : u # t => Spares(sched, sched', {}, u),
           sched'.suspended = IF Locks(local[t].pc)' THEN 1 ELSE 0,
           Stops(t)', WaitsOnly(t)', GroupsShrink,
           \A g \in Groups : Lacks(sched', t, groups'[g].bits, g)
    PROVE  Kept
<1>0. LocksStay(t) /\ sched'.current = t
  BY LocksOfOthers DEF Running
<1>1. InReady(sched', Idle)
  <2>1. Spares(sched, sched', {}, Idle)
    BY KernelAssumption
  <2>. QED  BY <2>1 DEF SchedInv, Spares
<1>2. BitsAreMissing'
  <2>1. ASSUME NEW g \in Groups, NEW u \in Tasks, u # t PROVE Lacks(sched', u, groups'[g].bits, g)
    <3>1. Lacks(sched, u, groups[g].bits, g) /\ Spares(sched, sched', {}, u)
      BY <2>1 DEF SchedInv, BitsAreMissing
    <3>2. groups'[g].bits \subseteq groups[g].bits
      BY DEF GroupsShrink
    <3>. QED  BY <3>1, <3>2, LacksStill
  <2>. QED  BY <2>1 DEF BitsAreMissing, GroupsShrink
<1>3. {} \in SUBSET Tasks
  OBVIOUS
<1>. QED  BY <1>0, <1>1, <1>2, <1>3, StepKeeps

\* A step of the running task after another.
LEMMA LeavesThen ==
    ASSUME NEW s, NEW q, NEW r, NEW t, Spared(s, q, {}), Ticks(q) = Ticks(s), Leaves(q, r, t)
    PROVE  /\ r.current = s.current /\ Ticks(r) = Ticks(s) /\ r.suspended = q.suspended
           /\ s.switchPending => r.switchPending
           /\ \A u \in Tasks : u # t => Spares(s, r, {}, u)
<1>1. r.current = s.current /\ Ticks(r) = Ticks(s) /\ r.suspended = q.suspended
      /\ (s.switchPending => r.switchPending)
  BY DEF Spared, Leaves, Steady
<1>2. ASSUME NEW u \in Tasks, u # t PROVE Spares(s, r, {}, u)
  <2>1. Spares(s, q, {}, u) /\ Spares(q, r, {}, u)
    BY <1>2 DEF Spared, Leaves
  <2>2. InEvents(r, u) => InEvents(q, u)
    BY <2>1 DEF Spares, InEvents
  <2>. QED  BY <2>1, <2>2 DEF Spares
<1>. QED  BY <1>1, <1>2

\* A task that begins to keep the scheduler suspended.
LEMMA Suspends ==
    ASSUME SchedInv, NEW t \in Tasks, Running(t), ~ Locks(local[t].pc), NEW q, q = SuspendAll(sched)
    PROVE  /\ Well(q) /\ Spared(sched, q, {}) /\ Ticks(q) = Ticks(sched) /\ q.suspended = 1
           /\ q.notifyState = sched.notifyState /\ q.eventBits = sched.eventBits
           /\ q.waiting = sched.waiting /\ q.current = t /\ Awake(q, t)
<1>0. Well(sched)
  BY DEF SchedInv
<1>1. sched.suspended = 0 /\ Awake(sched, t)
  BY LocksOnce, IsAwake DEF Locks, Dozes, LockLabels
<1>2. /\ Well(q) /\ Spared(sched, q, {}) /\ Ticks(q) = Ticks(sched) /\ q.suspended = sched.suspended + 1
      /\ \A u \in Tasks : SamePlaces(sched, q, u)
      /\ q.notifyState = sched.notifyState /\ q.eventBits = sched.eventBits
      /\ q.waiting = sched.waiting /\ q.current = sched.current
  BY <1>0, AllSuspended
<1>3. Awake(q, t)
  BY <1>1, <1>2 DEF Awake, SamePlaces
<1>. QED  BY <1>1, <1>2, <1>3 DEF Running

\* Not the notifications: what a call does between suspending the scheduler and resuming it.
LEMMA SuspendStep ==
    ASSUME QueueInv, LabelsFit, SchedInv, NEW t \in Tasks, Running(t), now' = now, OthersStay(t),
           timers' = timers \/ Using(t, {"daemon"}), GroupsShrink,
           NEW q, q = SuspendAll(sched), Well(q) => Well(sched') /\ Gently(q, sched', {}),
           local[t].pc \notin {"waited", "notified"}, ~ Locks(local[t].pc), Locks(local[t].pc)'
    PROVE  Kept
<1>1. /\ Well(q) /\ Spared(sched, q, {}) /\ Ticks(q) = Ticks(sched) /\ q.suspended = 1
  BY Suspends
<1>2. Well(sched') /\ Gently(q, sched', {})
  BY <1>1
<1>3. Spared(q, sched', {}) /\ Ticks(sched') = Ticks(sched) /\ sched'.suspended = 1
  BY <1>1, <1>2, GentlySpared DEF Gently, Steady
<1>4. Spared(sched, sched', {})
  BY <1>1, <1>3, SparedTwice
<1>5. {} \in SUBSET Tasks /\ LocksStay(t) /\ ~ Dozes(t)
  BY LocksOfOthers DEF Dozes, Locks, LockLabels
<1>. QED  BY <1>2, <1>3, <1>4, <1>5, SparedStep

\* The end of the calls that keep the scheduler suspended.
LEMMA ResumeStep ==
    ASSUME QueueInv, LabelsFit, SchedInv, NEW t \in Tasks, Running(t), now' = now, OthersStay(t),
           timers' = timers \/ Using(t, {"daemon"}), groups' = groups,
           sched' = ResumeAll(sched) \/ sched' = Yield(ResumeAll(sched)),
           Dozes(t) => sched' = Yield(ResumeAll(sched)),
           local[t].pc \in LockLabels, ~ Locks(local[t].pc)'
    PROVE  Kept
<1>a. PICK q, r : q = ResumeAll(sched) /\ r = Yield(q)
  OBVIOUS
<1>1. Well(sched) /\ sched.suspended = 1
  BY LocksOnce DEF SchedInv, Locks
<1>2. Well(q) /\ Spared(sched, q, {}) /\ Ticks(q) = Ticks(sched) /\ q.suspended = 0
  BY <1>a, <1>1, AllResumed
<1>3. Well(r) /\ Gently(q, r, {}) /\ r.switchPending
  BY <1>a, <1>2, FreeChanges
<1>4. Spared(q, r, {}) /\ Ticks(r) = Ticks(sched) /\ r.suspended = 0
  BY <1>2, <1>3, GentlySpared DEF Gently, Steady
<1>5. Spared(sched, r, {})
  BY <1>2, <1>4, SparedTwice
<1>6. sched' = q \/ sched' = r
  BY <1>a
<1>7. /\ Well(sched') /\ Spared(sched, sched', {}) /\ Ticks(sched') = Ticks(sched)
      /\ sched'.suspended = 0
  BY <1>2, <1>3, <1>4, <1>5, <1>6
<1>8. Dozes(t) => sched'.switchPending
  BY <1>a, <1>3
<1>9. {} \in SUBSET Tasks /\ LocksStay(t) /\ GroupsShrink /\ local[t].pc \notin {"waited", "notified"}
  BY LocksOfOthers, GroupsSame DEF LockLabels
<1>. QED  BY <1>7, <1>8, <1>9, SparedStep

LEMMA LockStep ==
    ASSUME QueueInv, LabelsFit, SchedInv, timers' = timers, NEW t \in Tasks, LockAndCheck(t)
    PROVE  Kept
<1>a. PICK q : q = SuspendAll(sched)
  OBVIOUS
<1>1. /\ Running(t) /\ local[t].pc = "lock" /\ sched' = ClearAborted(q)
      /\ UNCHANGED <<program, groups, raised, now>>
  BY <1>a DEF LockAndCheck, At
<1>2. PICK changes : /\ Goto(t, changes) /\ "at" \notin DOMAIN changes /\ "pc" \in DOMAIN changes
                     /\ changes.pc \in {"unlockTx", "check"}
  BY DEF LockAndCheck
<1>3. OthersStay(t) /\ local'[t].pc \in {"unlockTx", "check"}
  BY <1>1, <1>2, GoesTo
<1>4. Locks(local[t].pc)' /\ ~ Locks(local[t].pc) /\ local[t].pc \notin {"waited", "notified"} /\ GroupsShrink
  BY <1>1, <1>3, GroupsSame DEF Locks, LockLabels
<1>5. ASSUME Well(q) PROVE Well(sched') /\ Gently(q, sched', {})
  <2>a. PICK r : r = sched'
    OBVIOUS
  <2>1. r = ClearAborted(q)
    BY <2>a, <1>1
  <2>2. Well(r) /\ Gently(q, r, {})
    BY <1>5, <2>1, FreeChanges
  <2>. QED  BY <2>a, <2>2
<1>. QED  BY <1>a, <1>1, <1>3, <1>4, <1>5, SuspendStep

\* The running task has put itself into the lists of L and sleeps.
LEMMA SleepBits ==
    ASSUME QueueInv, LabelsFit, SchedInv, NEW t \in Tasks, Running(t), t # Idle, now' = now,
           OthersStay(t), timers' = timers \/ Using(t, {"daemon"}),
           NEW q, Spared(sched, q, {}), Ticks(q) = Ticks(sched), q.suspended = 1,
           q.notifyState[t] = "waiting" => sched.notifyState[t] = "waiting",
           NEW L, Sleeps1(q, sched', t, L), sched'.notifyState = q.notifyState,
           local[t].pc \notin {"waited", "notified"}, Locks(local[t].pc)', Dozes(t)',
           BitsAreMissing'
    PROVE  Kept
<1>1. Well(sched') /\ Leaves(q, sched', t)
  BY DEF Sleeps1
<1>a. PICK r : r = sched'
  OBVIOUS
<1>2. Spared(sched, q, {}) /\ Ticks(q) = Ticks(sched) /\ Leaves(q, r, t)
  BY <1>a, <1>1
<1>b. /\ r.current = sched.current /\ Ticks(r) = Ticks(sched) /\ r.suspended = q.suspended
      /\ \A u \in Tasks : u # t => Spares(sched, r, {}, u)
  BY <1>2, LeavesThen
<1>3. /\ sched'.current = sched.current /\ Ticks(sched') = Ticks(sched) /\ sched'.suspended = q.suspended
      /\ \A u \in Tasks : u # t => Spares(sched, sched', {}, u)
  BY <1>a, <1>b
<1>4. WaitsOnly(t)'
  BY DEF SchedInv, WaitsRightly, WaitsOnly
<1>5. sched'.suspended = IF Locks(local[t].pc)' THEN 1 ELSE 0
  BY <1>3
<1>6. Stops(t)' /\ LocksStay(t) /\ sched'.current = t
  BY <1>3, LocksOfOthers DEF Stops, Running
<1>7. InReady(sched', Idle) /\ {} \in SUBSET Tasks
  <2>1. Spares(sched, sched', {}, Idle)
    BY <1>3, KernelAssumption
  <2>. QED  BY <2>1 DEF SchedInv, Spares
<1>. QED  BY <1>1, <1>3, <1>4, <1>5, <1>6, <1>7, StepKeeps

\* What the others lack does not change when no group gets more bits.
LEMMA BitsOfSleeper ==
    ASSUME SchedInv, NEW t \in Tasks, NEW q, Spared(sched, q, {}), NEW L, Sleeps1(q, sched', t, L),
           GroupsShrink,
           \A g \in Groups : WaitingForBits(g) \in L => Lacks(sched', t, groups'[g].bits, g)
    PROVE  BitsAreMissing'
<1>1. ASSUME NEW g \in Groups, NEW u \in Tasks PROVE Lacks(sched', u, groups'[g].bits, g)
  <2>1. CASE u = t
    BY <2>1, BitsListed DEF Lacks, Sleeps1
  <2>2. CASE u # t
    <3>1. Lacks(sched, u, groups[g].bits, g) /\ Spares(sched, q, {}, u) /\ Spares(q, sched', {}, u)
      BY <2>2 DEF SchedInv, BitsAreMissing, Spared, Sleeps1, Leaves
    <3>2. groups'[g].bits \subseteq groups[g].bits
      BY DEF GroupsShrink
    <3>3. Lacks(q, u, groups'[g].bits, g)
      BY <3>1, <3>2, LacksStill
    <3>. QED  BY <3>1, <3>3, LacksStill
  <2>. QED  BY <2>1, <2>2
<1>. QED  BY <1>1 DEF BitsAreMissing, GroupsShrink

LEMMA SleepStep ==
    ASSUME QueueInv, LabelsFit, SchedInv, NEW t \in Tasks, Running(t), t # Idle, now' = now,
           OthersStay(t), timers' = timers \/ Using(t, {"daemon"}), GroupsShrink,
           NEW q, Spared(sched, q, {}), Ticks(q) = Ticks(sched), q.suspended = 1,
           q.notifyState[t] = "waiting" => sched.notifyState[t] = "waiting",
           NEW L, Sleeps1(q, sched', t, L), sched'.notifyState = q.notifyState,
           local[t].pc \notin {"waited", "notified"}, Locks(local[t].pc)', Dozes(t)',
           \A g \in Groups : WaitingForBits(g) \in L => Lacks(sched', t, groups'[g].bits, g)
    PROVE  Kept
BY SleepBits, BitsOfSleeper

LEMMA PlaceStep ==
    ASSUME QueueInv, LabelsFit, HoldersAreTasks, SchedInv, timers' = timers, NEW t \in Tasks, Place(t)
    PROVE  Kept
<1>1. /\ Running(t) /\ local[t].pc = "place" /\ UNCHANGED <<program, groups, raised, now>>
      /\ Call(t).op \in Blocking
  BY DEF Place, At
<1>2. Using(t, Blocking \cup Gives \cup {"daemon"})
  BY <1>1 DEF LabelsFit, Fits, Using
<1>3. Object(t) \in Objects /\ Queue(t).holder \in Tasks \cup {None} /\ t # Idle
  BY <1>2, ObjectOf, CallsLawfully DEF Using
<1>4. WaitList(t) \in EventLists /\ \A g \in Groups : WaitingForBits(g) # WaitList(t)
  BY <1>3, ListAssumption, BitsListed DEF WaitList
<1>a. PICK list, ticks, h, L : list = WaitList(t) /\ ticks = local[t].timeout.ticks /\ h = Queue(t).holder
                            /\ L = {WaitList(t)}
  OBVIOUS
<1>b. PICK q, p : q \in {sched, p} /\ p = PriorityInherit(sched, h) /\ sched' = PlaceOnEventList(q, list, ticks)
  <2>. DEFINE lends == Call(t).op \in Takes /\ IsMutex(Queue(t))
  <2>1. sched' = PlaceOnEventList(IF lends THEN PriorityInherit(sched, h) ELSE sched, list, ticks)
    BY <1>a DEF Place
  <2>. HIDE DEF lends
  <2>. QED  BY <2>1
<1>5. Awake(sched, t) /\ ~ Dozes(t)
  BY <1>1, IsAwake DEF Dozes
<1>6. Well(sched) /\ sched.current \in Tasks /\ h \in Tasks \cup {None}
  BY <1>a, <1>3 DEF SchedInv
<1>7. Well(p) /\ Gently(sched, p, {})
  BY <1>b, <1>6, PriorityInherited
<1>8. Well(q) /\ Gently(sched, q, {})
  BY <1>b, <1>6, <1>7, GentlySame
<1>9. Awake(q, t) /\ Spared(sched, q, {}) /\ Ticks(q) = Ticks(sched) /\ q.suspended = sched.suspended
      /\ (q.notifyState[t] = "waiting" => sched.notifyState[t] = "waiting")
  BY <1>5, <1>8, GentlySpared DEF Awake, Gently, Steady, Spares
<1>10. sched.suspended = 1
  BY <1>1, LocksOnce DEF Locks, LockLabels
<1>c. PICK r : r = sched'
  OBVIOUS
<1>11. Sleeps1(q, r, t, {list}) /\ r.notifyState = q.notifyState
  BY <1>a, <1>b, <1>c, <1>4, <1>9, PlacedOnEventList
<1>12. PICK changes : /\ Goto(t, changes) /\ "at" \notin DOMAIN changes /\ {"pc", "placed"} \subseteq DOMAIN changes
                      /\ changes.pc = "unlockTx" /\ changes.placed = TRUE
  BY DEF Place
<1>13. OthersStay(t) /\ local'[t].pc = "unlockTx" /\ local'[t].placed
  BY <1>1, <1>12, GoesTo
<1>14. Locks(local[t].pc)' /\ Dozes(t)' /\ GroupsShrink /\ local[t].pc \notin {"waited", "notified"}
  BY <1>1, <1>13, GroupsSame DEF Locks, LockLabels, Dozes
<1>15. Sleeps1(q, sched', t, L) /\ sched'.notifyState = q.notifyState
       /\ \A g \in Groups : WaitingForBits(g) \notin L
  BY <1>a, <1>c, <1>4, <1>11
<1>16. q.suspended = 1
  BY <1>9, <1>10
<1>. QED  BY <1>1, <1>3, <1>9, <1>13, <1>14, <1>15, <1>16, SleepStep

LEMMA ResumeQueueStep ==
    ASSUME QueueInv, LabelsFit, SchedInv, timers' = timers, NEW t \in Tasks, Resume(t)
    PROVE  Kept
<1>1. /\ Running(t) /\ local[t].pc = "resume" /\ UNCHANGED <<program, groups, raised, now>>
      /\ Call(t).op \in Blocking /\ ResumeScheduler(t)
  BY DEF Resume, At
<1>2. sched' = ResumeAll(sched) \/ sched' = Yield(ResumeAll(sched))
  BY <1>1 DEF ResumeScheduler
<1>3. Dozes(t) => sched' = Yield(ResumeAll(sched))
  <2>1. Call(t).op # "daemon"
    BY <1>1 DEF Blocking, Sends, Receives, Takes
  <2>. QED  BY <1>1, <2>1 DEF ResumeScheduler, Dozes, Using
<1>4. \/ Return(t, << >>)
      \/ \E changes : /\ Goto(t, changes) /\ "at" \notin DOMAIN changes /\ "pc" \in DOMAIN changes
                      /\ changes.pc \in {"expired", "call"}
  BY DEF Resume
<1>5. OthersStay(t) /\ local'[t].pc \in {"expired", "call"}
  BY <1>1, <1>4, GoesTo, ComesBack, CalmResults DEF Calm
<1>6. ~ Locks(local[t].pc)' /\ local[t].pc \in LockLabels
  BY <1>1, <1>5 DEF Locks, LockLabels
<1>. QED  BY <1>1, <1>2, <1>3, <1>5, <1>6, ResumeStep

LEMMA QueueStepsKeep ==
    ASSUME QueueInv, LabelsFit, HoldersAreTasks, SchedInv, timers' = timers, NEW t \in Tasks, QueueStep(t)
    PROVE  Kept
BY SendSteps, ReceiveSteps, RefuseSteps, UnlockSteps, LockStep, PlaceStep, ResumeQueueStep DEF QueueStep

(***************************************************************************)
(* The other calls of the kernel.                                          *)
(***************************************************************************)

LEMMA SetToShrinks ==
    ASSUME SchedInv, NEW t, NEW new, new \subseteq Bits(t), SetTo(t, new)
    PROVE  GroupsShrink
BY DEF SchedInv, BitsAreMissing, GroupsShrink, SetTo, Bits

\* A task changes what is its own, or begins to wait for a notification.
LEMMA RunsStep ==
    ASSUME QueueInv, LabelsFit, SchedInv, NEW t \in Tasks, Running(t), t # Idle, now' = now,
           OthersStay(t), timers' = timers, Runs(sched, sched', t), GroupsShrink,
           ~ Locks(local[t].pc), ~ Locks(local[t].pc)',
           sched'.notifyState[t] = "waiting" => local'[t].pc \in {"waited", "notified"}
    PROVE  Kept
<1>1. /\ Well(sched') /\ Leaves(sched, sched', t) /\ ~ InEvents(sched', t)
      /\ InReady(sched', t) \/ sched'.switchPending
  BY DEF Runs
<1>2. /\ sched'.current = sched.current /\ Ticks(sched') = Ticks(sched)
      /\ sched'.suspended = sched.suspended
      /\ \A u \in Tasks : u # t => Spares(sched, sched', {}, u)
  BY <1>1 DEF Leaves, Steady
<1>3. sched'.suspended = 0
  BY <1>2, LocksOnce
<1>4. sched'.suspended = IF Locks(local[t].pc)' THEN 1 ELSE 0
  BY <1>3
<1>5. Stops(t)' /\ WaitsOnly(t)'
  BY <1>1, <1>3 DEF Stops, WaitsOnly
<1>6. \A g \in Groups : Lacks(sched', t, groups'[g].bits, g)
  BY <1>1, LacksNothing
<1>. QED  BY <1>1, <1>2, <1>4, <1>5, <1>6, LeavesStep

LEMMA DelaySteps ==
    ASSUME QueueInv, LabelsFit, SchedInv, timers' = timers, NEW t \in Tasks,
           Delay(t) \/ DelayNothing(t) \/ DelayUntil(t) \/ ReturnFromDelay(t)
    PROVE  Kept
<1>0. Plain("call") /\ Plain("woken") /\ ~ Locks("call")
  BY DEF Plain, LockLabels, Locks
<1>a. PICK q, r, L : q = SuspendAll(sched) /\ r = sched' /\ L = {}
  OBVIOUS
<1>1. CASE DelayNothing(t)
  <2>1. /\ Running(t) /\ local[t].pc = "call" /\ Return(t, << >>) /\ sched' = Yield(sched)
        /\ UNCHANGED <<program, groups, raised, now>>
    BY <1>1, BeginsCall DEF DelayNothing
  <2>2. Eases
    BY <2>1, FreeEase
  <2>. QED  BY <1>0, <2>1, <2>2, CalmResults, PlainReturn DEF Calm, Asks
<1>2. CASE ReturnFromDelay(t)
  <2>1. /\ Running(t) /\ local[t].pc = "woken" /\ Return(t, << >>)
        /\ UNCHANGED <<program, sched, groups, raised, now>>
    BY <1>2 DEF ReturnFromDelay, At
  <2>. QED  BY <1>0, <2>1, CalmResults, PlainReturn DEF Calm, Asks, Eases
<1>3. ASSUME Running(t), local[t].pc = "call", t # Idle, UNCHANGED <<program, groups, now>>,
             NEW ticks, sched' = AddCurrentTaskToDelayedList(SuspendAll(sched), ticks, FALSE),
             NEW changes, Goto(t, changes), "at" \notin DOMAIN changes,
             {"pc", "placed"} \subseteq DOMAIN changes, changes.pc = "resume", changes.placed = TRUE
      PROVE  Kept
  <2>1. OthersStay(t) /\ local'[t].pc = "resume" /\ local'[t].placed
    BY <1>3, GoesTo
  <2>2. /\ Spared(sched, q, {}) /\ Ticks(q) = Ticks(sched) /\ q.suspended = 1
        /\ q.notifyState = sched.notifyState /\ Awake(q, t)
    BY <1>0, <1>a, <1>3, Suspends
  <2>b. PICK forever : forever = FALSE
    OBVIOUS
  <2>3. r = AddCurrentTaskToDelayedList(q, ticks, forever)
    BY <1>a, <1>3, <2>b
  <2>4. Sleeps1(q, r, t, {}) /\ r.notifyState = q.notifyState
    BY <2>2, <2>3, Delayed
  <2>5. Sleeps1(q, sched', t, L) /\ sched'.notifyState = q.notifyState
        /\ \A g \in Groups : WaitingForBits(g) \notin L
    BY <1>a, <2>4
  <2>6. Locks(local[t].pc)' /\ Dozes(t)' /\ GroupsShrink
    BY <1>3, <2>1, GroupsSame DEF Locks, LockLabels, Dozes
  <2>7. q.notifyState[t] = "waiting" => sched.notifyState[t] = "waiting"
    BY <2>2
  <2>. QED  BY <1>3, <2>1, <2>2, <2>5, <2>6, <2>7, SleepStep
<1>4. CASE Delay(t)
  <2>1. /\ Running(t) /\ local[t].pc = "call" /\ t # Idle /\ UNCHANGED <<program, groups, now>>
        /\ sched' = AddCurrentTaskToDelayedList(SuspendAll(sched), Asked(t), FALSE)
    BY <1>4, BeginsCall DEF Delay
  <2>2. PICK changes : /\ Goto(t, changes) /\ "at" \notin DOMAIN changes
                       /\ {"pc", "placed"} \subseteq DOMAIN changes
                       /\ changes.pc = "resume" /\ changes.placed = TRUE
    BY <1>4 DEF Delay
  <2>. QED  BY <1>3, <2>1, <2>2
<1>5. CASE DelayUntil(t)
  <2>. DEFINE wake == NextWake(local[t].lastWake, Call(t).wait)
              delays == StillToCome(sched, local[t].lastWake, wake)
  <2>1. /\ Running(t) /\ local[t].pc = "call" /\ t # Idle /\ UNCHANGED <<program, groups, now>>
        /\ sched' = IF delays THEN AddCurrentTaskToDelayedList(SuspendAll(sched), TicksTo(sched, wake), FALSE)
                    ELSE SuspendAll(sched)
    BY <1>5, BeginsCall DEF DelayUntil
  <2>2. PICK changes : /\ Goto(t, changes) /\ "at" \notin DOMAIN changes
                       /\ {"pc", "placed"} \subseteq DOMAIN changes
                       /\ changes.pc = "resume" /\ changes.placed = delays
    BY <1>5 DEF DelayUntil
  <2>. HIDE DEF delays
  <2>3. CASE delays
    <3>1. changes.placed = TRUE
      BY <2>2, <2>3 DEF delays, StillToCome
    <3>. QED  BY <1>3, <2>1, <2>2, <2>3, <3>1
  <2>4. CASE ~ delays
    <3>1. sched' = q
      BY <1>a, <2>1, <2>4
    <3>2. OthersStay(t) /\ local'[t].pc = "resume"
      BY <2>1, <2>2, GoesTo
    <3>3. Locks(local[t].pc)' /\ ~ Locks(local[t].pc) /\ GroupsShrink
      BY <1>0, <2>1, <3>2, GroupsSame DEF Locks, LockLabels
    <3>4. Well(q) => Well(sched') /\ Gently(q, sched', {})
      BY <3>1, GentlySame
    <3>5. local[t].pc \notin {"waited", "notified"}
      BY <2>1
    <3>. QED  BY <1>a, <2>1, <3>2, <3>3, <3>4, <3>5, SuspendStep
  <2>. QED  BY <2>3, <2>4
<1>. QED  BY <1>1, <1>2, <1>4, <1>5

LEMMA NotificationSteps ==
    ASSUME QueueInv, LabelsFit, SchedInv, timers' = timers, NEW t \in Tasks,
           WaitForNotification(t) \/ NotifyTaken(t)
    PROVE  Kept
<1>a. PICK r : r = sched'
  OBVIOUS
<1>1. CASE WaitForNotification(t)
  <2>1. /\ Running(t) /\ local[t].pc = "call" /\ t # Idle /\ UNCHANGED <<program, groups, now>>
        /\ r = NotifyTakeWait(sched, Asked(t))
    BY <1>a, <1>1, BeginsCall DEF WaitForNotification
  <2>2. PICK changes : /\ Goto(t, changes) /\ "at" \notin DOMAIN changes
                       /\ "pc" \in DOMAIN changes /\ changes.pc = "notified"
    BY <1>1 DEF WaitForNotification
  <2>3. OthersStay(t) /\ local'[t].pc = "notified"
    BY <2>1, <2>2, GoesTo
  <2>4. Awake(sched, t)
    BY <2>1, IsAwake DEF Dozes
  <2>5. Runs(sched, r, t)
    BY <2>1, <2>4, WaitsForNotification
  <2>6. Runs(sched, sched', t) /\ GroupsShrink /\ ~ Locks(local[t].pc) /\ ~ Locks(local[t].pc)'
    BY <1>a, <2>1, <2>3, <2>5, GroupsSame DEF Locks, LockLabels
  <2>. QED  BY <2>1, <2>3, <2>6, RunsStep
<1>2. CASE NotifyTaken(t)
  <2>1. /\ Running(t) /\ local[t].pc = "notified" /\ UNCHANGED <<program, groups, now>>
        /\ r = NotifyTake(sched, Call(t).clear) /\ Return(t, << >>)
    BY <1>a, <1>2 DEF NotifyTaken, At
  <2>2. OthersStay(t) /\ local'[t].pc = "call"
    BY <2>1, ComesBack, CalmResults DEF Calm
  <2>3. Awake(sched, t) /\ t # Idle
    BY <2>1, IsAwake DEF Dozes, LabelsFit, Fits
  <2>4. Runs(sched, r, t) /\ r.notifyState[t] = "none"
    BY <2>1, <2>3, OwnChanges
  <2>5. /\ Runs(sched, sched', t) /\ GroupsShrink /\ ~ Locks(local[t].pc) /\ ~ Locks(local[t].pc)'
        /\ sched'.notifyState[t] # "waiting"
    BY <1>a, <2>1, <2>2, <2>4, GroupsSame DEF Locks, LockLabels
  <2>. QED  BY <2>1, <2>2, <2>3, <2>5, RunsStep
<1>. QED  BY <1>1, <1>2

(***************************************************************************)
(* Event groups.                                                           *)
(***************************************************************************)

\* xEventGroupSetBits releases every task it should.
LEMMA BitsReleased ==
    ASSUME SchedInv, NEW q, Well(q), q.waiting = sched.waiting, q.eventBits = sched.eventBits,
           NEW g \in Groups, NEW bits, NEW r, r = SetBitsWakes(q, g, bits)
    PROVE  /\ Well(r) /\ Gently(q, r, {})
           /\ \A u \in Tasks : Lacks(r, u, bits, g)
           /\ \A h \in Groups : \A u \in Tasks : Lacks(r, u, groups[h].bits, h)
<1>a. PICK list, those : list = WaitingForBits(g) /\ those = Released(q, g, bits)
  OBVIOUS
<1>1. list \in EventLists /\ those \subseteq Range(q.waiting[list]) /\ r = Release(q, list, those, bits)
  BY <1>a, BitsListed DEF Released, SetBitsWakes
<1>2. Well(r) /\ Gently(q, r, {}) /\ \A u \in those : u \notin Range(r.waiting[list])
  BY <1>1, ReleasedThose
<1>3. \A u \in Tasks : Spares(q, r, {}, u)
  BY <1>2 DEF Gently
<1>4. ASSUME NEW u \in Tasks, u \in Range(r.waiting[list])
      PROVE  ~ Satisfied(bits, r.eventBits[u])
  <2>1. u \notin those /\ u \in Range(q.waiting[list]) /\ InEvents(r, u)
    BY <1>1, <1>2, <1>3, <1>4 DEF Spares, InEvents
  <2>2. r.eventBits[u] = q.eventBits[u]
    BY <1>3, <2>1 DEF Spares
  <2>3. ~ Satisfied(bits, q.eventBits[u])
    BY <1>a, <2>1 DEF Released
  <2>. QED  BY <2>2, <2>3
<1>5. ASSUME NEW h \in Groups, NEW u \in Tasks PROVE Lacks(r, u, groups[h].bits, h)
  <2>1. Lacks(sched, u, groups[h].bits, h)
    BY DEF SchedInv, BitsAreMissing
  <2>2. Lacks(q, u, groups[h].bits, h)
    BY <2>1 DEF Lacks
  <2>. QED  BY <1>3, <2>2, LacksStill
<1>. QED  BY <1>a, <1>2, <1>4, <1>5 DEF Lacks

\* The bits of one group change, to some that no waiting task lacks.
LEMMA LacksAfterSet ==
    ASSUME SchedInv, NEW r, NEW g \in Groups, NEW bits, NEW new, new \subseteq bits,
           \A u \in Tasks : Lacks(r, u, bits, g),
           \A h \in Groups : \A u \in Tasks : Lacks(r, u, groups[h].bits, h),
           groups' = [groups EXCEPT ![g].bits = new]
    PROVE  /\ DOMAIN groups' = Groups /\ \A h \in Groups : "bits" \in DOMAIN groups'[h]
           /\ groups'[g].bits = new
           /\ \A h \in Groups : \A u \in Tasks : Lacks(r, u, groups'[h].bits, h)
<1>1. /\ DOMAIN groups' = Groups /\ \A h \in Groups : "bits" \in DOMAIN groups'[h]
      /\ groups'[g].bits = new /\ \A h \in Groups \ {g} : groups'[h].bits = groups[h].bits
  BY DEF SchedInv, BitsAreMissing
<1>2. ASSUME NEW u \in Tasks PROVE Lacks(r, u, new, g)
  <2>1. Lacks(r, u, bits, g)
    OBVIOUS
  <2>. QED  BY <2>1, FewerBits DEF Lacks
<1>. QED  BY <1>1, <1>2

\* The part of a call that waits for bits, with the scheduler suspended.
LEMMA WaitForBitsStep ==
    ASSUME QueueInv, LabelsFit, SchedInv, timers' = timers, NEW t \in Tasks, Running(t), t # Idle,
           local[t].pc = "call", program' = program, now' = now, Object(t) \in Groups,
           NEW q, Awake(q, t), Spared(sched, q, {}), Ticks(q) = Ticks(sched), q.suspended = 1,
           NEW wanted, WaitForBits(t, q, wanted),
           DOMAIN groups' = Groups, \A h \in Groups : "bits" \in DOMAIN groups'[h],
           \A h \in Groups : \A u \in Tasks : Lacks(q, u, groups'[h].bits, h),
           ~ Satisfied(groups'[Object(t)].bits, wanted)
    PROVE  Kept
<1>0. ~ Locks("call") /\ Locks("resume") /\ ~ Dozes(t)
  BY DEF Locks, LockLabels, Dozes
<1>1. q.notifyState[t] = "waiting" => sched.notifyState[t] = "waiting"
  BY DEF Spared, Spares
<1>2. CASE Call(t).wait = 0
  <2>1. sched' = q /\ Goto(t, [pc |-> "resume"])
    BY <1>2 DEF WaitForBits
  <2>2. PICK changes : Goto(t, changes) /\ "at" \notin DOMAIN changes /\ "pc" \in DOMAIN changes /\ changes.pc = "resume"
    BY <2>1
  <2>3. OthersStay(t) /\ local'[t].pc = "resume"
    BY <2>2, GoesTo
  <2>4. LocksStay(t) /\ {} \in SUBSET Tasks
    BY <2>3, LocksOfOthers
  <2>5. Locks(local[t].pc)'
    BY <2>3 DEF Locks, LockLabels
  <2>6. BitsAreMissing'
    BY <2>1 DEF BitsAreMissing
  <2>7. /\ Well(sched') /\ Ticks(sched') = Ticks(sched) /\ Spared(sched, sched', {})
        /\ sched'.suspended = IF Locks(local[t].pc)' THEN 1 ELSE 0
    BY <2>1, <2>5 DEF Awake
  <2>. QED  BY <1>0, <2>3, <2>4, <2>6, <2>7, SparedBits
<1>3. CASE Call(t).wait # 0
  <2>a. PICK list, ticks, r, L : list = WaitingForBits(Object(t)) /\ ticks = Call(t).wait /\ r = sched'
                                 /\ L = {WaitingForBits(Object(t))}
    OBVIOUS
  <2>1. sched' = PlaceOnUnorderedEventList(q, list, wanted, ticks)
    BY <1>3, <2>a DEF WaitForBits
  <2>2. PICK changes : /\ Goto(t, changes) /\ "at" \notin DOMAIN changes
                       /\ {"pc", "placed"} \subseteq DOMAIN changes
                       /\ changes.pc = "resume" /\ changes.placed = TRUE
    BY <1>3 DEF WaitForBits
  <2>3. OthersStay(t) /\ local'[t].pc = "resume" /\ local'[t].placed
    BY <2>2, GoesTo
  <2>4. list \in EventLists
    BY <2>a, BitsListed
  <2>5. Sleeps1(q, r, t, {list}) /\ r.eventBits[t] = wanted /\ r.notifyState = q.notifyState
    BY <2>a, <2>1, <2>4, PlacedOnUnorderedEventList
  <2>6. Sleeps1(q, sched', t, L) /\ sched'.eventBits[t] = wanted /\ sched'.notifyState = q.notifyState
    BY <2>a, <2>5
  <2>7. ASSUME NEW h \in Groups, NEW u \in Tasks PROVE Lacks(sched', u, groups'[h].bits, h)
    <3>1. CASE u # t
      <4>1. Spares(q, sched', {}, u)
        BY <2>6, <3>1 DEF Sleeps1, Leaves
      <4>2. Lacks(q, u, groups'[h].bits, h)
        OBVIOUS
      <4>. QED  BY <4>1, <4>2, LacksStill
    <3>2. CASE u = t
      <4>1. t \in Range(sched'.waiting[WaitingForBits(h)]) => WaitingForBits(h) \in L
        BY <2>6, BitsListed DEF Sleeps1
      <4>2. WaitingForBits(h) \in L => h = Object(t)
        BY <2>a DEF WaitingForBits
      <4>. QED  BY <2>6, <3>2, <4>1, <4>2 DEF Lacks
    <3>. QED  BY <3>1, <3>2
  <2>8. BitsAreMissing'
    BY <2>7 DEF BitsAreMissing
  <2>9. Locks(local[t].pc)' /\ Dozes(t)'
    BY <2>3 DEF Locks, LockLabels, Dozes
  <2>. QED  BY <1>1, <2>3, <2>6, <2>8, <2>9, SleepBits
<1>. QED  BY <1>2, <1>3

\* A call that suspends the scheduler begins.
LEMMA GroupCallBegins ==
    ASSUME QueueInv, SchedInv, NEW t \in Tasks, NEW operations, operations \subseteq GroupCalls, Calls(t, operations)
    PROVE  /\ Running(t) /\ t # Idle /\ local[t].pc = "call" /\ ~ Locks(local[t].pc) /\ Object(t) \in Groups
           /\ HasCall(t) /\ Call(t).op \in operations
<1>1. operations \cap {"compose", "readClock", "convert"} = {}
  BY DEF GroupCalls
<1>2. /\ Running(t) /\ t # Idle /\ local[t].pc = "call" /\ HasCall(t) /\ Using(t, operations)
  BY <1>1, BeginsCall
<1>3. Legal(Call(t), program.queues)
  BY <1>2, CallsLawfully
<1>. QED  BY <1>2, <1>3 DEF Legal, Using, Object, Locks, LockLabels

LEMMA WaitBitsStep ==
    ASSUME QueueInv, LabelsFit, SchedInv, timers' = timers, NEW t \in Tasks, WaitBits(t)
    PROVE  Kept
<1>a. PICK q, wanted : q = SuspendAll(sched) /\ wanted = Wanted(t)
  OBVIOUS
<1>0. /\ Calls(t, {"waitBits"}) /\ UNCHANGED <<program, queues, raised, now>>
      /\ IF Satisfied(Bits(t), wanted)
           THEN /\ SetTo(t, IF Call(t).clear THEN Bits(t) \ Call(t).bits ELSE Bits(t))
                /\ sched' = q
                /\ Goto(t, [pc |-> "resume"])
           ELSE WaitForBits(t, q, wanted) /\ UNCHANGED groups
  BY <1>a DEF WaitBits
<1>1. Running(t) /\ t # Idle /\ local[t].pc = "call" /\ ~ Locks(local[t].pc) /\ Object(t) \in Groups
  BY <1>0, GroupCallBegins DEF GroupCalls
<1>2. CASE Satisfied(Bits(t), wanted)
  <2>1. PICK new : new \subseteq Bits(t) /\ SetTo(t, new)
    BY <1>0, <1>2
  <2>2. GroupsShrink
    BY <2>1, SetToShrinks
  <2>3. PICK changes : Goto(t, changes) /\ "at" \notin DOMAIN changes /\ "pc" \in DOMAIN changes /\ changes.pc = "resume"
    BY <1>0, <1>2
  <2>4. OthersStay(t) /\ local'[t].pc = "resume"
    BY <1>0, <2>3, GoesTo
  <2>5. Locks(local[t].pc)' /\ local[t].pc \notin {"waited", "notified"}
    BY <1>1, <2>4 DEF Locks, LockLabels
  <2>6. Well(q) => Well(sched') /\ Gently(q, sched', {})
    BY <1>0, <1>2, GentlySame
  <2>. QED  BY <1>a, <1>0, <1>1, <2>2, <2>4, <2>5, <2>6, SuspendStep
<1>3. CASE ~ Satisfied(Bits(t), wanted)
  <2>1. WaitForBits(t, q, wanted) /\ groups' = groups
    BY <1>0, <1>3
  <2>2. /\ Well(q) /\ Spared(sched, q, {}) /\ Ticks(q) = Ticks(sched) /\ q.suspended = 1
        /\ q.eventBits = sched.eventBits /\ q.waiting = sched.waiting /\ Awake(q, t)
    BY <1>a, <1>1, Suspends
  <2>3. /\ DOMAIN groups' = Groups /\ \A h \in Groups : "bits" \in DOMAIN groups'[h]
        /\ \A h \in Groups : \A u \in Tasks : Lacks(q, u, groups'[h].bits, h)
    BY <2>1, <2>2 DEF SchedInv, BitsAreMissing, Lacks
  <2>4. ~ Satisfied(groups'[Object(t)].bits, wanted)
    BY <1>3, <2>1 DEF Bits
  <2>. QED  BY <1>0, <1>1, <2>1, <2>2, <2>3, <2>4, WaitForBitsStep
<1>. QED  BY <1>2, <1>3

\* Setting bits: the step of SetBits, and of SyncBits by the last to come.
LEMMA SetsBits ==
    ASSUME QueueInv, LabelsFit, SchedInv, timers' = timers, NEW t \in Tasks, Running(t),
           local[t].pc = "call", program' = program, now' = now, Object(t) \in Groups,
           NEW q, q = SuspendAll(sched), NEW bits, NEW r, r = SetBitsWakes(q, Object(t), bits),
           sched' = r, NEW new, new \subseteq bits, SetTo(t, new),
           Goto(t, [pc |-> "resume"])
    PROVE  Kept
<1>0. ~ Locks(local[t].pc) /\ ~ Dozes(t) /\ local[t].pc \notin {"waited", "notified"}
  BY DEF Locks, LockLabels, Dozes
<1>1. /\ Well(q) /\ Spared(sched, q, {}) /\ Ticks(q) = Ticks(sched) /\ q.suspended = 1
      /\ q.eventBits = sched.eventBits /\ q.waiting = sched.waiting
  BY <1>0, Suspends
<1>2. /\ Well(r) /\ Gently(q, r, {})
      /\ \A u \in Tasks : Lacks(r, u, bits, Object(t))
      /\ \A h \in Groups : \A u \in Tasks : Lacks(r, u, groups[h].bits, h)
  BY <1>1, BitsReleased
<1>3. Spared(q, r, {}) /\ Ticks(r) = Ticks(sched) /\ r.suspended = 1
  BY <1>1, <1>2, GentlySpared DEF Gently, Steady
<1>4. Spared(sched, r, {})
  BY <1>1, <1>3, SparedTwice
<1>5. groups' = [groups EXCEPT ![Object(t)].bits = new]
  BY DEF SetTo
<1>6. /\ DOMAIN groups' = Groups /\ \A h \in Groups : "bits" \in DOMAIN groups'[h]
      /\ \A h \in Groups : \A u \in Tasks : Lacks(r, u, groups'[h].bits, h)
  BY <1>2, <1>5, LacksAfterSet
<1>7. BitsAreMissing'
  BY <1>6 DEF BitsAreMissing
<1>8. PICK changes : Goto(t, changes) /\ "at" \notin DOMAIN changes /\ "pc" \in DOMAIN changes /\ changes.pc = "resume"
  OBVIOUS
<1>9. OthersStay(t) /\ local'[t].pc = "resume"
  BY <1>8, GoesTo
<1>10. LocksStay(t) /\ {} \in SUBSET Tasks
  BY <1>9, LocksOfOthers
<1>11. Locks(local[t].pc)'
  BY <1>9 DEF Locks, LockLabels
<1>12. /\ Well(sched') /\ Ticks(sched') = Ticks(sched) /\ Spared(sched, sched', {})
       /\ sched'.suspended = IF Locks(local[t].pc)' THEN 1 ELSE 0
  BY <1>2, <1>3, <1>4, <1>11
<1>. QED  BY <1>0, <1>7, <1>9, <1>10, <1>12, SparedBits

LEMMA SetBitsSteps ==
    ASSUME QueueInv, LabelsFit, SchedInv, timers' = timers, NEW t \in Tasks, SetBits(t) \/ SyncBits(t)
    PROVE  Kept
<1>a. PICK q : q = SuspendAll(sched)
  OBVIOUS
<1>1. CASE SetBits(t)
  <2>1. Calls(t, {"setBits"}) /\ UNCHANGED <<program, queues, raised, now>> /\ Goto(t, [pc |-> "resume"])
    BY <1>1 DEF SetBits
  <2>2. Running(t) /\ local[t].pc = "call" /\ Object(t) \in Groups
    BY <2>1, GroupCallBegins DEF GroupCalls
  <2>b. PICK bits : bits = Bits(t) \cup Call(t).bits
    OBVIOUS
  <2>3. PICK r, new : /\ r = SetBitsWakes(q, Object(t), bits) /\ sched' = r
                      /\ new \subseteq bits /\ SetTo(t, new)
    BY <1>a, <1>1, <2>b DEF SetBits
  <2>. QED  BY <1>a, <2>1, <2>2, <2>3, SetsBits
<1>2. CASE SyncBits(t)
  <2>b. PICK bits, all, r, left :
           /\ bits = Bits(t) \cup Call(t).sets /\ all = WaitedFor(Call(t).bits, TRUE, TRUE)
           /\ r = SetBitsWakes(q, Object(t), bits) /\ left = bits \ ClearedBySet(q, Object(t), bits)
    OBVIOUS
  <2>1. /\ Calls(t, {"sync"}) /\ UNCHANGED <<program, queues, raised, now>>
        /\ IF Call(t).bits \subseteq bits
           THEN SetTo(t, left \ Call(t).bits) /\ sched' = r /\ Goto(t, [pc |-> "resume"])
           ELSE SetTo(t, left) /\ WaitForBits(t, r, all)
    BY <1>a, <1>2, <2>b DEF SyncBits
  <2>2. /\ Running(t) /\ t # Idle /\ local[t].pc = "call" /\ ~ Locks(local[t].pc)
        /\ Object(t) \in Groups
    BY <2>1, GroupCallBegins DEF GroupCalls
  <2>3. left \subseteq bits /\ left \ Call(t).bits \subseteq bits
    BY <2>b
  <2>4. CASE Call(t).bits \subseteq bits
    <3>1. PICK new : new \subseteq bits /\ SetTo(t, new)
      BY <2>1, <2>3, <2>4
    <3>2. sched' = r /\ Goto(t, [pc |-> "resume"])
      BY <2>1, <2>4
    <3>. QED  BY <1>a, <2>b, <2>1, <2>2, <3>1, <3>2, SetsBits
  <2>5. CASE ~ (Call(t).bits \subseteq bits)
    <3>1. /\ Well(q) /\ Spared(sched, q, {}) /\ Ticks(q) = Ticks(sched) /\ q.suspended = 1
          /\ q.eventBits = sched.eventBits /\ q.waiting = sched.waiting /\ Awake(q, t)
      BY <1>a, <2>2, Suspends
    <3>2. /\ Well(r) /\ Gently(q, r, {})
          /\ \A u \in Tasks : Lacks(r, u, bits, Object(t))
          /\ \A h \in Groups : \A u \in Tasks : Lacks(r, u, groups[h].bits, h)
      BY <2>b, <2>2, <3>1, BitsReleased
    <3>3. Spared(q, r, {}) /\ Ticks(r) = Ticks(sched) /\ r.suspended = 1
      BY <3>1, <3>2, GentlySpared DEF Gently, Steady
    <3>4. Spared(sched, r, {})
      BY <3>1, <3>3, SparedTwice
    <3>5. Awake(r, t)
      BY <3>1, <3>2 DEF Awake, Gently, Steady, Spares
    <3>6. groups' = [groups EXCEPT ![Object(t)].bits = left]
      BY <2>1, <2>5 DEF SetTo
    <3>7. /\ DOMAIN groups' = Groups /\ \A h \in Groups : "bits" \in DOMAIN groups'[h]
          /\ groups'[Object(t)].bits = left
          /\ \A h \in Groups : \A u \in Tasks : Lacks(r, u, groups'[h].bits, h)
      BY <2>2, <2>3, <3>2, <3>6, LacksAfterSet
    <3>8. ~ Satisfied(groups'[Object(t)].bits, all)
      BY <2>b, <2>3, <2>5, <3>7 DEF Satisfied, WaitedFor
    <3>9. WaitForBits(t, r, all)
      BY <2>1, <2>5
    <3>. QED  BY <2>1, <2>2, <3>3, <3>4, <3>5, <3>7, <3>8, <3>9, WaitForBitsStep
  <2>. QED  BY <2>4, <2>5
<1>. QED  BY <1>1, <1>2

LEMMA BitsSteps ==
    ASSUME QueueInv, LabelsFit, SchedInv, timers' = timers, NEW t \in Tasks,
           BitsCame(t) \/ ReadBits(t) \/ ClearBits(t)
    PROVE  Kept
<1>a. PICK r : r = sched'
  OBVIOUS
<1>1. CASE BitsCame(t)
  <2>1. /\ Running(t) /\ local[t].pc = "bits" /\ UNCHANGED <<program, now>>
        /\ r = ResetEventItemValue(sched, t) /\ Return(t, << >>)
    BY <1>a, <1>1 DEF BitsCame, At
  <2>2. OthersStay(t) /\ local'[t].pc = "call"
    BY <2>1, ComesBack, CalmResults DEF Calm
  <2>3. Awake(sched, t) /\ t # Idle
    BY <2>1, IsAwake DEF Dozes, LabelsFit, Fits
  <2>4. Runs(sched, r, t) /\ r.notifyState = sched.notifyState
    BY <2>1, <2>3, OwnChanges
  <2>5. groups' = groups \/ \E new : new \subseteq Bits(t) /\ SetTo(t, new)
    BY <1>1 DEF BitsCame
  <2>6. GroupsShrink
    BY <2>5, GroupsSame, SetToShrinks
  <2>7. sched.notifyState[t] # "waiting"
    BY <2>1 DEF SchedInv, WaitsRightly
  <2>8. /\ Runs(sched, sched', t) /\ ~ Locks(local[t].pc) /\ ~ Locks(local[t].pc)'
        /\ sched'.notifyState[t] # "waiting"
    BY <1>a, <2>1, <2>2, <2>4, <2>7 DEF Locks, LockLabels
  <2>. QED  BY <2>1, <2>2, <2>3, <2>6, <2>8, RunsStep
<1>2. CASE ReadBits(t)
  <2>1. /\ Running(t) /\ local[t].pc = "readBits" /\ Return(t, << >>)
        /\ UNCHANGED <<program, sched, groups, raised, now>>
    BY <1>2 DEF ReadBits, At
  <2>2. Plain("readBits") /\ Eases /\ Asks(t)
    BY <2>1 DEF Plain, LockLabels, Eases, Asks
  <2>. QED  BY <2>1, <2>2, CalmResults, PlainReturn DEF Calm
<1>3. CASE ClearBits(t)
  <2>1. /\ Calls(t, {"clearBits"}) /\ SetTo(t, Bits(t) \ Call(t).bits) /\ Return(t, << >>)
        /\ UNCHANGED <<program, sched, queues, raised, now>>
    BY <1>3 DEF ClearBits
  <2>2. Running(t) /\ local[t].pc = "call" /\ ~ Locks(local[t].pc)
    BY <2>1, GroupCallBegins DEF GroupCalls
  <2>3. OthersStay(t) /\ local'[t].pc = "call"
    BY <2>1, ComesBack, CalmResults DEF Calm
  <2>4. PICK new : new \subseteq Bits(t) /\ SetTo(t, new)
    BY <2>1
  <2>5. GroupsShrink
    BY <2>4, SetToShrinks
  <2>6. Eases
    BY <2>1 DEF Eases
  <2>7. Well(sched') /\ Gently(sched, sched', {}) /\ LocksStay(t) /\ {} \in SUBSET Tasks
    BY <2>3, <2>6, Eased, LocksOfOthers
  <2>8. (Locks(local[t].pc)' <=> Locks(local[t].pc)) /\ ~ Dozes(t) /\ local[t].pc \notin {"waited", "notified"}
    BY <2>2, <2>3 DEF Locks, LockLabels, Dozes
  <2>. QED  BY <2>1, <2>2, <2>3, <2>5, <2>7, <2>8, GentleStep
<1>. QED  BY <1>1, <1>2, <1>3

LEMMA DeleteGroupStep ==
    ASSUME QueueInv, LabelsFit, SchedInv, timers' = timers, NEW t \in Tasks, DeleteGroup(t)
    PROVE  Kept
<1>a. PICK q, r, list, those, bits :
         q = SuspendAll(sched) /\ r = sched' /\ list = WaitingForBits(Object(t))
         /\ those = Range(q.waiting[WaitingForBits(Object(t))]) /\ bits = {}
  OBVIOUS
<1>1. /\ Calls(t, {"deleteGroup"}) /\ r = Release(q, list, those, bits)
      /\ groups' = [groups EXCEPT ![Object(t)] = [bits |-> {}, exists |-> FALSE]]
      /\ UNCHANGED <<program, queues, raised, now>>
  BY <1>a DEF DeleteGroup, DeleteGroupWakes, Drop
<1>2. Running(t) /\ t # Idle /\ local[t].pc = "call" /\ ~ Locks(local[t].pc) /\ Object(t) \in Groups
  BY <1>1, GroupCallBegins DEF GroupCalls
<1>3. list \in EventLists /\ those \subseteq Range(q.waiting[list])
  BY <1>a, <1>2, BitsListed
<1>4. Well(q) => Well(sched') /\ Gently(q, sched', {})
  BY <1>a, <1>1, <1>3, ReleasedThose
<1>5. GroupsShrink
  BY <1>1, <1>2 DEF SchedInv, BitsAreMissing, GroupsShrink
<1>6. PICK changes : Goto(t, changes) /\ "at" \notin DOMAIN changes /\ "pc" \in DOMAIN changes /\ changes.pc = "resume"
  BY DEF DeleteGroup
<1>7. OthersStay(t) /\ local'[t].pc = "resume"
  BY <1>1, <1>6, GoesTo
<1>8. Locks(local[t].pc)' /\ local[t].pc \notin {"waited", "notified"}
  BY <1>2, <1>7 DEF Locks, LockLabels
<1>. QED  BY <1>a, <1>1, <1>2, <1>4, <1>5, <1>7, <1>8, SuspendStep

LEMMA ResumeOtherStep ==
    ASSUME QueueInv, LabelsFit, SchedInv, timers' = timers, NEW t \in Tasks, ResumeOther(t)
    PROVE  Kept
<1>1. /\ Running(t) /\ local[t].pc = "resume" /\ UNCHANGED <<program, groups, raised, now>>
      /\ Call(t).op # "daemon" /\ ResumeScheduler(t)
  BY DEF ResumeOther, At
<1>2. sched' = ResumeAll(sched) \/ sched' = Yield(ResumeAll(sched))
  BY <1>1 DEF ResumeScheduler
<1>3. Dozes(t) => sched' = Yield(ResumeAll(sched))
  BY <1>1 DEF ResumeScheduler, Dozes, Using
<1>4. \/ Return(t, << >>)
      \/ \E changes : /\ Goto(t, changes) /\ "at" \notin DOMAIN changes /\ "pc" \in DOMAIN changes
                      /\ changes.pc \in {"readBits", "woken", "bits"}
  <2>1. \/ Goto(t, [pc |-> "readBits"]) \/ Goto(t, [pc |-> "woken"]) \/ Goto(t, [pc |-> "bits"])
        \/ Return(t, << >>)
    BY DEF ResumeOther
  <2>. QED  BY <2>1
<1>5. OthersStay(t) /\ local'[t].pc \in {"readBits", "woken", "bits", "call"}
  BY <1>1, <1>4, GoesTo, ComesBack, CalmResults DEF Calm
<1>6. ~ Locks(local[t].pc)' /\ local[t].pc \in LockLabels
  BY <1>1, <1>5 DEF Locks, LockLabels
<1>. QED  BY <1>1, <1>2, <1>3, <1>5, <1>6, ResumeStep

(***************************************************************************)
(* Calls about tasks.                                                      *)
(***************************************************************************)

\* A call about a task begins.
LEMMA TaskCallBegins ==
    ASSUME QueueInv, SchedInv, NEW t \in Tasks, NEW operations, operations \subseteq TaskCalls \cup {"yield"},
           Calls(t, operations)
    PROVE  /\ Running(t) /\ t # Idle /\ local[t].pc = "call" /\ ~ Locks(local[t].pc)
           /\ Plain(local[t].pc) /\ Asks(t) /\ ~ Dozes(t)
           /\ HasCall(t) /\ Call(t).op \in operations
           /\ Call(t).op \in TaskCalls => Call(t).task \in Tasks
           /\ Call(t).op \in {"create", "setPriority"} => Call(t).priority \in Priorities
           /\ Call(t).op \in {"suspend", "delete"} => Call(t).task # Idle
<1>1. operations \cap {"compose", "readClock", "convert"} = {}
  BY DEF TaskCalls
<1>2. /\ Running(t) /\ t # Idle /\ local[t].pc = "call" /\ HasCall(t) /\ Using(t, operations)
  BY <1>1, BeginsCall
<1>3. Legal(Call(t), program.queues)
  BY <1>2, CallsLawfully
<1>4. /\ Call(t).op \in TaskCalls => Call(t).task \in Tasks
      /\ Call(t).op \in {"create", "setPriority"} => Call(t).priority \in Priorities
      /\ Call(t).op \in {"suspend", "delete"} => Call(t).task # Idle
  BY <1>3 DEF Legal
<1>. QED  BY <1>2, <1>4 DEF Using, Locks, LockLabels, Plain, Asks, Dozes

\* A task is created by one call, and suspended only after it.
LEMMA CreatesOnce ==
    ASSUME QueueInv, NEW t \in Tasks, HasCall(t), NEW x \in Tasks, Call(t).task = x,
           OthersStay(t), local'[t].at = local[t].at + 1
    PROVE  /\ Call(t).op = "create" => NotYet(x) /\ ~ NotYet(x)'
           /\ Call(t).op = "suspend" => ~ NotYet(x)' \/ x = t
<1>1. LegalTasks(program) /\ program' = program
  BY ProgramAssumption DEF QueueInv, OthersStay
<1>2. local[t].at \in 1 .. Len(program.script[t]) /\ local[t].at \in Nat
  BY CallsLawfully DEF QueueInv
<1>3. ASSUME Call(t).op = "create" PROVE NotYet(x) /\ ~ NotYet(x)'
  <2>1. LegalCreation(program, t, local[t].at)
    BY <1>1, <1>2, <1>3 DEF LegalTasks, Call
  <2>2. ASSUME NEW u \in Tasks, NEW i \in 1 .. Len(program.script[u]),
               program.script[u][i].op = "create", program.script[u][i].task = x
        PROVE  u = t /\ i = local[t].at
    BY <2>1, <2>2 DEF LegalCreation, Call
  <2>3. NotYet(x)
    BY <1>2, <1>3 DEF NotYet, Call
  <2>4. ASSUME NotYet(x)' PROVE FALSE
    <3>0. PICK u \in Tasks : \E i \in 1 .. Len(program.script[u]) :
             i >= local'[u].at /\ program.script[u][i].op = "create" /\ program.script[u][i].task = x
      BY <1>1, <2>4 DEF NotYet
    <3>1. PICK i \in 1 .. Len(program.script[u]) :
             i >= local'[u].at /\ program.script[u][i].op = "create" /\ program.script[u][i].task = x
      BY <3>0
    <3>2. u = t /\ i = local[t].at
      BY <2>2, <3>1
    <3>. QED  BY <1>2, <3>1, <3>2
  <2>. QED  BY <2>3, <2>4
<1>4. ASSUME Call(t).op = "suspend", NotYet(x)' PROVE x = t
  <2>0. PICK u \in Tasks : \E i \in 1 .. Len(program.script[u]) :
           i >= local'[u].at /\ program.script[u][i].op = "create" /\ program.script[u][i].task = x
    BY <1>1, <1>4 DEF NotYet
  <2>1. PICK i \in 1 .. Len(program.script[u]) :
           i >= local'[u].at /\ program.script[u][i].op = "create" /\ program.script[u][i].task = x
    BY <2>0
  <2>2. LegalCreation(program, u, i)
    BY <1>1, <2>1 DEF LegalTasks
  <2>3. t = x \/ (t = u /\ local[t].at > i)
    BY <1>2, <1>4, <2>1, <2>2 DEF LegalCreation, Call
  <2>. QED  BY <1>2, <2>1, <2>3
<1>. QED  BY <1>3, <1>4

\* The running task takes another one, or itself, out of its lists.
LEMMA OutsStep ==
    ASSUME QueueInv, LabelsFit, SchedInv, NEW t \in Tasks, Running(t), now' = now, OthersStay(t),
           timers' = timers, groups' = groups, local[t].pc = "call", ~ Locks(local[t].pc)',
           NEW x \in Tasks, x # Idle, Outs(sched, sched', x), NotYet(x)' => Unused(sched', x) /\ x # t
    PROVE  Kept
<1>1. /\ Well(sched') /\ Leaves(sched, sched', x) /\ ~ InEvents(sched', x)
      /\ x = t => sched'.switchPending
      /\ sched'.notifyState[x] = "waiting" => sched.notifyState[x] = "waiting"
      /\ sched.notifyState[x] = "received" => sched'.notifyState[x] = "received"
      /\ sched.current = t /\ Awake(sched, t)
  BY IsAwake DEF Outs, Running, Dozes
<1>2. /\ sched'.current = t /\ Ticks(sched') = Ticks(sched)
      /\ sched'.suspended = 0
      /\ \A u \in Tasks : u # x => Spares(sched, sched', {}, u)
  BY <1>1, LocksOnce DEF Leaves, Steady, Locks, LockLabels
<1>3. LocksStay(t) /\ GroupsShrink
  BY LocksOfOthers, GroupsSame
<1>4. OnlyOneLocks'
  BY <1>1, <1>2, <1>3 DEF SchedInv, OnlyOneLocks, LocksStay
<1>5. StopsInTime'
  <2>1. x # t => InReady(sched', t)
    BY <1>1, <1>2 DEF Spares, Awake
  <2>. QED  BY <1>1, <1>2, <2>1 DEF StopsInTime
<1>6. NewTasksAreNew'
  <2>1. SUFFICES ASSUME NEW u \in Tasks, NotYet(u)', u # x
                 PROVE  Unused(sched', u) /\ u # sched'.current
    BY <1>2 DEF NewTasksAreNew
  <2>2. NotYet(u)
    BY <2>1, NotYetBefore
  <2>3. Unused(sched, u) /\ u # t /\ Spares(sched, sched', {}, u)
    BY <1>1, <1>2, <2>1, <2>2 DEF SchedInv, NewTasksAreNew
  <2>. QED  BY <1>2, <2>3 DEF Spares
<1>7. WaitsRightly'
  <2>1. SUFFICES ASSUME NEW u \in Tasks, sched'.notifyState[u] = "waiting"
                 PROVE  local'[u].pc \in {"waited", "notified"} /\ ~ InEvents(sched', u)
    BY DEF WaitsRightly
  <2>2. sched.notifyState[u] = "waiting"
    BY <1>1, <1>2, <2>1 DEF Spares
  <2>3. local[u].pc \in {"waited", "notified"} /\ ~ InEvents(sched, u)
    BY <2>2 DEF SchedInv, WaitsRightly
  <2>4. u # t /\ local'[u] = local[u]
    BY <2>3 DEF OthersStay
  <2>5. ~ InEvents(sched', u)
    BY <1>1, <1>2, <2>3 DEF Spares, InEvents
  <2>. QED  BY <2>3, <2>4, <2>5
<1>8. BitsAreMissing'
  <2>1. ASSUME NEW g \in Groups, NEW u \in Tasks PROVE Lacks(sched', u, groups[g].bits, g)
    <3>1. CASE u = x
      BY <1>1, <3>1, LacksNothing
    <3>2. CASE u # x
      <4>1. Lacks(sched, u, groups[g].bits, g) /\ Spares(sched, sched', {}, u)
        BY <1>2, <3>2 DEF SchedInv, BitsAreMissing
      <4>. QED  BY <4>1, LacksStill
    <3>. QED  BY <3>1, <3>2
  <2>. QED  BY <2>1 DEF SchedInv, BitsAreMissing
<1>9. InReady(sched', Idle)
  BY <1>2, KernelAssumption DEF SchedInv, Spares
<1>10. \A u \in Tasks : Noted(u)
  BY <1>1, <1>2 DEF Noted, Spares
<1>. QED  BY <1>1, <1>2, <1>4, <1>5, <1>6, <1>7, <1>8, <1>9, <1>10 DEF SchedInv, Kept

LEMMA TaskCallStep ==
    ASSUME QueueInv, LabelsFit, SchedInv, timers' = timers, NEW t \in Tasks, TaskCall(t)
    PROVE  Kept
<1>a. PICK r, c, x, p : r = sched' /\ c = Call(t) /\ x = Call(t).task /\ p = Call(t).priority
  OBVIOUS
<1>1. /\ Calls(t, (TaskCalls \ {"abortDelay"}) \cup {"yield"})
      /\ sched' = OnTask(sched, Call(t)) /\ Return(t, << >>)
      /\ UNCHANGED <<program, groups, now>>
  BY DEF TaskCall
<1>2. /\ Running(t) /\ t # Idle /\ local[t].pc = "call" /\ ~ Locks(local[t].pc)
      /\ Plain(local[t].pc) /\ Asks(t) /\ ~ Dozes(t) /\ HasCall(t)
      /\ Call(t).op \in (TaskCalls \ {"abortDelay"}) \cup {"yield"}
      /\ Call(t).op \in TaskCalls => x \in Tasks
      /\ Call(t).op \in {"create", "setPriority"} => p \in Priorities
      /\ Call(t).op \in {"suspend", "delete"} => x # Idle
  BY <1>a, <1>1, TaskCallBegins
<1>3. OthersStay(t) /\ local'[t].pc = "call" /\ local'[t].at = local[t].at + 1
  BY <1>1, ComesBack, CalmResults DEF Calm
<1>4. Well(sched) /\ sched.current = t
  BY <1>2 DEF SchedInv, Running
<1>5. ~ Locks(local[t].pc)'
  BY <1>3 DEF Locks, LockLabels
<1>6. CASE Call(t).op \in {"resume", "setPriority", "notifyGive", "yield"}
  <2>1. ASSUME Call(t).op = "yield" PROVE Eases
    BY <1>1, <2>1, FreeEase DEF OnTask
  <2>2. ASSUME Call(t).op = "resume" PROVE Eases
    <3>1. r = ResumeTask(sched, x) /\ x \in Tasks
      BY <1>a, <1>1, <1>2, <2>2 DEF OnTask, TaskCalls
    <3>. QED  BY <1>a, <1>4, <3>1, ResumedTask DEF Eases
  <2>3. ASSUME Call(t).op = "setPriority" PROVE Eases
    <3>1. r = PrioritySet(sched, x, p) /\ x \in Tasks /\ p \in Priorities
      BY <1>a, <1>1, <1>2, <2>3 DEF OnTask, TaskCalls
    <3>. QED  BY <1>a, <1>4, <3>1, PriorityWasSet DEF Eases
  <2>4. ASSUME Call(t).op = "notifyGive" PROVE Eases
    <3>1. x \in Tasks
      BY <1>2, <2>4 DEF TaskCalls
    <3>2. PICK n : n = Counted(sched, x) /\ n \in {Counted(sched, x), Signalled(sched, x)}
      OBVIOUS
    <3>3. r = Notify(sched, x, n)
      BY <1>a, <1>1, <2>4, <3>2 DEF OnTask
    <3>4. sched.notifyState[x] = "waiting" => ~ InEvents(sched, x) /\ x # sched.current
      BY <1>2, <1>4, <3>1 DEF SchedInv, WaitsRightly
    <3>5. Well(r) /\ Gently(sched, r, {})
      BY <1>4, <3>1, <3>2, <3>3, <3>4, Notified
    <3>. QED  BY <1>a, <3>5 DEF Eases
  <2>5. Eases
    BY <1>6, <2>1, <2>2, <2>3, <2>4
  <2>. QED  BY <1>1, <1>2, <2>5, CalmResults, PlainReturn DEF Calm
<1>7. CASE Call(t).op = "create"
  <2>1. x \in Tasks /\ p \in Priorities
    BY <1>2, <1>7 DEF TaskCalls
  <2>2. NotYet(x) /\ ~ NotYet(x)'
    BY <1>a, <1>2, <1>3, <1>7, <2>1, CreatesOnce
  <2>3. Unused(sched, x)
    BY <2>1, <2>2 DEF SchedInv, NewTasksAreNew
  <2>4. PICK q, b, T : q = CreateTask(sched, x, p) /\ b = (sched.priority[sched.current] < p) /\ T = {x}
    OBVIOUS
  <2>5. r = YieldIf(q, b)
    BY <1>a, <1>1, <1>7, <2>4 DEF OnTask
  <2>6. Well(q) /\ Gently(sched, q, T) /\ q.notifyState = sched.notifyState
    BY <1>4, <2>1, <2>3, <2>4, CreatedTask
  <2>7. Well(r) /\ Gently(q, r, T)
    BY <2>5, <2>6, FreeChanges
  <2>8. Gently(sched, r, T)
    BY <2>6, <2>7, GentlyTwice
  <2>9. T \in SUBSET Tasks /\ (\A u \in T : ~ NotYet(u)') /\ LocksStay(t) /\ GroupsShrink
    BY <1>1, <1>3, <2>1, <2>2, <2>4, LocksOfOthers, GroupsSame
  <2>10. Well(sched') /\ Gently(sched, sched', T) /\ local[t].pc \notin {"waited", "notified"}
         /\ (Locks(local[t].pc)' <=> Locks(local[t].pc))
    BY <1>a, <1>2, <1>5, <2>7, <2>8
  <2>. QED  BY <1>1, <1>2, <1>3, <2>9, <2>10, GentleStep
<1>8. CASE Call(t).op \in {"suspend", "delete"}
  <2>1. x \in Tasks /\ x # Idle
    BY <1>2, <1>8 DEF TaskCalls
  <2>2. NotYet(x)' => x # t /\ Unused(sched, x)
    BY <1>3, <1>4, <2>1, NotYetBefore DEF SchedInv, NewTasksAreNew
  <2>3. CASE Call(t).op = "suspend"
    <3>1. r = SuspendTask(sched, x)
      BY <1>a, <1>1, <2>3 DEF OnTask
    <3>2. Outs(sched, sched', x)
      BY <1>a, <1>4, <2>1, <3>1, SuspendedTask
    <3>3. ~ NotYet(x)'
      BY <1>a, <1>2, <1>3, <2>1, <2>2, <2>3, CreatesOnce
    <3>. QED  BY <1>1, <1>2, <1>3, <1>5, <2>1, <3>2, <3>3, OutsStep
  <2>4. CASE Call(t).op = "delete"
    <3>1. r = DeleteTask(sched, x)
      BY <1>a, <1>1, <2>4 DEF OnTask
    <3>2. Outs(sched, sched', x) /\ (x # sched.current /\ Unused(sched, x) => Unused(sched', x))
      BY <1>a, <1>4, <2>1, <3>1, DeletedTask
    <3>3. NotYet(x)' => Unused(sched', x) /\ x # t
      BY <1>4, <2>2, <3>2
    <3>. QED  BY <1>1, <1>2, <1>3, <1>5, <2>1, <3>2, <3>3, OutsStep
  <2>. QED  BY <1>8, <2>3, <2>4
<1>. QED  BY <1>2, <1>6, <1>7, <1>8 DEF TaskCalls

LEMMA AbortDelayStep ==
    ASSUME QueueInv, LabelsFit, SchedInv, timers' = timers, NEW t \in Tasks, AbortDelayOf(t)
    PROVE  Kept
<1>a. PICK q, r, x : q = SuspendAll(sched) /\ r = sched' /\ x = Call(t).task
  OBVIOUS
<1>1. /\ Calls(t, {"abortDelay"}) /\ r = AbortDelay(q, x) /\ UNCHANGED <<program, groups, now>>
  BY <1>a DEF AbortDelayOf
<1>2. Running(t) /\ local[t].pc = "call" /\ ~ Locks(local[t].pc) /\ x \in Tasks
  BY <1>a, <1>1, TaskCallBegins DEF TaskCalls
<1>3. Well(q) => Well(sched') /\ Gently(q, sched', {})
  BY <1>a, <1>1, <1>2, DelayAborted
<1>4. PICK changes : Goto(t, changes) /\ "at" \notin DOMAIN changes /\ "pc" \in DOMAIN changes /\ changes.pc = "resume"
  BY DEF AbortDelayOf
<1>5. OthersStay(t) /\ local'[t].pc = "resume"
  BY <1>1, <1>4, GoesTo
<1>6. Locks(local[t].pc)' /\ local[t].pc \notin {"waited", "notified"} /\ GroupsShrink
  BY <1>1, <1>2, <1>5, GroupsSame DEF Locks, LockLabels
<1>. QED  BY <1>a, <1>1, <1>2, <1>3, <1>5, <1>6, SuspendStep

LEMMA ExitStep ==
    ASSUME QueueInv, LabelsFit, SchedInv, timers' = timers, NEW t \in Tasks, Exit(t)
    PROVE  Kept
<1>a. PICK r : r = sched'
  OBVIOUS
<1>1. /\ Running(t) /\ t # Idle /\ local[t].pc = "call" /\ r = DeleteTask(sched, t)
      /\ UNCHANGED <<program, groups, local, now>>
  BY <1>a DEF Exit
<1>2. Well(sched) /\ sched.current = t
  BY <1>1 DEF SchedInv, Running
<1>3. Outs(sched, sched', t)
  BY <1>a, <1>1, <1>2, DeletedTask
<1>4. OthersStay(t) /\ ~ Locks(local[t].pc)'
  BY <1>1 DEF OthersStay, QueueInv, Locks, LockLabels
<1>5. ~ NotYet(t)'
  BY <1>2, <1>4, NotYetBefore DEF SchedInv, NewTasksAreNew
<1>. QED  BY <1>1, <1>3, <1>4, <1>5, OutsStep

LEMMA OtherStepsKeep ==
    ASSUME QueueInv, LabelsFit, SchedInv, timers' = timers, NEW t \in Tasks, OtherStep(t)
    PROVE  Kept
BY DelaySteps, NotificationSteps, WaitBitsStep, SetBitsSteps, BitsSteps, DeleteGroupStep,
   ResumeOtherStep, TaskCallStep, AbortDelayStep, ExitStep DEF OtherStep

(***************************************************************************)
(* The delayed lists keep time.                                            *)
(***************************************************************************)

\* What is left of a list is in the order it was in.
Thinned(new, old) ==
    \A i, j \in DOMAIN new : i < j =>
        \E k, l \in DOMAIN old : k < l /\ old[k] = new[i] /\ old[l] = new[j]
Sorted(list, value) ==
    \A i, j \in DOMAIN list : i < j => value[list[i]] <= value[list[j]]

LEMMA ThinnedSorted ==
    ASSUME NEW old, NEW new, Thinned(new, old), NEW value, Sorted(old, value)
    PROVE  Sorted(new, value)
<1>1. SUFFICES ASSUME NEW i \in DOMAIN new, NEW j \in DOMAIN new, i < j
               PROVE  value[new[i]] <= value[new[j]]
  BY DEF Sorted
<1>2. PICK k \in DOMAIN old : \E l \in DOMAIN old : k < l /\ old[k] = new[i] /\ old[l] = new[j]
  BY <1>1 DEF Thinned
<1>. QED  BY <1>2 DEF Sorted

LEMMA ThinnedTwice ==
    ASSUME NEW a, NEW b, NEW c, Thinned(b, a), Thinned(c, b)
    PROVE  Thinned(c, a)
<1>1. SUFFICES ASSUME NEW i \in DOMAIN c, NEW j \in DOMAIN c, i < j
               PROVE  \E k, l \in DOMAIN a : k < l /\ a[k] = c[i] /\ a[l] = c[j]
  BY DEF Thinned
<1>2. PICK k \in DOMAIN b : \E l \in DOMAIN b : k < l /\ b[k] = c[i] /\ b[l] = c[j]
  BY <1>1 DEF Thinned
<1>3. PICK l \in DOMAIN b : k < l /\ b[k] = c[i] /\ b[l] = c[j]
  BY <1>2
<1>. QED  BY <1>3 DEF Thinned

LEMMA ThinnedSame ==
    ASSUME NEW a
    PROVE  Thinned(a, a)
BY DEF Thinned

\* uxListRemove keeps the order.
LEMMA RemovedThins ==
    ASSUME NEW S, NEW seq \in Lists(S), NEW x
    PROVE  Thinned(RemoveFirst(seq, x), seq)
<1>1. seq \in Seq(S) /\ Len(seq) \in Nat /\ DOMAIN seq = 1 .. Len(seq)
  BY DEF Lists
<1>2. CASE ~ \E i \in 1 .. Len(seq) : seq[i] = x
  <2>1. RemoveFirst(seq, x) = seq
    BY <1>2 DEF RemoveFirst
  <2>. QED  BY <2>1, ThinnedSame
<1>3. CASE \E i \in 1 .. Len(seq) : seq[i] = x
  <2>. DEFINE I == {i \in 1 .. Len(seq) : seq[i] = x}
  <2>1. I \subseteq Nat /\ I # {}
    BY <1>1, <1>3
  <2>2. Min(I) \in I
    BY <2>1, LeastOf
  <2>3. RemoveFirst(seq, x) = RemoveAt(seq, Min(I))
    BY <1>3 DEF RemoveFirst, SelectInSeq
  <2>. HIDE DEF I
  <2>4. PICK k : k = Min(I) /\ k \in 1 .. Len(seq)
    BY <2>2 DEF I
  <2>5. PICK r : r = RemoveAt(seq, k)
    OBVIOUS
  <2>6. /\ r \in Lists(S) /\ Len(r) = Len(seq) - 1
        /\ \A i \in 1 .. Len(seq) - 1 : r[i] = IF i < k THEN seq[i] ELSE seq[i + 1]
    BY <2>4, <2>5, WithoutOne
  <2>7. DOMAIN r = 1 .. Len(seq) - 1
    BY <1>1, <2>6 DEF Lists
  <2>8. ASSUME NEW i \in DOMAIN r, NEW j \in DOMAIN r, i < j
        PROVE  \E m, l \in DOMAIN seq : m < l /\ seq[m] = r[i] /\ seq[l] = r[j]
    <3>1. PICK m, l : m = (IF i < k THEN i ELSE i + 1) /\ l = (IF j < k THEN j ELSE j + 1)
      OBVIOUS
    <3>2. m \in DOMAIN seq /\ l \in DOMAIN seq /\ m < l
      BY <1>1, <2>4, <2>7, <2>8, <3>1
    <3>3. seq[m] = r[i] /\ seq[l] = r[j]
      BY <2>6, <2>7, <2>8, <3>1
    <3>. QED  BY <3>2, <3>3
  <2>. QED  BY <2>3, <2>4, <2>5, <2>8 DEF Thinned
<1>. QED  BY <1>2, <1>3

\* vListInsert keeps a list sorted.
LEMMA InsertedSorted ==
    ASSUME NEW S, NEW seq \in Lists(S), NEW x \in S, x \notin Range(seq),
           NEW value, \A y \in S : value[y] \in Int, Sorted(seq, value)
    PROVE  Sorted(ListInsert(seq, x, value), value)
<1>1. seq \in Seq(S) /\ Len(seq) \in Nat /\ DOMAIN seq = 1 .. Len(seq)
  BY DEF Lists
<1>2. \A i \in 1 .. Len(seq) : seq[i] \in S /\ value[seq[i]] \in Int
  BY <1>1, ElementOfSeq
<1>3. value[x] \in Int
  OBVIOUS
<1>. DEFINE larger == {i \in DOMAIN seq : value[seq[i]] > value[x]}
<1>4. CASE larger = {}
  <2>1. PICK r : r = Append(seq, x)
    OBVIOUS
  <2>2. ListInsert(seq, x, value) = r
    BY <1>4, <2>1 DEF ListInsert
  <2>3. /\ DOMAIN r = 1 .. Len(seq) + 1 /\ \A i \in 1 .. Len(seq) : r[i] = seq[i]
        /\ r[Len(seq) + 1] = x
    BY <1>1, <2>1, AppendProperties
  <2>4. \A i \in 1 .. Len(seq) : value[seq[i]] <= value[x]
    BY <1>1, <1>2, <1>3, <1>4
  <2>5. ASSUME NEW i \in DOMAIN r, NEW j \in DOMAIN r, i < j PROVE value[r[i]] <= value[r[j]]
    <3>1. i \in 1 .. Len(seq) /\ r[i] = seq[i]
      BY <1>1, <2>3, <2>5
    <3>2. CASE j = Len(seq) + 1
      BY <2>3, <2>4, <3>1, <3>2
    <3>3. CASE j \in 1 .. Len(seq)
      BY <1>1, <2>3, <2>5, <3>1, <3>3 DEF Sorted
    <3>. QED  BY <1>1, <2>3, <3>2, <3>3
  <2>. QED  BY <2>2, <2>5 DEF Sorted
<1>5. CASE larger # {}
  <2>1. ListInsert(seq, x, value) = InsertAt(seq, Min(larger), x)
    BY <1>5 DEF ListInsert
  <2>2. larger \subseteq Nat
    BY <1>1
  <2>3. Min(larger) \in larger /\ \A i \in larger : Min(larger) <= i
    BY <1>5, <2>2, LeastOf
  <2>4. PICK k : /\ k = Min(larger) /\ k \in 1 .. Len(seq) /\ value[seq[k]] > value[x]
                 /\ \A i \in 1 .. Len(seq) : value[seq[i]] > value[x] => k <= i
    BY <1>1, <2>3
  <2>. HIDE DEF larger
  <2>5. PICK r : r = InsertAt(seq, k, x)
    OBVIOUS
  <2>6. /\ r \in Lists(S) /\ Len(r) = Len(seq) + 1
        /\ \A i \in 1 .. Len(seq) + 1 :
              r[i] = IF i < k THEN seq[i] ELSE IF i = k THEN x ELSE seq[i - 1]
    BY <1>1, <2>4, <2>5, WithOneMore
  <2>7. DOMAIN r = 1 .. Len(seq) + 1
    BY <1>1, <2>6 DEF Lists
  <2>8. ASSUME NEW i \in 1 .. Len(seq), i < k PROVE value[seq[i]] <= value[x]
    BY <1>1, <1>2, <1>3, <2>4, <2>8
  <2>9. ASSUME NEW i \in 1 .. Len(seq), k <= i PROVE value[x] <= value[seq[i]]
    <3>1. i = k \/ value[seq[k]] <= value[seq[i]]
      BY <1>1, <2>4, <2>9 DEF Sorted
    <3>. QED  BY <1>2, <1>3, <2>4, <3>1
  <2>10. ASSUME NEW i \in DOMAIN r, NEW j \in DOMAIN r, i < j PROVE value[r[i]] <= value[r[j]]
    <3>0. i \in 1 .. Len(seq) + 1 /\ j \in 1 .. Len(seq) + 1 /\ Len(seq) \in Nat /\ k \in Nat
      BY <1>1, <2>4, <2>7
    <3>1. CASE j < k
      <4>1. r[i] = seq[i] /\ r[j] = seq[j] /\ i \in DOMAIN seq /\ j \in DOMAIN seq
        BY <1>1, <2>4, <2>6, <2>10, <3>0, <3>1
      <4>. QED  BY <2>10, <4>1 DEF Sorted
    <3>2. CASE j = k
      <4>1. r[i] = seq[i] /\ r[j] = x /\ i \in 1 .. Len(seq) /\ i < k
        BY <2>4, <2>6, <2>10, <3>0, <3>2
      <4>. QED  BY <2>8, <4>1
    <3>3. CASE j > k /\ i < k
      <4>1. r[i] = seq[i] /\ r[j] = seq[j - 1] /\ i \in DOMAIN seq /\ j - 1 \in DOMAIN seq
        BY <1>1, <2>4, <2>6, <3>0, <3>3
      <4>2. i < j - 1
        BY <3>0, <3>3
      <4>. QED  BY <4>1, <4>2 DEF Sorted
    <3>4. CASE j > k /\ i = k
      <4>1. r[i] = x /\ r[j] = seq[j - 1] /\ j - 1 \in 1 .. Len(seq) /\ k <= j - 1
        BY <2>4, <2>6, <3>0, <3>4
      <4>. QED  BY <2>9, <4>1
    <3>5. CASE j > k /\ i > k
      <4>1. r[i] = seq[i - 1] /\ r[j] = seq[j - 1] /\ i - 1 \in DOMAIN seq /\ j - 1 \in DOMAIN seq
        BY <1>1, <2>4, <2>6, <3>0, <3>5
      <4>2. i - 1 < j - 1
        BY <2>10, <3>0
      <4>. QED  BY <4>1, <4>2 DEF Sorted
    <3>. QED  BY <3>0, <3>1, <3>2, <3>3, <3>4, <3>5
  <2>. QED  BY <2>1, <2>4, <2>5, <2>10 DEF Sorted
<1>. QED  BY <1>4, <1>5

\* The lists agree with the tick count: what they name is still to come, the
\* overflow list after the wrap, in order, and none comes before nextUnblock.
Timely(s) ==
    /\ s.wakeTime \in [Tasks -> 0 .. TickCount - 1] /\ s.nextUnblock \in Nat
    /\ Sorted(s.delayed, s.wakeTime) /\ Sorted(s.overflowDelayed, s.wakeTime)
    /\ \A t \in Range(s.delayed) : s.wakeTime[t] > s.tick /\ s.wakeTime[t] >= s.nextUnblock
    /\ \A t \in Range(s.overflowDelayed) : s.wakeTime[t] < s.tick

\* The tasks that sleep, and how many ticks from now each of them wakes.
Sleepers(s) == Range(s.delayed) \cup Range(s.overflowDelayed)
Left(s, t) == TicksTo(s, s.wakeTime[t])

LEMMA LeftIs ==
    ASSUME NEW s, s.tick \in 0 .. TickCount - 1, NEW t, s.wakeTime[t] \in 0 .. TickCount - 1
    PROVE  Left(s, t) = IF s.wakeTime[t] >= s.tick THEN s.wakeTime[t] - s.tick
                        ELSE (s.wakeTime[t] + TickCount) - s.tick
<1>1. TickCount \in Nat /\ TickCount > 1
  BY KernelAssumption
<1>2. PICK w, k : w = s.wakeTime[t] /\ k = s.tick
  OBVIOUS
<1>3. w \in 0 .. TickCount - 1 /\ k \in 0 .. TickCount - 1
  BY <1>2
<1>4. Left(s, t) = ((w + TickCount) - k) % TickCount
  <2>1. w + TickCount - k = (w + TickCount) - k
    BY <1>1, <1>3
  <2>. QED  BY <1>2, <2>1 DEF Left, TicksTo
<1>5. CASE w >= k
  <2>1. (w + TickCount) - k = (w - k) + TickCount /\ w - k \in 0 .. TickCount - 1
    BY <1>1, <1>3, <1>5
  <2>2. PICK d : d = w - k
    OBVIOUS
  <2>3. (d + TickCount) % TickCount = d
    BY <1>1, <2>1, <2>2
  <2>. QED  BY <1>2, <1>4, <1>5, <2>1, <2>2, <2>3
<1>6. CASE w < k
  <2>1. (w + TickCount) - k \in 0 .. TickCount - 1
    BY <1>1, <1>3, <1>6
  <2>2. PICK d : d = (w + TickCount) - k
    OBVIOUS
  <2>3. d % TickCount = d
    BY <1>1, <2>1, <2>2
  <2>. QED  BY <1>2, <1>3, <1>4, <1>6, <2>2, <2>3
<1>. QED  BY <1>3, <1>5, <1>6

\* The first of a sorted list is its least.
LEMMA HeadIsLeast ==
    ASSUME NEW S, NEW list \in Lists(S), list # <<>>, NEW value, \A y \in S : value[y] \in Int,
           Sorted(list, value)
    PROVE  Head(list) \in S /\ \A t \in Range(list) : value[Head(list)] <= value[t]
<1>1. list \in Seq(S) /\ Len(list) \in Nat /\ DOMAIN list = 1 .. Len(list)
  BY DEF Lists
<1>2. Len(list) >= 1
  BY <1>1
<1>3. Head(list) = list[1] /\ 1 \in DOMAIN list
  BY <1>1, <1>2
<1>4. \A i \in 1 .. Len(list) : list[i] \in S
  BY <1>1, ElementOfSeq
<1>5. ASSUME NEW i \in 1 .. Len(list) PROVE value[list[1]] <= value[list[i]]
  <2>1. CASE i = 1
    BY <1>1, <1>3, <1>4, <2>1
  <2>2. CASE i # 1
    <3>1. 1 < i
      BY <1>1, <2>2
    <3>. QED  BY <1>1, <1>3, <3>1 DEF Sorted
  <2>. QED  BY <2>1, <2>2
<1>. QED  BY <1>1, <1>3, <1>4, <1>5 DEF Range

\* prvResetNextTaskUnblockTime.
LEMMA UnblocksFirst ==
    ASSUME NEW q, Shape(q), q.wakeTime \in [Tasks -> 0 .. TickCount - 1], Sorted(q.delayed, q.wakeTime),
           NEW r, r = ResetNextTaskUnblockTime(q)
    PROVE  r.nextUnblock \in Nat /\ \A t \in Range(q.delayed) : q.wakeTime[t] >= r.nextUnblock
<1>0. /\ DOMAIN q = SchedFields /\ q.delayed \in Lists(Tasks)
      /\ TickCount \in Nat /\ TickCount > 1
  BY KernelAssumption DEF Shape, OtherLists
<1>1. r.nextUnblock = IF q.delayed = <<>> THEN MaxDelay ELSE q.wakeTime[Head(q.delayed)]
  BY <1>0 DEF ResetNextTaskUnblockTime, SchedFields
<1>2. CASE q.delayed = <<>>
  BY <1>0, <1>1, <1>2 DEF MaxDelay, Range
<1>3. CASE q.delayed # <<>>
  <2>1. PICK list, value : list = q.delayed /\ value = q.wakeTime
    OBVIOUS
  <2>2. \A y \in Tasks : value[y] \in Int /\ value[y] \in Nat
    BY <1>0, <2>1
  <2>3. Head(list) \in Tasks /\ \A t \in Range(list) : value[Head(list)] <= value[t]
    BY <1>0, <1>3, <2>1, <2>2, HeadIsLeast
  <2>4. \A t \in Range(list) : t \in Tasks
    BY <1>0, <2>1, RangeIn
  <2>. QED  BY <1>1, <1>3, <2>1, <2>2, <2>3, <2>4
<1>. QED  BY <1>2, <1>3

\* Between the count and the waking, what is due is at the front of the list.
IsDue(s, t) == t \in Range(s.delayed) /\ s.wakeTime[t] = s.tick
Counted1(s, n) ==
    /\ n.wakeTime = s.wakeTime /\ n.nextUnblock \in Nat
    /\ Sorted(n.delayed, n.wakeTime) /\ Sorted(n.overflowDelayed, n.wakeTime)
    /\ \A t \in Range(n.delayed) : n.wakeTime[t] >= n.tick /\ n.wakeTime[t] >= n.nextUnblock
    /\ \A t \in Range(n.overflowDelayed) : n.wakeTime[t] < n.tick
    /\ Sleepers(n) = Sleepers(s)
    /\ \A t \in Sleepers(s) : IF Left(s, t) = 1 THEN IsDue(n, t)
                              ELSE ~ IsDue(n, t) /\ Left(n, t) = Left(s, t) - 1

\* The tick count moves on; when it wraps, the lists change places, and none of
\* the tasks of the old one is left behind.
LEMMA TickIsTimely ==
    ASSUME NEW s, Well(s), Timely(s), NEW n, n = CountTick(s)
    PROVE  Counted1(s, n)
<1>0. /\ Shape(s) /\ DOMAIN s = SchedFields /\ s.tick \in 0 .. TickCount - 1
      /\ TickCount \in Nat /\ TickCount > 1
      /\ s.delayed \in Lists(Tasks) /\ s.overflowDelayed \in Lists(Tasks)
      /\ \A u \in Tasks : Homed(s, u)
  BY KernelAssumption DEF Well, InPlace, Shape, OtherLists, Numbers
<1>1. /\ Sleepers(s) \subseteq Tasks /\ \A t \in Tasks : s.wakeTime[t] \in 0 .. TickCount - 1
      /\ Range(s.delayed) \subseteq Tasks /\ Range(s.overflowDelayed) \subseteq Tasks
  BY <1>0, RangeIn DEF Sleepers, Timely
<1>a. PICK tick, c : tick = (s.tick + 1) % TickCount /\ c = [s EXCEPT !.tick = tick]
  OBVIOUS
<1>b. tick = IF s.tick + 1 = TickCount THEN 0 ELSE s.tick + 1
  BY <1>0, <1>a
<1>2. /\ tick = (s.tick + 1) % TickCount /\ c = [s EXCEPT !.tick = tick]
      /\ tick = IF s.tick + 1 = TickCount THEN 0 ELSE s.tick + 1
  BY <1>a, <1>b
<1>3. DOMAIN c = SchedFields /\ Lasts(s, c, SchedFields \ {"tick"}) /\ c.tick = tick
  BY <1>0, <1>2 DEF SchedFields, Lasts
<1>4. CASE tick # 0
  <2>1. n = c
    BY <1>2, <1>3, <1>4 DEF CountTick
  <2>2. /\ n.wakeTime = s.wakeTime /\ n.nextUnblock = s.nextUnblock /\ n.delayed = s.delayed
        /\ n.overflowDelayed = s.overflowDelayed /\ n.tick = s.tick + 1 /\ s.tick + 1 < TickCount
    BY <1>0, <1>2, <1>3, <1>4, <2>1 DEF Lasts, SchedFields
  <2>3. ASSUME NEW t \in Range(n.delayed) PROVE n.wakeTime[t] >= n.tick /\ n.wakeTime[t] >= n.nextUnblock
    BY <1>0, <1>1, <2>2 DEF Timely
  <2>4. ASSUME NEW t \in Range(n.overflowDelayed) PROVE n.wakeTime[t] < n.tick
    BY <1>0, <1>1, <2>2 DEF Timely
  <2>5. ASSUME NEW t \in Range(s.delayed)
        PROVE  IF Left(s, t) = 1 THEN IsDue(n, t) ELSE ~ IsDue(n, t) /\ Left(n, t) = Left(s, t) - 1
    <3>1. s.wakeTime[t] \in 0 .. TickCount - 1 /\ s.wakeTime[t] > s.tick
      BY <1>1 DEF Timely
    <3>2. Left(s, t) = s.wakeTime[t] - s.tick
      BY <1>0, <3>1, LeftIs
    <3>3. Left(n, t) = s.wakeTime[t] - (s.tick + 1)
      BY <1>0, <2>2, <3>1, LeftIs
    <3>. QED  BY <1>0, <2>2, <3>1, <3>2, <3>3 DEF IsDue
  <2>6. ASSUME NEW t \in Range(s.overflowDelayed)
        PROVE  IF Left(s, t) = 1 THEN IsDue(n, t) ELSE ~ IsDue(n, t) /\ Left(n, t) = Left(s, t) - 1
    <3>1. s.wakeTime[t] \in 0 .. TickCount - 1 /\ s.wakeTime[t] < s.tick
      BY <1>1 DEF Timely
    <3>2. Left(s, t) = (s.wakeTime[t] + TickCount) - s.tick
      BY <1>0, <3>1, LeftIs
    <3>3. Left(n, t) = (s.wakeTime[t] + TickCount) - (s.tick + 1)
      BY <1>0, <2>2, <3>1, LeftIs
    <3>4. t \notin Range(s.delayed)
      BY <1>0, <1>1 DEF Homed
    <3>. QED  BY <1>0, <2>2, <3>1, <3>2, <3>3, <3>4 DEF IsDue
  <2>. QED  BY <2>2, <2>3, <2>4, <2>5, <2>6 DEF Counted1, Sleepers, Timely
<1>5. CASE tick = 0
  <2>0. s.tick = TickCount - 1
    BY <1>0, <1>2, <1>5
  <2>1. PICK d : d = IF c.delayed = <<>> THEN c ELSE Fail(c, "delayed list empty")
    OBVIOUS
  <2>2. DOMAIN d = SchedFields /\ Lasts(c, d, SchedFields \ {"failed"})
    BY <1>3, <2>1 DEF Fail, SchedFields, Lasts
  <2>3. PICK w : w = [d EXCEPT !.delayed = c.overflowDelayed, !.overflowDelayed = c.delayed,
                               !.overflows = @ + 1]
    OBVIOUS
  <2>4. n = ResetNextTaskUnblockTime(w)
    BY <1>2, <1>3, <1>5, <2>1, <2>3 DEF CountTick, SwitchDelayedLists
  <2>5. /\ DOMAIN w = SchedFields
        /\ Lasts(d, w, SchedFields \ {"delayed", "overflowDelayed", "overflows"})
        /\ w.delayed = c.overflowDelayed /\ w.overflowDelayed = c.delayed
    BY <2>2, <2>3 DEF SchedFields, Lasts
  <2>6. DOMAIN n = SchedFields /\ Lasts(w, n, SchedFields \ {"nextUnblock"})
    BY <2>4, <2>5, NextUnblockReset
  <2>7. /\ n.wakeTime = s.wakeTime /\ n.delayed = s.overflowDelayed /\ n.overflowDelayed = s.delayed
        /\ n.tick = 0 /\ w.wakeTime = s.wakeTime /\ w.delayed = s.overflowDelayed
    BY <1>3, <1>5, <2>2, <2>5, <2>6 DEF Lasts, SchedFields
  <2>8. Shape(n)
    BY TickCounted DEF Well, InPlace
  <2>9. Range(s.delayed) = {}
    BY <1>0, <1>1, <2>0 DEF Timely
  <2>10. n.nextUnblock \in Nat /\ \A t \in Range(w.delayed) : w.wakeTime[t] >= n.nextUnblock
    <3>1. Sorted(w.delayed, w.wakeTime) /\ w.wakeTime \in [Tasks -> 0 .. TickCount - 1]
      BY <2>7 DEF Timely
    <3>2. n.nextUnblock = IF w.delayed = <<>> THEN MaxDelay ELSE w.wakeTime[Head(w.delayed)]
      BY <2>4, <2>5 DEF ResetNextTaskUnblockTime, SchedFields
    <3>3. CASE w.delayed = <<>>
      BY <1>0, <3>2, <3>3 DEF MaxDelay, Range
    <3>4. CASE w.delayed # <<>>
      <4>1. PICK list, value : list = w.delayed /\ value = w.wakeTime
        OBVIOUS
      <4>2. \A y \in Tasks : value[y] \in Int /\ value[y] \in Nat
        BY <1>0, <3>1, <4>1
      <4>3. Head(list) \in Tasks /\ \A t \in Range(list) : value[Head(list)] <= value[t]
        BY <1>0, <2>7, <3>1, <3>4, <4>1, <4>2, HeadIsLeast
      <4>4. \A t \in Range(list) : t \in Tasks
        BY <1>1, <2>7, <4>1
      <4>. QED  BY <3>2, <3>4, <4>1, <4>2, <4>3, <4>4
    <3>. QED  BY <3>3, <3>4
  <2>11. ASSUME NEW t \in Range(n.delayed) PROVE n.wakeTime[t] >= n.tick /\ n.wakeTime[t] >= n.nextUnblock
    BY <1>1, <2>7, <2>10
  <2>12. ASSUME NEW t \in Sleepers(s)
         PROVE  IF Left(s, t) = 1 THEN IsDue(n, t) ELSE ~ IsDue(n, t) /\ Left(n, t) = Left(s, t) - 1
    <3>1. t \in Range(s.overflowDelayed) /\ s.wakeTime[t] \in 0 .. TickCount - 1 /\ s.wakeTime[t] < s.tick
      BY <1>1, <2>9 DEF Sleepers, Timely
    <3>2. Left(s, t) = (s.wakeTime[t] + TickCount) - s.tick
      BY <1>0, <3>1, LeftIs
    <3>3. Left(n, t) = s.wakeTime[t] - 0
      BY <1>0, <2>7, <3>1, LeftIs
    <3>. QED  BY <1>0, <2>0, <2>7, <3>1, <3>2, <3>3 DEF IsDue
  <2>13. Sleepers(n) = Sleepers(s)
    BY <2>7 DEF Sleepers
  <2>. QED  BY <2>7, <2>9, <2>10, <2>11, <2>12, <2>13 DEF Counted1, Timely
<1>. QED  BY <1>4, <1>5

\* The lists that ListsAgree describes keep time.
LEMMA AgreeingListsAreTimely ==
    ASSUME ListsAgree, Well(sched), sched.nextUnblock \in Nat,
           sched.wakeTime \in [Tasks -> 0 .. TickCount - 1]
    PROVE  Timely(sched)
<1>. PICK value : value = sched.wakeTime
  OBVIOUS
<1>1. ASSUME NEW list \in Lists(Tasks),
             \A i \in DOMAIN list : i > 1 => value[list[i]] >= value[list[i - 1]]
      PROVE  Sorted(list, value)
  <2>1. Len(list) \in Nat /\ DOMAIN list = 1 .. Len(list) /\ TickCount \in Nat
    BY KernelAssumption DEF Lists
  <2>2. \A i \in 1 .. Len(list) : list[i] \in Tasks /\ value[list[i]] \in Nat
    <3>1. \A i \in 1 .. Len(list) : list[i] \in Tasks
      BY ElementOfSeq DEF Lists
    <3>2. \A t \in Tasks : value[t] \in Nat
      BY <2>1
    <3>. QED  BY <3>1, <3>2
  <2>3. ASSUME NEW i \in 1 .. Len(list), NEW j \in 1 .. Len(list), i < j
        PROVE  value[list[i]] <= value[list[j]]
    <3>. DEFINE N == {m \in Nat : i + m <= Len(list) => value[list[i]] <= value[list[i + m]]}
    <3>1. 0 \in N
      BY <2>2
    <3>2. ASSUME NEW m \in Nat, m \in N PROVE m + 1 \in N
      <4>1. SUFFICES ASSUME i + (m + 1) <= Len(list)
                     PROVE  value[list[i]] <= value[list[i + (m + 1)]]
        OBVIOUS
      <4>2. i + m \in 1 .. Len(list) /\ i + (m + 1) \in 1 .. Len(list)
            /\ (i + (m + 1)) - 1 = i + m /\ i + (m + 1) > 1
        BY <2>1, <4>1
      <4>a. PICK k : k = i + (m + 1)
        OBVIOUS
      <4>b. value[list[k]] >= value[list[k - 1]]
        BY <1>1, <2>1, <4>2, <4>a
      <4>c. value[list[i]] <= value[list[i + m]]
        BY <3>2, <4>2
      <4>3. value[list[i + (m + 1)]] >= value[list[i + m]] /\ value[list[i]] <= value[list[i + m]]
        BY <4>2, <4>a, <4>b, <4>c
      <4>4. value[list[i]] \in Nat /\ value[list[i + m]] \in Nat /\ value[list[i + (m + 1)]] \in Nat
        BY <2>2, <4>2
      <4>. QED  BY <4>3, <4>4
    <3>. HIDE DEF N
    <3>3. j - i \in N /\ i + (j - i) = j /\ j <= Len(list)
      BY <2>1, <2>3, <3>1, <3>2, NumbersFrom
    <3>. QED  BY <3>3 DEF N
  <2>. QED  BY <2>1, <2>3 DEF Sorted
<1>2. /\ sched.delayed \in Lists(Tasks) /\ sched.overflowDelayed \in Lists(Tasks)
      /\ DOMAIN sched.delayed = 1 .. Len(sched.delayed)
      /\ DOMAIN sched.overflowDelayed = 1 .. Len(sched.overflowDelayed)
  BY DEF Well, InPlace, Shape, OtherLists, Lists
<1>3. /\ \A i \in DOMAIN sched.delayed :
            /\ sched.wakeTime[sched.delayed[i]] > sched.tick
            /\ sched.wakeTime[sched.delayed[i]] >= sched.nextUnblock
      /\ \A i \in DOMAIN sched.overflowDelayed : sched.wakeTime[sched.overflowDelayed[i]] < sched.tick
      /\ \A i \in DOMAIN sched.delayed :
            i > 1 => value[sched.delayed[i]] >= value[sched.delayed[i - 1]]
      /\ \A i \in DOMAIN sched.overflowDelayed :
            i > 1 => value[sched.overflowDelayed[i]] >= value[sched.overflowDelayed[i - 1]]
  BY DEF ListsAgree
<1>4. Sorted(sched.delayed, value) /\ Sorted(sched.overflowDelayed, value)
  BY <1>1, <1>2, <1>3
<1>. QED  BY <1>2, <1>3, <1>4 DEF Timely, Range

\* The tasks at the front of the list, up to the first later one, are those due.
LEMMA ExpiredAreDue ==
    ASSUME NEW n, Shape(n), n.wakeTime \in [Tasks -> 0 .. TickCount - 1], n.nextUnblock \in Nat,
           Sorted(n.delayed, n.wakeTime),
           \A t \in Range(n.delayed) : n.wakeTime[t] >= n.tick /\ n.wakeTime[t] >= n.nextUnblock
    PROVE  \A t : t \in Range(ExpiredTasks(n)) <=> IsDue(n, t)
<1>. PICK list, value, later, tick :
        /\ list = n.delayed /\ value = n.wakeTime /\ tick = n.tick
        /\ later = {i \in DOMAIN n.delayed : n.wakeTime[n.delayed[i]] > n.tick}
  OBVIOUS
<1>1. /\ list \in Seq(Tasks) /\ list \in Lists(Tasks) /\ Len(list) \in Nat /\ DOMAIN list = 1 .. Len(list)
      /\ tick \in Nat /\ TickCount \in Nat
  BY KernelAssumption DEF Shape, OtherLists, Numbers, Lists
<1>2. \A i \in 1 .. Len(list) : list[i] \in Tasks /\ value[list[i]] \in Nat /\ list[i] \in Range(list)
  <2>1. \A t \in Tasks : value[t] \in Nat
    BY <1>1
  <2>2. \A i \in 1 .. Len(list) : list[i] \in Tasks
    BY <1>1, ElementOfSeq
  <2>. QED  BY <1>1, <2>1, <2>2 DEF Range
<1>a. \A i : i \in later <=> i \in 1 .. Len(list) /\ value[list[i]] > tick
  BY <1>1
<1>b. \A i \in 1 .. Len(list) : value[list[i]] >= tick
  BY <1>1, <1>2
<1>3. \A t : t \in Range(list) <=> \E i \in 1 .. Len(list) : list[i] = t
  BY <1>1 DEF Range
<1>4. \A t : IsDue(n, t) <=> \E i \in 1 .. Len(list) : list[i] = t /\ value[list[i]] = tick
  BY <1>3 DEF IsDue
<1>5. CASE tick < n.nextUnblock
  <2>1. ExpiredTasks(n) = <<>>
    BY <1>5 DEF ExpiredTasks
  <2>2. \A i \in 1 .. Len(list) : value[list[i]] # tick
    BY <1>1, <1>2, <1>5
  <2>. QED  BY <1>4, <2>1, <2>2 DEF Range
<1>6. CASE ~ tick < n.nextUnblock /\ later = {}
  <2>1. ExpiredTasks(n) = list
    BY <1>6 DEF ExpiredTasks
  <2>2. \A i \in 1 .. Len(list) : value[list[i]] = tick
    <3>1. ASSUME NEW i \in 1 .. Len(list) PROVE value[list[i]] = tick
      <4>1. ~ value[list[i]] > tick /\ value[list[i]] >= tick /\ value[list[i]] \in Nat
        BY <1>2, <1>6, <1>a, <1>b
      <4>. QED  BY <1>1, <4>1
    <3>. QED  BY <3>1
  <2>. QED  BY <1>3, <1>4, <2>1, <2>2
<1>7. CASE ~ tick < n.nextUnblock /\ later # {}
  <2>1. PICK k : k = Min(later)
    OBVIOUS
  <2>2. k \in later /\ \A i \in later : k <= i
    <3>1. later \subseteq Nat
      BY <1>1, <1>a
    <3>. QED  BY <1>7, <2>1, <3>1, LeastOf
  <2>3. k \in 1 .. Len(list) /\ value[list[k]] > tick
    BY <1>a, <2>2
  <2>4. PICK part : part = SubSeq(list, 1, k - 1)
    OBVIOUS
  <2>5. ExpiredTasks(n) = part
    BY <1>7, <2>1, <2>4 DEF ExpiredTasks
  <2>6. /\ DOMAIN part = 1 .. k - 1 /\ \A i \in 1 .. k - 1 : part[i] = list[i]
    <3>1. k - 1 \in 1 - 1 .. Len(list) /\ 1 \in 1 .. Len(list) + 1
      BY <1>1, <2>3
    <3>2. /\ part \in Seq(Tasks) /\ Len(part) = ((k - 1) + 1) - 1
          /\ \A i \in 1 .. ((k - 1) + 1) - 1 : part[i] = list[(1 - 1) + i]
      BY <1>1, <2>4, <3>1, PartOf
    <3>3. ((k - 1) + 1) - 1 = k - 1 /\ \A i \in 1 .. k - 1 : (1 - 1) + i = i
      BY <2>3
    <3>. QED  BY <3>2, <3>3
  <2>7. ASSUME NEW i \in 1 .. k - 1 PROVE i \in 1 .. Len(list) /\ value[list[i]] = tick
    <3>1. i \in 1 .. Len(list) /\ ~ k <= i
      BY <1>1, <2>3
    <3>2. ~ value[list[i]] > tick /\ value[list[i]] >= tick /\ value[list[i]] \in Nat
      BY <1>2, <1>a, <1>b, <2>2, <3>1
    <3>. QED  BY <1>1, <3>1, <3>2
  <2>8. ASSUME NEW i \in 1 .. Len(list), value[list[i]] = tick PROVE i \in 1 .. k - 1
    <3>1. i # k /\ ~ k < i
      <4>1. ~ value[list[i]] > tick
        BY <1>1, <2>8
      <4>2. k < i => value[list[k]] <= value[list[i]]
        BY <1>1, <2>3 DEF Sorted
      <4>3. value[list[i]] \in Nat /\ value[list[k]] \in Nat
        BY <1>2, <2>3
      <4>. QED  BY <1>1, <2>3, <4>1, <4>2, <4>3
    <3>. QED  BY <1>1, <2>3, <3>1
  <2>. QED  BY <1>4, <2>5, <2>6, <2>7, <2>8 DEF Range
<1>. QED  BY <1>5, <1>6, <1>7

\* A task that becomes ready leaves the others' order as it was.
KeepsTime(s, r) ==
    /\ r.wakeTime = s.wakeTime /\ r.tick = s.tick
    /\ Thinned(r.delayed, s.delayed) /\ Thinned(r.overflowDelayed, s.overflowDelayed)

LEMMA OneReadyThins ==
    ASSUME NEW s, InPlace(s), NEW t \in Tasks, NEW r, r = MakeReady(RemoveEventItem(s, t), t)
    PROVE  KeepsTime(s, r)
<1>. PICK q, v : q = RemoveEventItem(s, t) /\ v = RemoveStateItem(q, t)
  OBVIOUS
<1>1. Shape(q) /\ \A x \in SchedFields \ {"waiting"} : q[x] = s[x]
  BY EventItemRemoved DEF InPlace
<1>2. /\ Shape(v) /\ \A p \in Priorities : Range(v.ready[p]) = Range(q.ready[p]) \ {t}
      /\ \A x \in SchedFields \ StateFields : v[x] = q[x]
  BY <1>1, StateItemRemoved
<1>3. v.delayed = RemoveFirst(q.delayed, t) /\ v.overflowDelayed = RemoveFirst(q.overflowDelayed, t)
  BY <1>1 DEF RemoveStateItem, Shape, SchedFields
<1>4. ~ InReady(v, t) /\ r = AddTaskToReadyList(v, t)
  BY <1>2 DEF InReady, MakeReady
<1>5. \A x \in SchedFields \ {"ready", "topReady"} : r[x] = v[x]
  BY <1>2, <1>4, AddedToReady
<1>6. /\ r.delayed = RemoveFirst(s.delayed, t) /\ r.overflowDelayed = RemoveFirst(s.overflowDelayed, t)
      /\ r.wakeTime = s.wakeTime /\ r.tick = s.tick
  BY <1>1, <1>2, <1>3, <1>5 DEF SchedFields, StateFields
<1>7. s.delayed \in Lists(Tasks) /\ s.overflowDelayed \in Lists(Tasks)
  BY DEF InPlace, Shape, OtherLists
<1>. QED  BY <1>6, <1>7, RemovedThins DEF KeepsTime

LEMMA AllReadyThins ==
    ASSUME NEW s, InPlace(s), NEW seq \in Seq(Tasks), NEW those,
           NEW r, r = ReadyThose(s, seq, those)
    PROVE  /\ KeepsTime(s, r)
           /\ \A u \in Tasks : u \notin those => SamePlaces(s, r, u)
           /\ \A t \in Range(seq) : t \in those => InReady(r, t)
<1>. PICK n : n = Len(seq)
  OBVIOUS
<1>1. n \in Nat /\ \A i \in 1 .. n : seq[i] \in Tasks
  BY ElementOfSeq
<1>2. PICK f : f[0] = s /\ f[n] = r /\ \A i \in 1 .. n : f[i] = ReadyOne(f[i - 1], seq[i], those)
  BY <1>1, ReadySteps
<1>. DEFINE Ok(v) == /\ InPlace(v) /\ KeepsTime(s, v)
                     /\ \A u \in Tasks : u \notin those => SamePlaces(s, v, u)
            N == {i \in Nat : i <= n =>
                     Ok(f[i]) /\ \A j \in 1 .. i : seq[j] \in those => InReady(f[i], seq[j])}
<1>3. ASSUME NEW v, Ok(v), NEW t \in Tasks, NEW q, q = ReadyOne(v, t, those)
      PROVE  Ok(q) /\ (t \in those => InReady(q, t)) /\ \A u \in Tasks : InReady(v, u) => InReady(q, u)
  <2>1. CASE t \notin those
    BY <1>3, <2>1 DEF ReadyOne
  <2>2. CASE t \in those
    <3>1. q = MakeReady(RemoveEventItem(v, t), t)
      BY <1>3, <2>2 DEF ReadyOne
    <3>2. InPlace(q) /\ InReady(q, t) /\ Moves1(v, q, t)
      BY <1>3, <3>1, OneReady
    <3>3. KeepsTime(v, q)
      BY <1>3, <3>1, OneReadyThins
    <3>4. KeepsTime(s, q)
      BY <1>3, <3>3, ThinnedTwice DEF KeepsTime
    <3>5. \A u \in Tasks : u \notin those => SamePlaces(s, q, u)
      BY <1>3, <2>2, <3>2 DEF Moves1, SamePlaces
    <3>6. \A u \in Tasks : InReady(v, u) => InReady(q, u)
      BY <3>2 DEF Moves1, SamePlaces
    <3>. QED  BY <3>2, <3>4, <3>5, <3>6
  <2>. QED  BY <2>1, <2>2
<1>4. 0 \in N
  <2>1. KeepsTime(s, s) /\ \A u \in Tasks : SamePlaces(s, s, u)
    BY ThinnedSame DEF KeepsTime, SamePlaces
  <2>. QED  BY <1>2, <2>1
<1>. HIDE DEF Ok
<1>5. ASSUME NEW i \in Nat, i \in N PROVE i + 1 \in N
  <2>1. SUFFICES ASSUME i + 1 <= n
        PROVE  Ok(f[i + 1]) /\ \A j \in 1 .. i + 1 : seq[j] \in those => InReady(f[i + 1], seq[j])
    OBVIOUS
  <2>2. /\ i + 1 \in 1 .. n /\ (i + 1) - 1 = i /\ i <= n
        /\ \A j \in 1 .. i + 1 : (j \in 1 .. i \/ j = i + 1) /\ j \in 1 .. n
    BY <1>1, <2>1
  <2>3. f[i + 1] = ReadyOne(f[i], seq[i + 1], those) /\ seq[i + 1] \in Tasks
    BY <1>1, <1>2, <2>2
  <2>4. Ok(f[i]) /\ \A j \in 1 .. i : seq[j] \in those => InReady(f[i], seq[j])
    BY <1>5, <2>2
  <2>5. /\ Ok(f[i + 1]) /\ (seq[i + 1] \in those => InReady(f[i + 1], seq[i + 1]))
        /\ \A u \in Tasks : InReady(f[i], u) => InReady(f[i + 1], u)
    BY <1>3, <2>3, <2>4
  <2>. QED  BY <1>1, <2>2, <2>4, <2>5
<1>. HIDE DEF N
<1>6. n \in N
  BY <1>1, <1>4, <1>5, NumbersFrom
<1>7. Ok(r) /\ \A j \in 1 .. n : seq[j] \in those => InReady(r, seq[j])
  BY <1>1, <1>2, <1>6 DEF N
<1>8. \A t \in Range(seq) : \E j \in 1 .. n : t = seq[j]
  BY <1>1 DEF Range
<1>. QED  BY <1>7, <1>8 DEF Ok

\* What n ticks do to the tasks that sleep.
Slept(s, r, n) ==
    /\ Timely(r) /\ Sleepers(r) \subseteq Sleepers(s)
    /\ \A t \in Sleepers(s) :
          IF Left(s, t) <= n THEN InReady(r, t)
          ELSE t \in Sleepers(r) /\ Left(r, t) = Left(s, t) - n

\* xTaskIncrementTick keeps time: each tick takes one from what every sleeping
\* task has left, also over the wrap of the tick count, and it readies a task
\* with the last one, never before and never after, whatever the lists hold.
THEOREM TickWakesOnTime ==
    ASSUME NEW s, Well(s), Timely(s), NEW r, r = AdvanceTick(s)
    PROVE  Slept(s, r, 1)
<1>1. PICK n : n = CountTick(s)
  OBVIOUS
<1>2. Counted1(s, n) /\ Well(n) /\ Well(r) /\ r = WakeExpired(n)
  BY <1>1, TickIsTimely, TickCounted, TickAdvanced DEF AdvanceTick
<1>3. /\ Shape(n) /\ n.wakeTime \in [Tasks -> 0 .. TickCount - 1] /\ n.nextUnblock \in Nat
      /\ n.tick \in 0 .. TickCount - 1 /\ TickCount \in Nat
      /\ Range(n.delayed) \subseteq Tasks /\ Range(n.overflowDelayed) \subseteq Tasks
      /\ \A t \in Tasks : n.wakeTime[t] \in Nat
  BY <1>2, KernelAssumption, RangeIn DEF Well, InPlace, Shape, Numbers, OtherLists, Counted1, Timely
<1>4. \A t : t \in Range(ExpiredTasks(n)) <=> IsDue(n, t)
  BY <1>2, <1>3, ExpiredAreDue DEF Counted1
<1>5. \A t \in Sleepers(s) : Left(s, t) \in 1 .. TickCount - 1
  <2>1. SUFFICES ASSUME NEW t \in Sleepers(s) PROVE Left(s, t) \in 1 .. TickCount - 1
    OBVIOUS
  <2>2. s.tick \in 0 .. TickCount - 1 /\ Sleepers(s) \subseteq Tasks
    BY RangeIn DEF Well, InPlace, Shape, Numbers, OtherLists, Sleepers
  <2>3. s.wakeTime[t] \in 0 .. TickCount - 1 /\ s.wakeTime[t] # s.tick
    BY <1>3, <2>2 DEF Timely, Sleepers
  <2>. QED  BY <1>3, <2>2, <2>3, LeftIs
<1>6. /\ r.wakeTime = n.wakeTime /\ r.tick = n.tick /\ r.nextUnblock \in Nat
      /\ Sorted(r.delayed, r.wakeTime) /\ Sorted(r.overflowDelayed, r.wakeTime)
      /\ \A t \in Range(r.delayed) : r.wakeTime[t] >= r.nextUnblock
      /\ \A t \in Tasks : IsDue(n, t) => InReady(r, t)
      /\ \A t \in Tasks : ~ IsDue(n, t) =>
            /\ t \in Range(r.delayed) <=> t \in Range(n.delayed)
            /\ t \in Range(r.overflowDelayed) <=> t \in Range(n.overflowDelayed)
  <2>1. CASE n.tick < n.nextUnblock
    <3>1. r = n
      BY <1>2, <2>1 DEF WakeExpired
    <3>2. \A t : ~ IsDue(n, t)
      BY <1>2, <1>3, <2>1 DEF IsDue, Counted1
    <3>. QED  BY <1>2, <3>1, <3>2 DEF Counted1
  <2>2. CASE ~ n.tick < n.nextUnblock
    <3>1. PICK seq, those : seq = ExpiredTasks(n) /\ those = Range(seq)
      OBVIOUS
    <3>2. seq \in Seq(Tasks) /\ InPlace(n)
      BY <1>2, <1>3, <3>1, ExpiredAre DEF Well
    <3>3. PICK q : q = ReadyThose(n, seq, those)
      OBVIOUS
    <3>4. /\ KeepsTime(n, q) /\ \A u \in Tasks : u \notin those => SamePlaces(n, q, u)
          /\ \A t \in those : InReady(q, t)
      BY <3>1, <3>2, <3>3, AllReadyThins
    <3>5. r = ResetNextTaskUnblockTime(q)
      BY <1>2, <2>2, <3>1, <3>3 DEF WakeExpired, ReadyAll
    <3>6. Shape(q)
      BY <3>2, <3>3, ReadiedThose DEF InPlace
    <3>7. DOMAIN r = SchedFields /\ Lasts(q, r, SchedFields \ {"nextUnblock"})
      BY <3>5, <3>6, NextUnblockReset DEF Shape
    <3>8. /\ r.ready = q.ready /\ r.delayed = q.delayed /\ r.overflowDelayed = q.overflowDelayed
          /\ r.wakeTime = q.wakeTime /\ r.tick = q.tick
      BY <3>7 DEF Lasts, SchedFields
    <3>9. Sorted(q.delayed, q.wakeTime) /\ Sorted(q.overflowDelayed, q.wakeTime)
      <4>1. Sorted(n.delayed, q.wakeTime) /\ Sorted(n.overflowDelayed, q.wakeTime)
        BY <1>2, <3>4 DEF KeepsTime, Counted1
      <4>. QED  BY <3>4, <4>1, ThinnedSorted DEF KeepsTime
    <3>10. r.nextUnblock \in Nat /\ \A t \in Range(q.delayed) : q.wakeTime[t] >= r.nextUnblock
      <4>1. q.wakeTime \in [Tasks -> 0 .. TickCount - 1]
        BY <1>3, <3>4 DEF KeepsTime
      <4>. QED  BY <3>5, <3>6, <3>9, <4>1, UnblocksFirst
    <3>11. \A t \in Tasks : IsDue(n, t) => InReady(r, t)
      BY <1>4, <3>1, <3>4, <3>8 DEF InReady
    <3>12. \A t \in Tasks : ~ IsDue(n, t) =>
            /\ t \in Range(r.delayed) <=> t \in Range(n.delayed)
            /\ t \in Range(r.overflowDelayed) <=> t \in Range(n.overflowDelayed)
      BY <1>4, <3>1, <3>4, <3>8 DEF SamePlaces
    <3>. QED  BY <3>4, <3>8, <3>9, <3>10, <3>11, <3>12 DEF KeepsTime
  <2>. QED  BY <2>1, <2>2
<1>7. /\ Range(r.delayed) \subseteq Tasks /\ Range(r.overflowDelayed) \subseteq Tasks
      /\ \A t \in Tasks : InReady(r, t) => t \notin Range(r.delayed) /\ t \notin Range(r.overflowDelayed)
  BY <1>2, RangeIn DEF Well, InPlace, Shape, OtherLists, Homed
<1>8. ASSUME NEW t \in Range(r.delayed) PROVE t \in Range(n.delayed) /\ r.wakeTime[t] > r.tick
  <2>1. t \in Tasks /\ ~ IsDue(n, t) /\ t \in Range(n.delayed)
    BY <1>6, <1>7
  <2>2. n.wakeTime[t] >= n.tick /\ n.wakeTime[t] # n.tick
    BY <1>2, <2>1 DEF Counted1, IsDue
  <2>. QED  BY <1>3, <1>6, <2>1, <2>2
<1>9. ASSUME NEW t \in Range(r.overflowDelayed) PROVE t \in Range(n.overflowDelayed) /\ r.wakeTime[t] < r.tick
  <2>1. t \in Tasks /\ ~ IsDue(n, t) /\ t \in Range(n.overflowDelayed)
    BY <1>6, <1>7
  <2>. QED  BY <1>2, <1>6, <2>1 DEF Counted1
<1>10. Timely(r)
  BY <1>3, <1>6, <1>8, <1>9 DEF Timely
<1>11. Sleepers(r) \subseteq Sleepers(s)
  BY <1>2, <1>8, <1>9 DEF Sleepers, Counted1
<1>12. ASSUME NEW t \in Sleepers(s)
       PROVE  IF Left(s, t) <= 1 THEN InReady(r, t)
              ELSE t \in Sleepers(r) /\ Left(r, t) = Left(s, t) - 1
  <2>1. t \in Sleepers(n) /\ t \in Tasks
    BY <1>2, <1>3 DEF Counted1, Sleepers
  <2>2. CASE Left(s, t) = 1
    <3>1. IsDue(n, t)
      BY <1>2, <2>2 DEF Counted1
    <3>. QED  BY <1>6, <2>1, <2>2, <3>1
  <2>3. CASE Left(s, t) # 1
    <3>1. ~ IsDue(n, t) /\ Left(n, t) = Left(s, t) - 1
      BY <1>2, <2>3 DEF Counted1
    <3>2. t \in Sleepers(r)
      BY <1>6, <2>1, <3>1 DEF Sleepers
    <3>3. Left(r, t) = Left(n, t)
      BY <1>6 DEF Left, TicksTo
    <3>4. ~ Left(s, t) <= 1
      BY <1>3, <1>5, <2>3
    <3>. QED  BY <3>1, <3>2, <3>3, <3>4
  <2>. QED  BY <2>2, <2>3
<1>. QED  BY <1>10, <1>11, <1>12 DEF Slept

\* The ticks that came while the scheduler was suspended are not lost on the
\* sleeping tasks: xTaskResumeAll replays them, and readies those whose time
\* came meanwhile and no others.
THEOREM ReplayWakesOnTime ==
    ASSUME NEW s, Well(s), Timely(s), NEW r, r = ReplayTicks(s)
    PROVE  Slept(s, r, s.pendedTicks)
<1>. PICK n, seq : n = s.pendedTicks /\ seq = [i \in 1 .. s.pendedTicks |-> i]
  OBVIOUS
<1>1. n \in Nat /\ Len(seq) = n
  <2>1. s.pendedTicks \in Nat
    BY DEF Well, InPlace, Shape, Numbers
  <2>2. seq \in Seq(Nat)
    BY <2>1
  <2>. QED  BY <2>1, <2>2
<1>2. PICK f : /\ f[0] = s /\ ReplayTicks(s) = [f[n] EXCEPT !.pendedTicks = 0]
               /\ \A i \in 1 .. n : f[i] = ReplayOne(f[i - 1])
  BY <1>1, ReplaySteps
<1>3. \A t \in Sleepers(s) : Left(s, t) \in 1 .. TickCount - 1 /\ t \in Tasks
  <2>1. SUFFICES ASSUME NEW t \in Sleepers(s) PROVE Left(s, t) \in 1 .. TickCount - 1 /\ t \in Tasks
    OBVIOUS
  <2>2. s.tick \in 0 .. TickCount - 1 /\ t \in Tasks /\ TickCount \in Nat
    BY KernelAssumption, RangeIn DEF Well, InPlace, Shape, Numbers, OtherLists, Sleepers
  <2>3. s.wakeTime[t] \in 0 .. TickCount - 1 /\ s.wakeTime[t] # s.tick
    BY <2>2 DEF Timely, Sleepers
  <2>. QED  BY <2>2, <2>3, LeftIs
<1>. DEFINE Ok(v, i) == Well(v) /\ Slept(s, v, i)
            N == {i \in Nat : i <= n => Ok(f[i], i)}
<1>4. ASSUME NEW i \in Nat, NEW v, Ok(v, i), NEW q, q = ReplayOne(v)
      PROVE  Ok(q, i + 1)
  <2>1. PICK a, c, b : a = AdvanceTick(v) /\ c = TickSwitches(v) /\ b = (a.yieldPending \/ c)
    OBVIOUS
  <2>2. Well(a) /\ Spared(v, a, {})
    BY <1>4, <2>1, TickAdvanced
  <2>3. Slept(v, a, 1)
    BY <1>4, <2>1, TickWakesOnTime DEF Slept
  <2>4. q = [a EXCEPT !.yieldPending = b]
    <3>1. [a EXCEPT !.yieldPending = @ \/ c] = [a EXCEPT !.yieldPending = b]
      BY <2>1, <2>2 DEF Well, InPlace, Shape, SchedFields
    <3>. QED  BY <1>4, <2>1, <3>1 DEF ReplayOne
  <2>5. Well(q)
    BY <2>2, <2>4, FreeChanges
  <2>6. /\ q.delayed = a.delayed /\ q.overflowDelayed = a.overflowDelayed /\ q.wakeTime = a.wakeTime
        /\ q.nextUnblock = a.nextUnblock /\ q.tick = a.tick /\ q.ready = a.ready
    BY <2>2, <2>4 DEF Well, InPlace, Shape, SchedFields
  <2>7. Timely(q) /\ Sleepers(q) = Sleepers(a) /\ \A t : Left(q, t) = Left(a, t)
    BY <2>3, <2>6 DEF Slept, Timely, Sleepers, Left, TicksTo
  <2>8. Sleepers(q) \subseteq Sleepers(s)
    BY <1>4, <2>3, <2>7 DEF Slept
  <2>9. ASSUME NEW t \in Sleepers(s)
        PROVE  IF Left(s, t) <= i + 1 THEN InReady(q, t)
               ELSE t \in Sleepers(q) /\ Left(q, t) = Left(s, t) - (i + 1)
    <3>1. Left(s, t) \in Nat /\ t \in Tasks
      BY <1>3, KernelAssumption
    <3>2. CASE Left(s, t) <= i
      <4>1. InReady(v, t)
        BY <1>4, <3>2 DEF Slept
      <4>2. InReady(a, t)
        BY <2>2, <3>1, <4>1 DEF Spared, Spares
      <4>. QED  BY <2>6, <3>1, <3>2, <4>2 DEF InReady
    <3>3. CASE Left(s, t) > i
      <4>1. t \in Sleepers(v) /\ Left(v, t) = Left(s, t) - i
        BY <1>4, <3>1, <3>3 DEF Slept
      <4>2. IF Left(v, t) <= 1 THEN InReady(a, t) ELSE t \in Sleepers(a) /\ Left(a, t) = Left(v, t) - 1
        BY <2>3, <4>1 DEF Slept
      <4>3. InReady(a, t) => InReady(q, t)
        BY <2>6 DEF InReady
      <4>4. (Left(v, t) <= 1 <=> Left(s, t) <= i + 1) /\ Left(v, t) - 1 = Left(s, t) - (i + 1)
        BY <3>1, <4>1
      <4>. QED  BY <2>7, <4>2, <4>3, <4>4
    <3>. QED  BY <3>1, <3>2, <3>3
  <2>. QED  BY <2>5, <2>7, <2>8, <2>9 DEF Slept
<1>5. 0 \in N
  <2>1. ASSUME NEW t \in Sleepers(s)
        PROVE  IF Left(s, t) <= 0 THEN InReady(s, t) ELSE t \in Sleepers(s) /\ Left(s, t) = Left(s, t) - 0
    BY <1>3, KernelAssumption
  <2>. QED  BY <1>2, <2>1 DEF Slept
<1>. HIDE DEF Ok
<1>6. ASSUME NEW i \in Nat, i \in N PROVE i + 1 \in N
  <2>1. SUFFICES ASSUME i + 1 <= n PROVE Ok(f[i + 1], i + 1)
    OBVIOUS
  <2>2. i + 1 \in 1 .. n /\ (i + 1) - 1 = i /\ i <= n
    BY <1>1, <2>1
  <2>3. f[i + 1] = ReplayOne(f[i]) /\ Ok(f[i], i)
    BY <1>2, <1>6, <2>2
  <2>. QED  BY <1>4, <2>3
<1>. HIDE DEF N
<1>7. n \in N
  BY <1>1, <1>5, <1>6, NumbersFrom
<1>8. PICK v : v = f[n]
  OBVIOUS
<1>9. Well(v) /\ Slept(s, v, n) /\ r = [v EXCEPT !.pendedTicks = 0]
  BY <1>1, <1>2, <1>7, <1>8 DEF N, Ok
<1>10. /\ r.delayed = v.delayed /\ r.overflowDelayed = v.overflowDelayed /\ r.wakeTime = v.wakeTime
       /\ r.nextUnblock = v.nextUnblock /\ r.tick = v.tick /\ r.ready = v.ready
  BY <1>9 DEF Well, InPlace, Shape, SchedFields
<1>11. /\ Timely(r) /\ Sleepers(r) = Sleepers(v) /\ \A t : Left(r, t) = Left(v, t)
       /\ \A t : InReady(v, t) => InReady(r, t)
  BY <1>9, <1>10 DEF Slept, Timely, Sleepers, Left, TicksTo, InReady
<1>. QED  BY <1>9, <1>11 DEF Slept

\* A list that does not hold t does not see its value change.
LEMMA SortedWithout ==
    ASSUME NEW list \in Lists(Tasks), NEW t, t \notin Range(list), NEW value, NEW other,
           Sorted(list, value), \A u \in Tasks : u # t => other[u] = value[u]
    PROVE  Sorted(list, other)
<1>1. \A i \in DOMAIN list : list[i] \in Tasks /\ list[i] # t
  BY ElementOfSeq DEF Lists, Range
<1>. QED  BY <1>1 DEF Sorted

\* A task that calls vTaskDelay or waits with a timeout sleeps for just the ticks
\* it asked for, also when the tick count wraps before they are over, and those
\* who sleep already have as long to sleep as before.
THEOREM DelayIsTimed ==
    ASSUME NEW s, NEW t, Awake(s, t), Timely(s), NEW ticks \in 1 .. MaxDelay,
           NEW forever \in BOOLEAN, ~ (ticks = MaxDelay /\ forever),
           NEW r, r = AddCurrentTaskToDelayedList(s, ticks, forever)
    PROVE  /\ Timely(r) /\ t \in Sleepers(r) /\ Left(r, t) = ticks
           /\ \A u \in Tasks : u # t => (u \in Sleepers(r) <=> u \in Sleepers(s)) /\ Left(r, u) = Left(s, u)
<1>0. /\ Shape(s) /\ DOMAIN s = SchedFields /\ s.tick \in 0 .. TickCount - 1 /\ t \in Tasks /\ t = s.current
      /\ s.delayed \in Lists(Tasks) /\ s.overflowDelayed \in Lists(Tasks)
      /\ t \notin Range(s.delayed) /\ t \notin Range(s.overflowDelayed)
      /\ Range(s.delayed) \subseteq Tasks /\ Range(s.overflowDelayed) \subseteq Tasks
  BY RangeIn DEF Awake, Well, InPlace, Shape, OtherLists, Numbers, Homed
<1>1. TickCount \in Nat /\ TickCount > 1 /\ ticks \in 1 .. TickCount - 1
  BY KernelAssumption DEF MaxDelay
<1>2. PICK wake : wake = (s.tick + ticks) % TickCount
  OBVIOUS
<1>3. /\ wake \in 0 .. TickCount - 1 /\ wake # s.tick
      /\ wake = IF s.tick + ticks < TickCount THEN s.tick + ticks ELSE (s.tick + ticks) - TickCount
  <2>1. CASE s.tick + ticks < TickCount
    BY <1>0, <1>1, <1>2, <2>1
  <2>2. CASE ~ s.tick + ticks < TickCount
    <3>1. PICK d : d = (s.tick + ticks) - TickCount
      OBVIOUS
    <3>2. d \in 0 .. TickCount - 1 /\ s.tick + ticks = d + TickCount /\ d < s.tick
      BY <1>0, <1>1, <2>2, <3>1
    <3>3. (d + TickCount) % TickCount = d
      BY <1>1, <3>2
    <3>. QED  BY <1>2, <2>2, <3>1, <3>2, <3>3
  <2>. QED  BY <2>1, <2>2
<1>4. PICK out, p, taken : /\ out = RemoveStateItem(s, t) /\ p = s.priority[t]
                           /\ taken = ResetReadyPriority(out, p)
  OBVIOUS
<1>5. /\ Shape(out) /\ out.delayed = s.delayed /\ out.overflowDelayed = s.overflowDelayed
      /\ \A x \in SchedFields \ StateFields : out[x] = s[x]
  <2>1. Shape(out) /\ \A x \in SchedFields \ StateFields : out[x] = s[x]
    BY <1>0, <1>4, StateItemRemoved, SMTT(30)
  <2>2. out.delayed = RemoveFirst(s.delayed, t) /\ out.overflowDelayed = RemoveFirst(s.overflowDelayed, t)
    BY <1>0, <1>4 DEF RemoveStateItem, SchedFields
  <2>3. ASSUME NEW list \in Lists(Tasks), t \notin Range(list) PROVE RemoveFirst(list, t) = list
    <3>1. DOMAIN list = 1 .. Len(list)
      BY DEF Lists
    <3>2. ~ \E i \in 1 .. Len(list) : list[i] = t
      BY <2>3, <3>1 DEF Range
    <3>. QED  BY <3>2 DEF RemoveFirst
  <2>. QED  BY <1>0, <2>1, <2>2, <2>3
<1>6. Shape(taken) /\ \A x \in SchedFields \ {"topReady"} : taken[x] = out[x]
  <2>1. p \in Priorities
    BY <1>0, <1>4 DEF Shape, Numbers
  <2>. QED  BY <1>4, <1>5, <2>1, PriorityReset
<1>7. PICK value, timed : /\ value = [s.wakeTime EXCEPT ![t] = wake]
                          /\ timed = [taken EXCEPT !.wakeTime[t] = wake, !.delayAborted[t] = FALSE]
  OBVIOUS
<1>8. /\ DOMAIN timed = SchedFields /\ timed.wakeTime = value /\ timed.delayed = s.delayed
      /\ timed.overflowDelayed = s.overflowDelayed /\ timed.nextUnblock = s.nextUnblock /\ timed.tick = s.tick
  <2>1. taken.wakeTime = s.wakeTime
    BY <1>5, <1>6 DEF SchedFields, StateFields
  <2>. QED  BY <1>5, <1>6, <1>7, <2>1 DEF Shape, SchedFields, StateFields
<1>9. /\ value \in [Tasks -> 0 .. TickCount - 1] /\ value[t] = wake
      /\ \A u \in Tasks : u # t => value[u] = s.wakeTime[u]
      /\ \A u \in Tasks : value[u] \in Int /\ value[u] \in Nat
  BY <1>0, <1>1, <1>3, <1>7 DEF Timely
<1>10. Sorted(s.delayed, value) /\ Sorted(s.overflowDelayed, value)
  BY <1>0, <1>9, SortedWithout DEF Timely
<1>11. /\ Sorted(ListInsert(s.delayed, t, value), value)
       /\ Range(ListInsert(s.delayed, t, value)) = Range(s.delayed) \cup {t}
       /\ Sorted(ListInsert(s.overflowDelayed, t, value), value)
       /\ Range(ListInsert(s.overflowDelayed, t, value)) = Range(s.overflowDelayed) \cup {t}
  BY <1>0, <1>9, <1>10, InsertedSorted, ListInserted
<1>12. ASSUME NEW u \in Range(s.delayed) PROVE value[u] > s.tick /\ value[u] >= s.nextUnblock
  BY <1>0, <1>9 DEF Timely
<1>13. ASSUME NEW u \in Range(s.overflowDelayed) PROVE value[u] < s.tick
  BY <1>0, <1>9 DEF Timely
<1>14. /\ r.wakeTime = value /\ r.tick = s.tick /\ Timely(r)
       /\ t \in Sleepers(r) /\ Sleepers(r) = Sleepers(s) \cup {t}
  <2>1. CASE wake < s.tick
    <3>1. r = [timed EXCEPT !.overflowDelayed = ListInsert(@, t, timed.wakeTime)]
      BY <1>0, <1>2, <1>4, <1>7, <2>1 DEF AddCurrentTaskToDelayedList
    <3>2. /\ r.wakeTime = value /\ r.tick = s.tick /\ r.nextUnblock = s.nextUnblock /\ r.delayed = s.delayed
          /\ r.overflowDelayed = ListInsert(s.overflowDelayed, t, value)
      BY <1>8, <3>1 DEF SchedFields
    <3>3. Timely(r)
      <4>1. \A u \in Range(r.overflowDelayed) : r.wakeTime[u] < r.tick
        BY <1>9, <1>11, <1>13, <2>1, <3>2
      <4>. QED  BY <1>9, <1>10, <1>11, <1>12, <3>2, <4>1 DEF Timely
    <3>. QED  BY <1>11, <3>2, <3>3 DEF Sleepers
  <2>2. CASE ~ wake < s.tick
    <3>1. PICK first : first = Min({s.nextUnblock, wake})
      OBVIOUS
    <3>2. first \in Nat /\ first <= s.nextUnblock /\ first <= wake
      <4>1. s.nextUnblock \in Nat /\ wake \in Nat
        BY <1>1, <1>3 DEF Timely
      <4>2. PICK both : both = {s.nextUnblock, wake}
        OBVIOUS
      <4>3. both \subseteq Nat /\ both # {}
        BY <4>1, <4>2
      <4>4. Min(both) \in both /\ \A x \in both : Min(both) <= x
        BY <4>3, LeastOf
      <4>. QED  BY <3>1, <4>2, <4>3, <4>4
    <3>3. r = [timed EXCEPT !.delayed     = ListInsert(@, t, timed.wakeTime),
                            !.nextUnblock = Min({@, wake})]
      BY <1>0, <1>2, <1>4, <1>7, <2>2 DEF AddCurrentTaskToDelayedList
    <3>4. /\ r.wakeTime = value /\ r.tick = s.tick /\ r.nextUnblock = first
          /\ r.delayed = ListInsert(s.delayed, t, value) /\ r.overflowDelayed = s.overflowDelayed
      BY <1>8, <3>1, <3>3 DEF SchedFields
    <3>5. Timely(r)
      <4>1. wake > s.tick
        BY <1>0, <1>3, <2>2
      <4>2. \A u \in Range(r.delayed) : r.wakeTime[u] > r.tick /\ r.wakeTime[u] >= r.nextUnblock
        <5>1. SUFFICES ASSUME NEW u \in Range(s.delayed) \cup {t}
                       PROVE  value[u] > s.tick /\ value[u] >= first
          BY <1>11, <3>4
        <5>2. CASE u = t
          BY <1>9, <3>2, <4>1, <5>2, <1>3
        <5>3. CASE u # t
          <6>1. value[u] > s.tick /\ value[u] >= s.nextUnblock /\ value[u] \in Nat /\ s.nextUnblock \in Nat
            BY <1>0, <1>9, <1>12, <5>1, <5>3 DEF Timely
          <6>. QED  BY <3>2, <6>1
        <5>. QED  BY <5>2, <5>3
      <4>. QED  BY <1>9, <1>10, <1>11, <1>13, <3>2, <3>4, <4>2 DEF Timely
    <3>. QED  BY <1>11, <3>4, <3>5 DEF Sleepers
  <2>. QED  BY <2>1, <2>2
<1>15. Left(r, t) = ticks
  <2>1. r.tick \in 0 .. TickCount - 1 /\ r.wakeTime[t] = wake
    BY <1>0, <1>9, <1>14
  <2>2. Left(r, t) = IF wake >= s.tick THEN wake - s.tick ELSE (wake + TickCount) - s.tick
    BY <1>3, <1>14, <2>1, LeftIs
  <2>. QED  BY <1>0, <1>1, <1>3, <2>2
<1>16. ASSUME NEW u \in Tasks, u # t
       PROVE  (u \in Sleepers(r) <=> u \in Sleepers(s)) /\ Left(r, u) = Left(s, u)
  BY <1>9, <1>14, <1>16 DEF Left, TicksTo
<1>. QED  BY <1>14, <1>15, <1>16

=============================================================================
