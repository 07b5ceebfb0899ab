--------------------------- MODULE Services_proofs ---------------------------
(***************************************************************************)
(* Proofs about what is built on the kernel: that stream and message        *)
(* buffers deliver what was sent and nobody sleeps on it, that every task   *)
(* stays on the scheduler's lists once and no tick is lost, and the         *)
(* arithmetic of the wall clock.                                            *)
(***************************************************************************)
EXTENDS Kernel_proofs, FiniteSetTheorems

(***************************************************************************)
(* Sequences, and sequences of sequences, by induction.                    *)
(***************************************************************************)

\* Induction over sequences, from the empty one, an element at a time.
LEMMA SequencesFrom ==
    ASSUME NEW S, NEW T, <<>> \in T,
           \A s \in Seq(S) : \A e \in S : s \in T => Append(s, e) \in T
    PROVE  Seq(S) \subseteq T
<1>. DEFINE N == {n \in Nat : \A s \in Seq(S) : Len(s) = n => s \in T}
<1>1. 0 \in N
  <2>1. \A s \in Seq(S) : Len(s) = 0 => s = <<>>
    OBVIOUS
  <2>. QED  BY <2>1
<1>2. ASSUME NEW n \in Nat, n \in N PROVE n + 1 \in N
  <2>1. ASSUME NEW s \in Seq(S), Len(s) = n + 1 PROVE s \in T
    <3>1. s # <<>>
      BY <2>1
    <3>2. PICK r \in Seq(S), e \in S : s = Append(r, e)
      BY <3>1, SequenceEmptyOrAppend
    <3>3. Len(r) = n
      BY <2>1, <3>2
    <3>. QED  BY <1>2, <3>2, <3>3
  <2>. QED  BY <2>1
<1>. HIDE DEF N
<1>3. Nat \subseteq N
  BY <1>1, <1>2, NumbersFrom
<1>. QED  BY <1>3, LenProperties DEF N

\* The function that FlattenSeq is defined by: the prefixes of s, flattened.
Flattened(s) ==
    CHOOSE f : f = [i \in 1 .. Len(s) |-> IF i = 1 THEN s[i] ELSE f[i - 1] \o s[i]]

\* What FlattenSeq is: the last value of that function.
LEMMA FlattenIsLast ==
    ASSUME NEW s, Len(s) # 0
    PROVE  FlattenSeq(s) = Flattened(s)[Len(s)]
BY DEF FlattenSeq, Flattened

\* There is such a function.
LEMMA FlattenedExists ==
    ASSUME NEW S, NEW s \in Seq(S)
    PROVE  Flattened(s) = [i \in 1 .. Len(s) |->
                             IF i = 1 THEN s[i] ELSE Flattened(s)[i - 1] \o s[i]]
<1>. DEFINE Is(f, n) == f = [i \in 1 .. n |-> IF i = 1 THEN s[i] ELSE f[i - 1] \o s[i]]
            N == {n \in Nat : \E f : Is(f, n)}
<1>1. 0 \in N
  <2>1. Is(<<>>, 0)
    OBVIOUS
  <2>. QED  BY <2>1
<1>2. ASSUME NEW n \in Nat, n \in N PROVE n + 1 \in N
  <2>1. PICK f : Is(f, n)
    BY <1>2
  <2>. DEFINE last == IF n = 0 THEN s[1] ELSE f[n] \o s[n + 1]
              g == [i \in 1 .. n + 1 |-> IF i = n + 1 THEN last ELSE f[i]]
  <2>2. ASSUME NEW i \in 1 .. n + 1
        PROVE  g[i] = IF i = 1 THEN s[i] ELSE g[i - 1] \o s[i]
    <3>1. CASE i = n + 1
      <4>1. CASE n = 0
        BY <3>1, <4>1
      <4>2. CASE n # 0
        <5>1. i - 1 = n /\ i # 1 /\ n \in 1 .. n + 1 /\ n # n + 1
          BY <3>1, <4>2
        <5>2. g[i - 1] = f[n] /\ g[i] = f[n] \o s[i]
          BY <3>1, <4>2, <5>1
        <5>. QED  BY <5>1, <5>2
      <4>. QED  BY <4>1, <4>2
    <3>2. CASE i # n + 1
      <4>1. i \in 1 .. n /\ g[i] = f[i]
        BY <3>2
      <4>2. f[i] = IF i = 1 THEN s[i] ELSE f[i - 1] \o s[i]
        BY <2>1, <4>1
      <4>3. i # 1 => i - 1 \in 1 .. n + 1 /\ i - 1 # n + 1
        BY <4>1
      <4>4. i # 1 => g[i - 1] = f[i - 1]
        BY <4>3
      <4>. QED  BY <4>1, <4>2, <4>4
    <3>. QED  BY <3>1, <3>2
  <2>3. Is(g, n + 1)
    <3>. DEFINE h == [i \in 1 .. n + 1 |-> IF i = 1 THEN s[i] ELSE g[i - 1] \o s[i]]
    <3>1. DOMAIN g = 1 .. n + 1 /\ DOMAIN h = 1 .. n + 1
      OBVIOUS
    <3>2. \A i \in 1 .. n + 1 : g[i] = h[i]
      BY <2>2
    <3>3. g = h
      BY <3>1, <3>2
    <3>. QED  BY <3>3
  <2>. HIDE DEF g, Is
  <2>4. \E h : Is(h, n + 1)
    BY <2>3
  <2>. QED  BY <2>4
<1>3. Len(s) \in Nat
  OBVIOUS
<1>4. \E f : Is(f, Len(s))
  <2>. HIDE DEF Is
  <2>. HIDE DEF N
  <2>1. Nat \subseteq N
    BY <1>1, <1>2, NumbersFrom
  <2>. QED  BY <1>3, <2>1 DEF N
<1>. QED  BY <1>4 DEF Flattened

\* Sequences that agree have the same prefixes.
LEMMA FlattenedAgree ==
    ASSUME NEW S, NEW s \in Seq(S), NEW r \in Seq(S), NEW n \in Nat,
           n <= Len(s), n <= Len(r), \A i \in 1 .. n : s[i] = r[i]
    PROVE  \A i \in 1 .. n : Flattened(s)[i] = Flattened(r)[i]
<1>. DEFINE N == {k \in Nat : k \in 1 .. n => Flattened(s)[k] = Flattened(r)[k]}
<1>0. /\ \A i \in 1 .. Len(s) :
             Flattened(s)[i] = IF i = 1 THEN s[i] ELSE Flattened(s)[i - 1] \o s[i]
      /\ \A i \in 1 .. Len(r) :
             Flattened(r)[i] = IF i = 1 THEN r[i] ELSE Flattened(r)[i - 1] \o r[i]
  <2>. DEFINE f == Flattened(s)
              g == Flattened(r)
  <2>1. /\ f = [i \in 1 .. Len(s) |-> IF i = 1 THEN s[i] ELSE f[i - 1] \o s[i]]
        /\ g = [i \in 1 .. Len(r) |-> IF i = 1 THEN r[i] ELSE g[i - 1] \o r[i]]
    BY FlattenedExists
  <2>. HIDE DEF f, g
  <2>2. /\ \A i \in 1 .. Len(s) : f[i] = IF i = 1 THEN s[i] ELSE f[i - 1] \o s[i]
        /\ \A i \in 1 .. Len(r) : g[i] = IF i = 1 THEN r[i] ELSE g[i - 1] \o r[i]
    BY <2>1
  <2>. QED  BY <2>2 DEF f, g
<1>1. 0 \in N
  OBVIOUS
<1>2. ASSUME NEW k \in Nat, k \in N PROVE k + 1 \in N
  <2>1. SUFFICES ASSUME k + 1 \in 1 .. n PROVE Flattened(s)[k + 1] = Flattened(r)[k + 1]
    OBVIOUS
  <2>2. k + 1 \in 1 .. Len(s) /\ k + 1 \in 1 .. Len(r) /\ s[k + 1] = r[k + 1]
    BY <2>1
  <2>3. CASE k = 0
    BY <1>0, <2>2, <2>3
  <2>4. CASE k # 0
    <3>1. k + 1 # 1 /\ (k + 1) - 1 = k /\ Flattened(s)[k] = Flattened(r)[k]
      BY <1>2, <2>1, <2>4
    <3>. QED  BY <1>0, <2>2, <3>1
  <2>. QED  BY <2>3, <2>4
<1>. HIDE DEF N
<1>3. Nat \subseteq N
  BY <1>1, <1>2, NumbersFrom
<1>4. ASSUME NEW i \in 1 .. n PROVE Flattened(s)[i] = Flattened(r)[i]
  <2>1. i \in Nat
    OBVIOUS
  <2>. QED  BY <1>3, <2>1 DEF N
<1>. QED  BY <1>4

\* A sequence added at the back is added at the back of what is flattened.
LEMMA FlattenAppend ==
    ASSUME NEW S, NEW s \in Seq(Seq(S)), NEW x \in Seq(S)
    PROVE  FlattenSeq(Append(s, x)) = FlattenSeq(s) \o x
<1>. DEFINE r == Append(s, x)
            n == Len(s)
<1>1. /\ r \in Seq(Seq(S)) /\ Len(r) = n + 1 /\ n \in Nat /\ r[n + 1] = x
      /\ \A i \in 1 .. n : s[i] = r[i]
  BY AppendProperties
<1>. HIDE DEF r
<1>2. FlattenSeq(r) = Flattened(r)[n + 1]
  BY <1>1, FlattenIsLast
<1>3. Flattened(r)[n + 1] = IF n = 0 THEN x ELSE Flattened(r)[n] \o x
  <2>. DEFINE f == Flattened(r)
  <2>1. f = [i \in 1 .. n + 1 |-> IF i = 1 THEN r[i] ELSE f[i - 1] \o r[i]]
    BY <1>1, FlattenedExists
  <2>. HIDE DEF f
  <2>2. n + 1 \in 1 .. n + 1 /\ (n + 1 = 1 <=> n = 0) /\ (n + 1) - 1 = n
    BY <1>1
  <2>3. f[n + 1] = IF n + 1 = 1 THEN r[n + 1] ELSE f[(n + 1) - 1] \o r[n + 1]
    BY <2>1, <2>2
  <2>. QED  BY <1>1, <2>2, <2>3 DEF f
<1>4. CASE n = 0
  <2>1. s = <<>> /\ FlattenSeq(s) = <<>>
    BY <1>4 DEF FlattenSeq
  <2>. QED  BY <1>2, <1>3, <1>4, <2>1, ConcatEmptySeq DEF r
<1>5. CASE n # 0
  <2>0. s \in Seq(Seq(S)) /\ n <= Len(s) /\ n <= Len(r)
    BY <1>1
  <2>1. \A i \in 1 .. n : Flattened(s)[i] = Flattened(r)[i]
    <3>. HIDE DEF n
    <3>. QED  BY <1>1, <2>0, FlattenedAgree
  <2>2. FlattenSeq(s) = Flattened(s)[n] /\ n \in 1 .. n
    BY <1>1, <1>5, FlattenIsLast
  <2>. QED  BY <1>2, <1>3, <1>5, <2>1, <2>2 DEF r
<1>. QED  BY <1>4, <1>5

\* What is flattened is a sequence of elements.
LEMMA FlattenType ==
    ASSUME NEW S
    PROVE  FlattenSeq(<<>>) = <<>> /\ \A s \in Seq(Seq(S)) : FlattenSeq(s) \in Seq(S)
<1>. DEFINE T == {s \in Seq(Seq(S)) : FlattenSeq(s) \in Seq(S)}
<1>1. FlattenSeq(<<>>) = <<>>
  BY DEF FlattenSeq
<1>2. <<>> \in T
  BY <1>1, EmptySeq
<1>3. ASSUME NEW s \in Seq(Seq(S)), NEW e \in Seq(S), s \in T PROVE Append(s, e) \in T
  BY <1>3, FlattenAppend, ConcatProperties, AppendProperties
<1>. HIDE DEF T
<1>4. Seq(Seq(S)) \subseteq T
  BY <1>2, <1>3, SequencesFrom
<1>. QED  BY <1>1, <1>4 DEF T

\* And at the front.
LEMMA FlattenFirst ==
    ASSUME NEW S, NEW x \in Seq(S)
    PROVE  \A s \in Seq(Seq(S)) : FlattenSeq(<<x>> \o s) = x \o FlattenSeq(s)
<1>. DEFINE T == {s \in Seq(Seq(S)) : FlattenSeq(<<x>> \o s) = x \o FlattenSeq(s)}
<1>0. <<x>> \in Seq(Seq(S))
  OBVIOUS
<1>1. <<>> \in T
  <2>1. <<x>> \o <<>> = Append(<<>>, x) /\ <<>> \in Seq(Seq(S))
    BY <1>0
  <2>2. FlattenSeq(<<x>> \o <<>>) = FlattenSeq(<<>>) \o x
    BY <2>1, FlattenAppend
  <2>3. FlattenSeq(<<>>) = <<>>
    BY FlattenType
  <2>. QED  BY <2>1, <2>2, <2>3, ConcatEmptySeq
<1>2. ASSUME NEW s \in Seq(Seq(S)), NEW e \in Seq(S), s \in T PROVE Append(s, e) \in T
  <2>1. /\ <<x>> \o s \in Seq(Seq(S)) /\ Append(s, e) \in Seq(Seq(S))
        /\ <<x>> \o Append(s, e) = Append(<<x>> \o s, e)
    <3>1. /\ Append(s, e) = s \o <<e>> /\ <<e>> \in Seq(Seq(S)) /\ <<x>> \o s \in Seq(Seq(S))
          /\ Append(<<x>> \o s, e) = (<<x>> \o s) \o <<e>>
      BY <1>0, AppendIsConcat, ConcatProperties
    <3>. QED  BY <1>0, <3>1, ConcatAssociative, AppendProperties
  <2>2. FlattenSeq(<<x>> \o Append(s, e)) = FlattenSeq(<<x>> \o s) \o e
    BY <2>1, FlattenAppend
  <2>3. FlattenSeq(<<x>> \o s) = x \o FlattenSeq(s) /\ FlattenSeq(s) \in Seq(S)
    BY <1>2, FlattenType
  <2>4. (x \o FlattenSeq(s)) \o e = x \o (FlattenSeq(s) \o e)
    BY <2>3, ConcatAssociative
  <2>5. FlattenSeq(Append(s, e)) = FlattenSeq(s) \o e
    BY FlattenAppend
  <2>. QED  BY <2>1, <2>2, <2>3, <2>4, <2>5
<1>. HIDE DEF T
<1>3. Seq(Seq(S)) \subseteq T
  BY <1>1, <1>2, SequencesFrom
<1>. QED  BY <1>3 DEF T

(***************************************************************************)
(* The ring of a buffer.                                                   *)
(***************************************************************************)

StreamFields ==
    {"isMessage", "length", "trigger", "tail", "head", "slots", "waitingToReceive",
     "waitingToSend", "sent", "got"}

\* What a buffer is like between two accesses.
SoundStream(s) ==
    /\ DOMAIN s = StreamFields
    /\ s.length \in Nat \ {0} /\ s.isMessage \in BOOLEAN
    /\ s.tail \in 0 .. s.length - 1 /\ s.head \in 0 .. s.length - 1
    /\ s.slots \in [0 .. s.length - 1 -> Nat]
    /\ s.sent \in Seq(Seq(Nat)) /\ s.got \in Seq(Seq(Nat))

Stored(s) == Oldest(s, BytesIn(s))

\* The bytes in a ring and the space left, without remainders.
LEMMA Counts ==
    ASSUME NEW s, SoundStream(s)
    PROVE  /\ BytesIn(s) = IF s.tail <= s.head THEN s.head - s.tail
                           ELSE s.length + s.head - s.tail
           /\ BytesIn(s) \in 0 .. s.length - 1 /\ SpaceIn(s) \in 0 .. s.length - 1
           /\ BytesIn(s) \in Nat /\ SpaceIn(s) \in Nat
           /\ SpaceIn(s) = s.length - 1 - BytesIn(s)
<1>. DEFINE n == s.length
            h == s.head
            t == s.tail
            x == n + h - t
            y == n + t - h - 1
<1>1. n \in Nat \ {0} /\ h \in 0 .. n - 1 /\ t \in 0 .. n - 1
  BY DEF SoundStream
<1>2. BytesIn(s) = x % n /\ SpaceIn(s) = y % n
  BY DEF BytesIn, SpaceIn
<1>. HIDE DEF n, h, t
<1>3. x \in 0 .. 2 * n /\ y \in 0 .. 2 * n /\ x < 2 * n /\ y < 2 * n
  BY <1>1
<1>4. x % n = (IF x < n THEN x ELSE x - n) /\ y % n = (IF y < n THEN y ELSE y - n)
  <2>. HIDE DEF x, y
  <2>. QED  BY <1>1, <1>3, Wrap
<1>5. x % n = IF t <= h THEN h - t ELSE n + h - t
  BY <1>1, <1>4
<1>6. y % n = n - 1 - (x % n)
  BY <1>1, <1>4, <1>5
<1>7. x % n \in 0 .. n - 1
  BY <1>1, <1>5
<1>. HIDE DEF x, y
<1>8. /\ BytesIn(s) = (IF t <= h THEN h - t ELSE n + h - t) /\ SpaceIn(s) = n - 1 - BytesIn(s)
      /\ BytesIn(s) \in 0 .. n - 1
  BY <1>2, <1>5, <1>6, <1>7
<1>9. SpaceIn(s) \in 0 .. n - 1 /\ BytesIn(s) \in Nat /\ SpaceIn(s) \in Nat
  BY <1>1, <1>8
<1>. QED  BY <1>8, <1>9 DEF n, h, t

\* The position of the i-th byte from the tail, and the place that position has
\* in what is written at the head, B bytes behind the tail.
LEMMA PlaceInRing ==
    ASSUME NEW n \in Nat \ {0}, NEW t \in 0 .. n - 1, NEW h \in 0 .. n - 1,
           NEW B \in 0 .. n - 1, NEW i \in 1 .. n,
           h = IF t + B < n THEN t + B ELSE t + B - n
    PROVE  /\ (t + i - 1) % n \in 0 .. n - 1
           /\ (((t + i - 1) % n) + n - h) % n = IF i > B THEN i - 1 - B ELSE n + i - 1 - B
<1>. DEFINE x == t + i - 1
            j == x % n
<1>1. x \in 0 .. 2 * n /\ x < 2 * n
  OBVIOUS
<1>2. j = IF x < n THEN x ELSE x - n
  <2>. HIDE DEF x
  <2>. QED  BY <1>1, Wrap
<1>3. j \in 0 .. n - 1
  BY <1>2
<1>4. x \in Int /\ x = t + i - 1
  OBVIOUS
<1>. DEFINE y == j + n - h
<1>. HIDE DEF x, j
<1>5. y \in 0 .. 2 * n /\ y < 2 * n
  BY <1>3
<1>6. y % n = IF y < n THEN y ELSE y - n
  <2>. HIDE DEF y
  <2>. QED  BY <1>5, Wrap
<1>7. y % n = IF i > B THEN i - 1 - B ELSE n + i - 1 - B
  BY <1>2, <1>3, <1>4, <1>6
<1>. QED  BY <1>3, <1>7 DEF j, x

\* What is copied out of a ring.
LEMMA OldestIs ==
    ASSUME NEW s, SoundStream(s), NEW n \in 0 .. s.length
    PROVE  /\ Oldest(s, n) \in Seq(Nat) /\ Len(Oldest(s, n)) = n /\ n \in Nat
           /\ \A i \in 1 .. n : /\ (s.tail + i - 1) % s.length \in 0 .. s.length - 1
                                /\ Oldest(s, n)[i] = s.slots[(s.tail + i - 1) % s.length]
<1>1. s.length \in Nat \ {0} /\ s.tail \in 0 .. s.length - 1 /\ n \in Nat
  BY DEF SoundStream
<1>2. ASSUME NEW i \in 1 .. n PROVE (s.tail + i - 1) % s.length \in 0 .. s.length - 1
  <2>1. s.tail + i - 1 \in Int
    BY <1>1
  <2>. QED  BY <1>1, <2>1
<1>3. \A i \in 1 .. n : s.slots[(s.tail + i - 1) % s.length] \in Nat
  BY <1>2 DEF SoundStream
<1>. QED  BY <1>1, <1>2, <1>3 DEF Oldest

\* What is written is behind what was stored.
LEMMA WrittenIsLast ==
    ASSUME NEW s, SoundStream(s), NEW v \in Seq(Nat), Len(v) <= SpaceIn(s)
    PROVE  /\ SoundStream(Written(s, v))
           /\ Stored(Written(s, v)) = Stored(s) \o v
           /\ BytesIn(Written(s, v)) = BytesIn(s) + Len(v)
           /\ SpaceIn(Written(s, v)) = SpaceIn(s) - Len(v)
           /\ Written(s, v).length = s.length /\ Written(s, v).isMessage = s.isMessage
           /\ Written(s, v).sent = s.sent /\ Written(s, v).got = s.got
<1>. DEFINE w == Written(s, v)
            n == s.length
            h == s.head
            t == s.tail
            B == BytesIn(s)
            m == Len(v)
<1>1. /\ n \in Nat \ {0} /\ h \in 0 .. n - 1 /\ t \in 0 .. n - 1 /\ m \in Nat
      /\ B \in 0 .. n - 1 /\ B + m <= n - 1
      /\ B = IF t <= h THEN h - t ELSE n + h - t
  <2>1. n \in Nat \ {0} /\ h \in 0 .. n - 1 /\ t \in 0 .. n - 1 /\ m \in Nat
    BY DEF SoundStream
  <2>2. /\ B \in 0 .. n - 1 /\ SpaceIn(s) = n - 1 - B
        /\ B = IF t <= h THEN h - t ELSE n + h - t
    BY Counts
  <2>. HIDE DEF n, h, t, B
  <2>3. B + m <= n - 1
    BY <2>1, <2>2
  <2>. QED  BY <2>1, <2>2, <2>3
<1>2. /\ DOMAIN w = StreamFields /\ w.length = n /\ w.tail = t /\ w.head = (h + m) % n
      /\ w.isMessage = s.isMessage /\ w.sent = s.sent /\ w.got = s.got
      /\ w.slots = [i \in DOMAIN s.slots |->
                       IF ((i + n - h) % n) + 1 <= m THEN v[((i + n - h) % n) + 1] ELSE s.slots[i]]
  BY DEF Written, SoundStream, StreamFields
<1>3. DOMAIN s.slots = 0 .. n - 1 /\ \A i \in 0 .. n - 1 : s.slots[i] \in Nat
  BY DEF SoundStream
<1>. HIDE DEF w, n, h, t, B
<1>4. w.slots \in [0 .. n - 1 -> Nat]
  <2>1. ASSUME NEW i \in 0 .. n - 1, ((i + n - h) % n) + 1 <= m
        PROVE  v[((i + n - h) % n) + 1] \in Nat
    <3>1. i + n - h \in Int
      BY <1>1
    <3>2. (i + n - h) % n \in 0 .. n - 1
      BY <1>1, <3>1
    <3>3. ((i + n - h) % n) + 1 \in 1 .. m
      BY <1>1, <2>1, <3>2
    <3>. QED  BY <3>3
  <2>. QED  BY <1>2, <1>3, <2>1
<1>5. w.head = (IF h + m < n THEN h + m ELSE h + m - n) /\ w.head \in 0 .. n - 1
  <2>. DEFINE x == h + m
  <2>1. x \in 0 .. 2 * n /\ x < 2 * n /\ x = h + m
    BY <1>1
  <2>. HIDE DEF x
  <2>2. x % n = IF x < n THEN x ELSE x - n
    BY <1>1, <2>1, Wrap
  <2>3. x % n = IF h + m < n THEN h + m ELSE h + m - n
    BY <1>1, <2>1, <2>2
  <2>4. x % n \in 0 .. n - 1
    BY <1>1, <2>3
  <2>. QED  BY <1>2, <2>3, <2>4 DEF x
<1>6. SoundStream(w)
  BY <1>1, <1>2, <1>4, <1>5 DEF SoundStream, n, t
<1>7. BytesIn(w) = B + m
  <2>1. BytesIn(w) = IF t <= w.head THEN w.head - t ELSE n + w.head - t
    BY <1>2, <1>6, Counts
  <2>. QED  BY <1>1, <1>5, <2>1
<1>8. SpaceIn(w) = SpaceIn(s) - m
  <2>1. SpaceIn(w) = n - 1 - (B + m) /\ SpaceIn(s) = n - 1 - B
    BY <1>2, <1>6, <1>7, Counts DEF n, B
  <2>. QED  BY <1>1, <2>1
<1>9. Stored(w) = Stored(s) \o v
  <2>. DEFINE p(i) == (t + i - 1) % n
  <2>1. /\ Stored(w) \in Seq(Nat) /\ Len(Stored(w)) = B + m
        /\ \A i \in 1 .. B + m : Stored(w)[i] = w.slots[p(i)]
    <3>1. B + m \in 0 .. w.length
      BY <1>1, <1>2
    <3>. QED  BY <1>2, <1>6, <1>7, <3>1, OldestIs DEF Stored
  <2>2. /\ Stored(s) \in Seq(Nat) /\ Len(Stored(s)) = B
        /\ \A i \in 1 .. B : Stored(s)[i] = s.slots[p(i)]
    <3>1. B \in 0 .. s.length
      BY <1>1 DEF n
    <3>. QED  BY <3>1, OldestIs DEF Stored, B, n, t
  <2>3. /\ Stored(s) \o v \in Seq(Nat) /\ Len(Stored(s) \o v) = B + m
        /\ \A i \in 1 .. B + m :
              (Stored(s) \o v)[i] = IF i <= B THEN Stored(s)[i] ELSE v[i - B]
    BY <2>2, ConcatProperties
  <2>4. ASSUME NEW i \in 1 .. B + m
        PROVE  w.slots[p(i)] = IF i <= B THEN s.slots[p(i)] ELSE v[i - B]
    <3>1. /\ n \in Nat \ {0} /\ t \in 0 .. n - 1 /\ h \in 0 .. n - 1 /\ B \in 0 .. n - 1
          /\ i \in 1 .. n /\ h = IF t + B < n THEN t + B ELSE t + B - n
      BY <1>1
    <3>2. /\ (t + i - 1) % n \in 0 .. n - 1
          /\ (((t + i - 1) % n) + n - h) % n = IF i > B THEN i - 1 - B ELSE n + i - 1 - B
      <4>. DEFINE Spot(a, b, d) == IF b + d < a THEN b + d ELSE b + d - a
                  Index(a, d, e) == IF e > d THEN e - 1 - d ELSE a + e - 1 - d
                  At1(a, b, e) == (b + e - 1) % a
                  Back(a, b, c, e) == (((b + e - 1) % a) + a - c) % a
                  Range1(a) == 0 .. a - 1
      <4>1. \A a \in Nat \ {0} : \A b, c, d \in Range1(a) : \A e \in 1 .. a :
               c = Spot(a, b, d) => At1(a, b, e) \in Range1(a) /\ Back(a, b, c, e) = Index(a, d, e)
        BY PlaceInRing
      <4>2. /\ n \in Nat \ {0} /\ t \in Range1(n) /\ h \in Range1(n) /\ B \in Range1(n)
            /\ i \in 1 .. n /\ h = Spot(n, t, B)
        BY <3>1
      <4>3. At1(n, t, i) \in Range1(n) /\ Back(n, t, h, i) = Index(n, B, i)
        <5>. HIDE DEF Spot, Index, At1, Back, Range1
        <5>. QED  BY <4>1, <4>2
      <4>. QED  BY <4>3
    <3>. DEFINE k == (p(i) + n - h) % n
    <3>3. w.slots[p(i)] = IF k + 1 <= m THEN v[k + 1] ELSE s.slots[p(i)]
      BY <1>2, <1>3, <3>2
    <3>4. k = IF i > B THEN i - 1 - B ELSE n + i - 1 - B
      BY <3>2 DEF p
    <3>. HIDE DEF k, p
    <3>5. CASE i <= B
      <4>1. ~ (k + 1 <= m)
        BY <1>1, <3>4, <3>5
      <4>. QED  BY <3>3, <3>5, <4>1
    <3>6. CASE i > B
      <4>1. k + 1 <= m /\ k + 1 = i - B /\ ~ (i <= B)
        BY <1>1, <3>4, <3>6
      <4>. QED  BY <3>3, <4>1
    <3>. QED  BY <1>1, <3>5, <3>6
  <2>. HIDE DEF p
  <2>5. \A i \in 1 .. B + m : Stored(w)[i] = (Stored(s) \o v)[i]
    <3>1. ASSUME NEW i \in 1 .. B + m PROVE Stored(w)[i] = (Stored(s) \o v)[i]
      <4>1. i <= B => i \in 1 .. B
        BY <1>1
      <4>2. Stored(w)[i] = IF i <= B THEN Stored(s)[i] ELSE v[i - B]
        BY <2>1, <2>2, <2>4, <4>1
      <4>. QED  BY <2>3, <4>2
    <3>. QED  BY <3>1
  <2>. QED  BY <2>1, <2>3, <2>5, SeqEqual
<1>. QED  BY <1>2, <1>6, <1>7, <1>8, <1>9 DEF w, n, B

\* What is read is in front of what stays.
LEMMA OldestIsFirst ==
    ASSUME NEW s, SoundStream(s), NEW m \in 0 .. BytesIn(s)
    PROVE  /\ SoundStream(Advanced(s, m))
           /\ Stored(s) = Oldest(s, m) \o Stored(Advanced(s, m))
           /\ Oldest(s, m) \in Seq(Nat) /\ Len(Oldest(s, m)) = m
           /\ BytesIn(Advanced(s, m)) = BytesIn(s) - m
           /\ SpaceIn(Advanced(s, m)) = SpaceIn(s) + m
           /\ Advanced(s, m).length = s.length /\ Advanced(s, m).isMessage = s.isMessage
           /\ Advanced(s, m).sent = s.sent /\ Advanced(s, m).got = s.got
<1>. DEFINE a == Advanced(s, m)
            n == s.length
            h == s.head
            t == s.tail
            B == BytesIn(s)
<1>1. /\ n \in Nat \ {0} /\ h \in 0 .. n - 1 /\ t \in 0 .. n - 1 /\ m \in Nat /\ m <= B
      /\ B \in 0 .. n - 1
      /\ B = IF t <= h THEN h - t ELSE n + h - t
  <2>1. n \in Nat \ {0} /\ h \in 0 .. n - 1 /\ t \in 0 .. n - 1
    BY DEF SoundStream
  <2>2. B \in 0 .. n - 1 /\ B = IF t <= h THEN h - t ELSE n + h - t
    BY Counts
  <2>. HIDE DEF n, h, t
  <2>. QED  BY <2>1, <2>2
<1>2. /\ DOMAIN a = StreamFields /\ a.length = n /\ a.tail = (t + m) % n /\ a.head = h
      /\ a.isMessage = s.isMessage /\ a.sent = s.sent /\ a.got = s.got /\ a.slots = s.slots
  BY DEF Advanced, SoundStream, StreamFields
<1>. HIDE DEF a, n, h, t, B
<1>5. a.tail = (IF t + m < n THEN t + m ELSE t + m - n) /\ a.tail \in 0 .. n - 1
  <2>. DEFINE x == t + m
  <2>1. x \in 0 .. 2 * n /\ x < 2 * n /\ x = t + m
    BY <1>1
  <2>. HIDE DEF x
  <2>2. x % n = IF x < n THEN x ELSE x - n
    BY <1>1, <2>1, Wrap
  <2>3. x % n = IF t + m < n THEN t + m ELSE t + m - n
    BY <1>1, <2>1, <2>2
  <2>4. x % n \in 0 .. n - 1
    BY <1>1, <2>3
  <2>. QED  BY <1>2, <2>3, <2>4 DEF x
<1>6. SoundStream(a)
  BY <1>1, <1>2, <1>5 DEF SoundStream, n, h
<1>7. BytesIn(a) = B - m
  <2>1. BytesIn(a) = IF a.tail <= h THEN h - a.tail ELSE n + h - a.tail
    BY <1>2, <1>6, Counts
  <2>. QED  BY <1>1, <1>5, <2>1
<1>8. SpaceIn(a) = SpaceIn(s) + m
  <2>1. SpaceIn(a) = n - 1 - (B - m) /\ SpaceIn(s) = n - 1 - B
    BY <1>2, <1>6, <1>7, Counts DEF n, B
  <2>. QED  BY <1>1, <2>1
<1>9. /\ Oldest(s, m) \in Seq(Nat) /\ Len(Oldest(s, m)) = m
      /\ \A i \in 1 .. m : Oldest(s, m)[i] = s.slots[(t + i - 1) % n]
  <2>1. m \in 0 .. s.length
    BY <1>1 DEF n
  <2>. QED  BY <2>1, OldestIs DEF n, t
<1>10. /\ Stored(s) \in Seq(Nat) /\ Len(Stored(s)) = B
       /\ \A i \in 1 .. B : Stored(s)[i] = s.slots[(t + i - 1) % n]
  <2>1. B \in 0 .. s.length
    BY <1>1 DEF n
  <2>. QED  BY <2>1, OldestIs DEF Stored, B, n, t
<1>11. /\ Stored(a) \in Seq(Nat) /\ Len(Stored(a)) = B - m
       /\ \A i \in 1 .. B - m : Stored(a)[i] = s.slots[(a.tail + i - 1) % n]
  <2>1. B - m \in 0 .. a.length
    BY <1>1, <1>2
  <2>. QED  BY <1>2, <1>6, <1>7, <2>1, OldestIs DEF Stored
<1>12. ASSUME NEW i \in 1 .. B, i > m
       PROVE  (a.tail + (i - m) - 1) % n = (t + i - 1) % n
  <2>. DEFINE x == t + i - 1
              y == a.tail + (i - m) - 1
  <2>1. x \in 0 .. 2 * n /\ x < 2 * n /\ y \in 0 .. 2 * n /\ y < 2 * n
    BY <1>1, <1>5, <1>12
  <2>2. y = x \/ (y = x - n /\ x >= n)
    BY <1>1, <1>5, <1>12
  <2>. HIDE DEF x, y
  <2>3. x % n = (IF x < n THEN x ELSE x - n) /\ y % n = (IF y < n THEN y ELSE y - n)
    BY <1>1, <2>1, Wrap
  <2>4. x % n = y % n
    BY <1>1, <2>1, <2>2, <2>3
  <2>. QED  BY <2>4 DEF x, y
<1>13. Stored(s) = Oldest(s, m) \o Stored(a)
  <2>. DEFINE r == Oldest(s, m) \o Stored(a)
  <2>1. /\ r \in Seq(Nat) /\ Len(r) = B
        /\ \A i \in 1 .. B : r[i] = IF i <= m THEN Oldest(s, m)[i] ELSE Stored(a)[i - m]
    <3>1. /\ r \in Seq(Nat) /\ Len(r) = m + (B - m)
          /\ \A i \in 1 .. m + (B - m) :
                r[i] = IF i <= m THEN Oldest(s, m)[i] ELSE Stored(a)[i - m]
      <4>. DEFINE x == Oldest(s, m)
                  y == Stored(a)
      <4>1. /\ x \in Seq(Nat) /\ Len(x) = m /\ y \in Seq(Nat) /\ Len(y) = B - m
        BY <1>9, <1>11
      <4>. HIDE DEF x, y
      <4>2. /\ x \o y \in Seq(Nat) /\ Len(x \o y) = Len(x) + Len(y)
            /\ \A i \in 1 .. Len(x) + Len(y) :
                  (x \o y)[i] = IF i <= Len(x) THEN x[i] ELSE y[i - Len(x)]
        BY <4>1, ConcatProperties
      <4>3. /\ x \o y \in Seq(Nat) /\ Len(x \o y) = m + (B - m)
            /\ \A i \in 1 .. m + (B - m) :
                  (x \o y)[i] = IF i <= m THEN x[i] ELSE y[i - m]
        BY <4>1, <4>2
      <4>. QED  BY <4>3 DEF x, y
    <3>2. m + (B - m) = B
      BY <1>1
    <3>. HIDE DEF r
    <3>. QED  BY <3>1, <3>2
  <2>2. ASSUME NEW i \in 1 .. B PROVE r[i] = s.slots[(t + i - 1) % n]
    <3>1. CASE i <= m
      <4>1. i \in 1 .. m
        BY <1>1, <3>1
      <4>. QED  BY <1>9, <2>1, <3>1, <4>1
    <3>2. CASE i > m
      <4>1. i - m \in 1 .. B - m /\ ~ (i <= m)
        BY <1>1, <3>2
      <4>2. Stored(a)[i - m] = s.slots[(a.tail + (i - m) - 1) % n]
        BY <1>11, <4>1
      <4>. QED  BY <1>12, <2>1, <3>2, <4>1, <4>2
    <3>3. i \in Int /\ m \in Int
      BY <1>1
    <3>. HIDE DEF r
    <3>. QED  BY <3>1, <3>2, <3>3
  <2>. HIDE DEF r
  <2>3. Stored(s) = r
    BY <1>10, <2>1, <2>2, SeqEqual
  <2>. QED  BY <2>3 DEF r
<1>. QED  BY <1>2, <1>6, <1>7, <1>8, <1>9, <1>13 DEF a, n, B

\* Concatenation, for sequences over one set.
LEMMA Associative ==
    /\ \A a, b, c \in Seq(Nat) : (a \o b) \o c = a \o (b \o c)
    /\ \A a, b, c \in Seq(Seq(Nat)) : (a \o b) \o c = a \o (b \o c)
<1>1. ASSUME NEW a \in Seq(Nat), NEW b \in Seq(Nat), NEW c \in Seq(Nat)
      PROVE  (a \o b) \o c = a \o (b \o c)
  BY ConcatAssociative
<1>2. ASSUME NEW a \in Seq(Seq(Nat)), NEW b \in Seq(Seq(Nat)), NEW c \in Seq(Seq(Nat))
      PROVE  (a \o b) \o c = a \o (b \o c)
  BY ConcatAssociative
<1>. QED  BY <1>1, <1>2

\* Bytes put together.
LEMMA BytesAssociative ==
    ASSUME NEW a \in Seq(Nat), NEW b \in Seq(Nat), NEW c \in Seq(Nat)
    PROVE  (a \o b) \o c = a \o (b \o c)
BY ConcatAssociative

\* The elements of two sequences put together.
LEMMA Joined ==
    ASSUME NEW S
    PROVE  \A a, b \in Seq(S) :
              /\ a \o b \in Seq(S) /\ Len(a \o b) = Len(a) + Len(b)
              /\ \A i \in 1 .. Len(a) + Len(b) :
                    (a \o b)[i] = IF i <= Len(a) THEN a[i] ELSE b[i - Len(a)]
<1>1. ASSUME NEW a \in Seq(S), NEW b \in Seq(S)
      PROVE  /\ a \o b \in Seq(S) /\ Len(a \o b) = Len(a) + Len(b)
             /\ \A i \in 1 .. Len(a) + Len(b) :
                   (a \o b)[i] = IF i <= Len(a) THEN a[i] ELSE b[i - Len(a)]
  BY ConcatProperties
<1>. QED  BY <1>1

(***************************************************************************)
(* Messages: the bytes of a message buffer are the messages not yet         *)
(* received, each behind its length.                                       *)
(***************************************************************************)

Framed(r) == [i \in DOMAIN r |-> <<Len(r[i])>> \o r[i]]

\* Messages with their lengths put before them.
LEMMA FramedType ==
    ASSUME NEW r \in Seq(Seq(Nat))
    PROVE  /\ Framed(r) \in Seq(Seq(Nat)) /\ Len(Framed(r)) = Len(r)
           /\ \A i \in 1 .. Len(r) : Framed(r)[i] = <<Len(r[i])>> \o r[i]
<1>1. Len(r) \in Nat /\ DOMAIN r = 1 .. Len(r)
  BY LenProperties
<1>2. ASSUME NEW i \in 1 .. Len(r) PROVE <<Len(r[i])>> \o r[i] \in Seq(Nat)
  <2>1. r[i] \in Seq(Nat)
    BY ElementOfSeq
  <2>2. <<Len(r[i])>> \in Seq(Nat)
    BY <2>1
  <2>. QED  BY <2>1, <2>2, ConcatProperties
<1>3. Framed(r) \in [1 .. Len(r) -> Seq(Nat)]
  BY <1>1, <1>2 DEF Framed
<1>4. Framed(r) \in Seq(Seq(Nat))
  <2>. DEFINE n == Len(r)
              f == Framed(r)
  <2>1. n \in Nat /\ f \in [1 .. n -> Seq(Nat)]
    BY <1>1, <1>3
  <2>. HIDE DEF n, f
  <2>2. Seq(Seq(Nat)) = UNION {[1 .. k -> Seq(Nat)] : k \in Nat}
    BY SeqDef, Zenon
  <2>3. f \in UNION {[1 .. k -> Seq(Nat)] : k \in Nat}
    BY <2>1, Zenon
  <2>4. f \in Seq(Seq(Nat))
    BY <2>2, <2>3, Zenon
  <2>. QED  BY <2>4 DEF f
<1>5. Len(Framed(r)) = Len(r)
  <2>1. DOMAIN Framed(r) = 1 .. Len(r) /\ DOMAIN Framed(r) = 1 .. Len(Framed(r)) /\ Len(Framed(r)) \in Nat
    BY <1>3, <1>4, LenProperties
  <2>. QED  BY <1>1, <2>1
<1>. QED  BY <1>1, <1>4, <1>5 DEF Framed

\* In the ring, a message sent last comes after the others.
LEMMA PackedAppend ==
    ASSUME NEW r \in Seq(Seq(Nat)), NEW m \in Seq(Nat)
    PROVE  Packed(Append(r, m)) = Packed(r) \o (<<Len(m)>> \o m)
<1>. DEFINE n == Len(r)
            x == <<Len(m)>> \o m
            u == Append(r, m)
<1>1. x \in Seq(Nat)
  <2>1. <<Len(m)>> \in Seq(Nat)
    OBVIOUS
  <2>. QED  BY <2>1, ConcatProperties
<1>2. /\ u \in Seq(Seq(Nat)) /\ Len(u) = n + 1 /\ n \in Nat /\ u[n + 1] = m
      /\ \A i \in 1 .. n : u[i] = r[i]
  BY AppendProperties
<1>3. /\ Framed(r) \in Seq(Seq(Nat)) /\ Len(Framed(r)) = n
      /\ \A i \in 1 .. n : Framed(r)[i] = <<Len(r[i])>> \o r[i]
  BY FramedType
<1>. HIDE DEF u, n
<1>4. /\ Framed(u) \in Seq(Seq(Nat)) /\ Len(Framed(u)) = n + 1
      /\ \A i \in 1 .. n + 1 : Framed(u)[i] = <<Len(u[i])>> \o u[i]
  BY <1>2, FramedType
<1>. HIDE DEF x
<1>5. /\ Append(Framed(r), x) \in Seq(Seq(Nat)) /\ Len(Append(Framed(r), x)) = n + 1
      /\ \A i \in 1 .. n : Append(Framed(r), x)[i] = Framed(r)[i]
      /\ Append(Framed(r), x)[n + 1] = x
  BY <1>1, <1>3, AppendProperties
<1>6. ASSUME NEW i \in 1 .. n + 1 PROVE Framed(u)[i] = Append(Framed(r), x)[i]
  <2>1. CASE i = n + 1
    BY <1>2, <1>4, <1>5, <2>1 DEF x
  <2>2. CASE i # n + 1
    <3>1. i \in 1 .. n
      BY <1>2, <2>2
    <3>. QED  BY <1>2, <1>3, <1>4, <1>5, <3>1
  <2>. QED  BY <2>1, <2>2
<1>7. Framed(u) = Append(Framed(r), x)
  BY <1>4, <1>5, <1>6, SeqEqual
<1>8. FlattenSeq(Append(Framed(r), x)) = FlattenSeq(Framed(r)) \o x
  BY <1>1, <1>3, FlattenAppend
<1>. QED  BY <1>7, <1>8 DEF Packed, Framed, x, u

\* In the ring, the message sent first comes before the others.
LEMMA PackedFirst ==
    ASSUME NEW r \in Seq(Seq(Nat)), NEW m \in Seq(Nat)
    PROVE  Packed(<<m>> \o r) = (<<Len(m)>> \o m) \o Packed(r)
<1>. DEFINE n == Len(r)
            x == <<Len(m)>> \o m
            u == <<m>> \o r
            v == <<x>> \o Framed(r)
<1>1. x \in Seq(Nat)
  <2>1. <<Len(m)>> \in Seq(Nat)
    OBVIOUS
  <2>. QED  BY <2>1, ConcatProperties
<1>2. /\ u \in Seq(Seq(Nat)) /\ Len(u) = n + 1 /\ n \in Nat
      /\ \A i \in 1 .. n + 1 : u[i] = IF i = 1 THEN m ELSE r[i - 1]
  <2>1. <<m>> \in Seq(Seq(Nat)) /\ Len(<<m>>) = 1 /\ <<m>>[1] = m
    OBVIOUS
  <2>2. /\ u \in Seq(Seq(Nat)) /\ Len(u) = Len(<<m>>) + n /\ n \in Nat
        /\ \A i \in 1 .. Len(<<m>>) + n :
              u[i] = IF i <= Len(<<m>>) THEN <<m>>[i] ELSE r[i - Len(<<m>>)]
    BY <2>1, ConcatProperties
  <2>3. Len(<<m>>) + n = n + 1 /\ \A i \in 1 .. n + 1 : i <= Len(<<m>>) <=> i = 1
    BY <2>1, <2>2
  <2>. HIDE DEF u, n
  <2>4. \A i \in 1 .. n + 1 : u[i] = IF i = 1 THEN <<m>>[1] ELSE r[i - 1]
    BY <2>1, <2>2, <2>3
  <2>. QED  BY <2>1, <2>2, <2>3, <2>4
<1>3. /\ Framed(r) \in Seq(Seq(Nat)) /\ Len(Framed(r)) = n
      /\ \A i \in 1 .. n : Framed(r)[i] = <<Len(r[i])>> \o r[i]
  BY FramedType
<1>. HIDE DEF x, u, n
<1>4. /\ v \in Seq(Seq(Nat)) /\ Len(v) = n + 1
      /\ \A i \in 1 .. n + 1 : v[i] = IF i = 1 THEN x ELSE Framed(r)[i - 1]
  <2>1. <<x>> \in Seq(Seq(Nat)) /\ Len(<<x>>) = 1 /\ <<x>>[1] = x
    BY <1>1
  <2>. DEFINE f == Framed(r)
  <2>2. f \in Seq(Seq(Nat)) /\ Len(f) = n
    BY <1>3
  <2>. HIDE DEF f
  <2>3. /\ <<x>> \o f \in Seq(Seq(Nat)) /\ Len(<<x>> \o f) = Len(<<x>>) + Len(f)
        /\ \A i \in 1 .. Len(<<x>>) + Len(f) :
              (<<x>> \o f)[i] = IF i <= Len(<<x>>) THEN <<x>>[i] ELSE f[i - Len(<<x>>)]
    BY <2>1, <2>2, ConcatProperties
  <2>4. Len(<<x>>) + Len(f) = n + 1 /\ \A i \in 1 .. n + 1 : i <= Len(<<x>>) <=> i = 1
    BY <1>2, <2>1, <2>2
  <2>5. \A i \in 1 .. n + 1 : (<<x>> \o f)[i] = IF i = 1 THEN <<x>>[1] ELSE f[i - 1]
    BY <2>1, <2>3, <2>4
  <2>. QED  BY <2>1, <2>3, <2>4, <2>5 DEF f
<1>. HIDE DEF v
<1>5. /\ Framed(u) \in Seq(Seq(Nat)) /\ Len(Framed(u)) = n + 1
      /\ \A i \in 1 .. n + 1 : Framed(u)[i] = <<Len(u[i])>> \o u[i]
  BY <1>2, FramedType
<1>6. ASSUME NEW i \in 1 .. n + 1 PROVE Framed(u)[i] = v[i]
  <2>1. CASE i = 1
    BY <1>2, <1>4, <1>5, <2>1 DEF x
  <2>2. CASE i # 1
    <3>0. i - 1 \in 1 .. n
      BY <1>2, <2>2
    <3>1. i - 1 \in 1 .. n /\ u[i] = r[i - 1] /\ v[i] = Framed(r)[i - 1]
      <4>1. u[i] = r[i - 1]
        BY <1>2, <2>2
      <4>2. v[i] = Framed(r)[i - 1]
        BY <1>4, <2>2
      <4>. QED  BY <3>0, <4>1, <4>2
    <3>2. Framed(r)[i - 1] = <<Len(r[i - 1])>> \o r[i - 1]
      BY <1>3, <3>1
    <3>3. Framed(u)[i] = <<Len(u[i])>> \o u[i]
      BY <1>5
    <3>. QED  BY <3>1, <3>2, <3>3
  <2>. QED  BY <2>1, <2>2
<1>7. Framed(u) = v
  BY <1>4, <1>5, <1>6, SeqEqual
<1>8. FlattenSeq(<<x>> \o Framed(r)) = x \o FlattenSeq(Framed(r))
  BY <1>1, <1>3, FlattenFirst
<1>. QED  BY <1>7, <1>8 DEF Packed, Framed, x, u, v

\* What messages come to in the ring is a sequence of bytes.
LEMMA PackedType ==
    /\ Packed(<<>>) = <<>>
    /\ \A r \in Seq(Seq(Nat)) : Packed(r) \in Seq(Nat)
<1>1. ASSUME NEW r \in Seq(Seq(Nat)) PROVE Packed(r) = FlattenSeq(Framed(r)) /\ Packed(r) \in Seq(Nat)
  <2>1. Framed(r) \in Seq(Seq(Nat))
    BY FramedType
  <2>2. FlattenSeq(Framed(r)) \in Seq(Nat)
    BY <2>1, FlattenType
  <2>. QED  BY <2>2 DEF Packed, Framed
<1>2. <<>> \in Seq(Seq(Nat)) /\ Len(<<>>) = 0
  BY EmptySeq
<1>3. Framed(<<>>) = <<>>
  BY <1>2, FramedType, EmptySeq
<1>. QED  BY <1>1, <1>2, <1>3, FlattenType

(***************************************************************************)
(* What is on its way through a buffer.                                    *)
(***************************************************************************)

\* The ring and what has been sent and received of it; who waits is no matter.
SameData(s, r) ==
    /\ DOMAIN r = DOMAIN s
    /\ r.length = s.length /\ r.isMessage = s.isMessage /\ r.trigger = s.trigger
    /\ r.slots = s.slots /\ r.head = s.head /\ r.tail = s.tail /\ r.sent = s.sent /\ r.got = s.got

\* Buffers with the same data hold the same bytes and have the same space.
LEMMA DataStays ==
    ASSUME NEW s, NEW r, SoundStream(s), SameData(s, r)
    PROVE  /\ SoundStream(r) /\ Stored(r) = Stored(s)
           /\ BytesIn(r) = BytesIn(s) /\ SpaceIn(r) = SpaceIn(s)
BY DEF SameData, SoundStream, Stored, Oldest, BytesIn, SpaceIn

\* Messages of a size from `sizes`, which the buffer and those in the middle of a
\* call have yet to deliver: `taken` was read of the first, `begun` written of
\* one that follows.
OnTheWay(s, sizes, taken, rest, begun) ==
    /\ s.got \in Seq(Seq(Nat)) /\ rest \in Seq(Seq(Nat))
    /\ taken \in Seq(Nat) /\ begun \in Seq(Nat)
    /\ s.sent = s.got \o rest
    /\ taken \o Stored(s) = Packed(rest) \o begun
    /\ \A i \in 1 .. Len(rest) : Len(rest[i]) \in sizes

\* The bytes in a ring are as many as the code counts.
LEMMA StoredType ==
    ASSUME NEW s, SoundStream(s)
    PROVE  Stored(s) \in Seq(Nat) /\ Len(Stored(s)) = BytesIn(s)
<1>1. s.length \in Nat \ {0} /\ BytesIn(s) \in 0 .. s.length - 1
  BY Counts DEF SoundStream
<1>2. BytesIn(s) \in 0 .. s.length
  BY <1>1
<1>. QED  BY <1>2, OldestIs DEF Stored

\* The length of a message is written.
LEMMA LengthIsWritten ==
    ASSUME NEW s, SoundStream(s), NEW sizes, NEW taken, NEW rest, NEW n \in Nat,
           OnTheWay(s, sizes, taken, rest, <<>>), 1 <= SpaceIn(s)
    PROVE  /\ SoundStream(Written(s, <<n>>))
           /\ OnTheWay(Written(s, <<n>>), sizes, taken, rest, <<n>>)
           /\ SpaceIn(Written(s, <<n>>)) = SpaceIn(s) - 1
           /\ BytesIn(Written(s, <<n>>)) = BytesIn(s) + 1
           /\ Written(s, <<n>>).length = s.length /\ Written(s, <<n>>).isMessage = s.isMessage
<1>. DEFINE w == Written(s, <<n>>)
<1>1. <<n>> \in Seq(Nat) /\ Len(<<n>>) = 1
  OBVIOUS
<1>2. /\ SoundStream(w) /\ Stored(w) = Stored(s) \o <<n>> /\ BytesIn(w) = BytesIn(s) + 1
      /\ SpaceIn(w) = SpaceIn(s) - 1 /\ w.sent = s.sent /\ w.got = s.got
      /\ w.length = s.length /\ w.isMessage = s.isMessage
  BY <1>1, WrittenIsLast
<1>. HIDE DEF w
<1>3. /\ Stored(s) \in Seq(Nat) /\ taken \in Seq(Nat) /\ Packed(rest) \in Seq(Nat)
      /\ taken \o Stored(s) = Packed(rest) \o <<>>
  BY StoredType, PackedType DEF OnTheWay
<1>4. taken \o Stored(s) = Packed(rest)
  BY <1>3, ConcatEmptySeq
<1>5. taken \o Stored(w) = Packed(rest) \o <<n>>
  <2>. DEFINE a == Stored(s)
              b == <<n>>
  <2>0. taken \in Seq(Nat) /\ a \in Seq(Nat) /\ b \in Seq(Nat)
    BY <1>1, <1>3
  <2>. HIDE DEF a, b
  <2>1. (taken \o a) \o b = taken \o (a \o b)
    BY <2>0, BytesAssociative
  <2>. USE DEF a, b
  <2>. QED  BY <1>2, <1>4, <2>1
<1>6. OnTheWay(w, sizes, taken, rest, <<n>>)
  BY <1>1, <1>2, <1>5 DEF OnTheWay
<1>. QED  BY <1>2, <1>6 DEF w

\* The numbers given to the data are a sequence.
LEMMA NewDataType ==
    ASSUME NEW s, s.sent \in Seq(Seq(Nat)), NEW n \in Nat
    PROVE  NewData(s, n) \in Seq(Nat) /\ Len(NewData(s, n)) = n
<1>1. FlattenSeq(s.sent) \in Seq(Nat)
  BY FlattenType
<1>2. Len(FlattenSeq(s.sent)) \in Nat
  BY <1>1
<1>. QED  BY <1>2 DEF NewData

\* What an addition to what was sent does not change.
LEMMA SentFields ==
    ASSUME NEW s, NEW d \in Seq(Seq(Nat)), SoundStream(s)
    PROVE  LET r == [s EXCEPT !.sent = d] IN
           /\ SoundStream(r) /\ Stored(r) = Stored(s) /\ r.sent = d /\ r.got = s.got
           /\ BytesIn(r) = BytesIn(s) /\ SpaceIn(r) = SpaceIn(s)
           /\ r.length = s.length /\ r.isMessage = s.isMessage
<1>. DEFINE r == [s EXCEPT !.sent = d]
<1>1. /\ DOMAIN r = DOMAIN s /\ r.length = s.length /\ r.tail = s.tail /\ r.head = s.head
      /\ r.slots = s.slots /\ r.got = s.got /\ r.sent = d /\ r.isMessage = s.isMessage
  BY DEF SoundStream, StreamFields
<1>. HIDE DEF r
<1>2. /\ SoundStream(r) /\ Stored(r) = Stored(s)
      /\ BytesIn(r) = BytesIn(s) /\ SpaceIn(r) = SpaceIn(s)
  BY <1>1 DEF SoundStream, Stored, Oldest, BytesIn, SpaceIn
<1>. QED  BY <1>1, <1>2 DEF r

\* Counting a message as received leaves the ring alone.
LEMMA GotFields ==
    ASSUME NEW s, NEW d \in Seq(Seq(Nat)), SoundStream(s)
    PROVE  LET r == [s EXCEPT !.got = d] IN
           /\ SoundStream(r) /\ Stored(r) = Stored(s) /\ r.got = d /\ r.sent = s.sent
           /\ BytesIn(r) = BytesIn(s) /\ SpaceIn(r) = SpaceIn(s)
           /\ r.length = s.length /\ r.isMessage = s.isMessage
<1>. DEFINE r == [s EXCEPT !.got = d]
<1>1. /\ DOMAIN r = DOMAIN s /\ r.length = s.length /\ r.tail = s.tail /\ r.head = s.head
      /\ r.slots = s.slots /\ r.got = d /\ r.sent = s.sent /\ r.isMessage = s.isMessage
  BY DEF SoundStream, StreamFields
<1>. HIDE DEF r
<1>2. /\ SoundStream(r) /\ Stored(r) = Stored(s)
      /\ BytesIn(r) = BytesIn(s) /\ SpaceIn(r) = SpaceIn(s)
  BY <1>1 DEF SoundStream, Stored, Oldest, BytesIn, SpaceIn
<1>. QED  BY <1>1, <1>2 DEF r

\* What sending n bytes does to the ring.
LEMMA SentIs ==
    ASSUME NEW s, SoundStream(s), s.sent \in Seq(Seq(Nat)), NEW n \in Nat, n <= SpaceIn(s)
    PROVE  /\ SoundStream(Sent(s, n)) /\ Stored(Sent(s, n)) = Stored(s) \o NewData(s, n)
           /\ NewData(s, n) \in Seq(Nat) /\ Len(NewData(s, n)) = n
           /\ Sent(s, n).sent = Append(s.sent, NewData(s, n)) /\ Sent(s, n).got = s.got
           /\ BytesIn(Sent(s, n)) = BytesIn(s) + n /\ SpaceIn(Sent(s, n)) = SpaceIn(s) - n
           /\ Sent(s, n).length = s.length /\ Sent(s, n).isMessage = s.isMessage
<1>. DEFINE v == NewData(s, n)
            w == Written(s, v)
            r == [w EXCEPT !.sent = Append(w.sent, v)]
<1>1. v \in Seq(Nat) /\ Len(v) = n
  BY NewDataType
<1>2. Sent(s, n) = r
  BY DEF Sent
<1>. HIDE DEF v
<1>3. /\ SoundStream(w) /\ Stored(w) = Stored(s) \o v /\ BytesIn(w) = BytesIn(s) + n
      /\ SpaceIn(w) = SpaceIn(s) - n /\ w.sent = s.sent /\ w.got = s.got
      /\ w.length = s.length /\ w.isMessage = s.isMessage
  BY <1>1, WrittenIsLast
<1>. HIDE DEF w
<1>0. Append(w.sent, v) \in Seq(Seq(Nat))
  BY <1>1, <1>3, AppendProperties
<1>4. /\ SoundStream(r) /\ Stored(r) = Stored(w) /\ r.sent = Append(w.sent, v) /\ r.got = w.got
      /\ BytesIn(r) = BytesIn(w) /\ SpaceIn(r) = SpaceIn(w)
      /\ r.length = w.length /\ r.isMessage = w.isMessage
  BY <1>0, <1>3, SentFields
<1>. HIDE DEF r
<1>. QED  BY <1>1, <1>2, <1>3, <1>4 DEF v

\* And receiving m.
LEMMA GotIs ==
    ASSUME NEW s, SoundStream(s), NEW m \in 0 .. BytesIn(s)
    PROVE  /\ SoundStream(Got(s, m)) /\ Stored(s) = Oldest(s, m) \o Stored(Got(s, m))
           /\ Oldest(s, m) \in Seq(Nat) /\ Len(Oldest(s, m)) = m
           /\ Got(s, m).got = Append(s.got, Oldest(s, m)) /\ Got(s, m).sent = s.sent
           /\ BytesIn(Got(s, m)) = BytesIn(s) - m /\ SpaceIn(Got(s, m)) = SpaceIn(s) + m
           /\ Got(s, m).length = s.length /\ Got(s, m).isMessage = s.isMessage
<1>. DEFINE a == Advanced(s, m)
            v == Oldest(s, m)
            r == [a EXCEPT !.got = Append(a.got, v)]
<1>1. Got(s, m) = r
  BY DEF Got
<1>2. /\ SoundStream(a) /\ Stored(s) = v \o Stored(a) /\ v \in Seq(Nat) /\ Len(v) = m
      /\ BytesIn(a) = BytesIn(s) - m /\ SpaceIn(a) = SpaceIn(s) + m
      /\ a.length = s.length /\ a.isMessage = s.isMessage /\ a.sent = s.sent /\ a.got = s.got
  BY OldestIsFirst
<1>. HIDE DEF a, v
<1>0. Append(a.got, v) \in Seq(Seq(Nat))
  <2>1. a.got \in Seq(Seq(Nat))
    BY <1>2 DEF SoundStream
  <2>. QED  BY <1>2, <2>1, AppendProperties
<1>3. /\ SoundStream(r) /\ Stored(r) = Stored(a) /\ r.got = Append(a.got, v) /\ r.sent = a.sent
      /\ BytesIn(r) = BytesIn(a) /\ SpaceIn(r) = SpaceIn(a)
      /\ r.length = a.length /\ r.isMessage = a.isMessage
  BY <1>0, <1>2, GotFields
<1>. HIDE DEF r
<1>. QED  BY <1>1, <1>2, <1>3 DEF v

\* The message is written behind its length.
LEMMA DataIsWritten ==
    ASSUME NEW s, SoundStream(s), NEW sizes, NEW taken, NEW rest, NEW n \in Nat,
           n \in sizes, OnTheWay(s, sizes, taken, rest, <<n>>), n <= SpaceIn(s)
    PROVE  OnTheWay(Sent(s, n), sizes, taken, Append(rest, NewData(s, n)), <<>>)
<1>. DEFINE w == Sent(s, n)
            m == NewData(s, n)
            a == Stored(s)
            b == <<n>>
            c == Packed(rest)
            d == Append(rest, m)
<1>1. /\ Stored(w) = a \o m /\ m \in Seq(Nat) /\ Len(m) = n
      /\ w.sent = Append(s.sent, m) /\ w.got = s.got
  BY SentIs DEF SoundStream
<1>2. /\ s.got \in Seq(Seq(Nat)) /\ rest \in Seq(Seq(Nat)) /\ taken \in Seq(Nat)
      /\ s.sent = s.got \o rest /\ taken \o a = c \o b
      /\ \A i \in 1 .. Len(rest) : Len(rest[i]) \in sizes
      /\ a \in Seq(Nat) /\ b \in Seq(Nat) /\ c \in Seq(Nat)
  BY StoredType, PackedType DEF OnTheWay
<1>3. /\ d \in Seq(Seq(Nat)) /\ Len(d) = Len(rest) + 1 /\ d[Len(rest) + 1] = m
      /\ \A i \in 1 .. Len(rest) : d[i] = rest[i]
  BY <1>1, <1>2, AppendProperties
<1>4. Packed(d) = c \o (b \o m)
  BY <1>1, <1>2, PackedAppend
<1>. HIDE DEF w, m, a, b, c, d
<1>5. w.sent = w.got \o d
  <2>. DEFINE g == s.got
              o == <<m>>
  <2>1. g \in Seq(Seq(Nat)) /\ rest \in Seq(Seq(Nat)) /\ o \in Seq(Seq(Nat))
    BY <1>1, <1>2
  <2>2. d = rest \o o
    BY <1>1, <2>1, AppendIsConcat DEF d
  <2>3. Append(s.sent, m) = s.sent \o o
    <3>1. s.sent \in Seq(Seq(Nat))
      BY DEF SoundStream
    <3>. QED  BY <1>1, <3>1, AppendIsConcat
  <2>. HIDE DEF g, o
  <2>4. (g \o rest) \o o = g \o (rest \o o)
    BY <2>1, Associative
  <2>. QED  BY <1>1, <1>2, <2>2, <2>3, <2>4 DEF g
<1>6. taken \o Stored(w) = Packed(d) \o <<>>
  <2>1. (taken \o a) \o m = taken \o (a \o m) /\ (c \o b) \o m = c \o (b \o m)
    <3>1. /\ taken \in Seq(Nat) /\ a \in Seq(Nat) /\ m \in Seq(Nat) /\ b \in Seq(Nat)
          /\ c \in Seq(Nat)
      BY <1>1, <1>2
    <3>2. (taken \o a) \o m = taken \o (a \o m)
      BY <3>1, BytesAssociative, SMTT(30)
    <3>3. (c \o b) \o m = c \o (b \o m)
      BY <3>1, BytesAssociative
    <3>. QED  BY <3>2, <3>3
  <2>2. Packed(d) \in Seq(Nat)
    BY <1>3, PackedType
  <2>3. Packed(d) \o <<>> = Packed(d)
    BY <2>2, ConcatEmptySeq
  <2>. QED  BY <1>1, <1>2, <1>4, <2>1, <2>3
<1>7. ASSUME NEW i \in 1 .. Len(d) PROVE Len(d[i]) \in sizes
  <2>0. Len(rest) \in Nat
    BY <1>2
  <2>1. CASE i = Len(rest) + 1
    BY <1>1, <1>3, <2>1
  <2>2. CASE i # Len(rest) + 1
    <3>1. i \in 1 .. Len(rest)
      BY <1>3, <2>0, <2>2
    <3>. QED  BY <1>2, <1>3, <3>1
  <2>. QED  BY <2>1, <2>2
<1>8. <<>> \in Seq(Nat) /\ w.got \in Seq(Seq(Nat))
  BY <1>1, <1>2
<1>9. OnTheWay(w, sizes, taken, d, <<>>)
  BY <1>2, <1>3, <1>5, <1>6, <1>7, <1>8 DEF OnTheWay
<1>. QED  BY <1>9 DEF w, d, m

\* The first message: what follows its length, and the messages behind it.
LEMMA FirstMessage ==
    ASSUME NEW rest \in Seq(Seq(Nat)), rest # <<>>
    PROVE  /\ Head(rest) \in Seq(Nat) /\ Tail(rest) \in Seq(Seq(Nat))
           /\ Len(rest) \in Nat \ {0} /\ Head(rest) = rest[1]
           /\ Len(Tail(rest)) = Len(rest) - 1
           /\ \A i \in 1 .. Len(Tail(rest)) : Tail(rest)[i] = rest[i + 1]
           /\ rest = <<Head(rest)>> \o Tail(rest)
           /\ Packed(rest) = <<Len(Head(rest))>> \o (Head(rest) \o Packed(Tail(rest)))
<1>. DEFINE h == Head(rest)
            t == Tail(rest)
<1>1. /\ h \in Seq(Nat) /\ t \in Seq(Seq(Nat)) /\ Len(t) = Len(rest) - 1
      /\ \A i \in 1 .. Len(t) : t[i] = rest[i + 1]
  BY HeadTailProperties
<1>2. Len(rest) \in Nat \ {0}
  BY EmptySeq
<1>3. h = rest[1]
  OBVIOUS
<1>4. rest = <<h>> \o t
  <2>1. 1 \in 1 .. Len(rest) /\ Len(rest) \in 1 .. Len(rest)
    BY <1>2
  <2>2. SubSeq(rest, 1, Len(rest)) = <<rest[1]>> \o SubSeq(rest, 1 + 1, Len(rest))
    BY <2>1, SubSeqRecursiveFirst
  <2>3. SubSeq(rest, 1, Len(rest)) = rest
    BY SubSeqFull
  <2>4. t = SubSeq(rest, 2, Len(rest))
    BY TailIsSubSeq
  <2>. QED  BY <1>3, <2>2, <2>3, <2>4
<1>. HIDE DEF h, t
<1>5. Packed(<<h>> \o t) = (<<Len(h)>> \o h) \o Packed(t)
  BY <1>1, PackedFirst
<1>6. (<<Len(h)>> \o h) \o Packed(t) = <<Len(h)>> \o (h \o Packed(t))
  <2>. DEFINE x == <<Len(h)>>
              y == Packed(t)
  <2>1. x \in Seq(Nat) /\ h \in Seq(Nat) /\ y \in Seq(Nat)
    BY <1>1, PackedType
  <2>. HIDE DEF x, y
  <2>2. (x \o h) \o y = x \o (h \o y)
    BY <2>1, Associative
  <2>. QED  BY <2>2 DEF x, y
<1>7. Packed(rest) = <<Len(h)>> \o (h \o Packed(t))
  BY <1>4, <1>5, <1>6
<1>. QED  BY <1>1, <1>2, <1>3, <1>4, <1>7 DEF h, t

\* Two sequences that agree, cut at the same place.
LEMMA SameCut ==
    ASSUME NEW S, NEW a \in Seq(S), NEW b \in Seq(S), NEW c \in Seq(S), NEW d \in Seq(S),
           a \o b = c \o d, Len(a) = Len(c)
    PROVE  a = c /\ b = d
<1>0. \A x, y \in Seq(S) :
         /\ x \o y \in Seq(S) /\ Len(x \o y) = Len(x) + Len(y)
         /\ \A i \in 1 .. Len(x) + Len(y) :
               (x \o y)[i] = IF i <= Len(x) THEN x[i] ELSE y[i - Len(x)]
  BY Joined
<1>1. /\ Len(a) \in Nat /\ Len(b) \in Nat /\ Len(d) \in Nat
      /\ Len(a \o b) = Len(a) + Len(b) /\ Len(c \o d) = Len(c) + Len(d)
  BY <1>0, LenProperties
<1>2. \A i \in 1 .. Len(a) + Len(b) : (a \o b)[i] = IF i <= Len(a) THEN a[i] ELSE b[i - Len(a)]
  BY <1>0, Zenon
<1>3. \A i \in 1 .. Len(c) + Len(d) : (c \o d)[i] = IF i <= Len(c) THEN c[i] ELSE d[i - Len(c)]
  BY <1>0, Zenon
<1>. DEFINE x == a \o b
            k == Len(a)
            l == Len(b)
<1>4. /\ k \in Nat /\ l \in Nat /\ Len(d) = l /\ Len(c) = k /\ Len(a) = k /\ Len(b) = l
      /\ \A i \in 1 .. k + l : x[i] = IF i <= k THEN a[i] ELSE b[i - k]
      /\ \A i \in 1 .. k + l : x[i] = IF i <= k THEN c[i] ELSE d[i - k]
  <2>1. Len(d) = l
    BY <1>1
  <2>. QED  BY <1>1, <1>2, <1>3, <2>1
<1>. HIDE DEF x, k, l
<1>5. ASSUME NEW i \in 1 .. k PROVE a[i] = c[i]
  <2>1. i \in 1 .. k + l /\ i <= k
    BY <1>4
  <2>. QED  BY <1>4, <2>1
<1>6. ASSUME NEW i \in 1 .. l PROVE b[i] = d[i]
  <2>. DEFINE j == i + k
  <2>1. j \in 1 .. k + l /\ ~ (j <= k) /\ j - k = i
    BY <1>4
  <2>. HIDE DEF j
  <2>. QED  BY <1>4, <2>1
<1>. QED  BY <1>4, <1>5, <1>6, SeqEqual

\* Where more is stored than a length that is being written, a message is.
LEMMA MessageIsThere ==
    ASSUME NEW s, SoundStream(s), NEW sizes, NEW taken, NEW rest, NEW begun,
           OnTheWay(s, sizes, taken, rest, begun),
           taken = <<>>, Len(begun) < BytesIn(s)
    PROVE  rest # <<>>
<1>1. SUFFICES ASSUME rest = <<>> PROVE FALSE
  OBVIOUS
<1>2. begun \in Seq(Nat) /\ <<>> \o Stored(s) = <<>> \o begun
  BY <1>1, PackedType DEF OnTheWay
<1>3. Stored(s) \in Seq(Nat) /\ Len(Stored(s)) = BytesIn(s) /\ BytesIn(s) \in Nat
  BY StoredType, Counts
<1>4. Stored(s) = begun
  BY <1>2, <1>3, ConcatEmptySeq
<1>. QED  BY <1>2, <1>3, <1>4

\* The first message in the ring, its length first, is all there.
LEMMA MessageIsFirst ==
    ASSUME NEW s, SoundStream(s), NEW sizes, NEW rest, NEW begun,
           OnTheWay(s, sizes, <<>>, rest, begun), rest # <<>>
    PROVE  /\ 1 + Len(Head(rest)) <= BytesIn(s) /\ Len(Head(rest)) \in Nat
           /\ Len(Head(rest)) \in sizes /\ Head(Oldest(s, 1)) = Len(Head(rest))
           /\ OnTheWay(Advanced(s, 1), sizes, <<Len(Head(rest))>>, rest, begun)
           /\ BytesIn(Advanced(s, 1)) = BytesIn(s) - 1
           /\ SpaceIn(Advanced(s, 1)) = SpaceIn(s) + 1
           /\ SoundStream(Advanced(s, 1)) /\ Advanced(s, 1).isMessage = s.isMessage
           /\ Advanced(s, 1).length = s.length
<1>. DEFINE h == Head(rest)
            n == Len(h)
            x == h \o Packed(Tail(rest))
            y == x \o begun
            a == Advanced(s, 1)
            p == <<n>>
<1>1. /\ rest \in Seq(Seq(Nat)) /\ begun \in Seq(Nat) /\ s.got \in Seq(Seq(Nat))
      /\ s.sent = s.got \o rest /\ <<>> \o Stored(s) = Packed(rest) \o begun
      /\ \A i \in 1 .. Len(rest) : Len(rest[i]) \in sizes
  BY DEF OnTheWay
<1>2. /\ h \in Seq(Nat) /\ n \in Nat /\ Packed(Tail(rest)) \in Seq(Nat) /\ h = rest[1]
      /\ Packed(rest) = p \o x /\ p \in Seq(Nat) /\ Len(rest) \in Nat \ {0}
  <2>1. /\ Head(rest) \in Seq(Nat) /\ Tail(rest) \in Seq(Seq(Nat)) /\ Head(rest) = rest[1]
        /\ Len(rest) \in Nat \ {0}
        /\ Packed(rest) = <<Len(Head(rest))>> \o (Head(rest) \o Packed(Tail(rest)))
    BY <1>1, FirstMessage
  <2>2. Packed(Tail(rest)) \in Seq(Nat)
    BY <2>1, PackedType
  <2>3. Len(Head(rest)) \in Nat
    BY <2>1, LenProperties
  <2>4. p \in Seq(Nat)
    BY <2>3
  <2>. QED  BY <2>1, <2>2, <2>3, <2>4
<1>3. n \in sizes
  BY <1>1, <1>2
<1>. HIDE DEF h, n, p
<1>4. x \in Seq(Nat) /\ Len(x) = n + Len(Packed(Tail(rest))) /\ Len(Packed(Tail(rest))) \in Nat
  BY <1>2, ConcatProperties, LenProperties DEF n
<1>. HIDE DEF x
<1>5. y \in Seq(Nat) /\ Len(y) = Len(x) + Len(begun) /\ Len(begun) \in Nat
  BY <1>1, <1>4, ConcatProperties, LenProperties
<1>6. /\ Stored(s) \in Seq(Nat) /\ Len(Stored(s)) = BytesIn(s) /\ BytesIn(s) \in Nat
      /\ BytesIn(s) \in 0 .. s.length - 1
  BY StoredType, Counts
<1>7. Stored(s) = p \o y
  <2>1. (p \o x) \o begun = p \o (x \o begun)
    <3>1. p \in Seq(Nat) /\ x \in Seq(Nat) /\ begun \in Seq(Nat)
      BY <1>1, <1>2, <1>4
    <3>. QED  BY <3>1, BytesAssociative
  <2>2. <<>> \o Stored(s) = Stored(s)
    BY <1>6, ConcatEmptySeq
  <2>. QED  BY <1>1, <1>2, <2>1, <2>2
<1>. HIDE DEF y
<1>8. 1 + n <= BytesIn(s)
  <2>1. Len(p) = 1
    BY DEF p
  <2>2. Len(p \o y) = Len(p) + Len(y)
    BY <1>2, <1>5, ConcatProperties
  <2>. QED  BY <1>2, <1>4, <1>5, <1>6, <1>7, <2>1, <2>2
<1>9. /\ SoundStream(a) /\ Stored(s) = Oldest(s, 1) \o Stored(a)
      /\ Oldest(s, 1) \in Seq(Nat) /\ Len(Oldest(s, 1)) = 1
      /\ BytesIn(a) = BytesIn(s) - 1 /\ SpaceIn(a) = SpaceIn(s) + 1
      /\ a.length = s.length /\ a.isMessage = s.isMessage /\ a.sent = s.sent /\ a.got = s.got
  <2>1. 1 \in 0 .. BytesIn(s)
    BY <1>2, <1>6, <1>8
  <2>. QED  BY <2>1, OldestIsFirst
<1>. HIDE DEF a
<1>10. Oldest(s, 1) = p /\ Stored(a) = y
  <2>. DEFINE o == Oldest(s, 1)
              z == Stored(a)
  <2>1. o \in Seq(Nat) /\ z \in Seq(Nat) /\ p \in Seq(Nat) /\ y \in Seq(Nat)
    BY <1>2, <1>5, <1>9, StoredType
  <2>2. o \o z = p \o y /\ Len(o) = Len(p)
    <3>1. Len(p) = 1
      BY DEF p
    <3>. QED  BY <1>7, <1>9, <3>1
  <2>. HIDE DEF o, z
  <2>3. o = p /\ z = y
    BY <2>1, <2>2, SameCut
  <2>. QED  BY <2>3 DEF o, z
<1>11. Head(Oldest(s, 1)) = n
  BY <1>10 DEF p
<1>12. p \o Stored(a) = Packed(rest) \o begun
  BY <1>1, <1>6, <1>7, <1>10, ConcatEmptySeq
<1>13. OnTheWay(a, sizes, p, rest, begun)
  BY <1>1, <1>2, <1>9, <1>12 DEF OnTheWay
<1>. QED  BY <1>2, <1>3, <1>8, <1>9, <1>11, <1>13 DEF h, n, a, p

\* What is read behind the length is the message.
LEMMA DataIsRead ==
    ASSUME NEW s, SoundStream(s), NEW sizes, NEW rest, NEW begun, NEW n,
           rest # <<>>, n = Len(Head(rest)), OnTheWay(s, sizes, <<n>>, rest, begun)
    PROVE  /\ n \in 0 .. BytesIn(s)
           /\ OnTheWay(Got(s, n), sizes, <<>>, Tail(rest), begun)
<1>. DEFINE h == Head(rest)
            t == Tail(rest)
            q == Packed(t)
            y == q \o begun
            p == <<n>>
            g == Got(s, n)
            o == Oldest(s, n)
<1>1. /\ rest \in Seq(Seq(Nat)) /\ begun \in Seq(Nat) /\ s.got \in Seq(Seq(Nat))
      /\ s.sent = s.got \o rest /\ p \o Stored(s) = Packed(rest) \o begun
      /\ \A i \in 1 .. Len(rest) : Len(rest[i]) \in sizes
  BY DEF OnTheWay
<1>2. /\ h \in Seq(Nat) /\ n \in Nat /\ n = Len(h) /\ q \in Seq(Nat) /\ p \in Seq(Nat)
      /\ Packed(rest) = p \o (h \o q) /\ rest = <<h>> \o t /\ t \in Seq(Seq(Nat))
      /\ Len(t) = Len(rest) - 1 /\ Len(rest) \in Nat /\ \A i \in 1 .. Len(t) : t[i] = rest[i + 1]
  <2>1. /\ h \in Seq(Nat) /\ t \in Seq(Seq(Nat)) /\ Len(rest) \in Nat \ {0}
        /\ Len(t) = Len(rest) - 1 /\ \A i \in 1 .. Len(t) : t[i] = rest[i + 1]
        /\ rest = <<h>> \o t /\ Packed(rest) = <<Len(h)>> \o (h \o Packed(t))
    BY <1>1, FirstMessage
  <2>2. Packed(t) \in Seq(Nat)
    BY <2>1, PackedType
  <2>3. n = Len(h) /\ n \in Nat
    BY <2>1, LenProperties
  <2>4. p \in Seq(Nat)
    BY <2>3
  <2>. QED  BY <2>1, <2>2, <2>3, <2>4
<1>3. Stored(s) \in Seq(Nat) /\ Len(Stored(s)) = BytesIn(s) /\ BytesIn(s) \in Nat
  BY StoredType, Counts
<1>. HIDE DEF h, t, q, p
<1>4. y \in Seq(Nat) /\ Len(y) \in Nat
  BY <1>1, <1>2, ConcatProperties, LenProperties
<1>5. Stored(s) = h \o y
  <2>. DEFINE v == h \o q
              w == h \o y
  <2>1. v \in Seq(Nat) /\ w \in Seq(Nat)
    BY <1>2, <1>4, ConcatProperties
  <2>2. (p \o v) \o begun = p \o (v \o begun)
    <3>. HIDE DEF v
    <3>1. p \in Seq(Nat) /\ v \in Seq(Nat) /\ begun \in Seq(Nat)
      BY <1>1, <1>2, <2>1
    <3>. QED  BY <3>1, BytesAssociative
  <2>3. v \o begun = w
    BY <1>1, <1>2, Associative
  <2>4. p \o Stored(s) = p \o w
    BY <1>1, <1>2, <2>2, <2>3
  <2>. HIDE DEF v, w
  <2>5. Stored(s) = w
    <3>. DEFINE z == Stored(s)
    <3>1. z \in Seq(Nat) /\ p \in Seq(Nat) /\ w \in Seq(Nat) /\ p \o z = p \o w
      BY <1>2, <1>3, <2>1, <2>4
    <3>. HIDE DEF z
    <3>2. z = w
      BY <3>1, SameCut
    <3>. QED  BY <3>2 DEF z
  <2>. QED  BY <2>5 DEF w
<1>. HIDE DEF y
<1>6. n \in 0 .. BytesIn(s)
  <2>1. Len(h \o y) = Len(h) + Len(y)
    BY <1>2, <1>4, ConcatProperties
  <2>. QED  BY <1>2, <1>3, <1>4, <1>5, <2>1
<1>7. /\ SoundStream(g) /\ Stored(s) = o \o Stored(g) /\ o \in Seq(Nat) /\ Len(o) = n
      /\ g.got = Append(s.got, o) /\ g.sent = s.sent
  BY <1>6, GotIs
<1>. HIDE DEF g, o
<1>8. o = h /\ Stored(g) = y
  <2>. DEFINE z == Stored(g)
  <2>1. /\ o \in Seq(Nat) /\ z \in Seq(Nat) /\ h \in Seq(Nat) /\ y \in Seq(Nat)
        /\ o \o z = h \o y /\ Len(o) = Len(h)
    BY <1>2, <1>4, <1>5, <1>7, StoredType
  <2>. HIDE DEF z
  <2>2. o = h /\ z = y
    BY <2>1, SameCut
  <2>. QED  BY <2>2 DEF z
<1>9. g.got \in Seq(Seq(Nat)) /\ g.sent = g.got \o t
  <2>. DEFINE u == s.got
              c == <<h>>
  <2>1. u \in Seq(Seq(Nat)) /\ c \in Seq(Seq(Nat)) /\ t \in Seq(Seq(Nat))
    BY <1>1, <1>2
  <2>2. Append(u, h) = u \o c /\ Append(u, h) \in Seq(Seq(Nat))
    BY <1>2, <2>1, AppendIsConcat, AppendProperties
  <2>3. rest = c \o t
    BY <1>2
  <2>. HIDE DEF u, c
  <2>4. (u \o c) \o t = u \o (c \o t)
    BY <2>1, Associative
  <2>. QED  BY <1>1, <1>7, <1>8, <2>2, <2>3, <2>4 DEF u
<1>10. <<>> \o Stored(g) = q \o begun /\ <<>> \in Seq(Nat)
  <2>1. <<>> \o y = y
    BY <1>4, ConcatEmptySeq
  <2>. QED  BY <1>8, <2>1 DEF y
<1>11. ASSUME NEW i \in 1 .. Len(t) PROVE Len(t[i]) \in sizes
  <2>1. i + 1 \in 1 .. Len(rest)
    BY <1>2
  <2>. QED  BY <1>1, <1>2, <2>1
<1>12. OnTheWay(g, sizes, <<>>, t, begun)
  BY <1>1, <1>2, <1>9, <1>10, <1>11 DEF OnTheWay, q
<1>. QED  BY <1>6, <1>12 DEF g, t

\* Bytes: all that was sent was received or is in the ring.
InOrder(s) == FlattenSeq(s.got) \o Stored(s) = FlattenSeq(s.sent)

\* Bytes put into the ring, sent at once, stay in order.
LEMMA BytesAreWritten ==
    ASSUME NEW s, SoundStream(s), InOrder(s), NEW n \in Nat, n <= SpaceIn(s)
    PROVE  InOrder(Sent(s, n))
<1>. DEFINE w == Sent(s, n)
            m == NewData(s, n)
            a == FlattenSeq(s.got)
            b == Stored(s)
<1>1. /\ Stored(w) = b \o m /\ m \in Seq(Nat)
      /\ w.sent = Append(s.sent, m) /\ w.got = s.got
      /\ s.sent \in Seq(Seq(Nat)) /\ s.got \in Seq(Seq(Nat))
  BY SentIs DEF SoundStream
<1>2. /\ a \in Seq(Nat) /\ b \in Seq(Nat) /\ FlattenSeq(w.sent) = FlattenSeq(s.sent) \o m
      /\ a \o b = FlattenSeq(s.sent)
  BY <1>1, FlattenType, FlattenAppend, StoredType DEF InOrder
<1>. HIDE DEF w, m, a, b
<1>3. (a \o b) \o m = a \o (b \o m)
  BY <1>1, <1>2, Associative
<1>4. FlattenSeq(w.got) \o Stored(w) = FlattenSeq(w.sent)
  BY <1>1, <1>2, <1>3 DEF a
<1>. QED  BY <1>4 DEF InOrder, w

\* Bytes taken from the ring, received at once, stay in order.
LEMMA BytesAreRead ==
    ASSUME NEW s, SoundStream(s), InOrder(s), NEW n \in 0 .. BytesIn(s)
    PROVE  InOrder(Got(s, n))
<1>. DEFINE w == Got(s, n)
            m == Oldest(s, n)
            a == FlattenSeq(s.got)
            b == Stored(w)
<1>1. /\ SoundStream(w) /\ Stored(s) = m \o b /\ m \in Seq(Nat)
      /\ w.got = Append(s.got, m) /\ w.sent = s.sent
      /\ s.got \in Seq(Seq(Nat))
  BY GotIs DEF SoundStream
<1>2. /\ a \in Seq(Nat) /\ b \in Seq(Nat) /\ FlattenSeq(w.got) = a \o m
      /\ a \o Stored(s) = FlattenSeq(s.sent)
  BY <1>1, FlattenType, FlattenAppend, StoredType DEF InOrder
<1>. HIDE DEF w, m, a, b
<1>3. (a \o m) \o b = a \o (m \o b)
  BY <1>1, <1>2, Associative
<1>4. FlattenSeq(w.got) \o Stored(w) = FlattenSeq(w.sent)
  BY <1>1, <1>2, <1>3 DEF b
<1>. QED  BY <1>4 DEF InOrder, w

(***************************************************************************)
(* Where a callback of the timer task, and its switch of the lists, return *)
(* to.                                                                     *)
(***************************************************************************)

ReturnsTo(T, then, switched) ==
    {"then", "switched"} \subseteq DOMAIN T /\ T.then = then /\ T.switched = switched

LEMMA ReturnsKept ==
    ASSUME NEW T, NEW then, NEW switched, ReturnsTo(T, then, switched)
    PROVE  /\ \A h : /\ ReturnsTo(Unlist(T, h), then, switched)
                     /\ ReturnsTo(Expired(T, h), then, switched)
           /\ ReturnsTo(Sampled(T), then, switched) /\ ReturnsTo(Applied(T), then, switched)
           /\ \A h, expiry, commanded : ReturnsTo(InsertTimer(T, h, expiry, commanded), then, switched)
           /\ \A to : ReturnsTo([T EXCEPT !.then = to], to, switched)
<1>1. ASSUME NEW h PROVE ReturnsTo(Unlist(T, h), then, switched) /\ ReturnsTo(Expired(T, h), then, switched)
  BY DEF ReturnsTo, Unlist, Expired
<1>2. ReturnsTo(Sampled(T), then, switched) /\ ReturnsTo(Applied(T), then, switched)
  BY DEF ReturnsTo, Sampled, Applied
<1>3. ASSUME NEW h, NEW expiry, NEW commanded
      PROVE  ReturnsTo(InsertTimer(T, h, expiry, commanded), then, switched)
  BY DEF ReturnsTo, InsertTimer
<1>4. ASSUME NEW to PROVE ReturnsTo([T EXCEPT !.then = to], to, switched)
  BY DEF ReturnsTo
<1>. QED  BY <1>1, <1>2, <1>3, <1>4

LEMMA TimersReturn ==
    ASSUME NEW then, NEW switched, ReturnsTo(timers, then, switched), NEW d \in Tasks
    PROVE  /\ LookAtTimers(d) => ReturnsTo(timers', then, "resumeSwitched")
           /\ ExpireTimer(d) => ReturnsTo(timers', "receive", switched)
           /\ SwitchOne(d) => ReturnsTo(timers', "reloadSwitched", switched)
           /\ SampleTime(d) => ReturnsTo(timers', then, "apply")
           /\ ApplyStart(d) => \/ Goto(d, [pc |-> "callback"]) /\ ReturnsTo(timers', "reloadStarted", switched)
                               \/ Goto(d, [pc |-> "receive"]) /\ ReturnsTo(timers', then, switched)
           /\ \/ ReloadSwitched(d) \/ SwitchLists(d) \/ ReceiveCommand(d)
              \/ ReloadStarted(d) \/ ApplyChangePeriod(d) \/ ApplyStop(d)
              => ReturnsTo(timers', then, switched)
<1>1. ASSUME timers' = timers PROVE ReturnsTo(timers', then, switched)
  BY <1>1
<1>2. ASSUME LookAtTimers(d) PROVE ReturnsTo(timers', then, "resumeSwitched")
  <2>1. PICK next : timers' = [Sampled(timers) EXCEPT !.nextExpire = next, !.switched = "resumeSwitched"]
    BY <1>2 DEF LookAtTimers
  <2>2. ReturnsTo(Sampled(timers), then, switched)
    BY ReturnsKept
  <2>. QED  BY <2>1, <2>2 DEF ReturnsTo
<1>3. ASSUME ExpireTimer(d) PROVE ReturnsTo(timers', "receive", switched)
  <2>a. PICK h, out : h = Head(timers.current)
                      /\ out = [Expired(Unlist(timers, h), h) EXCEPT !.then = "receive"]
    OBVIOUS
  <2>1. \/ timers' = out
        \/ \E expiry, commanded : timers' = InsertTimer(out, h, expiry, commanded)
    BY <1>3, <2>a DEF ExpireTimer
  <2>2. ReturnsTo(Unlist(timers, h), then, switched)
    BY ReturnsKept
  <2>3. ReturnsTo(Expired(Unlist(timers, h), h), then, switched)
    BY <2>2, ReturnsKept
  <2>4. ReturnsTo(out, "receive", switched)
    BY <2>a, <2>3, ReturnsKept
  <2>5. \A expiry, commanded : ReturnsTo(InsertTimer(out, h, expiry, commanded), "receive", switched)
    BY <2>4, ReturnsKept
  <2>. QED  BY <2>1, <2>4, <2>5
<1>4. ASSUME SwitchOne(d) PROVE ReturnsTo(timers', "reloadSwitched", switched)
  <2>1. PICK h, next : timers' = [Expired(Unlist(timers, h), h) EXCEPT
                                    !.nextExpire = next, !.then = "reloadSwitched"]
    BY <1>4 DEF SwitchOne
  <2>2. ReturnsTo(Unlist(timers, h), then, switched)
    BY ReturnsKept
  <2>3. ReturnsTo(Expired(Unlist(timers, h), h), then, switched)
    BY <2>2, ReturnsKept
  <2>. QED  BY <2>1, <2>3 DEF ReturnsTo
<1>5. ASSUME ReloadSwitched(d) PROVE ReturnsTo(timers', then, switched)
  BY <1>5 DEF ReloadSwitched, ReturnsTo
<1>6. ASSUME SwitchLists(d) PROVE ReturnsTo(timers', then, switched)
  BY <1>6 DEF SwitchLists, ReturnsTo
<1>7. ASSUME ReceiveCommand(d) PROVE ReturnsTo(timers', then, switched)
  BY <1>1, <1>7 DEF ReceiveCommand, ReturnsTo
<1>8. ASSUME SampleTime(d) PROVE ReturnsTo(timers', then, "apply")
  <2>1. PICK T, h : T = Unlist(timers, h) /\ timers' = [Sampled(T) EXCEPT !.switched = "apply"]
    BY <1>8 DEF SampleTime
  <2>2. ReturnsTo(T, then, switched)
    BY <2>1, ReturnsKept
  <2>3. ReturnsTo(Sampled(T), then, switched)
    BY <2>2, ReturnsKept
  <2>. QED  BY <2>1, <2>3 DEF ReturnsTo
<1>9. ASSUME ApplyStart(d)
      PROVE  \/ Goto(d, [pc |-> "callback"]) /\ ReturnsTo(timers', "reloadStarted", switched)
             \/ Goto(d, [pc |-> "receive"]) /\ ReturnsTo(timers', then, switched)
  <2>a. PICK c, h, expiry, from :
           /\ c = timers.command /\ h = c.timer /\ expiry = Later(c.value, timers.period[h])
           /\ from = IF c.id = "reload" THEN timers
                     ELSE [timers EXCEPT !.started[h] = c.moment, !.fired[h] = 0]
    OBVIOUS
  <2>1. \/ /\ timers' = [Expired(InsertTimer(from, h, expiry, c.value), h) EXCEPT !.then = "reloadStarted"]
           /\ Goto(d, [pc |-> "callback"])
        \/ timers' = Applied(InsertTimer(from, h, expiry, c.value)) /\ Goto(d, [pc |-> "receive"])
    BY <1>9, <2>a DEF ApplyStart
  <2>2. ReturnsTo(from, then, switched)
    BY <2>a DEF ReturnsTo
  <2>b. PICK T : T = InsertTimer(from, h, expiry, c.value)
    OBVIOUS
  <2>3. ReturnsTo(T, then, switched)
    BY <2>2, <2>b, ReturnsKept
  <2>c. PICK U : U = Expired(T, h)
    OBVIOUS
  <2>4. ReturnsTo(U, then, switched) /\ ReturnsTo(Applied(T), then, switched)
    BY <2>3, <2>c, ReturnsKept
  <2>5. ReturnsTo([U EXCEPT !.then = "reloadStarted"], "reloadStarted", switched)
    BY <2>4 DEF ReturnsTo
  <2>. QED  BY <2>1, <2>b, <2>c, <2>4, <2>5
<1>10. ASSUME ReloadStarted(d) PROVE ReturnsTo(timers', then, switched)
  BY <1>10, ReturnsKept DEF ReloadStarted
<1>11. ASSUME ApplyChangePeriod(d) PROVE ReturnsTo(timers', then, switched)
  <2>a. PICK h, new : /\ h = timers.command.timer
                      /\ new = [timers EXCEPT !.period[h] = timers.command.value, !.fired[h] = 0,
                                              !.started[h] = timers.sampled]
    OBVIOUS
  <2>1. PICK expiry, now1 : timers' = Applied(InsertTimer(new, h, expiry, now1))
    BY <1>11, <2>a DEF ApplyChangePeriod
  <2>2. ReturnsTo(new, then, switched)
    BY <2>a DEF ReturnsTo
  <2>b. PICK T : T = InsertTimer(new, h, expiry, now1)
    OBVIOUS
  <2>3. ReturnsTo(T, then, switched)
    BY <2>2, <2>b, ReturnsKept
  <2>. QED  BY <2>1, <2>3, <2>b, ReturnsKept
<1>12. ASSUME ApplyStop(d) PROVE ReturnsTo(timers', then, switched)
  <2>1. PICK new : /\ timers' = Applied(new)
                   /\ new = [timers EXCEPT !.started[timers.command.timer] = None,
                               !.exists = IF timers.command.id = "delete" THEN @ \ {timers.command.timer} ELSE @]
    BY <1>12 DEF ApplyStop
  <2>2. ReturnsTo(new, then, switched)
    BY <2>1 DEF ReturnsTo
  <2>. QED  BY <2>1, <2>2, ReturnsKept
<1>. QED  BY <1>2, <1>3, <1>4, <1>5, <1>6, <1>7, <1>8, <1>9, <1>10, <1>11, <1>12

\* Neither returns anywhere else.
LEMMA TimersStillFit ==
    ASSUME TimersFit, NEW d \in Tasks, ComposeCommand(d) \/ DaemonStep(d)
    PROVE  TimersFit'
<1>1. ReturnsTo(timers, timers.then, timers.switched)
  BY DEF ReturnsTo, TimersFit
<1>2. timers' = timers => TimersFit'
  BY DEF TimersFit
<1>3. \A then \in {"receive", "reloadSwitched", "reloadStarted"} :
         \A switched \in {"resumeSwitched", "apply"} :
            ReturnsTo(timers', then, switched) => TimersFit'
  BY DEF ReturnsTo, TimersFit
<1>4. /\ timers.then \in {"receive", "reloadSwitched", "reloadStarted"}
      /\ timers.switched \in {"resumeSwitched", "apply"}
  BY DEF TimersFit
<1>5. /\ LookAtTimers(d) => ReturnsTo(timers', timers.then, "resumeSwitched")
      /\ ExpireTimer(d) => ReturnsTo(timers', "receive", timers.switched)
      /\ SwitchOne(d) => ReturnsTo(timers', "reloadSwitched", timers.switched)
      /\ SampleTime(d) => ReturnsTo(timers', timers.then, "apply")
      /\ ApplyStart(d) => \/ ReturnsTo(timers', "reloadStarted", timers.switched)
                          \/ ReturnsTo(timers', timers.then, timers.switched)
      /\ \/ ReloadSwitched(d) \/ SwitchLists(d) \/ ReceiveCommand(d)
         \/ ReloadStarted(d) \/ ApplyChangePeriod(d) \/ ApplyStop(d)
         => ReturnsTo(timers', timers.then, timers.switched)
  BY <1>1, TimersReturn
<1>6. ComposeCommand(d) \/ AwaitCommand(d) \/ PlaceDaemon(d) \/ ResumeDaemon(d) \/ Callback(d)
      => timers' = timers
  BY DEF ComposeCommand, AwaitCommand, PlaceDaemon, ResumeDaemon, Callback
<1>. QED  BY <1>2, <1>3, <1>4, <1>5, <1>6 DEF DaemonStep

(***************************************************************************)
(* The invariant of the buffers.                                           *)
(***************************************************************************)

\* The steps of a call on a buffer, after its first.
StreamLabels == {"space", "wait", "waited", "forget", "time", "write", "writeData",
                 "recheck", "read", "readData",
                 "trigger", "complete", "notifyPeer", "forgetPeer"}
SendLabels == {"space", "wait", "waited", "forget", "time", "write"}

\* The sizes of messages that every read of a message buffer has room for, and
\* a program that sends no others and does not look at a length: then no reader
\* puts back the length of a message it has taken out.
Sizes(p, b) ==
    {n \in Nat \ {0} : \A t \in Tasks :
        \A i \in CallsOn(p.script[t], b, {"streamReceive"}) : n <= p.script[t][i].bytes}
KeepsMessages(p, b) ==
    p.streams[b].isMessage =>
        /\ \A t \in Tasks :
              /\ CallsOn(p.script[t], b, {"nextLength"}) = {}
              /\ \A i \in CallsOn(p.script[t], b, {"streamSend"}) : p.script[t][i].bytes \in Sizes(p, b)
        /\ \A i \in CallsOn(p.interrupts, b, {"streamSend"}) : p.interrupts[i].bytes \in Sizes(p, b)

Calling(t, b, op) == HasCall(t) /\ Call(t).op = op /\ Call(t).stream = b
Inside(t, b, op, labels) == Calling(t, b, op) /\ local[t].pc \in labels

\* A task that has written the length of a message writes the message next.
Begun(b, begun) ==
    /\ \A t \in Tasks : Inside(t, b, "streamSend", {"writeData"}) => begun = <<Call(t).bytes>>
    /\ (\A t \in Tasks : ~ Inside(t, b, "streamSend", {"writeData"})) => begun = <<>>
\* A task that has read a length reads the message next; one that has seen more
\* than a length has seen a message.
PartRead(b, taken, rest) ==
    /\ \A t \in Tasks : Inside(t, b, "streamReceive", {"readData"}) =>
          rest # <<>> /\ local[t].room = Len(Head(rest)) /\ taken = <<Len(Head(rest))>>
    /\ (\A t \in Tasks : ~ Inside(t, b, "streamReceive", {"readData"})) => taken = <<>>
    /\ \A t \in Tasks : Inside(t, b, "streamReceive", {"read"}) /\ local[t].room > 1 =>
          rest # <<>> /\ 1 + Len(Head(rest)) <= local[t].room
Messages(b) ==
    \E taken, rest, begun :
        /\ OnTheWay(streams[b], Sizes(program, b), taken, rest, begun)
        /\ Begun(b, begun) /\ PartRead(b, taken, rest)

\* What a task has seen of space and bytes is still there: the other side only
\* adds to it.
SpaceSeen(t, b) ==
    /\ Inside(t, b, "streamSend", SendLabels) =>
          local[t].room \in Nat /\ local[t].room <= SpaceIn(streams[b])
    /\ Inside(t, b, "streamSend", {"writeData"}) =>
          streams[b].isMessage /\ Call(t).bytes <= SpaceIn(streams[b])
BytesSeen(t, b) ==
    /\ Inside(t, b, "streamReceive", {"read"}) =>
          local[t].room \in Nat /\ local[t].room <= BytesIn(streams[b])
    /\ Inside(t, b, "streamReceive", {"readData"}) => streams[b].isMessage

BufferInv(b) ==
    /\ SoundStream(streams[b]) /\ streams[b].isMessage = program.streams[b].isMessage
    /\ \A t \in Tasks : SpaceSeen(t, b) /\ BytesSeen(t, b)
    /\ IF streams[b].isMessage THEN Messages(b) ELSE InOrder(streams[b])

\* A task is where its call can be.
Placed(t) ==
    /\ {"pc", "room"} \subseteq DOMAIN local[t]
    /\ local[t].pc \in {"space", "time", "write", "writeData"} => Using(t, {"streamSend"})
    /\ local[t].pc \in {"recheck", "read"} => Using(t, {"streamReceive"})
    /\ local[t].pc = "readData" => Using(t, Reads)
    /\ local[t].pc \in {"wait", "waited", "forget"} => Using(t, {"streamSend", "streamReceive"})
    /\ local[t].pc \in {"trigger", "complete", "notifyPeer", "forgetPeer"}
          => Using(t, {"streamSend"} \cup Reads)
ControlInv ==
    /\ DOMAIN streams = Streams
    /\ TimersFit
    /\ \A t \in Tasks : Placed(t)
StreamInv ==
    /\ ControlInv
    /\ \A b \in Streams : KeepsMessages(program, b) => BufferInv(b)

(***************************************************************************)
(* Steps of a task.                                                        *)
(***************************************************************************)

\* Inside a call.
LEMMA StepGoto ==
    ASSUME QueueInv, NEW t \in Tasks, NEW changes, Goto(t, changes), program' = program,
           "at" \notin DOMAIN changes, {"pc", "room"} \subseteq DOMAIN local[t]
    PROVE  /\ DOMAIN local' = Tasks /\ \A u \in Tasks : u # t => local'[u] = local[u]
           /\ {"pc", "room"} \subseteq DOMAIN local'[t]
           /\ local'[t].pc = IF "pc" \in DOMAIN changes THEN changes.pc ELSE local[t].pc
           /\ local'[t].room = IF "room" \in DOMAIN changes THEN changes.room ELSE local[t].room
           /\ HasCall(t)' = HasCall(t) /\ Call(t)' = Call(t)
<1>1. /\ DOMAIN local' = Tasks /\ \A u \in Tasks : u # t => local'[u] = local[u]
      /\ local'[t] = Updated(local[t], changes)
  BY DEF QueueInv, Goto
<1>2. /\ DOMAIN local'[t] = DOMAIN local[t] \cup DOMAIN changes
      /\ \A x \in DOMAIN local[t] \cup DOMAIN changes :
            local'[t][x] = IF x \in DOMAIN changes THEN changes[x] ELSE local[t][x]
  <2>1. DOMAIN Updated(local[t], changes) = DOMAIN local[t] \cup DOMAIN changes
    BY AfterUpdate
  <2>2. \A x \in DOMAIN local[t] \cup DOMAIN changes :
           Updated(local[t], changes)[x] = IF x \in DOMAIN changes THEN changes[x] ELSE local[t][x]
    BY AfterUpdate
  <2>. QED  BY <1>1, <2>1, <2>2
<1>3. /\ local'[t]["pc"] = IF "pc" \in DOMAIN changes THEN changes["pc"] ELSE local[t]["pc"]
      /\ local'[t]["room"] = IF "room" \in DOMAIN changes THEN changes["room"] ELSE local[t]["room"]
      /\ {"pc", "room"} \subseteq DOMAIN local'[t]
  BY <1>2
<1>4. local'[t]["at"] = local[t]["at"]
  BY <1>2 DEF QueueInv, Lasting
<1>. QED  BY <1>1, <1>3, <1>4 DEF HasCall, Call

\* At the end of one.
LEMMA StepReturn ==
    ASSUME QueueInv, NEW t \in Tasks, NEW changes, Return(t, changes),
           "pc" \notin DOMAIN changes
    PROVE  /\ DOMAIN local' = Tasks /\ \A u \in Tasks : u # t => local'[u] = local[u]
           /\ {"pc", "room"} \subseteq DOMAIN local'[t] /\ local'[t].pc = "call"
<1>. DEFINE one == Updated(NewCall, [at |-> local[t].at + 1])
            all == Updated(one, changes)
<1>1. /\ DOMAIN local' = Tasks /\ \A u \in Tasks : u # t => local'[u] = local[u]
      /\ local'[t] = Updated(local[t], all)
  BY DEF QueueInv, Return, Goto
<1>2. "pc" \in DOMAIN one /\ "room" \in DOMAIN one /\ one["pc"] = "call"
  BY DEF Updated, NewCall
<1>. HIDE DEF one
<1>3. "pc" \in DOMAIN all /\ "room" \in DOMAIN all /\ all["pc"] = "call"
  BY <1>2 DEF Updated
<1>. HIDE DEF all
<1>4. {"pc", "room"} \subseteq DOMAIN Updated(local[t], all) /\ Updated(local[t], all)["pc"] = "call"
  BY <1>3 DEF Updated
<1>. QED  BY <1>1, <1>4

\* A step that has nothing to do with buffers.
Outside ==
    /\ program' = program /\ streams' = streams
    /\ \A u \in Tasks :
          /\ {"pc", "room"} \subseteq DOMAIN local'[u]
          /\ local'[u] = local[u] \/ (local[u].pc \notin StreamLabels /\ local'[u].pc \notin StreamLabels)
Away(changes) == "at" \notin DOMAIN changes
                 /\ ("pc" \in DOMAIN changes => changes.pc \notin StreamLabels)

\* A step within a call that is none on a buffer is outside of all buffers.
LEMMA OutsideGoto ==
    ASSUME QueueInv, ControlInv, program' = program, streams' = streams, NEW t \in Tasks,
           local[t].pc \notin StreamLabels, NEW changes, Away(changes), Goto(t, changes)
    PROVE  Outside
<1>1. /\ \A u \in Tasks : u # t => local'[u] = local[u]
      /\ {"pc", "room"} \subseteq DOMAIN local'[t]
      /\ local'[t].pc = IF "pc" \in DOMAIN changes THEN changes.pc ELSE local[t].pc
  BY StepGoto DEF Away, ControlInv, Placed
<1>. QED  BY <1>1 DEF Outside, Away, ControlInv, Placed

\* The return from a call that is none on a buffer is outside of all buffers.
LEMMA OutsideReturn ==
    ASSUME QueueInv, ControlInv, program' = program, streams' = streams, NEW t \in Tasks,
           local[t].pc \notin StreamLabels, NEW changes, "pc" \notin DOMAIN changes,
           Return(t, changes)
    PROVE  Outside
<1>1. /\ \A u \in Tasks : u # t => local'[u] = local[u]
      /\ {"pc", "room"} \subseteq DOMAIN local'[t] /\ local'[t].pc = "call"
  BY StepReturn
<1>. QED  BY <1>1 DEF Outside, StreamLabels, ControlInv, Placed

\* A step that no task takes is outside of all buffers.
LEMMA OutsideStays ==
    ASSUME ControlInv, program' = program, streams' = streams, local' = local
    PROVE  Outside
BY DEF Outside, ControlInv, Placed

\* The steps of a call on a queue, semaphore or mutex.
LEMMA QueueStepsOutside ==
    ASSUME QueueInv, ControlInv, streams' = streams, NEW t \in Tasks, QueueStep(t)
    PROVE  Outside
<1>1. CASE SendNow(t)
  BY <1>1, OutsideReturn DEF SendNow, Calls, StreamLabels
<1>2. CASE ReceiveNow(t)
  BY <1>2, OutsideReturn DEF ReceiveNow, Calls, StreamLabels
<1>3. CASE PeekNow(t)
  BY <1>3, OutsideReturn DEF PeekNow, Calls, StreamLabels
<1>4. CASE TakeNow(t)
  BY <1>4, OutsideReturn DEF TakeNow, Calls, StreamLabels
<1>5. CASE TakeAgain(t)
  BY <1>5, OutsideReturn DEF TakeAgain, Calls, StreamLabels
<1>6. CASE GiveOnce(t)
  BY <1>6, OutsideReturn DEF GiveOnce, Calls, StreamLabels
<1>7. CASE Give(t)
  BY <1>7, OutsideReturn DEF Give, Calls, StreamLabels
<1>8. CASE GiveNothing(t)
  BY <1>8, OutsideReturn DEF GiveNothing, Calls, StreamLabels
<1>9. CASE Refuse(t)
  <2>1. program' = program /\ local[t].pc \notin StreamLabels /\ Return(t, << >>)
    BY <1>9 DEF Refuse, Calls, StreamLabels
  <2>. QED  BY <2>1, OutsideReturn
<1>10. CASE GoWait(t)
  BY <1>10, OutsideGoto DEF GoWait, Calls, StreamLabels, Away
<1>11. CASE LockAndCheck(t)
  BY <1>11, OutsideGoto DEF LockAndCheck, At, StreamLabels, Away
<1>12. CASE CheckStill(t)
  BY <1>12, OutsideGoto DEF CheckStill, At, StreamLabels, Away
<1>13. CASE Place(t)
  BY <1>13, OutsideGoto DEF Place, At, StreamLabels, Away
<1>14. CASE UnlockTx(t)
  BY <1>14, OutsideGoto DEF UnlockTx, At, StreamLabels, Away
<1>15. CASE UnlockRx(t)
  BY <1>15, OutsideGoto DEF UnlockRx, At, StreamLabels, Away
<1>16. CASE Resume(t)
  BY <1>16, OutsideGoto, OutsideReturn DEF Resume, At, StreamLabels, Away
<1>17. CASE GiveUp(t)
  BY <1>17, OutsideGoto, OutsideReturn DEF GiveUp, At, StreamLabels, Away
<1>18. CASE DisinheritAfterTimeout(t)
  BY <1>18, OutsideReturn DEF DisinheritAfterTimeout, At, StreamLabels
<1>. QED  BY <1>1, <1>2, <1>3, <1>4, <1>5, <1>6, <1>7, <1>8, <1>9, <1>10, <1>11, <1>12, <1>13,
             <1>14, <1>15, <1>16, <1>17, <1>18 DEF QueueStep

\* Of the other calls of the kernel.
LEMMA OtherStepsOutside ==
    ASSUME QueueInv, ControlInv, streams' = streams, NEW t \in Tasks, OtherStep(t)
    PROVE  Outside
<1>1. CASE Delay(t)
  BY <1>1, OutsideGoto DEF Delay, Calls, StreamLabels, Away
<1>2. CASE DelayUntil(t)
  BY <1>2, OutsideGoto DEF DelayUntil, Calls, StreamLabels, Away
<1>3. CASE ReturnFromDelay(t)
  BY <1>3, OutsideReturn DEF ReturnFromDelay, At, StreamLabels
<1>4. CASE WaitForNotification(t)
  BY <1>4, OutsideGoto DEF WaitForNotification, Calls, StreamLabels, Away
<1>5. CASE NotifyTaken(t)
  BY <1>5, OutsideReturn DEF NotifyTaken, At, StreamLabels
<1>6. CASE WaitBits(t)
  BY <1>6, OutsideGoto DEF WaitBits, WaitForBits, Calls, StreamLabels, Away
<1>7. CASE SetBits(t)
  BY <1>7, OutsideGoto DEF SetBits, Calls, StreamLabels, Away
<1>8. CASE SyncBits(t)
  BY <1>8, OutsideGoto DEF SyncBits, WaitForBits, Calls, StreamLabels, Away
<1>9. CASE BitsCame(t)
  BY <1>9, OutsideReturn DEF BitsCame, At, StreamLabels
<1>10. CASE ReadBits(t)
  BY <1>10, OutsideReturn DEF ReadBits, At, StreamLabels
<1>11. CASE ClearBits(t)
  BY <1>11, OutsideReturn DEF ClearBits, Calls, StreamLabels
<1>12. CASE DeleteGroup(t)
  BY <1>12, OutsideGoto DEF DeleteGroup, Calls, StreamLabels, Away
<1>13. CASE ResumeOther(t)
  BY <1>13, OutsideGoto, OutsideReturn DEF ResumeOther, At, StreamLabels, Away
<1>14. CASE TaskCall(t)
  BY <1>14, OutsideReturn DEF TaskCall, Calls, StreamLabels
<1>15. CASE AbortDelayOf(t)
  BY <1>15, OutsideGoto DEF AbortDelayOf, Calls, StreamLabels, Away
<1>16. CASE Exit(t)
  BY <1>16, OutsideStays DEF Exit
<1>17. CASE DelayNothing(t)
  BY <1>17, OutsideReturn DEF DelayNothing, Calls, StreamLabels
<1>. QED  BY <1>1, <1>2, <1>3, <1>4, <1>5, <1>6, <1>7, <1>8, <1>9, <1>10, <1>11, <1>12, <1>13,
             <1>14, <1>15, <1>16, <1>17 DEF OtherStep

\* Of the timer task, and of those who compose a command to it.
LEMMA DaemonStepsOutside ==
    ASSUME QueueInv, ControlInv, streams' = streams, NEW t \in Tasks,
           ComposeCommand(t) \/ DaemonStep(t)
    PROVE  Outside
<1>0. /\ timers.then \in {"receive", "reloadSwitched", "reloadStarted"}
      /\ timers.switched \in {"resumeSwitched", "apply"}
  BY DEF ControlInv, TimersFit
<1>1. CASE ComposeCommand(t)
  BY <1>1, OutsideGoto DEF ComposeCommand, Calls, StreamLabels, Away
<1>2. CASE LookAtTimers(t)
  BY <1>2, OutsideGoto DEF LookAtTimers, Calls, StreamLabels, Away
<1>3. CASE AwaitCommand(t)
  BY <1>3, OutsideGoto DEF AwaitCommand, At, StreamLabels, Away
<1>4. CASE PlaceDaemon(t)
  BY <1>4, OutsideGoto DEF PlaceDaemon, At, StreamLabels, Away
<1>5. CASE ResumeDaemon(t)
  BY <1>5, OutsideGoto DEF ResumeDaemon, At, StreamLabels, Away
<1>6. CASE ExpireTimer(t)
  BY <1>6, OutsideGoto DEF ExpireTimer, At, StreamLabels, Away
<1>7. CASE Callback(t)
  BY <1>0, <1>7, OutsideGoto DEF Callback, At, StreamLabels, Away
<1>8. CASE SwitchOne(t)
  BY <1>8, OutsideGoto DEF SwitchOne, At, StreamLabels, Away
<1>9. CASE ReloadSwitched(t)
  BY <1>9, OutsideGoto DEF ReloadSwitched, At, StreamLabels, Away
<1>10. CASE SwitchLists(t)
  BY <1>0, <1>10, OutsideGoto DEF SwitchLists, At, StreamLabels, Away
<1>11. CASE ReceiveCommand(t)
  BY <1>11, OutsideGoto DEF ReceiveCommand, At, StreamLabels, Away
<1>12. CASE SampleTime(t)
  BY <1>12, OutsideGoto DEF SampleTime, At, StreamLabels, Away
<1>13. CASE ApplyStart(t)
  BY <1>13, OutsideGoto DEF ApplyStart, At, StreamLabels, Away
<1>14. CASE ReloadStarted(t)
  BY <1>14, OutsideGoto DEF ReloadStarted, At, StreamLabels, Away
<1>15. CASE ApplyChangePeriod(t)
  BY <1>15, OutsideGoto DEF ApplyChangePeriod, At, StreamLabels, Away
<1>16. CASE ApplyStop(t)
  BY <1>16, OutsideGoto DEF ApplyStop, At, StreamLabels, Away
<1>. QED  BY <1>1, <1>2, <1>3, <1>4, <1>5, <1>6, <1>7, <1>8, <1>9, <1>10, <1>11, <1>12, <1>13,
             <1>14, <1>15, <1>16 DEF DaemonStep

\* Of the wall clock.
LEMMA ClockStepsOutside ==
    ASSUME QueueInv, ControlInv, streams' = streams, NEW t \in Tasks, ClockStep(t)
    PROVE  Outside
<1>1. CASE ReadClock(t)
  BY <1>1, OutsideGoto DEF ReadClock, WaitUntil, Calls, StreamLabels, Away
<1>2. CASE SleepFor(t)
  BY <1>2, OutsideGoto DEF SleepFor, WaitFor, Calls, StreamLabels, Away
<1>3. CASE BeginSetClock(t)
  BY <1>3, OutsideGoto DEF BeginSetClock, Calls, StreamLabels, Away
<1>4. CASE StoreClock(t)
  BY <1>4, OutsideReturn DEF StoreClock, At, StreamLabels
<1>. QED  BY <1>1, <1>2, <1>3, <1>4 DEF ClockStep

\* And of the scheduler and the interrupts.
LEMMA InterruptsOutside ==
    ASSUME QueueInv, ControlInv, streams' = streams,
           Switch \/ IdleCleansUp \/ TickInterrupt \/ Interrupt \/ CommandInterrupt
    PROVE  Outside
<1>1. program' = program /\ local' = local
  BY DEF Switch, IdleCleansUp, TickInterrupt, Interrupt, SendInterrupt, ReceiveInterrupt,
         TaskInterrupt, CommandInterrupt, Raise
<1>. QED  BY <1>1, OutsideStays

(***************************************************************************)
(* Who uses a buffer, and what a step leaves to the other side.            *)
(***************************************************************************)

\* A call that is being made is in the script, and fits its buffer.
LEMMA StreamCalls ==
    ASSUME QueueInv, NEW t \in Tasks, HasCall(t)
    PROVE  /\ local[t].at \in 1 .. Len(program.script[t])
           /\ LegalStreamCall(Call(t), program.streams)
<1>1. local[t].at \in 1 .. Len(program.script[t])
  <2>1. Len(program.script[t]) \in Nat /\ local[t].at \in Nat \ {0}
    BY ProgramAssumption DEF QueueInv
  <2>. QED  BY <2>1 DEF HasCall
<1>. QED  BY <1>1, StreamAssumption DEF QueueInv, Call

\* A task in the middle of a call is one of the users of its buffer.
LEMMA CallerUses ==
    ASSUME QueueInv, NEW t \in Tasks, HasCall(t), NEW operations, Call(t).op \in operations
    PROVE  t \in Users(program, Call(t).stream, operations)
BY StreamCalls DEF Users, CallsOn, Call

\* So no two tasks write to a buffer, and no two read it.
LEMMA OneUser ==
    ASSUME QueueInv, NEW t \in Tasks, NEW u \in Tasks, HasCall(t), HasCall(u),
           NEW operations \in {{"streamSend"}, Reads}, Call(t).op \in operations,
           Call(u).op \in operations, Call(t).stream = Call(u).stream
    PROVE  t = u
<1>1. Call(t).stream \in Streams
  BY StreamCalls DEF LegalStreamCall, Reads
<1>2. t \in Users(program, Call(t).stream, operations)
  BY CallerUses
<1>3. u \in Users(program, Call(t).stream, operations)
  BY CallerUses
<1>4. program \in Programs
  BY DEF QueueInv
<1>5. \A x, y \in Users(program, Call(t).stream, operations) : x = y
  BY <1>1, <1>4, StreamAssumption
<1>. QED  BY <1>2, <1>3, <1>5

\* And no task does what the interrupts do.
LEMMA OnlyInterrupts ==
    ASSUME QueueInv, NEW operations \in {{"streamSend"}, Reads}, NEW i \in 1 .. Len(Interrupts),
           Interrupts[i].op \in operations, NEW t \in Tasks, HasCall(t), Call(t).op \in operations
    PROVE  Call(t).stream # Interrupts[i].stream
<1>. DEFINE b == Interrupts[i].stream
<1>1. SUFFICES ASSUME Call(t).stream = b PROVE FALSE
  OBVIOUS
<1>2. b \in Streams
  BY StreamAssumption DEF QueueInv, Interrupts, LegalStreamCall, Reads
<1>3. None \in Users(program, b, operations)
  BY DEF Users, CallsOn, Interrupts
<1>4. t \in Users(program, b, operations)
  BY <1>1, CallerUses
<1>5. t = None
  BY <1>2, <1>3, <1>4, StreamAssumption DEF QueueInv
<1>. QED  BY <1>5, ProgramAssumption

\* Where a task is in its call on a buffer, and what it has seen, stays.
SameView(u, b, op, labels) ==
    /\ \A l \in labels : Inside(u, b, op, {l})' <=> Inside(u, b, op, {l})
    /\ Inside(u, b, op, labels) => local'[u].room = local[u].room /\ Call(u)' = Call(u)
SameSend(u, b) == SameView(u, b, "streamSend", SendLabels \cup {"writeData"})
SameReceive(u, b) == SameView(u, b, "streamReceive", {"read", "readData"})

\* So it is for a task that takes no step, and for one that is not in the call
\* before the step nor after it.
LEMMA ViewStays ==
    ASSUME program' = program, NEW u, NEW b, NEW op, NEW labels,
           \/ local'[u] = local[u]
           \/ ~ Inside(u, b, op, labels) /\ ~ Inside(u, b, op, labels)'
    PROVE  SameView(u, b, op, labels)
BY DEF SameView, Inside, Calling, HasCall, Call

\* A step outside of the buffers leaves every task where it was in them.
LEMMA OutsideViews ==
    ASSUME Outside, NEW u \in Tasks, NEW b
    PROVE  SameSend(u, b) /\ SameReceive(u, b)
<1>1. SendLabels \cup {"writeData"} \subseteq StreamLabels /\ {"read", "readData"} \subseteq StreamLabels
  BY DEF SendLabels, StreamLabels
<1>. QED  BY <1>1, ViewStays DEF Outside, SameSend, SameReceive, Inside

\* What was seen is still there when no less is.
LEMMA SpaceStaysSeen ==
    ASSUME NEW u, NEW b, SpaceSeen(u, b), SameSend(u, b),
           streams'[b].isMessage = streams[b].isMessage,
           SpaceIn(streams[b]) \in Nat, SpaceIn(streams'[b]) \in Nat,
           SpaceIn(streams[b]) <= SpaceIn(streams'[b]),
           Inside(u, b, "streamSend", {"writeData"}) => Call(u).bytes \in Nat
    PROVE  SpaceSeen(u, b)'
<1>1. CASE Inside(u, b, "streamSend", SendLabels)'
  BY <1>1 DEF SpaceSeen, SameSend, SameView, Inside
<1>2. CASE Inside(u, b, "streamSend", {"writeData"})'
  BY <1>2 DEF SpaceSeen, SameSend, SameView, Inside, SendLabels
<1>. QED  BY <1>1, <1>2 DEF SpaceSeen

\* A reader that counted the bytes still finds them when there are no fewer.
LEMMA BytesStaySeen ==
    ASSUME NEW u, NEW b, BytesSeen(u, b), SameReceive(u, b),
           streams'[b].isMessage = streams[b].isMessage,
           BytesIn(streams[b]) \in Nat, BytesIn(streams'[b]) \in Nat,
           BytesIn(streams[b]) <= BytesIn(streams'[b])
    PROVE  BytesSeen(u, b)'
BY DEF BytesSeen, SameReceive, SameView, Inside

\* The same of a message that is being written, or being read.
LEMMA BegunStays ==
    ASSUME NEW b, NEW begun, Begun(b, begun),
           \A u \in Tasks : SameSend(u, b) \/ (~ Inside(u, b, "streamSend", {"writeData"})
                                               /\ ~ Inside(u, b, "streamSend", {"writeData"})')
    PROVE  Begun(b, begun)'
<1>1. \A u \in Tasks : /\ Inside(u, b, "streamSend", {"writeData"})' <=> Inside(u, b, "streamSend", {"writeData"})
                       /\ Inside(u, b, "streamSend", {"writeData"}) => Call(u)' = Call(u)
  BY DEF SameSend, SameView, Inside
<1>. QED  BY <1>1 DEF Begun

\* The length a reader took stays that of the first message.
LEMMA TakenStays ==
    ASSUME NEW b, NEW taken, NEW rest, NEW more, PartRead(b, taken, rest),
           \A u \in Tasks : SameReceive(u, b),
           rest # <<>> => more # <<>> /\ Head(more) = Head(rest)
    PROVE  PartRead(b, taken, more)'
<1>1. \A u \in Tasks : \A l \in {"read", "readData"} :
         /\ Inside(u, b, "streamReceive", {l})' <=> Inside(u, b, "streamReceive", {l})
         /\ Inside(u, b, "streamReceive", {l}) => local'[u].room = local[u].room
  BY DEF SameReceive, SameView, Inside
<1>. QED  BY <1>1 DEF PartRead

(***************************************************************************)
(* Steps that leave the data of a buffer alone.                            *)
(***************************************************************************)

\* A call that sends has a positive number of bytes to send.
LEMMA SendsBytes ==
    ASSUME QueueInv, NEW u \in Tasks, NEW b, Calling(u, b, "streamSend")
    PROVE  Call(u).bytes \in Nat \ {0} /\ b \in Streams
<1>1. LegalStreamCall(Call(u), program.streams) /\ Call(u).op = "streamSend" /\ Call(u).stream = b
  BY StreamCalls DEF Calling
<1>. QED  BY <1>1 DEF LegalStreamCall

\* A task looks at the space, or at the bytes, anew.
NewSpace(u, b) ==
    /\ ~ Inside(u, b, "streamSend", {"writeData"}) /\ ~ Inside(u, b, "streamSend", {"writeData"})'
    /\ Inside(u, b, "streamSend", SendLabels)' =>
          local'[u].room \in Nat /\ local'[u].room <= SpaceIn(streams[b])
NewBytes(u, b) ==
    /\ ~ Inside(u, b, "streamReceive", {"readData"}) /\ ~ Inside(u, b, "streamReceive", {"readData"})'
    /\ Inside(u, b, "streamReceive", {"read"})' =>
          /\ local'[u].room = BytesIn(streams[b])
          /\ \A v \in Tasks : ~ Inside(v, b, "streamReceive", {"readData"})

\* Of a message that is not all written there is the length alone.
LEMMA BegunIsShort ==
    ASSUME NEW b, NEW begun, Begun(b, begun)
    PROVE  Len(begun) <= 1
<1>1. CASE \A t \in Tasks : ~ Inside(t, b, "streamSend", {"writeData"})
  <2>1. begun = <<>>
    BY <1>1 DEF Begun
  <2>. QED  BY <2>1, EmptySeq
<1>2. CASE \E t \in Tasks : Inside(t, b, "streamSend", {"writeData"})
  <2>1. PICK t \in Tasks : Inside(t, b, "streamSend", {"writeData"})
    BY <1>2
  <2>2. begun = <<Call(t).bytes>>
    BY <2>1 DEF Begun
  <2>. QED  BY <2>2
<1>. QED  BY <1>1, <1>2

\* Whoever sees more than a length in the ring sees a message.
LEMMA BytesAreMessages ==
    ASSUME NEW s, SoundStream(s), NEW b, NEW sizes, NEW taken, NEW rest, NEW begun,
           OnTheWay(s, sizes, taken, rest, begun), Begun(b, begun), taken = <<>>,
           BytesIn(s) > 1
    PROVE  rest # <<>> /\ 1 + Len(Head(rest)) <= BytesIn(s)
<1>1. Len(begun) <= 1 /\ begun \in Seq(Nat) /\ BytesIn(s) \in Nat
  BY BegunIsShort, Counts DEF OnTheWay
<1>2. Len(begun) < BytesIn(s)
  BY <1>1
<1>3. rest # <<>>
  BY <1>2, MessageIsThere
<1>. QED  BY <1>3, MessageIsFirst

\* The invariant of a buffer is kept by a step that changes none of its data.
LEMMA BufferStays ==
    ASSUME QueueInv, NEW b, BufferInv(b), program' = program,
           SameData(streams[b], streams'[b]),
           \A u \in Tasks : /\ SameSend(u, b) \/ NewSpace(u, b)
                            /\ SameReceive(u, b) \/ NewBytes(u, b)
    PROVE  BufferInv(b)'
<1>. DEFINE s == streams[b]
            r == streams'[b]
<1>1. /\ SoundStream(s) /\ s.isMessage = program.streams[b].isMessage
      /\ \A t \in Tasks : SpaceSeen(t, b) /\ BytesSeen(t, b)
      /\ IF s.isMessage THEN Messages(b) ELSE InOrder(s)
  BY DEF BufferInv
<1>2. /\ SoundStream(r) /\ Stored(r) = Stored(s) /\ r.isMessage = s.isMessage
      /\ BytesIn(r) = BytesIn(s) /\ SpaceIn(r) = SpaceIn(s)
      /\ r.sent = s.sent /\ r.got = s.got
  BY <1>1, DataStays DEF SameData
<1>3. BytesIn(s) \in Nat /\ SpaceIn(s) \in Nat
  BY <1>1, Counts
<1>4. ASSUME NEW u \in Tasks PROVE SpaceSeen(u, b)'
  <2>1. CASE SameSend(u, b)
    <3>1. Inside(u, b, "streamSend", {"writeData"}) => Call(u).bytes \in Nat
      BY SendsBytes DEF Inside
    <3>. QED  BY <1>1, <1>2, <1>3, <2>1, <3>1, SpaceStaysSeen
  <2>2. CASE NewSpace(u, b)
    BY <1>2, <2>2 DEF NewSpace, SpaceSeen
  <2>. QED  BY <2>1, <2>2
<1>5. ASSUME NEW u \in Tasks PROVE BytesSeen(u, b)'
  <2>1. CASE SameReceive(u, b)
    BY <1>1, <1>2, <1>3, <2>1, BytesStaySeen
  <2>2. CASE NewBytes(u, b)
    BY <1>2, <1>3, <2>2 DEF NewBytes, BytesSeen
  <2>. QED  BY <2>1, <2>2
<1>6. ASSUME s.isMessage PROVE Messages(b)'
  <2>1. PICK taken, rest, begun :
           /\ OnTheWay(s, Sizes(program, b), taken, rest, begun)
           /\ Begun(b, begun) /\ PartRead(b, taken, rest)
    BY <1>1, <1>6 DEF Messages
  <2>2. OnTheWay(r, Sizes(program', b), taken, rest, begun)
    BY <1>2, <2>1 DEF OnTheWay
  <2>3. Begun(b, begun)'
    BY <2>1, BegunStays DEF NewSpace
  <2>4. ASSUME NEW u \in Tasks, Inside(u, b, "streamReceive", {"readData"})'
        PROVE  rest # <<>> /\ local'[u].room = Len(Head(rest)) /\ taken = <<Len(Head(rest))>>
    <3>1. SameReceive(u, b)
      BY <2>4 DEF NewBytes
    <3>. QED  BY <2>1, <2>4, <3>1 DEF SameReceive, SameView, Inside, PartRead
  <2>5. ASSUME \A u \in Tasks : ~ Inside(u, b, "streamReceive", {"readData"})'
        PROVE  taken = <<>>
    <3>1. \A u \in Tasks : ~ Inside(u, b, "streamReceive", {"readData"})
      BY <2>5 DEF NewBytes, SameReceive, SameView
    <3>. QED  BY <2>1, <3>1 DEF PartRead
  <2>6. ASSUME NEW u \in Tasks, Inside(u, b, "streamReceive", {"read"})', local'[u].room > 1
        PROVE  rest # <<>> /\ 1 + Len(Head(rest)) <= local'[u].room
    <3>1. CASE SameReceive(u, b)
      BY <2>1, <2>6, <3>1 DEF SameReceive, SameView, Inside, PartRead
    <3>2. CASE NewBytes(u, b)
      <4>1. taken = <<>>
        BY <2>1, <2>6, <3>2 DEF NewBytes, PartRead
      <4>2. local'[u].room = BytesIn(s)
        BY <2>6, <3>2 DEF NewBytes
      <4>3. BytesIn(s) > 1
        BY <2>6, <4>2
      <4>. QED  BY <1>1, <2>1, <4>1, <4>2, <4>3, BytesAreMessages
    <3>. QED  BY <3>1, <3>2
  <2>7. PartRead(b, taken, rest)'
    BY <2>4, <2>5, <2>6 DEF PartRead
  <2>. QED  BY <2>2, <2>3, <2>7 DEF Messages
<1>7. ASSUME ~ s.isMessage PROVE InOrder(r)
  BY <1>1, <1>2, <1>7 DEF InOrder
<1>. QED  BY <1>1, <1>2, <1>4, <1>5, <1>6, <1>7 DEF BufferInv

\* A step of one task, that stays in its call or ends it.
Moves(t) ==
    /\ program' = program /\ \A u \in Tasks : u # t => local'[u] = local[u]
    /\ HasCall(t)
    /\ local'[t].pc = "call" \/ (HasCall(t)' = HasCall(t) /\ Call(t)' = Call(t))

\* A step of one task leaves every other where it was in its buffer.
LEMMA OtherViews ==
    ASSUME NEW t \in Tasks, Moves(t), NEW u \in Tasks, u # t, NEW b
    PROVE  SameSend(u, b) /\ SameReceive(u, b)
BY ViewStays DEF Moves, SameSend, SameReceive

\* A writer does not change what readers see, nor a reader what writers see.
LEMMA WriterViews ==
    ASSUME NEW t \in Tasks, Moves(t), Call(t).op = "streamSend", NEW u \in Tasks, NEW b
    PROVE  SameReceive(u, b)
<1>1. CASE u = t
  <2>1. /\ ~ Inside(t, b, "streamReceive", {"read", "readData"})
        /\ ~ Inside(t, b, "streamReceive", {"read", "readData"})'
    BY DEF Moves, Inside, Calling
  <2>. QED  BY <1>1, <2>1, ViewStays DEF SameReceive, Moves
<1>. QED  BY <1>1, OtherViews

\* A step of a reader leaves every writer where it was.
LEMMA ReaderViews ==
    ASSUME NEW t \in Tasks, Moves(t), Call(t).op \in Reads, NEW u \in Tasks, NEW b
    PROVE  SameSend(u, b)
<1>1. CASE u = t
  <2>1. /\ ~ Inside(t, b, "streamSend", SendLabels \cup {"writeData"})
        /\ ~ Inside(t, b, "streamSend", SendLabels \cup {"writeData"})'
    BY DEF Moves, Inside, Calling, SendLabels, Reads
  <2>. QED  BY <1>1, <2>1, ViewStays DEF SameSend, Moves
<1>. QED  BY <1>1, OtherViews

\* Nor does a task change what others see of a buffer it does not use.
LEMMA ElsewhereStays ==
    ASSUME QueueInv, NEW b, BufferInv(b), NEW t \in Tasks, Moves(t), Call(t).stream # b,
           streams'[b] = streams[b]
    PROVE  BufferInv(b)'
<1>1. ~ Inside(t, b, "streamReceive", {"read", "readData"})
      /\ ~ Inside(t, b, "streamReceive", {"read", "readData"})'
      /\ ~ Inside(t, b, "streamSend", SendLabels \cup {"writeData"})
      /\ ~ Inside(t, b, "streamSend", SendLabels \cup {"writeData"})'
  BY DEF Moves, Inside, Calling, SendLabels
<1>2. \A u \in Tasks : SameSend(u, b) /\ SameReceive(u, b)
  BY <1>1, ViewStays, OtherViews DEF Moves, SameSend, SameReceive
<1>3. SameData(streams[b], streams'[b])
  BY DEF SameData
<1>. QED  BY <1>2, <1>3, BufferStays DEF Moves

\* The one task that writes to a buffer, or reads it.
LEMMA OnlyWriter ==
    ASSUME QueueInv, NEW t \in Tasks, HasCall(t), Call(t).op = "streamSend",
           NEW u \in Tasks, u # t, NEW labels
    PROVE  ~ Inside(u, Call(t).stream, "streamSend", labels)
BY OneUser DEF Inside, Calling

\* Inside a buffer that one task reads, no other task is reading.
LEMMA OnlyReader ==
    ASSUME QueueInv, NEW t \in Tasks, HasCall(t), Call(t).op \in Reads,
           NEW u \in Tasks, u # t, NEW labels
    PROVE  ~ Inside(u, Call(t).stream, "streamReceive", labels)
BY OneUser DEF Inside, Calling, Reads

(***************************************************************************)
(* Steps that write to a buffer.                                           *)
(***************************************************************************)

\* A message is begun or ended, by whoever writes to the buffer.
LEMMA BufferWritten ==
    ASSUME QueueInv, NEW b, NEW x, BufferInv(b), program' = program,
           SoundStream(streams'[b]), streams'[b].isMessage = streams[b].isMessage,
           BytesIn(streams[b]) <= BytesIn(streams'[b]),
           \A u \in Tasks : SameReceive(u, b),
           \A u \in Tasks : u # x =>
               SameSend(u, b) /\ ~ Inside(u, b, "streamSend", SendLabels \cup {"writeData"}),
           x \in Tasks =>
               /\ ~ Inside(x, b, "streamSend", SendLabels)'
               /\ Inside(x, b, "streamSend", {"writeData"})' =>
                     streams'[b].isMessage /\ Call(x)'.bytes <= SpaceIn(streams'[b]),
           IF streams'[b].isMessage THEN Messages(b)' ELSE InOrder(streams'[b])
    PROVE  BufferInv(b)'
<1>1. ASSUME NEW u \in Tasks PROVE SpaceSeen(u, b)'
  <2>1. CASE u = x
    BY <2>1 DEF SpaceSeen
  <2>2. CASE u # x
    <3>1. ~ Inside(u, b, "streamSend", SendLabels)' /\ ~ Inside(u, b, "streamSend", {"writeData"})'
      BY <2>2 DEF SameSend, SameView, Inside
    <3>. QED  BY <3>1 DEF SpaceSeen
  <2>. QED  BY <2>1, <2>2
<1>2. ASSUME NEW u \in Tasks PROVE BytesSeen(u, b)'
  <2>1. BytesIn(streams[b]) \in Nat /\ BytesIn(streams'[b]) \in Nat
    BY Counts DEF BufferInv
  <2>. QED  BY <2>1, BytesStaySeen DEF BufferInv
<1>. QED  BY <1>1, <1>2 DEF BufferInv

\* What is on its way is not changed by forgetting who waits.
LEMMA OnTheWayStays ==
    ASSUME NEW s, NEW r, SoundStream(s), SameData(s, r), NEW sizes, NEW taken, NEW rest, NEW begun,
           OnTheWay(s, sizes, taken, rest, begun)
    PROVE  OnTheWay(r, sizes, taken, rest, begun)
BY DataStays DEF OnTheWay, SameData

\* A message behind others does not change the first.
LEMMA HeadStays ==
    ASSUME NEW rest \in Seq(Seq(Nat)), NEW m \in Seq(Nat)
    PROVE  rest # <<>> => Append(rest, m) # <<>> /\ Head(Append(rest, m)) = Head(rest)
<1>1. /\ Append(rest, m) \in Seq(Seq(Nat)) /\ Len(Append(rest, m)) = Len(rest) + 1
      /\ \A i \in 1 .. Len(rest) : Append(rest, m)[i] = rest[i]
  BY AppendProperties
<1>. PICK more : more = Append(rest, m)
  OBVIOUS
<1>2. ASSUME rest # <<>> PROVE more # <<>> /\ Head(more) = Head(rest)
  <2>1. Len(rest) \in Nat \ {0} /\ Head(rest) = rest[1]
    BY <1>2, FirstMessage
  <2>2. Len(more) # 0 /\ more[1] = rest[1]
    BY <1>1, <2>1
  <2>3. more # <<>>
    BY <2>2, EmptySeq
  <2>4. Head(more) = more[1]
    BY <1>1, <2>3, FirstMessage
  <2>. QED  BY <2>1, <2>2, <2>3, <2>4
<1>. QED  BY <1>2

\* The steps of a writer.
LEMMA WriteStreamKeeps ==
    ASSUME QueueInv, ControlInv, NEW b \in Streams, BufferInv(b), NEW t \in Tasks,
           Moves(t), Call(t).op = "streamSend", Call(t).stream = b,
           local[t].pc = "write", NEW n,
           IF streams[b].isMessage
           THEN /\ n = Call(t).bytes /\ n + 1 <= SpaceIn(streams[b]) /\ n \in Sizes(program, b)
                /\ streams'[b] = Written(streams[b], <<n>>) /\ local'[t].pc = "writeData"
                /\ HasCall(t)' = HasCall(t) /\ Call(t)' = Call(t)
           ELSE /\ n \in Nat /\ n <= SpaceIn(streams[b])
                /\ streams'[b] = Sent(streams[b], n) /\ local'[t].pc = "trigger"
    PROVE  BufferInv(b)'
<1>. DEFINE s == streams[b]
            r == streams'[b]
<1>1. /\ SoundStream(s) /\ IF s.isMessage THEN Messages(b) ELSE InOrder(s)
  BY DEF BufferInv
<1>2. \A u \in Tasks : SameReceive(u, b)
  BY WriterViews
<1>3. \A u \in Tasks : u # t =>
         SameSend(u, b) /\ ~ Inside(u, b, "streamSend", SendLabels \cup {"writeData"})
  BY OtherViews, OnlyWriter DEF Moves
<1>4. ~ Inside(t, b, "streamSend", SendLabels)'
  BY DEF Inside, SendLabels
<1>5. \A u \in Tasks : ~ Inside(u, b, "streamSend", {"writeData"})
  BY <1>3 DEF Inside
<1>6. BytesIn(s) \in Nat /\ SpaceIn(s) \in Nat
  BY <1>1, Counts
<1>7. CASE s.isMessage
  <2>1. n \in Nat
    BY <1>7, SendsBytes DEF Moves, Calling
  <2>2. PICK taken, rest, begun :
           /\ OnTheWay(s, Sizes(program, b), taken, rest, begun)
           /\ Begun(b, begun) /\ PartRead(b, taken, rest)
    BY <1>1, <1>7 DEF Messages
  <2>3. begun = <<>>
    BY <1>5, <2>2 DEF Begun
  <2>4. /\ SoundStream(r) /\ OnTheWay(r, Sizes(program, b), taken, rest, <<n>>)
        /\ SpaceIn(r) = SpaceIn(s) - 1 /\ BytesIn(r) = BytesIn(s) + 1
        /\ r.isMessage = s.isMessage
    <3>1. r = Written(s, <<n>>)
      BY <1>7
    <3>2. 1 <= SpaceIn(s)
      <4>1. n + 1 <= SpaceIn(s)
        BY <1>7
      <4>. QED  BY <1>6, <2>1, <4>1
    <3>. HIDE DEF s, r
    <3>. QED  BY <1>1, <2>1, <2>2, <2>3, <3>1, <3>2, LengthIsWritten
  <2>5. PartRead(b, taken, rest)'
    BY <1>2, <2>2, TakenStays
  <2>6. \A u \in Tasks : Inside(u, b, "streamSend", {"writeData"})' => u = t
    BY <1>3 DEF SameSend, SameView, Inside
  <2>7. Inside(t, b, "streamSend", {"writeData"})' /\ Call(t)'.bytes = n
    BY <1>7 DEF Inside, Calling, Moves
  <2>8. Begun(b, <<n>>)'
    BY <2>6, <2>7 DEF Begun
  <2>9. Messages(b)'
    BY <2>4, <2>5, <2>8 DEF Messages, Moves
  <2>10. n <= SpaceIn(r) /\ BytesIn(s) <= BytesIn(r)
    BY <1>6, <1>7, <2>1, <2>4
  <2>. QED  BY <1>2, <1>3, <1>4, <1>7, <2>4, <2>7, <2>9, <2>10, BufferWritten DEF Moves
<1>8. CASE ~ s.isMessage
  <2>1. /\ SoundStream(r) /\ BytesIn(r) = BytesIn(s) + n /\ r.isMessage = s.isMessage
        /\ n \in Nat
    <3>1. r = Sent(s, n) /\ n \in Nat /\ n <= SpaceIn(s) /\ s.sent \in Seq(Seq(Nat))
      BY <1>1, <1>8 DEF SoundStream
    <3>. HIDE DEF s, r
    <3>. QED  BY <1>1, <3>1, SentIs
  <2>2. InOrder(r)
    BY <1>1, <1>8, BytesAreWritten
  <2>3. ~ Inside(t, b, "streamSend", {"writeData"})'
    BY <1>8 DEF Inside
  <2>4. BytesIn(s) <= BytesIn(r)
    BY <1>6, <2>1
  <2>. QED  BY <1>2, <1>3, <1>4, <1>8, <2>1, <2>2, <2>3, <2>4, BufferWritten DEF Moves
<1>. QED  BY <1>7, <1>8

\* The write of the data of a message keeps the buffer.
LEMMA WriteDataKeeps ==
    ASSUME QueueInv, ControlInv, NEW b \in Streams, BufferInv(b), NEW t \in Tasks,
           Moves(t), Call(t).op = "streamSend", Call(t).stream = b,
           local[t].pc = "writeData", Call(t).bytes \in Sizes(program, b),
           streams'[b] = Sent(streams[b], Call(t).bytes), local'[t].pc = "trigger"
    PROVE  BufferInv(b)'
<1>. DEFINE s == streams[b]
            r == streams'[b]
            n == Call(t).bytes
<1>0. Inside(t, b, "streamSend", {"writeData"})
  BY DEF Inside, Calling, Moves
<1>1. SoundStream(s) /\ Messages(b) /\ s.isMessage /\ n <= SpaceIn(s)
  BY <1>0 DEF BufferInv, SpaceSeen
<1>2. \A u \in Tasks : SameReceive(u, b)
  BY WriterViews
<1>3. \A u \in Tasks : u # t =>
         SameSend(u, b) /\ ~ Inside(u, b, "streamSend", SendLabels \cup {"writeData"})
  BY OtherViews, OnlyWriter DEF Moves
<1>4. ~ Inside(t, b, "streamSend", SendLabels)' /\ ~ Inside(t, b, "streamSend", {"writeData"})'
  BY DEF Inside, SendLabels
<1>5. \A u \in Tasks : ~ Inside(u, b, "streamSend", {"writeData"})'
  BY <1>3, <1>4 DEF SameSend, SameView, Inside
<1>6. BytesIn(s) \in Nat /\ SpaceIn(s) \in Nat /\ n \in Nat
  BY <1>0, <1>1, Counts, SendsBytes DEF Inside
<1>7. PICK taken, rest, begun :
         /\ OnTheWay(s, Sizes(program, b), taken, rest, begun)
         /\ Begun(b, begun) /\ PartRead(b, taken, rest)
  BY <1>1 DEF Messages
<1>8. begun = <<n>>
  BY <1>0, <1>7 DEF Begun
<1>. PICK m : m = NewData(s, n)
  OBVIOUS
<1>9. OnTheWay(r, Sizes(program, b), taken, Append(rest, m), <<>>)
  BY <1>1, <1>6, <1>7, <1>8, DataIsWritten
<1>10. /\ SoundStream(r) /\ BytesIn(r) = BytesIn(s) + n /\ r.isMessage = s.isMessage
       /\ m \in Seq(Nat)
  <2>1. r = Sent(s, n) /\ s.sent \in Seq(Seq(Nat))
    BY <1>1 DEF SoundStream
  <2>. HIDE DEF s, r, n
  <2>. QED  BY <1>1, <1>6, <2>1, SentIs
<1>11. rest # <<>> => Append(rest, m) # <<>> /\ Head(Append(rest, m)) = Head(rest)
  BY <1>7, <1>10, HeadStays DEF OnTheWay
<1>12. PartRead(b, taken, Append(rest, m))'
  BY <1>2, <1>7, <1>11, TakenStays
<1>13. Begun(b, <<>>)'
  BY <1>5 DEF Begun
<1>14. Messages(b)'
  BY <1>9, <1>12, <1>13 DEF Messages, Moves
<1>15. BytesIn(s) <= BytesIn(r)
  BY <1>6, <1>10
<1>. QED  BY <1>1, <1>2, <1>3, <1>4, <1>10, <1>14, <1>15, BufferWritten DEF Moves

(***************************************************************************)
(* Steps that read from a buffer.                                          *)
(***************************************************************************)

\* What the calls of a program that keeps messages are like.
LEMMA InScript ==
    ASSUME QueueInv, NEW t \in Tasks, NEW b, NEW op, Calling(t, b, op)
    PROVE  /\ local[t].at \in CallsOn(program.script[t], b, {op})
           /\ program.script[t][local[t].at] = Call(t)
BY StreamCalls DEF Calling, CallsOn, Call

\* A reader of a buffer that keeps its messages has room for each of them.
LEMMA ReadsFit ==
    ASSUME QueueInv, NEW t \in Tasks, NEW b, Calling(t, b, "streamReceive"),
           NEW k \in Sizes(program, b)
    PROVE  k <= Call(t).bytes /\ k \in Nat \ {0} /\ Call(t).bytes \in Nat
<1>1. LegalStreamCall(Call(t), program.streams) /\ Call(t).op = "streamReceive"
  BY StreamCalls DEF Calling
<1>. QED  BY <1>1, InScript DEF Sizes, LegalStreamCall

\* What is sent to a message buffer has one of the sizes its readers expect.
LEMMA WritesFit ==
    ASSUME QueueInv, NEW t \in Tasks, NEW b, Calling(t, b, "streamSend"),
           KeepsMessages(program, b), program.streams[b].isMessage
    PROVE  Call(t).bytes \in Sizes(program, b)
BY InScript DEF KeepsMessages

\* No task asks a buffer that keeps its messages for the next length alone.
LEMMA NoLengthIsRead ==
    ASSUME QueueInv, NEW t \in Tasks, NEW b, KeepsMessages(program, b)
    PROVE  ~ Calling(t, b, "nextLength")
<1>1. SUFFICES ASSUME Calling(t, b, "nextLength") PROVE FALSE
  OBVIOUS
<1>2. program.streams[b].isMessage
  <2>1. /\ LegalStreamCall(Call(t), program.streams)
        /\ Call(t).op = "nextLength" /\ Call(t).stream = b
    BY <1>1, StreamCalls DEF Calling
  <2>. QED  BY <2>1 DEF LegalStreamCall
<1>3. CallsOn(program.script[t], b, {"nextLength"}) # {}
  BY <1>1, InScript
<1>. QED  BY <1>2, <1>3 DEF KeepsMessages

\* The smaller of two numbers.
LEMMA MinOfTwo ==
    ASSUME NEW x \in Nat, NEW y \in Nat
    PROVE  Min({x, y}) = IF x <= y THEN x ELSE y
<1>1. PICK z : z = IF x <= y THEN x ELSE y
  OBVIOUS
<1>2. z \in {x, y} /\ \A w \in {x, y} : z <= w
  BY <1>1
<1>3. \A v \in {x, y} : (\A w \in {x, y} : v <= w) => v = z
  BY <1>2
<1>. QED  BY <1>1, <1>2, <1>3 DEF Min

\* A step that reads keeps the invariant when the other tasks do not see it.
LEMMA BufferRead ==
    ASSUME QueueInv, NEW b, NEW x, BufferInv(b), program' = program,
           SoundStream(streams'[b]), streams'[b].isMessage = streams[b].isMessage,
           SpaceIn(streams[b]) <= SpaceIn(streams'[b]),
           \A u \in Tasks : SameSend(u, b),
           \A u \in Tasks : u # x =>
               SameReceive(u, b) /\ ~ Inside(u, b, "streamReceive", {"read", "readData"}),
           x \in Tasks =>
               /\ ~ Inside(x, b, "streamReceive", {"read"})'
               /\ Inside(x, b, "streamReceive", {"readData"})' => streams'[b].isMessage,
           IF streams'[b].isMessage THEN Messages(b)' ELSE InOrder(streams'[b])
    PROVE  BufferInv(b)'
<1>1. ASSUME NEW u \in Tasks PROVE BytesSeen(u, b)'
  <2>1. CASE u = x
    BY <2>1 DEF BytesSeen
  <2>2. CASE u # x
    <3>1. ~ Inside(u, b, "streamReceive", {"read"})' /\ ~ Inside(u, b, "streamReceive", {"readData"})'
      BY <2>2 DEF SameReceive, SameView, Inside
    <3>. QED  BY <3>1 DEF BytesSeen
  <2>. QED  BY <2>1, <2>2
<1>2. ASSUME NEW u \in Tasks PROVE SpaceSeen(u, b)'
  <2>1. SpaceIn(streams[b]) \in Nat /\ SpaceIn(streams'[b]) \in Nat
    BY Counts DEF BufferInv
  <2>2. Inside(u, b, "streamSend", {"writeData"}) => Call(u).bytes \in Nat
    BY SendsBytes DEF Inside
  <2>. QED  BY <2>1, <2>2, SpaceStaysSeen DEF BufferInv
<1>. QED  BY <1>1, <1>2 DEF BufferInv

\* The first read, of bytes or of the length of a message, keeps the buffer.
LEMMA ReadStreamKeeps ==
    ASSUME QueueInv, ControlInv, NEW b \in Streams, BufferInv(b), NEW t \in Tasks,
           Moves(t), Call(t).op = "streamReceive", Call(t).stream = b, local[t].pc = "read",
           IF streams[b].isMessage
           THEN /\ local[t].room > 1
                /\ streams'[b] = Advanced(streams[b], 1) /\ local'[t].pc = "readData"
                /\ local'[t].room = IF Head(Oldest(streams[b], 1)) > Call(t).bytes THEN 0
                                    ELSE Min({Head(Oldest(streams[b], 1)), local[t].room - 1})
                /\ HasCall(t)' = HasCall(t) /\ Call(t)' = Call(t)
           ELSE /\ streams'[b] = Got(streams[b], Min({Call(t).bytes, local[t].room}))
                /\ local'[t].pc = "complete"
    PROVE  BufferInv(b)'
<1>. DEFINE s == streams[b]
            r == streams'[b]
<1>0. Calling(t, b, "streamReceive") /\ Inside(t, b, "streamReceive", {"read"})
  BY DEF Inside, Calling, Moves
<1>1. /\ SoundStream(s) /\ (IF s.isMessage THEN Messages(b) ELSE InOrder(s))
      /\ local[t].room \in Nat /\ local[t].room <= BytesIn(s)
  BY <1>0 DEF BufferInv, BytesSeen
<1>2. \A u \in Tasks : SameSend(u, b)
  BY ReaderViews DEF Reads
<1>3. \A u \in Tasks : u # t =>
         SameReceive(u, b) /\ ~ Inside(u, b, "streamReceive", {"read", "readData"})
  BY OtherViews, OnlyReader DEF Moves, Reads
<1>4. ~ Inside(t, b, "streamReceive", {"read"})'
  BY DEF Inside
<1>5. \A u \in Tasks : ~ Inside(u, b, "streamReceive", {"readData"})
  BY <1>3 DEF Inside
<1>6. BytesIn(s) \in Nat /\ SpaceIn(s) \in Nat
  BY <1>1, Counts
<1>7. CASE s.isMessage
  <2>2. PICK taken, rest, begun :
           /\ OnTheWay(s, Sizes(program, b), taken, rest, begun)
           /\ Begun(b, begun) /\ PartRead(b, taken, rest)
    BY <1>1, <1>7 DEF Messages
  <2>3. taken = <<>>
    BY <1>5, <2>2 DEF PartRead
  <2>4. rest # <<>> /\ 1 + Len(Head(rest)) <= local[t].room
    BY <1>0, <1>7, <2>2 DEF PartRead
  <2>5. PICK k : k = Len(Head(rest))
    OBVIOUS
  <2>6. /\ k \in Nat /\ k \in Sizes(program, b) /\ Head(Oldest(s, 1)) = k
        /\ OnTheWay(Advanced(s, 1), Sizes(program, b), <<k>>, rest, begun)
        /\ SpaceIn(Advanced(s, 1)) = SpaceIn(s) + 1
        /\ SoundStream(Advanced(s, 1)) /\ Advanced(s, 1).isMessage = s.isMessage
    BY <1>1, <2>2, <2>3, <2>4, <2>5, MessageIsFirst
  <2>7. r = Advanced(s, 1) /\ local'[t].room = k
    <3>1. k <= Call(t).bytes /\ Call(t).bytes \in Nat
      BY <1>0, <2>6, ReadsFit
    <3>2. local[t].room - 1 \in Nat /\ k <= local[t].room - 1
      BY <1>1, <2>4, <2>5, <2>6
    <3>3. Min({k, local[t].room - 1}) = k
      BY <2>6, <3>2, MinOfTwo
    <3>4. ~ (k > Call(t).bytes)
      BY <2>6, <3>1
    <3>. QED  BY <1>7, <2>6, <3>3, <3>4
  <2>8. SpaceIn(s) <= SpaceIn(r)
    BY <1>6, <2>6, <2>7
  <2>9. Begun(b, begun)'
    BY <1>2, <2>2, BegunStays
  <2>10. \A u \in Tasks : u # t =>
            ~ Inside(u, b, "streamReceive", {"read"})' /\ ~ Inside(u, b, "streamReceive", {"readData"})'
    BY <1>3 DEF SameReceive, SameView, Inside
  <2>11. Inside(t, b, "streamReceive", {"readData"})'
    BY <1>0, <1>7 DEF Inside, Calling, Moves
  <2>12. PartRead(b, <<k>>, rest)'
    BY <1>4, <2>4, <2>5, <2>7, <2>10, <2>11 DEF PartRead
  <2>13. Messages(b)'
    BY <2>6, <2>7, <2>9, <2>12 DEF Messages, Moves
  <2>. QED  BY <1>2, <1>3, <1>4, <1>7, <2>6, <2>7, <2>8, <2>13, BufferRead DEF Moves
<1>8. CASE ~ s.isMessage
  <2>1. Call(t).bytes \in Nat
    <3>1. LegalStreamCall(Call(t), program.streams)
      BY StreamCalls DEF Moves
    <3>. QED  BY <3>1 DEF LegalStreamCall
  <2>2. PICK n : n = Min({Call(t).bytes, local[t].room})
    OBVIOUS
  <2>3. n \in 0 .. BytesIn(s)
    BY <1>1, <1>6, <2>1, <2>2, MinOfTwo
  <2>4. r = Got(s, n)
    BY <1>8, <2>2
  <2>5. SoundStream(r) /\ SpaceIn(r) = SpaceIn(s) + n /\ r.isMessage = s.isMessage
    <3>. HIDE DEF s, r
    <3>. QED  BY <1>1, <2>3, <2>4, GotIs
  <2>6. InOrder(r)
    <3>. HIDE DEF s, r
    <3>. QED  BY <1>1, <1>8, <2>3, <2>4, BytesAreRead
  <2>7. SpaceIn(s) <= SpaceIn(r)
    BY <1>6, <2>3, <2>5
  <2>8. ~ Inside(t, b, "streamReceive", {"readData"})'
    BY <1>8 DEF Inside
  <2>. QED  BY <1>2, <1>3, <1>4, <1>8, <2>5, <2>6, <2>7, <2>8, BufferRead DEF Moves
<1>. QED  BY <1>7, <1>8

\* The read of the data of a message keeps the buffer.
LEMMA ReadDataKeeps ==
    ASSUME QueueInv, ControlInv, NEW b \in Streams, BufferInv(b), NEW t \in Tasks,
           Moves(t), Call(t).op = "streamReceive", Call(t).stream = b, local[t].pc = "readData",
           local[t].room # 0 =>
               streams'[b] = Got(streams[b], local[t].room) /\ local'[t].pc = "complete"
    PROVE  BufferInv(b)'
<1>. DEFINE s == streams[b]
            r == streams'[b]
<1>0. Calling(t, b, "streamReceive") /\ Inside(t, b, "streamReceive", {"readData"})
  BY DEF Inside, Calling, Moves
<1>1. SoundStream(s) /\ Messages(b) /\ s.isMessage
  BY <1>0 DEF BufferInv, BytesSeen
<1>2. \A u \in Tasks : SameSend(u, b)
  BY ReaderViews DEF Reads
<1>3. \A u \in Tasks : u # t =>
         SameReceive(u, b) /\ ~ Inside(u, b, "streamReceive", {"read", "readData"})
  BY OtherViews, OnlyReader DEF Moves, Reads
<1>6. BytesIn(s) \in Nat /\ SpaceIn(s) \in Nat
  BY <1>1, Counts
<1>7. PICK taken, rest, begun :
         /\ OnTheWay(s, Sizes(program, b), taken, rest, begun)
         /\ Begun(b, begun) /\ PartRead(b, taken, rest)
  BY <1>1 DEF Messages
<1>8. PICK k : k = Len(Head(rest))
  OBVIOUS
<1>9. rest # <<>> /\ local[t].room = k /\ taken = <<k>>
  BY <1>0, <1>7, <1>8 DEF PartRead
<1>10. k \in 0 .. BytesIn(s) /\ OnTheWay(Got(s, k), Sizes(program, b), <<>>, Tail(rest), begun)
  BY <1>1, <1>7, <1>8, <1>9, DataIsRead
<1>11. k # 0
  <2>1. rest \in Seq(Seq(Nat)) /\ \A i \in 1 .. Len(rest) : Len(rest[i]) \in Sizes(program, b)
    BY <1>7 DEF OnTheWay
  <2>2. Head(rest) = rest[1] /\ Len(rest) \in Nat \ {0}
    BY <1>9, <2>1, FirstMessage
  <2>. QED  BY <1>8, <2>1, <2>2 DEF Sizes
<1>12. r = Got(s, k) /\ local'[t].pc = "complete"
  BY <1>9, <1>11
<1>13. SoundStream(r) /\ SpaceIn(r) = SpaceIn(s) + k /\ r.isMessage = s.isMessage
  <2>. HIDE DEF s, r
  <2>. QED  BY <1>1, <1>10, <1>12, GotIs
<1>14. ~ Inside(t, b, "streamReceive", {"read"})' /\ ~ Inside(t, b, "streamReceive", {"readData"})'
  BY <1>12 DEF Inside
<1>15. \A u \in Tasks :
          ~ Inside(u, b, "streamReceive", {"read"})' /\ ~ Inside(u, b, "streamReceive", {"readData"})'
  BY <1>3, <1>14 DEF SameReceive, SameView, Inside
<1>16. Begun(b, begun)'
  BY <1>2, <1>7, BegunStays
<1>17. PartRead(b, <<>>, Tail(rest))'
  BY <1>15 DEF PartRead
<1>18. Messages(b)'
  BY <1>10, <1>12, <1>16, <1>17 DEF Messages, Moves
<1>19. SpaceIn(s) <= SpaceIn(r)
  BY <1>6, <1>10, <1>13
<1>. QED  BY <1>1, <1>2, <1>3, <1>13, <1>14, <1>18, <1>19, BufferRead DEF Moves

(***************************************************************************)
(* Interrupts that write to a buffer or read from it.                      *)
(***************************************************************************)

\* Who waits is no part of the data.
LEMMA WaitingChanges ==
    ASSUME NEW s, NEW v
    PROVE  /\ SameData(s, [s EXCEPT !.waitingToSend = v])
           /\ SameData(s, [s EXCEPT !.waitingToReceive = v])
           /\ SameData(s, s)
<1>1. SameData(s, [s EXCEPT !.waitingToSend = v])
  BY DEF SameData
<1>2. SameData(s, [s EXCEPT !.waitingToReceive = v])
  BY DEF SameData
<1>. QED  BY <1>1, <1>2 DEF SameData

\* What a legal interrupt asks of a buffer.
LEMMA InterruptCalls ==
    ASSUME QueueInv, raised < Len(Interrupts)
    PROVE  /\ raised + 1 \in 1 .. Len(Interrupts) /\ Raised = Interrupts[raised + 1]
           /\ LegalStreamCall(Raised, program.streams)
           /\ Raised.op = "streamSend" => raised + 1 \in CallsOn(program.interrupts, Raised.stream, {"streamSend"})
<1>1. raised + 1 \in 1 .. Len(Interrupts)
  BY ProgramAssumption DEF QueueInv, Interrupts
<1>2. LegalStreamCall(Interrupts[raised + 1], program.streams)
  BY <1>1, StreamAssumption DEF QueueInv, Interrupts
<1>. QED  BY <1>1, <1>2 DEF Raised, CallsOn, Interrupts

\* Every view stays where no task takes a step.
LEMMA AllViewsStay ==
    ASSUME program' = program, local' = local, NEW u, NEW b
    PROVE  SameSend(u, b) /\ SameReceive(u, b)
BY ViewStays DEF SameSend, SameReceive

\* An interrupt that sends keeps the buffer (xStreamBufferSendFromISR).
LEMMA StreamSendInterruptKeeps ==
    ASSUME QueueInv, ControlInv, NEW b \in Streams, KeepsMessages(program, b), BufferInv(b),
           StreamSendInterrupt
    PROVE  BufferInv(b)'
<1>. DEFINE s == streams[b]
            r == streams'[b]
<1>1. /\ program' = program /\ local' = local /\ raised < Len(Interrupts)
      /\ Raised.op = "streamSend" /\ DOMAIN streams = Streams
  BY DEF StreamSendInterrupt, Raise, Raised, ControlInv
<1>2. \A u \in Tasks : SameSend(u, b) /\ SameReceive(u, b)
  BY <1>1, AllViewsStay
<1>3. ASSUME SameData(s, r) PROVE BufferInv(b)'
  BY <1>1, <1>2, <1>3, BufferStays
<1>4. CASE Raised.stream # b
  <2>1. r = s
    BY <1>1, <1>4 DEF StreamSendInterrupt, SetRaised
  <2>. QED  BY <1>3, <2>1 DEF SameData
<1>5. CASE Raised.stream = b
  <2>. DEFINE n == Raised.bytes
              space == SpaceIn(s)
              sent == IF s.isMessage THEN Sent(Written(s, <<n>>), n) ELSE Sent(s, Min({n, space}))
  <2>1. n \in Nat \ {0}
    BY <1>1, InterruptCalls DEF LegalStreamCall
  <2>2. SoundStream(s) /\ (IF s.isMessage THEN Messages(b) ELSE InOrder(s))
        /\ s.isMessage = program.streams[b].isMessage
    BY DEF BufferInv
  <2>3. BytesIn(s) \in Nat /\ space \in Nat
    BY <2>2, Counts
  <2>4. \/ r = s
        \/ /\ ~ (space = 0 \/ (s.isMessage /\ space < n + LengthSize))
           /\ r = sent \/ r = [sent EXCEPT !.waitingToReceive = None]
    BY <1>1, <1>5 DEF StreamSendInterrupt, SetRaised
  <2>5. CASE r = s
    BY <1>3, <2>5 DEF SameData
  <2>6. CASE /\ ~ (space = 0 \/ (s.isMessage /\ space < n + LengthSize))
             /\ r = sent \/ r = [sent EXCEPT !.waitingToReceive = None]
    <3>1. SameData(sent, r)
      <4>. HIDE DEF sent, s, r
      <4>1. CASE r = sent
        BY <4>1, WaitingChanges
      <4>2. CASE r = [sent EXCEPT !.waitingToReceive = None]
        BY <4>2, WaitingChanges
      <4>. QED  BY <2>6, <4>1, <4>2
    <3>2. \A u \in Tasks : ~ Inside(u, b, "streamSend", SendLabels \cup {"writeData"})
      BY <1>1, <1>5, InterruptCalls, OnlyInterrupts DEF Inside, Calling
    <3>3. \A u \in Tasks : ~ Inside(u, b, "streamSend", {"writeData"})
      BY <3>2 DEF Inside
    <3>4. CASE s.isMessage
      <4>1. n \in Sizes(program, b) /\ n + 1 <= space
        <5>1. n \in Sizes(program, b)
          BY <1>1, <1>5, <2>2, <3>4, InterruptCalls DEF KeepsMessages, Raised, Interrupts
        <5>2. ~ (space < n + 1)
          BY <2>6, <3>4 DEF LengthSize
        <5>. QED  BY <2>1, <2>3, <5>1, <5>2
      <4>2. PICK taken, rest, begun :
               /\ OnTheWay(s, Sizes(program, b), taken, rest, begun)
               /\ Begun(b, begun) /\ PartRead(b, taken, rest)
        BY <2>2, <3>4 DEF Messages
      <4>3. begun = <<>>
        BY <3>3, <4>2 DEF Begun
      <4>4. PICK w : w = Written(s, <<n>>)
        OBVIOUS
      <4>5. PICK k : k = n
        OBVIOUS
      <4>6. 1 <= space /\ k \in Nat /\ k <= space - 1 /\ k \in Sizes(program, b)
        BY <2>1, <2>3, <4>1, <4>5
      <4>7. /\ SoundStream(w) /\ OnTheWay(w, Sizes(program, b), taken, rest, <<k>>)
            /\ SpaceIn(w) = space - 1 /\ BytesIn(w) = BytesIn(s) + 1
            /\ w.isMessage = s.isMessage
        BY <2>2, <4>2, <4>3, <4>4, <4>5, <4>6, LengthIsWritten
      <4>8. k <= SpaceIn(w) /\ w.sent \in Seq(Seq(Nat))
        BY <4>6, <4>7 DEF SoundStream
      <4>9. PICK m : m = NewData(w, k)
        OBVIOUS
      <4>10. PICK x : x = Sent(w, k)
        OBVIOUS
      <4>11. OnTheWay(x, Sizes(program, b), taken, Append(rest, m), <<>>)
        BY <4>6, <4>7, <4>8, <4>9, <4>10, DataIsWritten
      <4>12. /\ SoundStream(x) /\ BytesIn(x) = BytesIn(w) + k /\ x.isMessage = s.isMessage
             /\ m \in Seq(Nat)
        BY <4>6, <4>7, <4>8, <4>9, <4>10, SentIs
      <4>13. SameData(x, r)
        BY <3>1, <3>4, <4>4, <4>5, <4>10
      <4>14. /\ SoundStream(r) /\ BytesIn(r) = BytesIn(x) /\ r.isMessage = s.isMessage
             /\ OnTheWay(r, Sizes(program, b), taken, Append(rest, m), <<>>)
        BY <4>11, <4>12, <4>13, DataStays, OnTheWayStays DEF SameData
      <4>15. rest # <<>> => Append(rest, m) # <<>> /\ Head(Append(rest, m)) = Head(rest)
        <5>1. rest \in Seq(Seq(Nat))
          BY <4>2 DEF OnTheWay
        <5>. QED  BY <4>12, <5>1, HeadStays
      <4>16. PartRead(b, taken, Append(rest, m))'
        BY <1>2, <4>2, <4>15, TakenStays
      <4>17. Begun(b, <<>>)'
        BY <1>2, <3>3 DEF Begun, SameSend, SameView
      <4>18. Messages(b)'
        BY <1>1, <4>14, <4>16, <4>17 DEF Messages
      <4>19. BytesIn(s) <= BytesIn(r)
        BY <2>3, <4>6, <4>7, <4>12, <4>14
      <4>20. None \notin Tasks
        BY ProgramAssumption
      <4>21. \A u \in Tasks : SameReceive(u, b) /\ SameSend(u, b)
                 /\ ~ Inside(u, b, "streamSend", SendLabels \cup {"writeData"})
        BY <1>2, <3>2
      <4>. QED  BY <1>1, <3>4, <4>14, <4>18, <4>19, <4>20, <4>21, BufferWritten
    <3>5. CASE ~ s.isMessage
      <4>1. PICK k : k = Min({n, space})
        OBVIOUS
      <4>2. k \in Nat /\ k <= space
        BY <2>1, <2>3, <4>1, MinOfTwo
      <4>3. PICK x : x = Sent(s, k)
        OBVIOUS
      <4>4. SameData(x, r)
        BY <3>1, <3>5, <4>1, <4>3
      <4>5. s.sent \in Seq(Seq(Nat))
        BY <2>2 DEF SoundStream
      <4>6. /\ SoundStream(x) /\ BytesIn(x) = BytesIn(s) + k /\ x.isMessage = s.isMessage
            /\ InOrder(x)
        <5>. HIDE DEF s, r
        <5>. QED  BY <2>2, <3>5, <4>2, <4>3, <4>5, SentIs, BytesAreWritten
      <4>7. /\ SoundStream(r) /\ BytesIn(r) = BytesIn(x) /\ r.isMessage = s.isMessage
            /\ InOrder(r)
        BY <4>4, <4>6, DataStays DEF SameData, InOrder
      <4>8. BytesIn(s) <= BytesIn(r)
        BY <2>3, <4>2, <4>6, <4>7
      <4>20. None \notin Tasks
        BY ProgramAssumption
      <4>21. \A u \in Tasks : SameReceive(u, b) /\ SameSend(u, b)
                 /\ ~ Inside(u, b, "streamSend", SendLabels \cup {"writeData"})
        BY <1>2, <3>2
      <4>. QED  BY <1>1, <3>5, <4>7, <4>8, <4>20, <4>21, BufferWritten
    <3>. QED  BY <3>4, <3>5
  <2>. QED  BY <2>4, <2>5, <2>6
<1>. QED  BY <1>4, <1>5

\* An interrupt that receives keeps the buffer (xStreamBufferReceiveFromISR).
LEMMA StreamReceiveInterruptKeeps ==
    ASSUME QueueInv, ControlInv, NEW b \in Streams, KeepsMessages(program, b), BufferInv(b),
           StreamReceiveInterrupt
    PROVE  BufferInv(b)'
<1>. DEFINE s == streams[b]
            r == streams'[b]
<1>1. /\ program' = program /\ local' = local /\ raised < Len(Interrupts)
      /\ Raised.op = "streamReceive" /\ DOMAIN streams = Streams
  BY DEF StreamReceiveInterrupt, Raise, Raised, ControlInv
<1>2. \A u \in Tasks : SameSend(u, b) /\ SameReceive(u, b)
  BY <1>1, AllViewsStay
<1>3. ASSUME SameData(s, r) PROVE BufferInv(b)'
  BY <1>1, <1>2, <1>3, BufferStays
<1>4. CASE Raised.stream # b
  <2>1. r = s
    BY <1>1, <1>4 DEF StreamReceiveInterrupt, SetRaised
  <2>. QED  BY <1>3, <2>1 DEF SameData
<1>5. CASE Raised.stream = b
  <2>. DEFINE first == Head(Oldest(s, 1))
              got == IF s.isMessage THEN Got(Advanced(s, LengthSize), first)
                     ELSE Got(s, Min({BytesIn(s), Raised.bytes}))
  <2>1. Raised.bytes \in Nat
    BY <1>1, InterruptCalls DEF LegalStreamCall
  <2>2. SoundStream(s) /\ (IF s.isMessage THEN Messages(b) ELSE InOrder(s))
    BY DEF BufferInv
  <2>3. BytesIn(s) \in Nat /\ SpaceIn(s) \in Nat
    BY <2>2, Counts
  <2>4. \/ r = s
        \/ /\ ~ (BytesIn(s) <= LengthBytes(s) \/ (s.isMessage /\ first > Raised.bytes))
           /\ r = got \/ r = [got EXCEPT !.waitingToSend = None]
    BY <1>1, <1>5 DEF StreamReceiveInterrupt, SetRaised
  <2>5. CASE r = s
    BY <1>3, <2>5 DEF SameData
  <2>6. CASE /\ ~ (BytesIn(s) <= LengthBytes(s) \/ (s.isMessage /\ first > Raised.bytes))
             /\ r = got \/ r = [got EXCEPT !.waitingToSend = None]
    <3>1. SameData(got, r)
      <4>. HIDE DEF got, s, r
      <4>1. CASE r = got
        BY <4>1, WaitingChanges
      <4>2. CASE r = [got EXCEPT !.waitingToSend = None]
        BY <4>2, WaitingChanges
      <4>. QED  BY <2>6, <4>1, <4>2
    <3>2. \A u \in Tasks : ~ Inside(u, b, "streamReceive", {"read", "readData"})
      BY <1>1, <1>5, InterruptCalls, OnlyInterrupts DEF Inside, Calling, Reads
    <3>3. \A u \in Tasks : ~ Inside(u, b, "streamReceive", {"read"})
                           /\ ~ Inside(u, b, "streamReceive", {"readData"})
      BY <3>2 DEF Inside
    <3>4. None \notin Tasks
      BY ProgramAssumption
    <3>5. \A u \in Tasks : SameReceive(u, b) /\ SameSend(u, b)
             /\ ~ Inside(u, b, "streamReceive", {"read", "readData"})
      BY <1>2, <3>2
    <3>6. CASE s.isMessage
      <4>1. PICK taken, rest, begun :
               /\ OnTheWay(s, Sizes(program, b), taken, rest, begun)
               /\ Begun(b, begun) /\ PartRead(b, taken, rest)
        BY <2>2, <3>6 DEF Messages
      <4>2. taken = <<>>
        BY <3>3, <4>1 DEF PartRead
      <4>3. BytesIn(s) > 1
        BY <2>3, <2>6, <3>6 DEF LengthBytes, LengthSize
      <4>4. rest # <<>>
        BY <2>2, <4>1, <4>2, <4>3, BytesAreMessages
      <4>5. PICK k : k = Len(Head(rest))
        OBVIOUS
      <4>6. PICK a : a = Advanced(s, 1)
        OBVIOUS
      <4>7. /\ k \in Nat /\ first = k
            /\ OnTheWay(a, Sizes(program, b), <<k>>, rest, begun)
            /\ SpaceIn(a) = SpaceIn(s) + 1 /\ SoundStream(a) /\ a.isMessage = s.isMessage
        BY <2>2, <4>1, <4>2, <4>4, <4>5, <4>6, MessageIsFirst
      <4>8. PICK x : x = Got(a, k)
        OBVIOUS
      <4>9. k \in 0 .. BytesIn(a) /\ OnTheWay(x, Sizes(program, b), <<>>, Tail(rest), begun)
        BY <4>4, <4>5, <4>7, <4>8, DataIsRead
      <4>10. SoundStream(x) /\ SpaceIn(x) = SpaceIn(a) + k /\ x.isMessage = s.isMessage
        BY <4>7, <4>8, <4>9, GotIs
      <4>11. SameData(x, r)
        BY <3>1, <3>6, <4>6, <4>7, <4>8 DEF LengthSize
      <4>12. /\ SoundStream(r) /\ SpaceIn(r) = SpaceIn(x) /\ r.isMessage = s.isMessage
             /\ OnTheWay(r, Sizes(program, b), <<>>, Tail(rest), begun)
        BY <4>9, <4>10, <4>11, DataStays, OnTheWayStays DEF SameData
      <4>13. Begun(b, begun)'
        BY <1>2, <4>1, BegunStays
      <4>14. \A u \in Tasks : ~ Inside(u, b, "streamReceive", {"read"})'
                              /\ ~ Inside(u, b, "streamReceive", {"readData"})'
        BY <1>2, <3>3 DEF SameReceive, SameView
      <4>15. PartRead(b, <<>>, Tail(rest))'
        BY <4>14 DEF PartRead
      <4>16. Messages(b)'
        BY <1>1, <4>12, <4>13, <4>15 DEF Messages
      <4>17. SpaceIn(s) <= SpaceIn(r)
        BY <2>3, <4>7, <4>10, <4>12
      <4>. QED  BY <1>1, <3>4, <3>5, <3>6, <4>12, <4>16, <4>17, BufferRead
    <3>7. CASE ~ s.isMessage
      <4>1. PICK k : k = Min({BytesIn(s), Raised.bytes})
        OBVIOUS
      <4>2. k \in 0 .. BytesIn(s)
        BY <2>1, <2>3, <4>1, MinOfTwo
      <4>3. PICK x : x = Got(s, k)
        OBVIOUS
      <4>4. SameData(x, r)
        BY <3>1, <3>7, <4>1, <4>3
      <4>5. /\ SoundStream(x) /\ SpaceIn(x) = SpaceIn(s) + k /\ x.isMessage = s.isMessage
            /\ InOrder(x)
        <5>. HIDE DEF s, r
        <5>. QED  BY <2>2, <3>7, <4>2, <4>3, GotIs, BytesAreRead
      <4>6. /\ SoundStream(r) /\ SpaceIn(r) = SpaceIn(x) /\ r.isMessage = s.isMessage
            /\ InOrder(r)
        BY <4>4, <4>5, DataStays DEF SameData, InOrder
      <4>7. SpaceIn(s) <= SpaceIn(r)
        BY <2>3, <4>2, <4>5, <4>6
      <4>. QED  BY <1>1, <3>4, <3>5, <3>7, <4>6, <4>7, BufferRead
    <3>. QED  BY <3>6, <3>7
  <2>. QED  BY <2>4, <2>5, <2>6
<1>. QED  BY <1>4, <1>5

(***************************************************************************)
(* The steps of a task that writes to a buffer or reads from it.           *)
(***************************************************************************)

\* What such a step does to the invariant.
Keeps(t) ==
    /\ Moves(t) /\ Placed(t)' /\ DOMAIN streams' = Streams
    /\ \A b \in Streams : KeepsMessages(program, b) /\ BufferInv(b) => BufferInv(b)'

MovesData == {"writeData", "readData"}

\* A step that starts a call on a buffer has that call.
LEMMA StreamOperation ==
    ASSUME NEW t \in Tasks, NEW op \in {"streamSend", "streamReceive", "nextLength"},
           Calls(t, {op})
    PROVE  Call(t).op = op /\ HasCall(t) /\ local[t].pc = "call"
<1>1. Operation(t) = op /\ HasCall(t) /\ local[t].pc = "call"
  BY DEF Calls
<1>. QED  BY <1>1 DEF Operation

\* A step that sets its buffer leaves all others alone.
LEMMA SetStreamIs ==
    ASSUME QueueInv, ControlInv, NEW t \in Tasks, NEW v, SetStream(t, v)
    PROVE  /\ DOMAIN streams' = Streams
           /\ \A b \in Streams :
                 streams'[b] = IF b = Call(t).stream THEN v ELSE streams[b]
BY DEF SetStream, ControlInv

\* Inside a call, and at its end.
LEMMA GotoMoves ==
    ASSUME QueueInv, ControlInv, NEW t \in Tasks, NEW changes, Goto(t, changes),
           program' = program, "at" \notin DOMAIN changes, HasCall(t)
    PROVE  /\ Moves(t) /\ HasCall(t)' = HasCall(t) /\ Call(t)' = Call(t)
           /\ {"pc", "room"} \subseteq DOMAIN local'[t]
           /\ local'[t].pc = IF "pc" \in DOMAIN changes THEN changes.pc ELSE local[t].pc
           /\ local'[t].room = IF "room" \in DOMAIN changes THEN changes.room ELSE local[t].room
BY StepGoto DEF Moves, ControlInv, Placed

\* The return from a call on a buffer is a step of that task alone.
LEMMA ReturnMoves ==
    ASSUME QueueInv, NEW t \in Tasks, Return(t, << >>), program' = program, HasCall(t)
    PROVE  Moves(t) /\ Placed(t)' /\ local'[t].pc = "call"
<1>1. "pc" \notin DOMAIN << >>
  OBVIOUS
<1>. QED  BY <1>1, StepReturn DEF Moves, Placed

\* A step that moves no data.
LEMMA LookingStep ==
    ASSUME QueueInv, ControlInv, NEW b \in Streams, BufferInv(b), NEW t \in Tasks, Moves(t),
           local[t].pc \notin MovesData, local'[t].pc \notin MovesData,
           SameData(streams[b], streams'[b]),
           Call(t).op = "streamSend" /\ local'[t].pc \in SendLabels =>
               \/ local'[t].room \in {0, SpaceIn(Stream(t))}
               \/ local[t].pc \in SendLabels /\ local'[t].room = local[t].room,
           Call(t).op = "streamReceive" /\ local'[t].pc = "read" =>
               local'[t].room = BytesIn(Stream(t))
    PROVE  BufferInv(b)'
<1>1. /\ ~ Inside(t, b, "streamSend", {"writeData"}) /\ ~ Inside(t, b, "streamSend", {"writeData"})'
      /\ ~ Inside(t, b, "streamReceive", {"readData"})
      /\ ~ Inside(t, b, "streamReceive", {"readData"})'
  BY DEF Inside, MovesData
<1>2. SpaceIn(streams[b]) \in Nat
  BY Counts DEF BufferInv
<1>3. ASSUME Inside(t, b, "streamSend", SendLabels)'
      PROVE  local'[t].room \in Nat /\ local'[t].room <= SpaceIn(streams[b])
  <2>1. HasCall(t)' = HasCall(t) /\ Call(t)' = Call(t)
    BY <1>3 DEF Moves, Inside, SendLabels
  <2>2. Call(t).op = "streamSend" /\ Call(t).stream = b /\ local'[t].pc \in SendLabels
    BY <1>3, <2>1 DEF Inside, Calling
  <2>3. Stream(t) = streams[b]
    BY <2>2 DEF Stream
  <2>4. CASE local'[t].room \in {0, SpaceIn(Stream(t))}
    BY <1>2, <2>3, <2>4
  <2>5. CASE local[t].pc \in SendLabels /\ local'[t].room = local[t].room
    <3>1. Inside(t, b, "streamSend", SendLabels)
      BY <2>2, <2>5 DEF Inside, Calling, Moves
    <3>. QED  BY <2>5, <3>1 DEF BufferInv, SpaceSeen
  <2>. QED  BY <2>2, <2>4, <2>5
<1>4. ASSUME Inside(t, b, "streamReceive", {"read"})'
      PROVE  /\ local'[t].room = BytesIn(streams[b])
             /\ \A v \in Tasks : ~ Inside(v, b, "streamReceive", {"readData"})
  <2>1. HasCall(t)' = HasCall(t) /\ Call(t)' = Call(t)
    BY <1>4 DEF Moves, Inside
  <2>2. Call(t).op = "streamReceive" /\ Call(t).stream = b /\ local'[t].pc = "read"
    BY <1>4, <2>1 DEF Inside, Calling
  <2>3. Stream(t) = streams[b]
    BY <2>2 DEF Stream
  <2>4. \A v \in Tasks : v # t => ~ Inside(v, b, "streamReceive", {"readData"})
    BY <2>2, OnlyReader DEF Moves, Reads
  <2>. QED  BY <1>1, <2>2, <2>3, <2>4
<1>5. NewSpace(t, b) /\ NewBytes(t, b)
  BY <1>1, <1>3, <1>4 DEF NewSpace, NewBytes
<1>6. \A u \in Tasks : /\ SameSend(u, b) \/ NewSpace(u, b)
                       /\ SameReceive(u, b) \/ NewBytes(u, b)
  BY <1>5, OtherViews
<1>. QED  BY <1>6, BufferStays DEF Moves

\* What a step into `changes` has to say of what it has seen.
Looks(t, changes) ==
    /\ "at" \notin DOMAIN changes /\ "pc" \in DOMAIN changes /\ changes.pc \notin MovesData
    /\ changes.pc \in {"space", "time", "write"} => Call(t).op = "streamSend"
    /\ changes.pc \in {"recheck", "read"} => Call(t).op = "streamReceive"
    /\ changes.pc \in {"wait", "waited", "forget"} => Call(t).op \in {"streamSend", "streamReceive"}
    /\ changes.pc \in {"trigger", "complete", "notifyPeer", "forgetPeer"}
          => Call(t).op \in {"streamSend"} \cup Reads
    /\ Call(t).op = "streamSend" /\ changes.pc \in SendLabels =>
          IF "room" \in DOMAIN changes THEN changes.room \in {0, SpaceIn(Stream(t))}
          ELSE local[t].pc \in SendLabels
    /\ changes.pc = "read" => "room" \in DOMAIN changes /\ changes.room = BytesIn(Stream(t))
OnlyWaiters ==
    DOMAIN streams' = Streams /\ \A b \in Streams : SameData(streams[b], streams'[b])

\* A step that only looks at its buffer and notes who waits keeps every buffer.
LEMMA LookingKeeps ==
    ASSUME QueueInv, ControlInv, NEW t \in Tasks, HasCall(t), program' = program,
           local[t].pc \notin MovesData, OnlyWaiters,
           NEW changes, Looks(t, changes), Goto(t, changes)
    PROVE  Keeps(t)
<1>1. /\ Moves(t) /\ HasCall(t)' = HasCall(t) /\ Call(t)' = Call(t)
      /\ {"pc", "room"} \subseteq DOMAIN local'[t] /\ local'[t].pc = changes.pc
      /\ local'[t].room = IF "room" \in DOMAIN changes THEN changes.room ELSE local[t].room
  BY GotoMoves DEF Looks
<1>2. changes.pc \notin MovesData
  BY DEF Looks
<1>3. Call(t).op = "streamSend" /\ local'[t].pc \in SendLabels =>
          \/ local'[t].room \in {0, SpaceIn(Stream(t))}
          \/ local[t].pc \in SendLabels /\ local'[t].room = local[t].room
  BY <1>1 DEF Looks
<1>4. Call(t).op = "streamReceive" /\ local'[t].pc = "read" =>
          local'[t].room = BytesIn(Stream(t))
  BY <1>1 DEF Looks
<1>5. Placed(t)'
  BY <1>1, <1>2 DEF Placed, Looks, Using, MovesData
<1>6. ASSUME NEW b \in Streams, BufferInv(b) PROVE BufferInv(b)'
  BY <1>1, <1>2, <1>3, <1>4, <1>6, LookingStep DEF OnlyWaiters
<1>. QED  BY <1>1, <1>5, <1>6 DEF Keeps, OnlyWaiters

\* The return from a call that no longer moves data keeps every buffer.
LEMMA LeavingKeeps ==
    ASSUME QueueInv, ControlInv, NEW t \in Tasks, HasCall(t), program' = program,
           local[t].pc \notin MovesData, OnlyWaiters, Return(t, << >>)
    PROVE  Keeps(t)
<1>1. Moves(t) /\ Placed(t)' /\ local'[t].pc = "call"
  BY ReturnMoves
<1>2. ASSUME NEW b \in Streams, BufferInv(b) PROVE BufferInv(b)'
  BY <1>1, <1>2, LookingStep DEF OnlyWaiters, MovesData, SendLabels
<1>. QED  BY <1>1, <1>2 DEF Keeps, OnlyWaiters

\* The buffers change at most in who waits.
LEMMA StreamsStay ==
    ASSUME ControlInv, streams' = streams
    PROVE  OnlyWaiters
BY DEF OnlyWaiters, SameData, ControlInv

\* Noting who waits leaves the data of every buffer alone.
LEMMA WaiterChanges ==
    ASSUME QueueInv, ControlInv, NEW t \in Tasks, NEW w,
           \/ SetStream(t, [Stream(t) EXCEPT !.waitingToSend = w])
           \/ SetStream(t, [Stream(t) EXCEPT !.waitingToReceive = w])
    PROVE  OnlyWaiters
<1>1. CASE SetStream(t, [Stream(t) EXCEPT !.waitingToSend = w])
  <2>. PICK v : v = [Stream(t) EXCEPT !.waitingToSend = w]
    OBVIOUS
  <2>1. /\ DOMAIN streams' = Streams
        /\ \A b \in Streams : streams'[b] = IF b = Call(t).stream THEN v ELSE streams[b]
    BY <1>1, SetStreamIs
  <2>2. SameData(Stream(t), v)
    BY WaitingChanges
  <2>3. ASSUME NEW b \in Streams PROVE SameData(streams[b], streams'[b])
    BY <2>1, <2>2, WaitingChanges DEF Stream, SameData
  <2>. QED  BY <2>1, <2>3 DEF OnlyWaiters
<1>2. CASE SetStream(t, [Stream(t) EXCEPT !.waitingToReceive = w])
  <2>. PICK v : v = [Stream(t) EXCEPT !.waitingToReceive = w]
    OBVIOUS
  <2>1. /\ DOMAIN streams' = Streams
        /\ \A b \in Streams : streams'[b] = IF b = Call(t).stream THEN v ELSE streams[b]
    BY <1>2, SetStreamIs
  <2>2. SameData(Stream(t), v)
    BY WaitingChanges
  <2>3. ASSUME NEW b \in Streams PROVE SameData(streams[b], streams'[b])
    BY <2>1, <2>2, WaitingChanges DEF Stream, SameData
  <2>. QED  BY <2>1, <2>3 DEF OnlyWaiters
<1>. QED  BY <1>1, <1>2

\* The steps that move data.
LEMMA WriteStreamStep ==
    ASSUME QueueInv, ControlInv, NEW t \in Tasks, WriteStream(t)
    PROVE  Keeps(t)
<1>. DEFINE s == Stream(t)
            space == IF local[t].room = 0 THEN SpaceIn(s) ELSE local[t].room
            none == space = 0 \/ (s.isMessage /\ space < Required(s, Call(t).bytes))
<1>1. /\ local[t].pc = "write" /\ program' = program /\ HasCall(t) /\ Call(t).op = "streamSend"
  BY DEF WriteStream, At, ControlInv, Placed, Using
<1>2. CASE none
  <2>1. Return(t, << >>) /\ streams' = streams
    BY <1>2 DEF WriteStream
  <2>. QED  BY <1>1, <2>1, StreamsStay, LeavingKeeps DEF MovesData
<1>3. CASE ~ none /\ s.isMessage
  <2>. DEFINE next == [pc |-> "writeData"]
  <2>1. SetStream(t, Written(s, <<Call(t).bytes>>)) /\ Goto(t, next)
    BY <1>3 DEF WriteStream
  <2>2. "at" \notin DOMAIN next /\ "room" \notin DOMAIN next /\ next.pc = "writeData" /\ "pc" \in DOMAIN next
    OBVIOUS
  <2>. HIDE DEF next
  <2>3. /\ Moves(t) /\ HasCall(t)' = HasCall(t) /\ Call(t)' = Call(t)
        /\ {"pc", "room"} \subseteq DOMAIN local'[t] /\ local'[t].pc = "writeData"
    BY <1>1, <2>1, <2>2, GotoMoves
  <2>4. Placed(t)'
    BY <1>1, <2>3 DEF Placed, Using
  <2>5. PICK v : v = Written(s, <<Call(t).bytes>>)
    OBVIOUS
  <2>6. /\ DOMAIN streams' = Streams
        /\ \A b \in Streams : streams'[b] = IF b = Call(t).stream THEN v ELSE streams[b]
    BY <2>1, <2>5, SetStreamIs
  <2>7. ASSUME NEW b \in Streams, KeepsMessages(program, b), BufferInv(b) PROVE BufferInv(b)'
    <3>1. CASE Call(t).stream # b
      BY <2>3, <2>6, <2>7, <3>1, ElsewhereStays
    <3>2. CASE Call(t).stream = b
      <4>1. PICK n : n = Call(t).bytes
        OBVIOUS
      <4>2. s = streams[b] /\ streams[b].isMessage
        BY <1>3, <3>2 DEF Stream
      <4>3. Calling(t, b, "streamSend") /\ Inside(t, b, "streamSend", SendLabels)
        BY <1>1, <3>2 DEF Calling, Inside, SendLabels
      <4>4. n \in Nat \ {0} /\ n \in Sizes(program, b)
        BY <2>7, <4>1, <4>2, <4>3, SendsBytes, WritesFit DEF BufferInv
      <4>5. SpaceIn(streams[b]) \in Nat /\ local[t].room \in Nat /\ local[t].room <= SpaceIn(streams[b])
        BY <2>7, <4>3, Counts DEF BufferInv, SpaceSeen
      <4>6. n + 1 <= SpaceIn(streams[b])
        <5>1. Required(s, Call(t).bytes) = n + 1
          BY <4>1, <4>2 DEF Required, LengthSize
        <5>2. ~ (space < n + 1) /\ space \in Nat /\ space <= SpaceIn(streams[b])
          BY <1>3, <4>2, <4>5, <5>1
        <5>. QED  BY <4>4, <4>5, <5>2
      <4>7. streams'[b] = Written(streams[b], <<n>>)
        BY <2>5, <2>6, <3>2, <4>1, <4>2
      <4>. HIDE DEF s, space, none
      <4>. QED  BY <1>1, <2>3, <2>7, <3>2, <4>1, <4>2, <4>4, <4>6, <4>7, WriteStreamKeeps
    <3>. QED  BY <3>1, <3>2
  <2>. QED  BY <2>3, <2>4, <2>6, <2>7 DEF Keeps
<1>4. CASE ~ none /\ ~ s.isMessage
  <2>. DEFINE next == [pc |-> "trigger"]
              k == Min({Call(t).bytes, space})
  <2>1. SetStream(t, Sent(s, k)) /\ Goto(t, next)
    BY <1>4 DEF WriteStream
  <2>2. "at" \notin DOMAIN next /\ "room" \notin DOMAIN next /\ next.pc = "trigger" /\ "pc" \in DOMAIN next
    OBVIOUS
  <2>. HIDE DEF next
  <2>3. /\ Moves(t) /\ HasCall(t)' = HasCall(t) /\ Call(t)' = Call(t)
        /\ {"pc", "room"} \subseteq DOMAIN local'[t] /\ local'[t].pc = "trigger"
    BY <1>1, <2>1, <2>2, GotoMoves
  <2>4. Placed(t)'
    BY <1>1, <2>3 DEF Placed, Using
  <2>5. PICK v : v = Sent(s, k)
    OBVIOUS
  <2>6. /\ DOMAIN streams' = Streams
        /\ \A b \in Streams : streams'[b] = IF b = Call(t).stream THEN v ELSE streams[b]
    BY <2>1, <2>5, SetStreamIs
  <2>7. ASSUME NEW b \in Streams, KeepsMessages(program, b), BufferInv(b) PROVE BufferInv(b)'
    <3>1. CASE Call(t).stream # b
      BY <2>3, <2>6, <2>7, <3>1, ElsewhereStays
    <3>2. CASE Call(t).stream = b
      <4>1. PICK n : n = k
        OBVIOUS
      <4>2. s = streams[b] /\ ~ streams[b].isMessage
        BY <1>4, <3>2 DEF Stream
      <4>3. Calling(t, b, "streamSend") /\ Inside(t, b, "streamSend", SendLabels)
        BY <1>1, <3>2 DEF Calling, Inside, SendLabels
      <4>4. Call(t).bytes \in Nat
        BY <4>3, SendsBytes
      <4>5. SpaceIn(streams[b]) \in Nat /\ local[t].room \in Nat /\ local[t].room <= SpaceIn(streams[b])
        BY <2>7, <4>3, Counts DEF BufferInv, SpaceSeen
      <4>6. space \in Nat /\ space <= SpaceIn(streams[b])
        BY <4>2, <4>5
      <4>7. n \in Nat /\ n <= SpaceIn(streams[b])
        <5>. HIDE DEF space
        <5>. QED  BY <4>1, <4>4, <4>5, <4>6, MinOfTwo
      <4>8. streams'[b] = Sent(streams[b], n)
        BY <2>5, <2>6, <3>2, <4>1, <4>2
      <4>. HIDE DEF s, space, none, k
      <4>. QED  BY <1>1, <2>3, <2>7, <3>2, <4>2, <4>7, <4>8, WriteStreamKeeps
    <3>. QED  BY <3>1, <3>2
  <2>. QED  BY <2>3, <2>4, <2>6, <2>7 DEF Keeps
<1>. QED  BY <1>2, <1>3, <1>4

\* The step that writes the data of a message keeps every buffer.
LEMMA WriteDataStep ==
    ASSUME QueueInv, ControlInv, NEW t \in Tasks, WriteData(t)
    PROVE  Keeps(t)
<1>1. /\ local[t].pc = "writeData" /\ program' = program /\ HasCall(t)
      /\ Call(t).op = "streamSend"
  BY DEF WriteData, At, ControlInv, Placed, Using
<1>. DEFINE next == [pc |-> "trigger"]
<1>2. SetStream(t, Sent(Stream(t), Call(t).bytes)) /\ Goto(t, next)
  BY DEF WriteData
<1>3. "at" \notin DOMAIN next /\ "room" \notin DOMAIN next /\ next.pc = "trigger" /\ "pc" \in DOMAIN next
  OBVIOUS
<1>. HIDE DEF next
<1>4. /\ Moves(t) /\ HasCall(t)' = HasCall(t) /\ Call(t)' = Call(t)
      /\ {"pc", "room"} \subseteq DOMAIN local'[t] /\ local'[t].pc = "trigger"
  BY <1>1, <1>2, <1>3, GotoMoves
<1>5. Placed(t)'
  BY <1>1, <1>4 DEF Placed, Using
<1>6. PICK v : v = Sent(Stream(t), Call(t).bytes)
  OBVIOUS
<1>7. /\ DOMAIN streams' = Streams
      /\ \A b \in Streams : streams'[b] = IF b = Call(t).stream THEN v ELSE streams[b]
  BY <1>2, <1>6, SetStreamIs
<1>8. ASSUME NEW b \in Streams, KeepsMessages(program, b), BufferInv(b) PROVE BufferInv(b)'
  <2>1. CASE Call(t).stream # b
    BY <1>4, <1>7, <1>8, <2>1, ElsewhereStays
  <2>2. CASE Call(t).stream = b
    <3>1. Calling(t, b, "streamSend") /\ Inside(t, b, "streamSend", {"writeData"})
      BY <1>1, <2>2 DEF Calling, Inside
    <3>2. Call(t).bytes \in Sizes(program, b)
      BY <1>8, <3>1, WritesFit DEF BufferInv, SpaceSeen
    <3>3. streams'[b] = Sent(streams[b], Call(t).bytes)
      BY <1>6, <1>7, <2>2 DEF Stream
    <3>. QED  BY <1>1, <1>4, <1>8, <2>2, <3>2, <3>3, WriteDataKeeps
  <2>. QED  BY <2>1, <2>2
<1>. QED  BY <1>4, <1>5, <1>7, <1>8 DEF Keeps

\* The step that reads bytes or a length keeps every buffer.
LEMMA ReadStreamStep ==
    ASSUME QueueInv, ControlInv, NEW t \in Tasks, ReadStream(t)
    PROVE  Keeps(t)
<1>. DEFINE s == Stream(t)
            length == Head(Oldest(s, 1))
            none == local[t].room <= LengthBytes(s)
<1>1. /\ local[t].pc = "read" /\ program' = program /\ HasCall(t)
      /\ Call(t).op = "streamReceive"
  BY DEF ReadStream, At, ControlInv, Placed, Using
<1>2. CASE none
  <2>1. Return(t, << >>) /\ streams' = streams
    BY <1>2 DEF ReadStream
  <2>. QED  BY <1>1, <2>1, StreamsStay, LeavingKeeps DEF MovesData
<1>3. CASE ~ none /\ s.isMessage
  <2>. DEFINE left == IF length > Call(t).bytes THEN 0 ELSE Min({length, local[t].room - LengthSize})
              next == [pc |-> "readData", room |-> left]
  <2>1. SetStream(t, Advanced(s, LengthSize)) /\ Goto(t, next)
    BY <1>3 DEF ReadStream
  <2>. HIDE DEF left
  <2>2. /\ "at" \notin DOMAIN next /\ "room" \in DOMAIN next /\ "pc" \in DOMAIN next
        /\ next.pc = "readData" /\ next.room = left
    OBVIOUS
  <2>. HIDE DEF next
  <2>3. /\ Moves(t) /\ HasCall(t)' = HasCall(t) /\ Call(t)' = Call(t)
        /\ {"pc", "room"} \subseteq DOMAIN local'[t] /\ local'[t].pc = "readData"
        /\ local'[t].room = left
    BY <1>1, <2>1, <2>2, GotoMoves
  <2>4. Placed(t)'
    BY <1>1, <2>3 DEF Placed, Using, Reads
  <2>5. PICK v : v = Advanced(s, LengthSize)
    OBVIOUS
  <2>6. /\ DOMAIN streams' = Streams
        /\ \A b \in Streams : streams'[b] = IF b = Call(t).stream THEN v ELSE streams[b]
    BY <2>1, <2>5, SetStreamIs
  <2>7. ASSUME NEW b \in Streams, KeepsMessages(program, b), BufferInv(b) PROVE BufferInv(b)'
    <3>1. CASE Call(t).stream # b
      BY <2>3, <2>6, <2>7, <3>1, ElsewhereStays
    <3>2. CASE Call(t).stream = b
      <4>1. s = streams[b] /\ streams[b].isMessage
        BY <1>3, <3>2 DEF Stream
      <4>2. Inside(t, b, "streamReceive", {"read"})
        BY <1>1, <3>2 DEF Calling, Inside
      <4>3. local[t].room \in Nat
        BY <2>7, <4>2 DEF BufferInv, BytesSeen
      <4>4. local[t].room > 1
        BY <1>3, <4>1, <4>3 DEF LengthBytes, LengthSize
      <4>5. streams'[b] = Advanced(streams[b], 1)
        BY <2>5, <2>6, <3>2, <4>1 DEF LengthSize
      <4>6. local'[t].room = IF Head(Oldest(streams[b], 1)) > Call(t).bytes THEN 0
                             ELSE Min({Head(Oldest(streams[b], 1)), local[t].room - 1})
        BY <2>3, <4>1 DEF left, LengthSize
      <4>. HIDE DEF s, none, length
      <4>. QED  BY <1>1, <2>3, <2>7, <3>2, <4>1, <4>4, <4>5, <4>6, ReadStreamKeeps
    <3>. QED  BY <3>1, <3>2
  <2>. QED  BY <2>3, <2>4, <2>6, <2>7 DEF Keeps
<1>4. CASE ~ none /\ ~ s.isMessage
  <2>. DEFINE next == [pc |-> "complete"]
              k == Min({Call(t).bytes, local[t].room})
  <2>1. SetStream(t, Got(s, k)) /\ Goto(t, next)
    BY <1>4 DEF ReadStream
  <2>2. "at" \notin DOMAIN next /\ "room" \notin DOMAIN next /\ next.pc = "complete" /\ "pc" \in DOMAIN next
    OBVIOUS
  <2>. HIDE DEF next
  <2>3. /\ Moves(t) /\ HasCall(t)' = HasCall(t) /\ Call(t)' = Call(t)
        /\ {"pc", "room"} \subseteq DOMAIN local'[t] /\ local'[t].pc = "complete"
    BY <1>1, <2>1, <2>2, GotoMoves
  <2>4. Placed(t)'
    BY <1>1, <2>3 DEF Placed, Using, Reads
  <2>5. PICK v : v = Got(s, k)
    OBVIOUS
  <2>6. /\ DOMAIN streams' = Streams
        /\ \A b \in Streams : streams'[b] = IF b = Call(t).stream THEN v ELSE streams[b]
    BY <2>1, <2>5, SetStreamIs
  <2>7. ASSUME NEW b \in Streams, KeepsMessages(program, b), BufferInv(b) PROVE BufferInv(b)'
    <3>1. CASE Call(t).stream # b
      BY <2>3, <2>6, <2>7, <3>1, ElsewhereStays
    <3>2. CASE Call(t).stream = b
      <4>1. s = streams[b] /\ ~ streams[b].isMessage
        BY <1>4, <3>2 DEF Stream
      <4>2. streams'[b] = Got(streams[b], Min({Call(t).bytes, local[t].room}))
        BY <2>5, <2>6, <3>2, <4>1
      <4>. HIDE DEF s, none, length
      <4>. QED  BY <1>1, <2>3, <2>7, <3>2, <4>1, <4>2, ReadStreamKeeps
    <3>. QED  BY <3>1, <3>2
  <2>. QED  BY <2>3, <2>4, <2>6, <2>7 DEF Keeps
<1>. QED  BY <1>2, <1>3, <1>4

\* The step that reads the data of a message keeps every buffer.
LEMMA ReadDataStep ==
    ASSUME QueueInv, ControlInv, NEW t \in Tasks, ReadData(t)
    PROVE  Keeps(t)
<1>1. /\ local[t].pc = "readData" /\ program' = program /\ HasCall(t)
      /\ Call(t).op \in Reads
  BY DEF ReadData, At, ControlInv, Placed, Using
<1>2. Moves(t) /\ Placed(t)' /\ (local[t].room # 0 => local'[t].pc = "complete")
  <2>1. CASE local[t].room = 0
    BY <1>1, <2>1, ReturnMoves DEF ReadData
  <2>2. CASE local[t].room # 0
    <3>. DEFINE next == [pc |-> "complete"]
    <3>1. Goto(t, next)
      BY <2>2 DEF ReadData
    <3>2. "at" \notin DOMAIN next /\ "room" \notin DOMAIN next /\ next.pc = "complete" /\ "pc" \in DOMAIN next
      OBVIOUS
    <3>. HIDE DEF next
    <3>3. /\ Moves(t) /\ HasCall(t)' = HasCall(t) /\ Call(t)' = Call(t)
          /\ {"pc", "room"} \subseteq DOMAIN local'[t] /\ local'[t].pc = "complete"
      BY <1>1, <3>1, <3>2, GotoMoves
    <3>. QED  BY <1>1, <3>3 DEF Placed, Using
  <2>. QED  BY <2>1, <2>2
<1>3. PICK v : SetStream(t, v) /\ (local[t].room # 0 => v = Got(Stream(t), local[t].room))
  BY DEF ReadData
<1>4. /\ DOMAIN streams' = Streams
      /\ \A b \in Streams : streams'[b] = IF b = Call(t).stream THEN v ELSE streams[b]
  BY <1>3, SetStreamIs
<1>5. ASSUME NEW b \in Streams, KeepsMessages(program, b), BufferInv(b) PROVE BufferInv(b)'
  <2>1. CASE Call(t).stream # b
    BY <1>2, <1>4, <1>5, <2>1, ElsewhereStays
  <2>2. CASE Call(t).stream = b
    <3>1. Call(t).op = "streamReceive"
      BY <1>1, <1>5, <2>2, NoLengthIsRead DEF Reads, Calling
    <3>2. local[t].room # 0 => streams'[b] = Got(streams[b], local[t].room)
      BY <1>3, <1>4, <2>2 DEF Stream
    <3>. QED  BY <1>1, <1>2, <1>5, <2>2, <3>1, <3>2, ReadDataKeeps
  <2>. QED  BY <2>1, <2>2
<1>. QED  BY <1>2, <1>4, <1>5 DEF Keeps

\* A next length is asked of no buffer that keeps its messages, and the step leaves
\* the others alone.
LEMMA NextLengthStep ==
    ASSUME QueueInv, ControlInv, NEW t \in Tasks, NextLength(t)
    PROVE  Keeps(t)
<1>1. /\ local[t].pc = "call" /\ program' = program /\ HasCall(t) /\ Call(t).op = "nextLength"
  BY StreamOperation DEF NextLength
<1>2. CASE BytesIn(Stream(t)) > LengthSize
  <2>. DEFINE next == [pc |-> "readData"]
  <2>1. SetStream(t, Advanced(Stream(t), LengthSize)) /\ Goto(t, next)
    BY <1>2 DEF NextLength
  <2>2. "at" \notin DOMAIN next /\ "room" \notin DOMAIN next /\ next.pc = "readData" /\ "pc" \in DOMAIN next
    OBVIOUS
  <2>. HIDE DEF next
  <2>3. /\ Moves(t) /\ HasCall(t)' = HasCall(t) /\ Call(t)' = Call(t)
        /\ {"pc", "room"} \subseteq DOMAIN local'[t] /\ local'[t].pc = "readData"
    BY <1>1, <2>1, <2>2, GotoMoves
  <2>4. Placed(t)'
    BY <1>1, <2>3 DEF Placed, Using, Reads
  <2>5. PICK v : v = Advanced(Stream(t), LengthSize)
    OBVIOUS
  <2>6. /\ DOMAIN streams' = Streams
        /\ \A b \in Streams : streams'[b] = IF b = Call(t).stream THEN v ELSE streams[b]
    BY <2>1, <2>5, SetStreamIs
  <2>7. ASSUME NEW b \in Streams, KeepsMessages(program, b), BufferInv(b) PROVE BufferInv(b)'
    <3>1. Call(t).stream # b
      BY <1>1, <2>7, NoLengthIsRead DEF Calling
    <3>. QED  BY <2>3, <2>6, <2>7, <3>1, ElsewhereStays
  <2>. QED  BY <2>3, <2>4, <2>6, <2>7 DEF Keeps
<1>3. CASE ~ (BytesIn(Stream(t)) > LengthSize)
  <2>1. Return(t, << >>) /\ streams' = streams
    BY <1>3 DEF NextLength
  <2>. QED  BY <1>1, <2>1, StreamsStay, LeavingKeeps DEF MovesData
<1>. QED  BY <1>2, <1>3

\* The others, which look at a buffer, wait, or notify.
LEMMA OtherStreamSteps ==
    ASSUME QueueInv, ControlInv, NEW t \in Tasks,
           \/ StreamSend(t) \/ CheckSpace(t) \/ SendTimeout(t) \/ TestTrigger(t)
           \/ StreamWait(t) \/ StreamWaited(t) \/ Forget(t)
           \/ Complete(t) \/ NotifyPeer(t) \/ ForgetPeer(t) \/ StreamReceive(t) \/ Recheck(t)
    PROVE  Keeps(t)
<1>0. ASSUME program' = program, HasCall(t), local[t].pc \notin MovesData, OnlyWaiters,
             NEW changes, Looks(t, changes), Goto(t, changes)
      PROVE  Keeps(t)
  BY <1>0, LookingKeeps
<1>1. CASE StreamSend(t)
  <2>1. /\ program' = program /\ streams' = streams /\ local[t].pc = "call" /\ HasCall(t)
        /\ Call(t).op = "streamSend"
    BY <1>1, StreamOperation DEF StreamSend
  <2>2. CASE MayWait(t)
    <3>. DEFINE next == [pc |-> "space", room |-> 0, timeout |-> SetTimeOut(sched, Call(t).wait)]
    <3>1. Goto(t, next)
      BY <1>1, <2>2 DEF StreamSend
    <3>2. Looks(t, next)
      BY <2>1 DEF Looks, MovesData, SendLabels
    <3>. HIDE DEF next
    <3>. QED  BY <1>0, <2>1, <3>1, <3>2, StreamsStay DEF MovesData
  <2>3. CASE ~ MayWait(t)
    <3>. DEFINE next == [pc |-> "write", room |-> 0]
    <3>1. Goto(t, next)
      BY <1>1, <2>3 DEF StreamSend
    <3>2. Looks(t, next)
      BY <2>1 DEF Looks, MovesData, SendLabels
    <3>. HIDE DEF next
    <3>. QED  BY <1>0, <2>1, <3>1, <3>2, StreamsStay DEF MovesData
  <2>. QED  BY <2>2, <2>3
<1>2. CASE CheckSpace(t)
  <2>. DEFINE space == SpaceIn(Stream(t))
              next == [pc |-> "wait", room |-> space]
              other == [pc |-> "write", room |-> space]
  <2>1. /\ program' = program /\ local[t].pc = "space" /\ HasCall(t) /\ Call(t).op = "streamSend"
    BY <1>2 DEF CheckSpace, At, ControlInv, Placed, Using
  <2>2. \/ SetStream(t, [Stream(t) EXCEPT !.waitingToSend = t]) /\ Goto(t, next)
        \/ streams' = streams /\ Goto(t, other)
    BY <1>2 DEF CheckSpace
  <2>3. Looks(t, next) /\ Looks(t, other)
    BY <2>1 DEF Looks, MovesData, SendLabels
  <2>4. OnlyWaiters
    BY <2>2, StreamsStay, WaiterChanges
  <2>. HIDE DEF next, other
  <2>. QED  BY <1>0, <2>1, <2>2, <2>3, <2>4 DEF MovesData
<1>3. CASE SendTimeout(t)
  <2>. DEFINE next == [timeout |-> CheckForTimeOut(sched, local[t].timeout),
                       pc |-> IF TimedOut(sched, local[t].timeout) THEN "write" ELSE "space"]
  <2>1. /\ program' = program /\ streams' = streams /\ local[t].pc = "time" /\ HasCall(t)
        /\ Call(t).op = "streamSend" /\ Goto(t, next)
    BY <1>3 DEF SendTimeout, At, ControlInv, Placed, Using
  <2>2. Looks(t, next)
    BY <2>1 DEF Looks, MovesData, SendLabels
  <2>. HIDE DEF next
  <2>. QED  BY <1>0, <2>1, <2>2, StreamsStay DEF MovesData
<1>4. CASE TestTrigger(t)
  <2>. DEFINE next == [pc |-> "complete"]
  <2>1. /\ program' = program /\ streams' = streams /\ local[t].pc = "trigger" /\ HasCall(t)
        /\ Call(t).op \in {"streamSend"} \cup Reads
        /\ Goto(t, next) \/ Return(t, << >>)
    BY <1>4 DEF TestTrigger, At, ControlInv, Placed, Using
  <2>2. Looks(t, next)
    BY <2>1 DEF Looks, MovesData, SendLabels
  <2>. HIDE DEF next
  <2>. QED  BY <1>0, <2>1, <2>2, StreamsStay, LeavingKeeps DEF MovesData
<1>5. CASE StreamWait(t)
  <2>. DEFINE next == [pc |-> "waited", deadline |-> Deadline(TicksToWait(t))]
  <2>1. /\ program' = program /\ streams' = streams /\ local[t].pc = "wait" /\ HasCall(t)
        /\ Call(t).op \in {"streamSend", "streamReceive"} /\ Goto(t, next)
    BY <1>5 DEF StreamWait, At, ControlInv, Placed, Using
  <2>2. Looks(t, next)
    BY <2>1 DEF Looks, MovesData, SendLabels
  <2>. HIDE DEF next
  <2>. QED  BY <1>0, <2>1, <2>2, StreamsStay DEF MovesData
<1>6. CASE StreamWaited(t)
  <2>. DEFINE next == [pc |-> "forget"]
  <2>1. /\ program' = program /\ streams' = streams /\ local[t].pc = "waited" /\ HasCall(t)
        /\ Call(t).op \in {"streamSend", "streamReceive"} /\ Goto(t, next)
    BY <1>6 DEF StreamWaited, At, ControlInv, Placed, Using
  <2>2. Looks(t, next)
    BY <2>1 DEF Looks, MovesData, SendLabels
  <2>. HIDE DEF next
  <2>. QED  BY <1>0, <2>1, <2>2, StreamsStay DEF MovesData
<1>7. CASE Forget(t)
  <2>. DEFINE next == [pc |-> "time"]
              other == [pc |-> "recheck"]
  <2>1. /\ program' = program /\ local[t].pc = "forget" /\ HasCall(t)
        /\ Call(t).op \in {"streamSend", "streamReceive"}
    BY <1>7 DEF Forget, At, ControlInv, Placed, Using
  <2>2. CASE Call(t).op = "streamSend"
    <3>1. SetStream(t, [Stream(t) EXCEPT !.waitingToSend = None]) /\ Goto(t, next)
      BY <1>7, <2>2 DEF Forget
    <3>2. Looks(t, next)
      BY <2>1, <2>2 DEF Looks, MovesData, SendLabels
    <3>. HIDE DEF next
    <3>. QED  BY <1>0, <2>1, <3>1, <3>2, WaiterChanges DEF MovesData
  <2>3. CASE Call(t).op = "streamReceive"
    <3>1. SetStream(t, [Stream(t) EXCEPT !.waitingToReceive = None]) /\ Goto(t, other)
      BY <1>7, <2>3 DEF Forget
    <3>2. Looks(t, other)
      BY <2>1, <2>3 DEF Looks, MovesData, SendLabels
    <3>. HIDE DEF other
    <3>. QED  BY <1>0, <2>1, <3>1, <3>2, WaiterChanges DEF MovesData
  <2>. QED  BY <2>1, <2>2, <2>3
<1>8. CASE Complete(t)
  <2>. DEFINE next == [pc |-> "notifyPeer"]
  <2>1. /\ program' = program /\ streams' = streams /\ local[t].pc = "complete" /\ HasCall(t)
        /\ Call(t).op \in {"streamSend"} \cup Reads /\ Goto(t, next)
    BY <1>8 DEF Complete, At, ControlInv, Placed, Using
  <2>2. Looks(t, next)
    BY <2>1 DEF Looks, MovesData, SendLabels
  <2>. HIDE DEF next
  <2>. QED  BY <1>0, <2>1, <2>2, StreamsStay DEF MovesData
<1>9. CASE NotifyPeer(t)
  <2>. DEFINE next == [pc |-> "resume"]
              other == [pc |-> "forgetPeer"]
  <2>1. /\ program' = program /\ streams' = streams /\ local[t].pc = "notifyPeer" /\ HasCall(t)
        /\ Call(t).op \in {"streamSend"} \cup Reads
        /\ Goto(t, next) \/ Goto(t, other)
    BY <1>9 DEF NotifyPeer, At, ControlInv, Placed, Using
  <2>2. Looks(t, next) /\ Looks(t, other)
    BY <2>1 DEF Looks, MovesData, SendLabels
  <2>. HIDE DEF next, other
  <2>. QED  BY <1>0, <2>1, <2>2, StreamsStay DEF MovesData
<1>10. CASE ForgetPeer(t)
  <2>. DEFINE next == [pc |-> "resume"]
  <2>1. /\ program' = program /\ local[t].pc = "forgetPeer" /\ HasCall(t)
        /\ Call(t).op \in {"streamSend"} \cup Reads /\ Goto(t, next)
    BY <1>10 DEF ForgetPeer, At, ControlInv, Placed, Using
  <2>2. Looks(t, next)
    BY <2>1 DEF Looks, MovesData, SendLabels
  <2>3. \/ SetStream(t, [Stream(t) EXCEPT !.waitingToReceive = None])
        \/ SetStream(t, [Stream(t) EXCEPT !.waitingToSend = None])
    BY <1>10 DEF ForgetPeer
  <2>. HIDE DEF next
  <2>. QED  BY <1>0, <2>1, <2>2, <2>3, WaiterChanges DEF MovesData
<1>11. CASE StreamReceive(t)
  <2>. DEFINE next == [pc |-> "wait"]
              other == [pc |-> "read", room |-> BytesIn(Stream(t))]
  <2>1. /\ program' = program /\ local[t].pc = "call" /\ HasCall(t) /\ Call(t).op = "streamReceive"
    BY <1>11, StreamOperation DEF StreamReceive
  <2>2. \/ SetStream(t, [Stream(t) EXCEPT !.waitingToReceive = t]) /\ Goto(t, next)
        \/ streams' = streams /\ Goto(t, other)
    BY <1>11 DEF StreamReceive
  <2>3. Looks(t, next) /\ Looks(t, other)
    BY <2>1 DEF Looks, MovesData, SendLabels
  <2>4. OnlyWaiters
    BY <2>2, StreamsStay, WaiterChanges
  <2>. HIDE DEF next, other
  <2>. QED  BY <1>0, <2>1, <2>2, <2>3, <2>4 DEF MovesData
<1>12. CASE Recheck(t)
  <2>. DEFINE next == [pc |-> "read", room |-> BytesIn(Stream(t))]
  <2>1. /\ program' = program /\ streams' = streams /\ local[t].pc = "recheck" /\ HasCall(t)
        /\ Call(t).op = "streamReceive" /\ Goto(t, next)
    BY <1>12 DEF Recheck, At, ControlInv, Placed, Using
  <2>2. Looks(t, next)
    BY <2>1 DEF Looks, MovesData, SendLabels
  <2>. HIDE DEF next
  <2>. QED  BY <1>0, <2>1, <2>2, StreamsStay DEF MovesData
<1>. QED  BY <1>1, <1>2, <1>3, <1>4, <1>5, <1>6, <1>7, <1>8, <1>9, <1>10, <1>11, <1>12

\* Every step of a task inside a call on a buffer keeps every buffer.
LEMMA StreamStepKeeps ==
    ASSUME QueueInv, ControlInv, NEW t \in Tasks, StreamStep(t)
    PROVE  Keeps(t)
BY OtherStreamSteps, WriteStreamStep, WriteDataStep, ReadStreamStep, ReadDataStep, NextLengthStep
   DEF StreamStep

(***************************************************************************)
(* Every step keeps the invariant.                                         *)
(***************************************************************************)

\* A step outside buffers keeps what they hold and where their users are.
LEMMA OutsideKeeps ==
    ASSUME QueueInv, StreamInv, Outside, TimersFit'
    PROVE  StreamInv'
<1>1. ASSUME NEW t \in Tasks PROVE Placed(t)'
  <2>1. CASE local'[t] = local[t]
    BY <2>1 DEF Outside, StreamInv, ControlInv, Placed, Using, HasCall, Call
  <2>2. CASE local'[t].pc \notin StreamLabels
    BY <2>2 DEF Outside, Placed, StreamLabels
  <2>. QED  BY <2>1, <2>2 DEF Outside
<1>2. ASSUME NEW b \in Streams, BufferInv(b) PROVE BufferInv(b)'
  <2>1. SameData(streams[b], streams'[b])
    BY DEF Outside, SameData
  <2>. QED  BY <1>2, <2>1, OutsideViews, BufferStays DEF Outside
<1>3. DOMAIN streams' = Streams /\ program' = program
  BY DEF Outside, StreamInv, ControlInv
<1>. QED  BY <1>1, <1>2, <1>3 DEF StreamInv, ControlInv, TimersFit

\* So does one of a call on a buffer.
LEMMA InsideKeeps ==
    ASSUME QueueInv, StreamInv, NEW t \in Tasks, Keeps(t), UNCHANGED timers
    PROVE  StreamInv'
<1>1. ASSUME NEW u \in Tasks PROVE Placed(u)'
  <2>1. CASE u = t
    BY <2>1 DEF Keeps
  <2>2. CASE u # t
    BY <2>2 DEF Keeps, Moves, StreamInv, ControlInv, Placed, Using, HasCall, Call
  <2>. QED  BY <2>1, <2>2
<1>. QED  BY <1>1 DEF Keeps, Moves, StreamInv, ControlInv, TimersFit

\* And one of an interrupt.
LEMMA InterruptsKeep ==
    ASSUME QueueInv, StreamInv, StreamInterrupt, UNCHANGED timers
    PROVE  StreamInv'
<1>1. program' = program /\ local' = local
  BY DEF StreamInterrupt, StreamSendInterrupt, StreamReceiveInterrupt, Raise
<1>2. DOMAIN streams' = Streams
  BY DEF StreamInterrupt, StreamSendInterrupt, StreamReceiveInterrupt, SetRaised, StreamInv, ControlInv
<1>3. \A t \in Tasks : Placed(t)'
  BY <1>1 DEF StreamInv, ControlInv, Placed, Using, HasCall, Call
<1>4. \A b \in Streams : KeepsMessages(program, b) /\ BufferInv(b) => BufferInv(b)'
  BY StreamSendInterruptKeeps, StreamReceiveInterruptKeeps DEF StreamInterrupt, StreamInv
<1>. QED  BY <1>1, <1>2, <1>3, <1>4 DEF StreamInv, ControlInv, TimersFit

\* Every step of the system keeps the invariant of the buffers.
LEMMA StreamsStep ==
    ASSUME QueueInv, StreamInv, [SystemNext]_systemVars
    PROVE  StreamInv'
<1>0. ControlInv /\ TimersFit
  BY DEF StreamInv, ControlInv, TimersFit
<1>1. CASE UNCHANGED systemVars
  <2>1. Outside /\ UNCHANGED timers
    BY <1>0, <1>1, OutsideStays DEF systemVars, vars
  <2>. QED  BY <1>0, <2>1, OutsideKeeps DEF TimersFit
<1>2. ASSUME UNCHANGED <<streams, timers>>, Outside PROVE StreamInv'
  BY <1>0, <1>2, OutsideKeeps DEF TimersFit
<1>3. CASE SystemProcessor
  <2>1. CASE Processor /\ UNCHANGED <<streams, timers, wall>>
    <3>1. Outside
      BY <1>0, <2>1, QueueStepsOutside, OtherStepsOutside, InterruptsOutside DEF Processor
    <3>. QED  BY <1>2, <2>1, <3>1
  <2>2. CASE (\E t \in Tasks : StreamStep(t)) /\ UNCHANGED <<timers, wall>>
    BY <1>0, <2>2, StreamStepKeeps, InsideKeeps
  <2>3. CASE (\E t \in Tasks : ComposeCommand(t) \/ DaemonStep(t)) /\ UNCHANGED <<streams, wall>>
    <3>1. Outside /\ TimersFit'
      BY <1>0, <2>3, DaemonStepsOutside, TimersStillFit
    <3>. QED  BY <3>1, OutsideKeeps
  <2>4. CASE (\E t \in Tasks : ClockStep(t)) /\ UNCHANGED <<streams, timers>>
    <3>1. Outside
      BY <1>0, <2>4, ClockStepsOutside
    <3>. QED  BY <1>2, <2>4, <3>1
  <2>. QED  BY <1>3, <2>1, <2>2, <2>3, <2>4 DEF SystemProcessor
<1>4. CASE SystemInterrupt
  <2>1. CASE Interrupt /\ UNCHANGED <<streams, timers, wall>>
    <3>1. Outside
      BY <1>0, <2>1, InterruptsOutside
    <3>. QED  BY <1>2, <2>1, <3>1
  <2>2. CASE StreamInterrupt /\ UNCHANGED <<timers, wall>>
    BY <2>2, InterruptsKeep
  <2>3. CASE CommandInterrupt /\ UNCHANGED <<streams, wall>>
    <3>1. Outside /\ UNCHANGED timers
      BY <1>0, <2>3, InterruptsOutside DEF CommandInterrupt
    <3>. QED  BY <1>2, <2>3, <3>1
  <2>. QED  BY <1>4, <2>1, <2>2, <2>3 DEF SystemInterrupt
<1>5. CASE Tick
  <2>1. Outside
    BY <1>0, <1>5, InterruptsOutside DEF Tick
  <2>. QED  BY <1>2, <1>5, <2>1 DEF Tick
<1>. QED  BY <1>1, <1>3, <1>4, <1>5 DEF SystemNext

\* A new buffer is empty.
LEMMA NewBuffer ==
    ASSUME NEW s, s.isMessage \in BOOLEAN, s.length \in Nat \ {0},
           s = NewStream(s.isMessage, s.length, s.trigger)
    PROVE  /\ SoundStream(s) /\ s.sent = <<>> /\ s.got = <<>> /\ Stored(s) = <<>>
           /\ BytesIn(s) = 0
<1>. PICK n, m, g : n = s.length /\ m = s.isMessage /\ g = s.trigger
  OBVIOUS
<1>1. s = NewStream(m, n, g) /\ n \in Nat \ {0} /\ m \in BOOLEAN
  OBVIOUS
<1>2. /\ DOMAIN s = StreamFields /\ s.tail = 0 /\ s.head = 0
      /\ s.slots = [i \in 0 .. n - 1 |-> 0]
      /\ s.sent = <<>> /\ s.got = <<>>
  BY <1>1 DEF NewStream, StreamFields
<1>3. <<>> \in Seq(Seq(Nat))
  BY EmptySeq
<1>4. 0 \in 0 .. n - 1 /\ s.slots \in [0 .. n - 1 -> Nat]
  BY <1>1, <1>2
<1>5. SoundStream(s)
  BY <1>1, <1>2, <1>3, <1>4 DEF SoundStream
<1>6. BytesIn(s) = 0
  BY <1>1, <1>2, <1>5, Counts
<1>7. Stored(s) \in Seq(Nat) /\ Len(Stored(s)) = 0
  BY <1>5, <1>6, StoredType
<1>8. Stored(s) = <<>>
  BY <1>7, EmptySeq
<1>. QED  BY <1>2, <1>5, <1>6, <1>8

\* The invariant of the buffers holds when the scheduler starts.
LEMMA StreamsStart ==
    ASSUME SystemInit
    PROVE  StreamInv
<1>1. program \in Programs /\ streams = program.streams /\ timers = NoTimers
  BY DEF SystemInit, Init
<1>2. \A t \in Tasks : {"pc", "room"} \subseteq DOMAIN local[t] /\ local[t].pc = "call"
  <2>. DEFINE changes == [at |-> 1, received |-> None, lastWake |-> InitialTick, owns |-> {}]
              first == Updated(NewCall, changes)
  <2>1. local = [t \in Tasks |-> first]
    BY DEF SystemInit, Init
  <2>2. {"pc", "room"} \subseteq DOMAIN first /\ first["pc"] = "call"
    BY DEF Updated, NewCall
  <2>. HIDE DEF first
  <2>. QED  BY <2>1, <2>2
<1>3. \A t \in Tasks : Placed(t)
  BY <1>2 DEF Placed
<1>4. TimersFit
  BY <1>1 DEF TimersFit, NoTimers
<1>5. DOMAIN streams = Streams
  BY <1>1, StreamAssumption
<1>6. ASSUME NEW b \in Streams PROVE BufferInv(b)
  <2>. DEFINE s == streams[b]
  <2>1. /\ s.isMessage \in BOOLEAN /\ s.length \in Nat \ {0}
        /\ s = NewStream(s.isMessage, s.length, s.trigger)
    BY <1>1, StreamAssumption
  <2>2. SoundStream(s) /\ s.sent = <<>> /\ s.got = <<>> /\ Stored(s) = <<>>
    <3>. HIDE DEF s
    <3>. QED  BY <2>1, NewBuffer
  <2>3. \A t \in Tasks : SpaceSeen(t, b) /\ BytesSeen(t, b)
    BY <1>2 DEF SpaceSeen, BytesSeen, Inside, SendLabels
  <2>4. Begun(b, <<>>) /\ PartRead(b, <<>>, <<>>)
    BY <1>2 DEF Begun, PartRead, Inside
  <2>5. <<>> \in Seq(Seq(Nat)) /\ <<>> \in Seq(Nat) /\ Len(<<>>) = 0
    BY EmptySeq
  <2>6. Packed(<<>>) = <<>> /\ FlattenSeq(<<>>) = <<>>
    BY PackedType, FlattenType
  <2>7. OnTheWay(s, Sizes(program, b), <<>>, <<>>, <<>>)
    BY <2>2, <2>5, <2>6 DEF OnTheWay
  <2>8. InOrder(s)
    BY <2>2, <2>5, <2>6 DEF InOrder
  <2>. QED  BY <1>1, <2>2, <2>3, <2>4, <2>7, <2>8 DEF BufferInv, Messages
<1>. QED  BY <1>1, <1>3, <1>4, <1>5, <1>6 DEF StreamInv, ControlInv, TimersFit

\* The two parts of a sequence.
LEMMA TwoParts ==
    ASSUME NEW S, NEW a \in Seq(S), NEW c \in Seq(S), NEW x, x = a \o c
    PROVE  IsPrefix(a, x) /\ SubSeq(x, Len(a) + 1, Len(x)) = c
<1>1. PICK k : k = Len(a)
  OBVIOUS
<1>2. PICK l : l = Len(c)
  OBVIOUS
<1>3. /\ x \in Seq(S) /\ Len(x) = k + l /\ k \in Nat /\ l \in Nat
      /\ \A i \in 1 .. k + l : x[i] = IF i <= k THEN a[i] ELSE c[i - k]
  BY <1>1, <1>2, Joined
<1>4. \A i \in 1 .. k + l : x[i] \in S
  BY <1>3
<1>5. SubSeq(x, 1, k) = SubSeq(a, 1, k)
  <2>1. \A i \in 1 .. k : x[i] \in S /\ a[i] \in S /\ x[i] = a[i]
    BY <1>1, <1>3, <1>4
  <2>2. /\ SubSeq(x, 1, k) \in Seq(S) /\ Len(SubSeq(x, 1, k)) = (IF 1 <= k THEN k - 1 + 1 ELSE 0)
        /\ \A i \in 1 .. k - 1 + 1 : SubSeq(x, 1, k)[i] = x[1 + i - 1]
    BY <1>3, <2>1, SubSeqProperties
  <2>3. /\ SubSeq(a, 1, k) \in Seq(S) /\ Len(SubSeq(a, 1, k)) = (IF 1 <= k THEN k - 1 + 1 ELSE 0)
        /\ \A i \in 1 .. k - 1 + 1 : SubSeq(a, 1, k)[i] = a[1 + i - 1]
    BY <1>3, <2>1, SubSeqProperties
  <2>4. \A i \in 1 .. k : SubSeq(x, 1, k)[i] = SubSeq(a, 1, k)[i]
    BY <1>3, <2>1, <2>2, <2>3
  <2>5. Len(SubSeq(x, 1, k)) = k /\ Len(SubSeq(a, 1, k)) = k
    BY <1>3, <2>2, <2>3
  <2>. QED  BY <2>2, <2>3, <2>4, <2>5, SeqEqual
<1>6. SubSeq(x, k + 1, k + l) = c
  <2>1. \A i \in k + 1 .. k + l : x[i] \in S
    BY <1>3, <1>4
  <2>2. /\ SubSeq(x, k + 1, k + l) \in Seq(S)
        /\ Len(SubSeq(x, k + 1, k + l)) = IF k + 1 <= k + l THEN (k + l) - (k + 1) + 1 ELSE 0
        /\ \A i \in 1 .. (k + l) - (k + 1) + 1 : SubSeq(x, k + 1, k + l)[i] = x[(k + 1) + i - 1]
    BY <1>3, <2>1, SubSeqProperties
  <2>. PICK y : y = SubSeq(x, k + 1, k + l)
    OBVIOUS
  <2>3. Len(y) = l /\ \A i \in 1 .. l : y[i] = x[k + i]
    BY <1>3, <2>2
  <2>4. ASSUME NEW i \in 1 .. l PROVE y[i] = c[i]
    <3>1. k + i \in 1 .. k + l /\ ~ (k + i <= k) /\ (k + i) - k = i
      BY <1>3
    <3>. QED  BY <1>3, <2>3, <3>1
  <2>. QED  BY <1>2, <2>2, <2>3, <2>4, SeqEqual
<1>7. IsPrefix(a, x)
  <2>1. Len(a) <= Len(x)
    BY <1>1, <1>3
  <2>2. SubSeq(a, 1, Len(a)) = SubSeq(x, 1, Len(a))
    BY <1>1, <1>5
  <2>. QED  BY <2>1, <2>2 DEF IsPrefix
<1>8. SubSeq(x, Len(a) + 1, Len(x)) = c
  BY <1>1, <1>3, <1>6
<1>. QED  BY <1>7, <1>8

\* The two parts of a sequence of messages.
LEMMA MessageParts ==
    ASSUME NEW a \in Seq(Seq(Nat)), NEW c \in Seq(Seq(Nat)), NEW x, x = a \o c
    PROVE  IsPrefix(a, x) /\ SubSeq(x, Len(a) + 1, Len(x)) = c
<1>. DEFINE S == Seq(Nat)
<1>1. a \in Seq(S) /\ c \in Seq(S)
  OBVIOUS
<1>. HIDE DEF S
<1>. QED  BY <1>1, TwoParts, ZenonT(30)

\* The invariant says that what was sent is received, and no other.
LEMMA BuffersHold ==
    ASSUME NEW b \in Streams, BufferInv(b)
    PROVE  LET s == streams[b]
               left == Oldest(s, BytesIn(s))
           IN  IF s.isMessage
               THEN /\ IsPrefix(s.got, s.sent)
                    /\ ~ InCall(b, {"streamSend", "streamReceive", "nextLength"}, {"writeData", "readData"})
                       => left = Packed(SubSeq(s.sent, Len(s.got) + 1, Len(s.sent)))
               ELSE FlattenSeq(s.got) \o left = FlattenSeq(s.sent)
<1>. DEFINE s == streams[b]
<1>1. SoundStream(s) /\ (IF s.isMessage THEN Messages(b) ELSE InOrder(s))
  BY DEF BufferInv
<1>2. CASE s.isMessage
  <2>1. PICK taken, rest, begun :
           /\ OnTheWay(s, Sizes(program, b), taken, rest, begun)
           /\ Begun(b, begun) /\ PartRead(b, taken, rest)
    BY <1>1, <1>2 DEF Messages
  <2>2. /\ s.got \in Seq(Seq(Nat)) /\ rest \in Seq(Seq(Nat)) /\ s.sent = s.got \o rest
        /\ taken \o Stored(s) = Packed(rest) \o begun
    BY <2>1 DEF OnTheWay
  <2>3. IsPrefix(s.got, s.sent) /\ SubSeq(s.sent, Len(s.got) + 1, Len(s.sent)) = rest
    <3>1. PICK got : got = s.got
      OBVIOUS
    <3>2. PICK sent : sent = s.sent
      OBVIOUS
    <3>3. got \in Seq(Seq(Nat)) /\ rest \in Seq(Seq(Nat)) /\ sent = got \o rest
      BY <2>2, <3>1, <3>2
    <3>4. IsPrefix(got, sent) /\ SubSeq(sent, Len(got) + 1, Len(sent)) = rest
      BY <3>3, MessageParts
    <3>. QED  BY <3>1, <3>2, <3>4
  <2>4. ASSUME ~ InCall(b, {"streamSend", "streamReceive", "nextLength"}, {"writeData", "readData"})
        PROVE  Stored(s) = Packed(rest)
    <3>1. \A t \in Tasks : /\ ~ Inside(t, b, "streamSend", {"writeData"})
                           /\ ~ Inside(t, b, "streamReceive", {"readData"})
      BY <2>4 DEF InCall, Inside, Calling
    <3>2. taken = <<>> /\ begun = <<>>
      BY <2>1, <3>1 DEF Begun, PartRead
    <3>3. Stored(s) \in Seq(Nat) /\ Packed(rest) \in Seq(Nat)
      BY <1>1, <2>2, StoredType, PackedType
    <3>4. <<>> \o Stored(s) = Stored(s) /\ Packed(rest) \o <<>> = Packed(rest)
      BY <3>3, ConcatEmptySeq
    <3>. QED  BY <2>2, <3>2, <3>4
  <2>. QED  BY <1>2, <2>3, <2>4 DEF Stored
<1>3. CASE ~ s.isMessage
  BY <1>1, <1>3 DEF InOrder, Stored
<1>. QED  BY <1>2, <1>3

\* In every program whose readers have room for every message that may come, and
\* so never put the length of one back: whatever preempts a writer or a reader
\* between two accesses to the ring, a stream buffer delivers every byte once
\* and in order, a message buffer every message whole, once and in order
\* (stream_buffer.c).
THEOREM BuffersDeliver ==
    SystemSpec => []((\A b \in Streams : KeepsMessages(program, b)) => StreamsDeliver)
<1>1. SystemInit => StreamInv
  BY StreamsStart
<1>2. QueueInv /\ StreamInv /\ [SystemNext]_systemVars => StreamInv'
  BY StreamsStep
<1>3. StreamInv => ((\A b \in Streams : KeepsMessages(program, b)) => StreamsDeliver)
  <2>1. SUFFICES ASSUME StreamInv, \A b \in Streams : KeepsMessages(program, b)
                 PROVE  StreamsDeliver
    OBVIOUS
  <2>2. \A b \in Streams : BufferInv(b)
    BY <2>1 DEF StreamInv
  <2>. QED  BY <2>2, BuffersHold DEF StreamsDeliver
<1>. QED  BY <1>1, <1>2, <1>3, QueuesStaySound, PTL DEF SystemSpec

(***************************************************************************)
(* Stream and message buffers.                                             *)
(***************************************************************************)

\* A task moves on inside a call, or leaves it, where others may run.
GoesOn(t) ==
    \/ Return(t, << >>)
    \/ \E changes : /\ Goto(t, changes) /\ "at" \notin DOMAIN changes
                    /\ "pc" \in DOMAIN changes => Plain(changes.pc)
LEMMA PlainMove ==
    ASSUME QueueInv, LabelsFit, SchedInv, NEW t \in Tasks, Running(t), Eases, now' = now, program' = program,
           groups' = groups, timers' = timers \/ Using(t, {"daemon"}), Plain(local[t].pc),
           local[t].pc \notin {"waited", "notified"}, GoesOn(t)
    PROVE  Kept
<1>1. Asks(t)
  BY DEF Asks
<1>2. CASE Return(t, << >>)
  BY <1>1, <1>2, CalmResults, PlainReturn DEF Calm
<1>3. CASE \E changes : /\ Goto(t, changes) /\ "at" \notin DOMAIN changes
                        /\ "pc" \in DOMAIN changes => Plain(changes.pc)
  <2>1. PICK changes : /\ Goto(t, changes) /\ "at" \notin DOMAIN changes
                       /\ "pc" \in DOMAIN changes => Plain(changes.pc)
    BY <1>3
  <2>. QED  BY <1>1, <2>1, PlainGoto
<1>. QED  BY <1>2, <1>3 DEF GoesOn

StreamPlaces == {"space", "time", "write", "writeData", "recheck", "read", "readData", "wait",
                 "waited", "forget", "trigger", "complete"}
LEMMA StreamPlain ==
    /\ Plain("call") /\ \A label \in StreamPlaces : Plain(label)
    /\ ~ Locks("call") /\ \A label \in StreamPlaces : ~ Locks(label)
BY DEF Plain, Locks, LockLabels, StreamPlaces

LEMMA StreamCallBegins ==
    ASSUME QueueInv, NEW t \in Tasks, NEW operations, operations \subseteq {"streamSend"} \cup Reads,
           Calls(t, operations)
    PROVE  /\ Running(t) /\ t # Idle /\ local[t].pc = "call"
           /\ Plain(local[t].pc) /\ ~ Locks(local[t].pc) /\ ~ Dozes(t)
BY BeginsCall, StreamPlain DEF Dozes

\* What changes nothing of the scheduler.
LEMMA StreamQuietSteps ==
    ASSUME QueueInv, LabelsFit, SchedInv, timers' = timers, NEW t \in Tasks,
           \/ StreamSend(t) \/ SendTimeout(t) \/ WriteStream(t) \/ WriteData(t) \/ TestTrigger(t)
           \/ Forget(t) \/ Recheck(t) \/ ReadStream(t) \/ ReadData(t) \/ NextLength(t)
    PROVE  Kept
<1>1. /\ Running(t) /\ local[t].pc \in {"call"} \cup (StreamPlaces \ {"waited"})
      /\ UNCHANGED <<program, groups, now>>
  BY StreamCallBegins DEF StreamSend, SendTimeout, WriteStream, WriteData, TestTrigger,
     Forget, Recheck, ReadStream, ReadData, NextLength, At, StreamPlaces, Calls
<1>2. Plain(local[t].pc) /\ local[t].pc \notin {"waited", "notified"}
  BY <1>1, StreamPlain DEF StreamPlaces
<1>3. Eases
  <2>1. \/ sched' = sched \/ sched' = ClearAborted(sched)
        \/ \E a : sched' = Fail(sched, a)
    BY DEF StreamSend, SendTimeout, WriteStream, WriteData, TestTrigger,
           Forget, Recheck, ReadStream, ReadData, NextLength
  <2>. QED  BY <2>1, FreeEase DEF Eases
<1>4. \/ Return(t, << >>)
      \/ \E changes : /\ Goto(t, changes) /\ "at" \notin DOMAIN changes
                      /\ "pc" \in DOMAIN changes /\ changes.pc \in StreamPlaces
  <2>1. CASE StreamSend(t)
    BY <2>1 DEF StreamSend, StreamPlaces
  <2>2. CASE SendTimeout(t)
    BY <2>2 DEF SendTimeout, StreamPlaces
  <2>3. CASE WriteStream(t) \/ WriteData(t)
    BY <2>3 DEF WriteStream, WriteData, StreamPlaces
  <2>4. CASE TestTrigger(t) \/ Forget(t) \/ Recheck(t)
    BY <2>4 DEF TestTrigger, Forget, Recheck, StreamPlaces
  <2>5. CASE ReadStream(t)
    <3>1. CASE local[t].room <= LengthBytes(Stream(t))
      BY <2>5, <3>1 DEF ReadStream
    <3>2. CASE ~ (local[t].room <= LengthBytes(Stream(t))) /\ Stream(t).isMessage
      <4>1. PICK room : Goto(t, [pc |-> "readData", room |-> room])
        BY <2>5, <3>2 DEF ReadStream
      <4>. QED  BY <4>1 DEF StreamPlaces
    <3>3. CASE ~ (local[t].room <= LengthBytes(Stream(t))) /\ ~ Stream(t).isMessage
      BY <2>5, <3>3 DEF ReadStream, StreamPlaces
    <3>. QED  BY <3>1, <3>2, <3>3
  <2>6. CASE ReadData(t)
    <3>1. CASE local[t].room = 0
      BY <2>6, <3>1 DEF ReadData
    <3>2. CASE local[t].room # 0
      BY <2>6, <3>2 DEF ReadData, StreamPlaces
    <3>. QED  BY <3>1, <3>2
  <2>7. CASE NextLength(t)
    <3>1. CASE BytesIn(Stream(t)) > LengthSize
      BY <2>7, <3>1 DEF NextLength, StreamPlaces
    <3>2. CASE ~ (BytesIn(Stream(t)) > LengthSize)
      BY <2>7, <3>2 DEF NextLength
    <3>. QED  BY <3>1, <3>2
  <2>. QED  BY <2>1, <2>2, <2>3, <2>4, <2>5, <2>6, <2>7
<1>5. GoesOn(t)
  BY <1>4, StreamPlain DEF GoesOn
<1>. QED  BY <1>1, <1>2, <1>3, <1>5, PlainMove

\* What the running task does of its own after an easy step.
LEMMA RunsAfter ==
    ASSUME NEW s, NEW q, NEW r, NEW t, Gently(s, q, {}), Runs(q, r, t)
    PROVE  Runs(s, r, t)
<1>1. /\ Spared(s, q, {}) /\ Ticks(q) = Ticks(s) /\ q.suspended = s.suspended
      /\ Leaves(q, r, t) /\ Well(r) /\ ~ InEvents(r, t) /\ (InReady(r, t) \/ r.switchPending)
  BY GentlySpared DEF Gently, Steady, Runs
<1>2. /\ r.current = s.current /\ Ticks(r) = Ticks(s) /\ r.suspended = q.suspended
      /\ s.switchPending => r.switchPending
      /\ \A u \in Tasks : u # t => Spares(s, r, {}, u)
  BY <1>1, LeavesThen
<1>. QED  BY <1>1, <1>2 DEF Runs, Leaves, Steady

\* A task announces that it is going to wait, waits, and stops waiting.
LEMMA StreamWaitSteps ==
    ASSUME QueueInv, LabelsFit, SchedInv, timers' = timers, NEW t \in Tasks,
           CheckSpace(t) \/ StreamReceive(t) \/ StreamWait(t) \/ StreamWaited(t)
    PROVE  Kept
<1>1. /\ Running(t) /\ local[t].pc \in {"call", "space", "wait", "waited"}
      /\ UNCHANGED <<program, groups, now>>
      /\ t # Idle
  BY StreamCallBegins DEF CheckSpace, StreamReceive, StreamWait, StreamWaited, At, Reads, LabelsFit, Fits
<1>2. Plain(local[t].pc) /\ ~ Locks(local[t].pc) /\ ~ Dozes(t)
  BY <1>1, StreamPlain DEF StreamPlaces, Dozes
<1>3. Awake(sched, t) /\ Well(sched) /\ GroupsShrink
  BY <1>1, <1>2, IsAwake, GroupsSame DEF Awake
<1>4. CASE CheckSpace(t) \/ StreamReceive(t)
  <2>0. local[t].pc \in {"call", "space"}
    BY <1>4 DEF CheckSpace, StreamReceive, At, Calls
  <2>1. \/ sched' = sched
        \/ sched' = NotifyStateClear(sched) \/ \E a : sched' = NotifyStateClear(Fail(sched, a))
    BY <1>4 DEF CheckSpace, StreamReceive
  <2>2. PICK changes : /\ Goto(t, changes) /\ "at" \notin DOMAIN changes
                       /\ "pc" \in DOMAIN changes /\ changes.pc \in StreamPlaces \ {"waited"}
    <3>1. CASE CheckSpace(t)
      <4>a. PICK space : space = SpaceIn(Stream(t))
        OBVIOUS
      <4>1. Goto(t, [pc |-> "wait", room |-> space]) \/ Goto(t, [pc |-> "write", room |-> space])
        BY <3>1, <4>a DEF CheckSpace
      <4>. QED  BY <4>1 DEF StreamPlaces
    <3>2. CASE StreamReceive(t)
      <4>a. PICK space : space = BytesIn(Stream(t))
        OBVIOUS
      <4>1. Goto(t, [pc |-> "wait"]) \/ Goto(t, [pc |-> "read", room |-> space])
        BY <3>2, <4>a DEF StreamReceive
      <4>. QED  BY <4>1 DEF StreamPlaces
    <3>. QED  BY <1>4, <3>1, <3>2
  <2>3. OthersStay(t) /\ local'[t].pc \in StreamPlaces
    BY <1>1, <2>2, GoesTo
  <2>4. CASE sched' = sched
    <3>1. Eases /\ GoesOn(t)
      BY <2>2, <2>4, StreamPlain DEF Eases, GoesOn
    <3>. QED  BY <1>1, <1>2, <2>0, <3>1, PlainMove
  <2>5. CASE sched' # sched
    <3>a. PICK r, q, p : /\ r = sched' /\ r = NotifyStateClear(q) /\ q \in {sched, p}
                         /\ \E a : p = Fail(sched, a)
      <4>1. CASE sched' = NotifyStateClear(sched)
        BY <4>1
      <4>2. CASE \E a : sched' = NotifyStateClear(Fail(sched, a))
        BY <4>2
      <4>. QED  BY <2>1, <2>5, <4>1, <4>2
    <3>1. Well(p) /\ Gently(sched, p, {})
      BY <1>3, <3>a, FreeChanges
    <3>2. Well(q) /\ Gently(sched, q, {})
      BY <1>3, <3>a, <3>1, GentlySame
    <3>3. Awake(q, t)
      BY <1>3, <3>2 DEF Awake, Gently, Steady, Spares
    <3>4. Runs(q, r, t) /\ (r.notifyState[t] = "waiting" => q.notifyState[t] = "waiting")
      BY <3>a, <3>3, OwnChanges
    <3>5. Runs(sched, r, t)
      BY <3>2, <3>4, RunsAfter
    <3>6. q.notifyState[t] = "waiting" => sched.notifyState[t] = "waiting"
      BY <3>2 DEF Gently, Spares
    <3>7. sched.notifyState[t] # "waiting"
      BY <2>0 DEF SchedInv, WaitsRightly
    <3>8. Runs(sched, sched', t) /\ sched'.notifyState[t] # "waiting"
      BY <3>a, <3>4, <3>5, <3>6, <3>7
    <3>9. ~ Locks(local[t].pc)'
      BY <2>3, StreamPlain DEF Locks, LockLabels, StreamPlaces
    <3>. QED  BY <1>1, <1>2, <1>3, <2>3, <3>8, <3>9, RunsStep
  <2>. QED  BY <2>4, <2>5
<1>5. CASE StreamWait(t)
  <2>a. PICK r : r = sched'
    OBVIOUS
  <2>1. r = NotifyWait(sched, TicksToWait(t))
    BY <1>5, <2>a DEF StreamWait
  <2>2. PICK changes : Goto(t, changes) /\ "at" \notin DOMAIN changes /\ "pc" \in DOMAIN changes /\ changes.pc = "waited"
    BY <1>5 DEF StreamWait
  <2>3. OthersStay(t) /\ local'[t].pc = "waited"
    BY <1>1, <2>2, GoesTo
  <2>4. Runs(sched, r, t)
    BY <1>3, <2>1, WaitsForNotification
  <2>5. Runs(sched, sched', t) /\ ~ Locks(local[t].pc)'
    BY <2>a, <2>3, <2>4 DEF Locks, LockLabels
  <2>. QED  BY <1>1, <1>2, <1>3, <2>3, <2>5, RunsStep
<1>6. CASE StreamWaited(t)
  <2>a. PICK r : r = sched'
    OBVIOUS
  <2>1. r = NotifyEnd(sched)
    BY <1>6, <2>a DEF StreamWaited
  <2>2. PICK changes : Goto(t, changes) /\ "at" \notin DOMAIN changes /\ "pc" \in DOMAIN changes /\ changes.pc = "forget"
    BY <1>6 DEF StreamWaited
  <2>3. OthersStay(t) /\ local'[t].pc = "forget"
    BY <1>1, <2>2, GoesTo
  <2>4. Runs(sched, r, t) /\ r.notifyState[t] = "none"
    BY <1>3, <2>1, OwnChanges
  <2>5. Runs(sched, sched', t) /\ ~ Locks(local[t].pc)' /\ sched'.notifyState[t] # "waiting"
    BY <2>a, <2>3, <2>4 DEF Locks, LockLabels
  <2>. QED  BY <1>1, <1>2, <1>3, <2>3, <2>5, RunsStep
<1>. QED  BY <1>4, <1>5, <1>6

LEMMA NobodyElseNotifies ==
    ASSUME SchedInv, NEW t \in Tasks, NEW u \in Tasks, Running(t), local[t].pc \notin {"waited", "notified"}
    PROVE  sched.notifyState[u] = "waiting" => ~ InEvents(sched, u) /\ (sched.suspended # 0 => u # sched.current)
BY DEF SchedInv, WaitsRightly, Running

\* The other side is notified with the scheduler suspended.
LEMMA StreamPeerSteps ==
    ASSUME QueueInv, LabelsFit, SchedInv, timers' = timers, NEW t \in Tasks,
           local[t].pc = "notifyPeer" => Peer(t) \in Someone,
           Complete(t) \/ NotifyPeer(t) \/ ForgetPeer(t)
    PROVE  Kept
<1>1. CASE Complete(t)
  <2>a. PICK q : q = SuspendAll(sched)
    OBVIOUS
  <2>1. Running(t) /\ local[t].pc = "complete" /\ UNCHANGED <<program, groups, now>> /\ sched' = q
    BY <1>1, <2>a DEF Complete, At
  <2>2. PICK changes : Goto(t, changes) /\ "at" \notin DOMAIN changes /\ "pc" \in DOMAIN changes /\ changes.pc = "notifyPeer"
    BY <1>1 DEF Complete
  <2>3. OthersStay(t) /\ local'[t].pc = "notifyPeer"
    BY <2>1, <2>2, GoesTo
  <2>4. Locks(local[t].pc)' /\ ~ Locks(local[t].pc) /\ GroupsShrink
    BY <2>1, <2>3, GroupsSame, StreamPlain DEF Locks, LockLabels, StreamPlaces
  <2>5. (Well(q) => Well(sched') /\ Gently(q, sched', {})) /\ local[t].pc \notin {"waited", "notified"}
    BY <2>1, GentlySame
  <2>. QED  BY <2>a, <2>1, <2>3, <2>4, <2>5, SuspendStep
<1>2. CASE NotifyPeer(t)
  <2>a. PICK r, x : r = sched' /\ x = Peer(t)
    OBVIOUS
  <2>b. PICK n : n = Signalled(sched, x) /\ n \in {Counted(sched, x), Signalled(sched, x)}
    OBVIOUS
  <2>1. /\ Running(t) /\ local[t].pc = "notifyPeer" /\ UNCHANGED <<program, groups, now>>
        /\ IF x = None THEN r = sched ELSE r = Notify(sched, x, n)
    BY <1>2, <2>a, <2>b DEF NotifyPeer, At
  <2>2. PICK changes : /\ Goto(t, changes) /\ "at" \notin DOMAIN changes /\ "placed" \notin DOMAIN changes
                       /\ "pc" \in DOMAIN changes /\ changes.pc \in {"resume", "forgetPeer"}
    BY <1>2 DEF NotifyPeer
  <2>3. Eases
    <3>1. CASE x = None
      BY <2>a, <2>1, <3>1 DEF Eases
    <3>2. CASE x # None
      <4>1. x \in Tasks /\ Well(sched)
        BY <2>a, <2>1, <3>2 DEF Someone, SchedInv
      <4>2. sched.notifyState[x] = "waiting" => ~ InEvents(sched, x) /\ (sched.suspended # 0 => x # sched.current)
        BY <2>1, <4>1, NobodyElseNotifies
      <4>3. Well(r) /\ Gently(sched, r, {})
        BY <2>b, <2>1, <3>2, <4>1, <4>2, Notified
      <4>. QED  BY <2>a, <4>3 DEF Eases
    <3>. QED  BY <3>1, <3>2
  <2>4. local[t].pc \in LockLabels \ {"resume"} /\ changes.pc \in LockLabels
    BY <2>1, <2>2 DEF LockLabels
  <2>. QED  BY <2>1, <2>2, <2>3, <2>4, LockedGoto
<1>3. CASE ForgetPeer(t)
  <2>1. Running(t) /\ local[t].pc = "forgetPeer" /\ UNCHANGED <<program, groups, now>> /\ sched' = sched
    BY <1>3 DEF ForgetPeer, At
  <2>2. PICK changes : /\ Goto(t, changes) /\ "at" \notin DOMAIN changes /\ "placed" \notin DOMAIN changes
                       /\ "pc" \in DOMAIN changes /\ changes.pc = "resume"
    BY <1>3 DEF ForgetPeer
  <2>3. Eases /\ local[t].pc \in LockLabels \ {"resume"} /\ changes.pc \in LockLabels
    BY <2>1, <2>2 DEF LockLabels, Eases
  <2>. QED  BY <2>1, <2>2, <2>3, LockedGoto
<1>. QED  BY <1>1, <1>2, <1>3

LEMMA StreamStepsKeep ==
    ASSUME QueueInv, LabelsFit, SchedInv, timers' = timers, NEW t \in Tasks,
           local[t].pc = "notifyPeer" => Peer(t) \in Someone, StreamStep(t)
    PROVE  Kept
BY StreamQuietSteps, StreamWaitSteps, StreamPeerSteps DEF StreamStep

(***************************************************************************)
(* The timer task, and the wall clock.                                     *)
(***************************************************************************)

DaemonGoes(d, label) ==
    \E changes : /\ Goto(d, changes) /\ "at" \notin DOMAIN changes
                 /\ "pc" \in DOMAIN changes /\ changes.pc = label
LEMMA DaemonGoesOn ==
    ASSUME QueueInv, LabelsFit, NEW d \in Tasks, program' = program, NEW label, DaemonGoes(d, label)
    PROVE  OthersStay(d) /\ local'[d].pc = label
BY GoesTo DEF DaemonGoes

\* Where the timer task is.
LEMMA DaemonIs ==
    ASSUME QueueInv, LabelsFit, NEW d \in Tasks
    PROVE  /\ \A label \in DaemonLabels : At(d, label) => Running(d) /\ local[d].pc = label /\ Using(d, {"daemon"})
           /\ Calls(d, {"daemon"}) => Running(d) /\ local[d].pc = "call" /\ Using(d, {"daemon"})
<1>1. ASSUME Calls(d, {"daemon"}) PROVE Running(d) /\ local[d].pc = "call" /\ Using(d, {"daemon"})
  BY <1>1, BeginsCall
<1>2. ASSUME NEW label \in DaemonLabels, At(d, label)
      PROVE  Running(d) /\ local[d].pc = label /\ Using(d, {"daemon"})
  BY <1>2 DEF At, LabelsFit, Fits
<1>. QED  BY <1>1, <1>2

\* It moves on, with the scheduler suspended or not as before.
LEMMA DaemonEases ==
    ASSUME QueueInv, LabelsFit, SchedInv, NEW d \in Tasks, Running(d), Using(d, {"daemon"}), Eases,
           program' = program, groups' = groups, now' = now,
           local[d].pc \in DaemonLabels, NEW label, DaemonGoes(d, label),
           Locks(label)' <=> Locks(local[d].pc)
    PROVE  Kept
<1>1. OthersStay(d) /\ local'[d].pc = label
  BY DaemonGoesOn
<1>2. LocksStay(d) /\ GroupsShrink /\ Well(sched') /\ Gently(sched, sched', {})
  BY <1>1, LocksOfOthers, GroupsSame, Eased
<1>3. Locks(local[d].pc)' <=> Locks(local[d].pc)
  BY <1>1 DEF Locks
<1>4. ~ Dozes(d) /\ local[d].pc \notin {"waited", "notified"}
  BY DEF Dozes, DaemonLabels
<1>5. {} \in SUBSET Tasks
  OBVIOUS
<1>. QED  BY <1>1, <1>2, <1>3, <1>4, <1>5, GentleStep

LEMMA LookStep ==
    ASSUME QueueInv, LabelsFit, SchedInv, NEW d \in Tasks, LookAtTimers(d)
    PROVE  Kept
<1>1. /\ Running(d) /\ local[d].pc = "call" /\ Using(d, {"daemon"})
      /\ sched' = SuspendAll(sched) /\ program' = program /\ groups' = groups /\ now' = now
  BY DaemonIs DEF LookAtTimers
<1>2. PICK label \in {"switchLists", "resumeExpired", "lockQueue"} : DaemonGoes(d, label)
  <2>1. PICK changes : /\ Goto(d, changes) /\ "at" \notin DOMAIN changes
                       /\ "pc" \in DOMAIN changes
                       /\ changes.pc \in {"switchLists", "resumeExpired", "lockQueue"}
    BY DEF LookAtTimers
  <2>. QED  BY <2>1 DEF DaemonGoes
<1>3. OthersStay(d) /\ local'[d].pc = label
  BY <1>1, <1>2, DaemonGoesOn
<1>4. ReturnsTo(timers', timers.then, "resumeSwitched")
  <2>1. ReturnsTo(timers, timers.then, timers.switched)
    BY DEF LabelsFit, TimersFit, ReturnsTo
  <2>. QED  BY <2>1, TimersReturn
<1>5. Locks(local[d].pc)' /\ ~ Locks(local[d].pc) /\ local[d].pc \notin {"waited", "notified"} /\ GroupsShrink
  BY <1>1, <1>2, <1>3, <1>4, GroupsSame DEF Locks, LockLabels, ReturnsTo
<1>a. PICK q : q = SuspendAll(sched)
  OBVIOUS
<1>6. Well(q) => Well(sched') /\ Gently(q, sched', {})
  BY <1>a, <1>1, GentlySame
<1>. QED  BY <1>a, <1>1, <1>3, <1>5, <1>6, SuspendStep

LEMMA AwaitStep ==
    ASSUME QueueInv, LabelsFit, SchedInv, NEW d \in Tasks, AwaitCommand(d)
    PROVE  Kept
<1>1. /\ Running(d) /\ local[d].pc = "lockQueue" /\ Using(d, {"daemon"})
      /\ sched' = sched /\ program' = program /\ groups' = groups /\ now' = now /\ timers' = timers
  BY DaemonIs DEF AwaitCommand, DaemonLabels
<1>2. DaemonGoes(d, "check")
  BY DEF AwaitCommand, DaemonGoes
<1>3. (Locks("check")' <=> Locks(local[d].pc)) /\ Eases /\ local[d].pc \in DaemonLabels
  BY <1>1 DEF Locks, LockLabels, DaemonLabels, Eases
<1>. QED  BY <1>1, <1>2, <1>3, DaemonEases

LEMMA PlaceDaemonStep ==
    ASSUME QueueInv, LabelsFit, SchedInv, NEW d \in Tasks, PlaceDaemon(d)
    PROVE  Kept
<1>1. /\ Running(d) /\ local[d].pc = "place" /\ Using(d, {"daemon"}) /\ d # Idle
      /\ program' = program /\ groups' = groups /\ now' = now /\ timers' = timers
  <2>1. Running(d) /\ local[d].pc = "place" /\ Call(d).op = "daemon" /\ UNCHANGED <<program, groups, now, timers>>
    BY DEF PlaceDaemon, At
  <2>2. HasCall(d) /\ d # Idle
    BY <2>1 DEF LabelsFit, Fits, Using
  <2>. QED  BY <2>1, <2>2 DEF Using
<1>2. PICK list, ticks, forever :
         /\ list = ToReceive(TimerQueue) /\ list \in EventLists
         /\ sched' = AddCurrentTaskToDelayedList(Queued(sched, d, list), ticks, forever)
  BY ListAssumption DEF PlaceDaemon, Queued
<1>3. Awake(sched, d) /\ ~ Dozes(d) /\ sched.suspended = 1
  BY <1>1, IsAwake, LocksOnce DEF Dozes, Locks, LockLabels
<1>4. \A g \in Groups : WaitingForBits(g) # list
  BY <1>2, BitsListed
<1>a. PICK r, q, L : r = sched' /\ q = sched /\ L = {list}
  OBVIOUS
<1>5. Sleeps1(sched, r, d, {list}) /\ r.notifyState = sched.notifyState
  <2>1. list \in EventLists /\ Awake(sched, d)
    BY <1>2, <1>3
  <2>2. r = AddCurrentTaskToDelayedList(Queued(sched, d, list), ticks, forever)
    BY <1>a, <1>2
  <2>. QED  BY <2>1, <2>2, PlacedRestricted
<1>6. DaemonGoes(d, "unlockTx")
  BY DEF PlaceDaemon, DaemonGoes
<1>7. OthersStay(d) /\ local'[d].pc = "unlockTx"
  BY <1>1, <1>6, DaemonGoesOn
<1>8. Using(d, {"daemon"})'
  <2>1. PICK changes : Goto(d, changes) /\ "at" \notin DOMAIN changes
    BY <1>6 DEF DaemonGoes
  <2>2. Call(d)' = Call(d) /\ HasCall(d)' = HasCall(d)
    BY <1>1, <2>1, GoesTo
  <2>. QED  BY <1>1, <2>2 DEF Using
<1>9. Locks(local[d].pc)' /\ Dozes(d)' /\ GroupsShrink /\ local[d].pc \notin {"waited", "notified"}
  BY <1>1, <1>7, <1>8, GroupsSame DEF Locks, LockLabels, Dozes
<1>10. Sleeps1(q, sched', d, L) /\ sched'.notifyState = q.notifyState
       /\ \A g \in Groups : WaitingForBits(g) \notin L
  BY <1>a, <1>4, <1>5
<1>11. /\ Spared(sched, q, {}) /\ Ticks(q) = Ticks(sched) /\ q.suspended = 1
       /\ (q.notifyState[d] = "waiting" => sched.notifyState[d] = "waiting")
  BY <1>a, <1>3, GentlySame, GentlySpared
<1>. QED  BY <1>1, <1>7, <1>9, <1>10, <1>11, SleepStep

LEMMA ResumeDaemonStep ==
    ASSUME QueueInv, LabelsFit, SchedInv, NEW d \in Tasks, ResumeDaemon(d)
    PROVE  Kept
<1>1. /\ Running(d) /\ local[d].pc \in {"resume", "resumeSwitched", "resumeExpired"}
      /\ program' = program /\ groups' = groups /\ now' = now /\ timers' = timers
      /\ sched' = ResumeAll(sched) \/ sched' = Yield(ResumeAll(sched))
      /\ Dozes(d) => sched' = Yield(ResumeAll(sched))
  BY DEF ResumeDaemon, At, Dozes
<1>2. PICK label \in {"receive", "expire"} : DaemonGoes(d, label)
  BY DEF ResumeDaemon, DaemonGoes
<1>3. OthersStay(d) /\ local'[d].pc = label
  BY <1>1, <1>2, DaemonGoesOn
<1>4. ~ Locks(local[d].pc)' /\ local[d].pc \in LockLabels
  BY <1>1, <1>2, <1>3 DEF Locks, LockLabels
<1>. QED  BY <1>1, <1>3, <1>4, ResumeStep

\* What the commands of the timer task to itself do to the scheduler.
LEMMA ReloadEases ==
    ASSUME SchedInv, HoldersAreTasks, NEW h, NEW value, SendReload(h, value)
    PROVE  Eases
<1>1. PICK q : q = queues[TimerQueue] /\ q.holder \in Tasks \cup {None}
  BY ListAssumption DEF HoldersAreTasks, Someone
<1>2. (\E a : sched' = Fail(sched, a)) \/ sched' = SendWakes(sched, TimerQueue, q)
  BY <1>1 DEF SendReload
<1>. QED  BY <1>1, <1>2, ListAssumption, FreeEase, QueuesEase

LEMMA CallbackStep ==
    ASSUME QueueInv, LabelsFit, SchedInv, NEW d \in Tasks, Callback(d)
    PROVE  Kept
<1>1. /\ Running(d) /\ local[d].pc = "callback" /\ Using(d, {"daemon"})
      /\ program' = program /\ groups' = groups /\ now' = now /\ timers' = timers
  BY DaemonIs DEF Callback, DaemonLabels
<1>2. DaemonGoes(d, timers.then) /\ local[d].pc \in DaemonLabels
  BY <1>1 DEF Callback, DaemonGoes, DaemonLabels
<1>3. Locks(timers.then)' <=> Locks(local[d].pc)
  BY <1>1 DEF Locks, LockLabels, LabelsFit, TimersFit
<1>4. Eases
  <2>1. CASE sched' = sched
    BY <2>1 DEF Eases
  <2>2. CASE sched' # sched
    <3>1. PICK u \in Tasks : sched' = Notify(sched, u, Counted(sched, u))
      BY <2>2 DEF Callback
    <3>a. PICK r, n : r = sched' /\ n = Counted(sched, u) /\ n \in {Counted(sched, u), Signalled(sched, u)}
      OBVIOUS
    <3>2. sched.notifyState[u] = "waiting" => ~ InEvents(sched, u) /\ (sched.suspended # 0 => u # sched.current)
      BY <1>1, NobodyElseNotifies
    <3>3. Well(sched) /\ r = Notify(sched, u, n)
      BY <3>a, <3>1 DEF SchedInv
    <3>4. Well(r) /\ Gently(sched, r, {})
      BY <3>a, <3>2, <3>3, Notified
    <3>. QED  BY <3>a, <3>4 DEF Eases
  <2>. QED  BY <2>1, <2>2
<1>. QED  BY <1>1, <1>2, <1>3, <1>4, DaemonEases

\* The steps of prvProcessTimerOrBlockTask, prvSwitchTimerLists and
\* prvProcessReceivedCommands that send themselves a command, or none.
LEMMA TimerSteps ==
    ASSUME QueueInv, LabelsFit, HoldersAreTasks, SchedInv, NEW d \in Tasks,
           \/ ExpireTimer(d) \/ SwitchOne(d) \/ ReloadSwitched(d) \/ SwitchLists(d)
           \/ ReceiveCommand(d) \/ SampleTime(d) \/ ApplyStart(d) \/ ReloadStarted(d)
           \/ ApplyChangePeriod(d) \/ ApplyStop(d)
    PROVE  Kept
<1>0. ReturnsTo(timers, timers.then, timers.switched)
  BY DEF LabelsFit, TimersFit, ReturnsTo
<1>1. /\ Running(d) /\ Using(d, {"daemon"}) /\ local[d].pc \in DaemonLabels
      /\ program' = program /\ groups' = groups /\ now' = now
  BY DaemonIs DEF ExpireTimer, SwitchOne, ReloadSwitched, SwitchLists, ReceiveCommand, SampleTime,
     ApplyStart, ReloadStarted, ApplyChangePeriod, ApplyStop, DaemonLabels
<1>2. Eases
  <2>1. \/ sched' = sched \/ (\E h, value : SendReload(h, value))
        \/ sched' = ReceiveWakes(sched, TimerQueue)
    BY DEF ExpireTimer, SwitchOne, ReloadSwitched, SwitchLists, ReceiveCommand, SampleTime,
       ApplyStart, ReloadStarted, ApplyChangePeriod, ApplyStop
  <2>2. CASE sched' = sched
    BY <2>2 DEF Eases
  <2>3. CASE \E h, value : SendReload(h, value)
    BY <2>3, ReloadEases
  <2>4. CASE sched' = ReceiveWakes(sched, TimerQueue)
    <3>1. PICK q : q = queues[TimerQueue] /\ q.holder \in Tasks \cup {None}
      BY ListAssumption DEF HoldersAreTasks, Someone
    <3>. QED  BY <2>4, <3>1, ListAssumption, QueuesEase
  <2>. QED  BY <2>1, <2>2, <2>3, <2>4
<1>3. SUFFICES \E label : DaemonGoes(d, label) /\ (Locks(label)' <=> Locks(local[d].pc))
  BY <1>1, <1>2, DaemonEases
<1>4. CASE ExpireTimer(d)
  <2>1. DaemonGoes(d, "callback") /\ local[d].pc = "expire"
    BY <1>4 DEF ExpireTimer, DaemonGoes, At
  <2>2. ReturnsTo(timers', "receive", timers.switched)
    BY <1>0, <1>4, TimersReturn
  <2>. QED  BY <2>1, <2>2 DEF ReturnsTo, Locks, LockLabels
<1>5. CASE SwitchOne(d)
  <2>1. DaemonGoes(d, "callback") /\ local[d].pc = "switchLists"
    BY <1>5 DEF SwitchOne, DaemonGoes, At
  <2>2. ReturnsTo(timers', "reloadSwitched", timers.switched)
    BY <1>0, <1>5, TimersReturn
  <2>. QED  BY <2>1, <2>2 DEF ReturnsTo, Locks, LockLabels
<1>6. CASE ReloadSwitched(d)
  <2>1. DaemonGoes(d, "switchLists") /\ local[d].pc = "reloadSwitched"
    BY <1>6 DEF ReloadSwitched, DaemonGoes, At
  <2>2. ReturnsTo(timers', timers.then, timers.switched)
    BY <1>0, <1>6, TimersReturn
  <2>. QED  BY <2>1, <2>2 DEF ReturnsTo, Locks, LockLabels
<1>7. CASE SwitchLists(d)
  <2>1. DaemonGoes(d, timers.switched) /\ local[d].pc = "switchLists"
    BY <1>7 DEF SwitchLists, DaemonGoes, At
  <2>2. timers.switched \in {"resumeSwitched", "apply"}
    BY DEF LabelsFit, TimersFit
  <2>. QED  BY <2>1, <2>2 DEF Locks, LockLabels
<1>8. CASE ReceiveCommand(d)
  <2>1. PICK label \in {"call", "sample"} : DaemonGoes(d, label)
    BY <1>8 DEF ReceiveCommand, DaemonGoes
  <2>2. local[d].pc = "receive"
    BY <1>8 DEF ReceiveCommand, At
  <2>. QED  BY <2>1, <2>2 DEF Locks, LockLabels
<1>9. CASE SampleTime(d)
  <2>1. PICK label \in {"switchLists", "apply"} : DaemonGoes(d, label)
    <3>1. PICK changes : /\ Goto(d, changes) /\ "at" \notin DOMAIN changes
                         /\ "pc" \in DOMAIN changes /\ changes.pc \in {"switchLists", "apply"}
      BY <1>9 DEF SampleTime
    <3>. QED  BY <3>1 DEF DaemonGoes
  <2>2. ReturnsTo(timers', timers.then, "apply") /\ local[d].pc = "sample"
    BY <1>0, <1>9, TimersReturn DEF SampleTime, At
  <2>. QED  BY <2>1, <2>2 DEF ReturnsTo, Locks, LockLabels
<1>10. CASE ApplyStart(d)
  <2>1. local[d].pc = "apply"
    BY <1>10 DEF ApplyStart, At
  <2>2. CASE Goto(d, [pc |-> "callback"]) /\ ReturnsTo(timers', "reloadStarted", timers.switched)
    <3>1. DaemonGoes(d, "callback")
      BY <2>2 DEF DaemonGoes
    <3>. QED  BY <2>1, <2>2, <3>1 DEF ReturnsTo, Locks, LockLabels
  <2>3. CASE Goto(d, [pc |-> "receive"])
    <3>1. DaemonGoes(d, "receive")
      BY <2>3 DEF DaemonGoes
    <3>. QED  BY <2>1, <3>1 DEF Locks, LockLabels
  <2>4. \/ Goto(d, [pc |-> "callback"]) /\ ReturnsTo(timers', "reloadStarted", timers.switched)
        \/ Goto(d, [pc |-> "receive"])
    BY <1>0, <1>10, TimersReturn
  <2>. QED  BY <2>2, <2>3, <2>4
<1>11. CASE ReloadStarted(d) \/ ApplyChangePeriod(d) \/ ApplyStop(d)
  <2>1. DaemonGoes(d, "receive") /\ local[d].pc \in {"reloadStarted", "apply"}
    BY <1>11 DEF ReloadStarted, ApplyChangePeriod, ApplyStop, DaemonGoes, At
  <2>. QED  BY <2>1 DEF Locks, LockLabels
<1>. QED  BY <1>4, <1>5, <1>6, <1>7, <1>8, <1>9, <1>10, <1>11

LEMMA DaemonStepsKeep ==
    ASSUME QueueInv, LabelsFit, HoldersAreTasks, SchedInv, NEW t \in Tasks, ComposeCommand(t) \/ DaemonStep(t)
    PROVE  Kept
<1>1. CASE ComposeCommand(t)
  <2>1. /\ Running(t) /\ local[t].pc = "call" /\ UNCHANGED <<program, sched, groups, now, timers>>
        /\ \E m : Goto(t, [message |-> m])
    BY <1>1, BeginsCall DEF ComposeCommand
  <2>2. Eases /\ Asks(t) /\ Plain(local[t].pc)
    BY <2>1, StreamPlain DEF Eases, Asks
  <2>. QED  BY <2>1, <2>2, PlainGoto
<1>. QED  BY <1>1, LookStep, AwaitStep, PlaceDaemonStep, ResumeDaemonStep, CallbackStep, TimerSteps DEF DaemonStep

\* The wall clock has no part in it.
LEMMA ClockStepsKeep ==
    ASSUME QueueInv, LabelsFit, SchedInv, timers' = timers, NEW t \in Tasks, ClockStep(t)
    PROVE  Kept
<1>1. /\ Running(t) /\ local[t].pc \in {"call", "storeClock"} /\ UNCHANGED <<program, sched, groups, now>>
  BY BeginsCall DEF ClockStep, ReadClock, SleepFor, BeginSetClock, StoreClock, At
<1>2. Eases /\ Plain(local[t].pc) /\ local[t].pc \notin {"waited", "notified"}
  BY <1>1 DEF Eases, Plain, LockLabels
<1>3. GoesOn(t)
  <2>1. CASE StoreClock(t)
    BY <2>1 DEF StoreClock, GoesOn
  <2>2. CASE BeginSetClock(t)
    <3>1. PICK c : Goto(t, [pc |-> "storeClock", clock |-> c])
      BY <2>2 DEF BeginSetClock
    <3>2. Plain("storeClock")
      BY DEF Plain, LockLabels
    <3>. QED  BY <3>1, <3>2 DEF GoesOn
  <2>3. CASE ReadClock(t) \/ SleepFor(t)
    <3>1. PICK a, b, c : Goto(t, [asked |-> a, asker |-> b, due |-> c])
      BY <2>3 DEF ReadClock, SleepFor, WaitUntil, WaitFor
    <3>. QED  BY <3>1 DEF GoesOn
  <2>. QED  BY <2>1, <2>2, <2>3 DEF ClockStep
<1>. QED  BY <1>1, <1>2, <1>3, PlainMove

(***************************************************************************)
(* Interrupts and the context switch.                                      *)
(***************************************************************************)

\* An interrupt of the program.
LEMMA RaisedIs ==
    ASSUME QueueInv, NEW operations, Raise(operations)
    PROVE  /\ raised + 1 \in 1 .. Len(program.interrupts) /\ Raised.op \in operations
           /\ LegalInterrupt(Raised, program.queues)
           /\ sched.failed = None /\ program' = program /\ groups' = groups /\ local' = local /\ now' = now
<1>1. Len(program.interrupts) \in Nat /\ raised \in Nat /\ program \in Programs
  BY ProgramAssumption DEF QueueInv
<1>2. raised + 1 \in 1 .. Len(program.interrupts)
  BY <1>1 DEF Raise, Interrupts
<1>3. LegalInterrupt(program.interrupts[raised + 1], program.queues)
  BY <1>1, <1>2, ProgramAssumption
<1>. QED  BY <1>2, <1>3 DEF Raise, Raised, Interrupts

LEMMA RaisedEases ==
    ASSUME QueueInv, SchedInv, timers' = timers, NEW operations, Raise(operations), Eases
    PROVE  AllKept
<1>1. /\ sched.failed = None /\ program' = program /\ groups' = groups /\ local' = local /\ now' = now
  BY RaisedIs
<1>2. Well(sched') /\ Gently(sched, sched', {})
  BY Eased
<1>3. Spared(sched, sched', {}) /\ sched'.suspended = sched.suspended /\ Ticks(sched') = Ticks(sched)
  BY <1>2, GentlySpared DEF Gently, Steady
<1>4. now' \in Nat /\ Ticks(sched') - now' = Ticks(sched) - now
  BY <1>1, <1>3 DEF SchedInv
<1>. QED  BY <1>1, <1>2, <1>3, <1>4, NobodysStep

\* A notification from an interrupt.
LEMMA NotifyEases ==
    ASSUME SchedInv, NEW u \in Tasks, NEW n \in {Counted(sched, u), Signalled(sched, u)},
           sched' = NotifyFromISR(sched, u, n)
    PROVE  Eases
<1>a. PICK r : r = sched'
  OBVIOUS
<1>1. sched.notifyState[u] = "waiting" => ~ InEvents(sched, u) /\ (sched.suspended # 0 => u # sched.current)
  <2>1. sched.notifyState[u] = "waiting" => local[u].pc \in {"waited", "notified"} /\ ~ InEvents(sched, u)
    BY DEF SchedInv, WaitsRightly
  <2>2. sched.suspended # 0 => Locks(local[sched.current].pc)
    BY DEF SchedInv, OnlyOneLocks
  <2>3. local[u].pc \in {"waited", "notified"} => ~ Locks(local[u].pc)
    BY DEF Locks, LockLabels
  <2>. QED  BY <2>1, <2>2, <2>3
<1>2. Well(sched) /\ r = NotifyFromISR(sched, u, n)
  BY <1>a DEF SchedInv
<1>3. Well(r) /\ Gently(sched, r, {})
  BY <1>1, <1>2, Notified
<1>. QED  BY <1>a, <1>3 DEF Eases

LEMMA QueueInterruptsKeep ==
    ASSUME QueueInv, HoldersAreTasks, SchedInv, timers' = timers,
           SendInterrupt \/ ReceiveInterrupt \/ CommandInterrupt
    PROVE  AllKept
<1>1. CASE SendInterrupt
  <2>1. Raise({"send", "give"}) /\ Raised.object \in Objects
    BY <1>1, RaisedIs DEF SendInterrupt, LegalInterrupt, ProgramObjects
  <2>2. PICK o, q : o \in Objects /\ o = Raised.object /\ q = queues[o] /\ q.holder \in Tasks \cup {None}
    BY <2>1 DEF HoldersAreTasks, Someone
  <2>3. sched' = sched \/ sched' = SendFromISRWakes(sched, o, q)
    BY <1>1, <2>2 DEF SendInterrupt
  <2>4. Eases
    BY <2>2, <2>3, QueuesEase DEF Eases
  <2>. QED  BY <2>1, <2>4, RaisedEases
<1>2. CASE ReceiveInterrupt
  <2>1. Raise({"receive"}) /\ Raised.object \in Objects
    BY <1>2, RaisedIs DEF ReceiveInterrupt, LegalInterrupt, ProgramObjects
  <2>2. PICK o, q : o \in Objects /\ o = Raised.object /\ q = queues[o] /\ q.holder \in Tasks \cup {None}
    BY <2>1 DEF HoldersAreTasks, Someone
  <2>3. sched' = sched \/ sched' = ReceiveFromISRWakes(sched, o, q)
    BY <1>2, <2>2 DEF ReceiveInterrupt
  <2>4. Eases
    BY <2>2, <2>3, QueuesEase DEF Eases
  <2>. QED  BY <2>1, <2>4, RaisedEases
<1>3. CASE CommandInterrupt
  <2>1. Raise({"command"})
    BY <1>3 DEF CommandInterrupt
  <2>2. PICK q : q = queues[TimerQueue] /\ q.holder \in Tasks \cup {None}
    BY ListAssumption DEF HoldersAreTasks, Someone
  <2>3. sched' = sched \/ sched' = SendFromISRWakes(sched, TimerQueue, q)
    BY <1>3, <2>2 DEF CommandInterrupt
  <2>4. Eases
    BY <2>2, <2>3, ListAssumption, QueuesEase DEF Eases
  <2>. QED  BY <2>1, <2>4, RaisedEases
<1>. QED  BY <1>1, <1>2, <1>3

LEMMA TaskInterruptKeeps ==
    ASSUME QueueInv, SchedInv, timers' = timers, TaskInterrupt
    PROVE  AllKept
<1>1. Raise({"notify", "resume"})
  BY DEF TaskInterrupt
<1>2. PICK u \in Tasks : u = Raised.task
  BY <1>1, RaisedIs DEF LegalInterrupt
<1>3. sched' = NotifyFromISR(sched, u, Counted(sched, u)) \/ sched' = ResumeTaskFromISR(sched, u)
  BY <1>2 DEF TaskInterrupt
<1>4. CASE sched' = NotifyFromISR(sched, u, Counted(sched, u))
  <2>1. PICK n : n = Counted(sched, u) /\ n \in {Counted(sched, u), Signalled(sched, u)}
    OBVIOUS
  <2>2. sched' = NotifyFromISR(sched, u, n)
    BY <1>4, <2>1
  <2>3. Eases
    BY <2>1, <2>2, NotifyEases
  <2>. QED  BY <1>1, <2>3, RaisedEases
<1>5. CASE sched' = ResumeTaskFromISR(sched, u)
  <2>a. PICK r : r = sched'
    OBVIOUS
  <2>1. Well(r) /\ Gently(sched, r, {})
    BY <1>5, <2>a, ResumedFromISR DEF SchedInv
  <2>2. Eases
    BY <2>a, <2>1 DEF Eases
  <2>. QED  BY <1>1, <2>2, RaisedEases
<1>. QED  BY <1>3, <1>4, <1>5

LEMMA StreamInterruptKeeps ==
    ASSUME QueueInv, PeersAreTasks, SchedInv, timers' = timers, StreamInterrupt
    PROVE  AllKept
<1>1. PICK operations \in {{"streamSend"}, {"streamReceive"}} : Raise(operations)
  BY DEF StreamInterrupt, StreamSendInterrupt, StreamReceiveInterrupt
<1>2. Raised.stream \in Streams
  <2>1. raised + 1 \in 1 .. Len(program.interrupts) /\ Raised.op \in {"streamSend", "streamReceive"}
    BY <1>1, RaisedIs
  <2>2. LegalStreamCall(program.interrupts[raised + 1], program.streams)
    BY <2>1, StreamAssumption DEF QueueInv
  <2>3. LegalStreamCall(Raised, program.streams)
    BY <2>2 DEF Raised, Interrupts
  <2>. QED  BY <2>1, <2>3 DEF LegalStreamCall, Reads
<1>3. Eases
  <2>1. PICK s : s = streams[Raised.stream] /\ s.waitingToReceive \in Someone /\ s.waitingToSend \in Someone
    BY <1>2 DEF PeersAreTasks
  <2>2. CASE sched' = sched
    BY <2>2 DEF Eases
  <2>3. CASE sched' # sched
    <3>1. PICK peer \in Someone : peer # None /\ sched' = NotifyFromISR(sched, peer, Signalled(sched, peer))
      BY <2>1, <2>3 DEF StreamInterrupt, StreamSendInterrupt, StreamReceiveInterrupt
    <3>2. PICK n : n = Signalled(sched, peer) /\ n \in {Counted(sched, peer), Signalled(sched, peer)}
      OBVIOUS
    <3>3. peer \in Tasks /\ sched' = NotifyFromISR(sched, peer, n)
      BY <3>1, <3>2 DEF Someone
    <3>. QED  BY <3>2, <3>3, NotifyEases
  <2>. QED  BY <2>2, <2>3
<1>. QED  BY <1>1, <1>3, RaisedEases

\* The context switch: another task runs, or the same one.
LEMMA SwitchKeeps ==
    ASSUME QueueInv, SchedInv, timers' = timers, Switch
    PROVE  AllKept
<1>1. /\ sched.switchPending /\ sched.failed = None /\ UNCHANGED <<program, groups, local, now>>
      /\ Well(sched) /\ sched.current \in Tasks /\ InReady(sched, Idle) /\ Idle \in Tasks
  BY KernelAssumption DEF Switch, SchedInv
<1>a. PICK r : r = sched' /\ r = SwitchContext(sched)
  BY DEF Switch
<1>2. /\ Well(r) /\ Ticks(r) = Ticks(sched) /\ r.suspended = sched.suspended
      /\ \A u \in Tasks : SamePlaces(sched, r, u)
      /\ r.waiting = sched.waiting /\ r.eventBits = sched.eventBits /\ r.notifyState = sched.notifyState
      /\ sched.suspended > 0 => r.current = sched.current
      /\ \/ sched.suspended > 0 \/ (r.current = sched.current /\ r.failed # None)
         \/ r.current \in Tasks /\ InReady(r, r.current)
  BY <1>1, <1>a, ContextSwitched
<1>3. \/ r.current = sched.current /\ (sched.suspended > 0 \/ r.failed # None)
      \/ sched.suspended = 0 /\ r.current \in Tasks /\ InReady(r, r.current)
  <2>1. sched.suspended \in {0, 1}
    BY DEF SchedInv, OnlyOneLocks
  <2>. QED  BY <1>2, <2>1
<1>4. \A l : Locks(l)' <=> Locks(l)
  BY DEF Locks
<1>5. sched.suspended = 0 => \A u \in Tasks : ~ Locks(local[u].pc)
  BY DEF SchedInv, OnlyOneLocks
<1>6. OnlyOneLocks'
  <2>1. /\ sched'.suspended = sched.suspended /\ local' = local
        /\ \A u \in Tasks : Locks(local[u].pc)' <=> Locks(local[u].pc)
    BY <1>1, <1>2, <1>a, <1>4
  <2>2. CASE sched'.current = sched.current
    BY <1>1, <2>1, <2>2, <1>4 DEF SchedInv, OnlyOneLocks
  <2>3. CASE sched.suspended = 0 /\ sched'.current \in Tasks
    <3>1. ~ Locks(local[sched.current].pc)'
      BY <1>1, <1>4, <1>5, <2>3
    <3>. QED  BY <1>5, <2>1, <2>3, <3>1 DEF OnlyOneLocks
  <2>. QED  BY <1>3, <1>a, <2>2, <2>3
<1>7. StopsInTime'
  <2>1. CASE sched'.current = sched.current /\ sched.suspended > 0
    <3>1. Dozes(sched.current)' <=> Dozes(sched.current)
      BY <1>1, <2>1 DEF Dozes, Using, HasCall, Call
    <3>2. InReady(sched', sched'.current) <=> InReady(sched, sched.current)
      BY <1>1, <1>2, <1>a, <2>1 DEF SamePlaces
    <3>3. ~ InReady(sched, sched.current) => Dozes(sched.current)
      BY <1>1, <2>1 DEF SchedInv, StopsInTime
    <3>. QED  BY <3>1, <3>2, <3>3 DEF StopsInTime
  <2>2. CASE sched'.failed # None
    BY <2>2 DEF StopsInTime
  <2>3. CASE InReady(sched', sched'.current)
    BY <2>3 DEF StopsInTime
  <2>. QED  BY <1>3, <1>a, <2>1, <2>2, <2>3
<1>8. NewTasksAreNew'
  <2>1. SUFFICES ASSUME NEW u \in Tasks, NotYet(u)' PROVE Unused(sched', u) /\ u # sched'.current
    BY DEF NewTasksAreNew
  <2>2. NotYet(u)
    BY <1>1, <2>1 DEF NotYet
  <2>3. Unused(sched, u) /\ u # sched.current
    BY <2>1, <2>2 DEF SchedInv, NewTasksAreNew
  <2>4. Unused(r, u)
    BY <1>2, <2>1, <2>3 DEF SamePlaces, Unused
  <2>5. InReady(r, r.current) => u # r.current
    BY <2>4 DEF Unused
  <2>. QED  BY <1>3, <1>a, <2>3, <2>4, <2>5
<1>9. WaitsRightly'
  <2>1. \A u \in Tasks : InEvents(r, u) <=> InEvents(sched, u)
    BY <1>2, PlacesKeep
  <2>. QED  BY <1>1, <1>2, <1>a, <2>1 DEF SchedInv, WaitsRightly
<1>10. BitsAreMissing'
  BY <1>1, <1>2, <1>a DEF SchedInv, BitsAreMissing, Lacks
<1>11. InReady(r, Idle)
  BY <1>1, <1>2 DEF SamePlaces
<1>12. r.current \in Tasks /\ now' \in Nat /\ Ticks(r) = InitialTick + now'
  BY <1>1, <1>2, <1>3 DEF SchedInv
<1>13. \A u \in Tasks : Noted(u)
  BY <1>2, <1>a DEF Noted
<1>. QED  BY <1>2, <1>a, <1>6, <1>7, <1>8, <1>9, <1>10, <1>11, <1>12, <1>13 DEF SchedInv, AllKept

LEMMA IdleAndTicksKeep ==
    ASSUME QueueInv, SchedInv, timers' = timers, IdleCleansUp \/ TickInterrupt
    PROVE  AllKept
<1>a. PICK r : r = sched'
  OBVIOUS
<1>0. sched.failed = None /\ program' = program /\ local' = local /\ groups' = groups /\ Well(sched)
  BY DEF IdleCleansUp, TickInterrupt, Running, SchedInv
<1>1. CASE IdleCleansUp
  <2>1. Well(r) /\ Gently(sched, r, {}) /\ now' = now
    BY <1>0, <1>1, <1>a, CleanedUp DEF IdleCleansUp
  <2>2. Spared(sched, r, {}) /\ r.suspended = sched.suspended /\ Ticks(r) = Ticks(sched)
    BY <2>1, GentlySpared DEF Gently, Steady
  <2>3. Ticks(sched') - now' = Ticks(sched) - now /\ now' \in Nat
    BY <1>a, <2>1, <2>2 DEF SchedInv
  <2>. QED  BY <1>0, <1>a, <2>1, <2>2, <2>3, NobodysStep
<1>2. CASE TickInterrupt
  <2>1. r = IncrementTick(sched) /\ now' = now + 1
    BY <1>2, <1>a DEF TickInterrupt
  <2>2. Well(r) /\ Spared(sched, r, {}) /\ Ticks(r) = Ticks(sched) + 1 /\ r.suspended = sched.suspended
    BY <1>0, <2>1, TickIncremented
  <2>3. now \in Nat /\ Ticks(sched) = InitialTick + now /\ InitialTick \in Nat
    BY KernelAssumption DEF SchedInv
  <2>4. Ticks(sched') - now' = Ticks(sched) - now /\ now' \in Nat
    BY <1>a, <2>1, <2>2, <2>3
  <2>. QED  BY <1>0, <1>a, <2>2, <2>4, NobodysStep
<1>. QED  BY <1>1, <1>2

\* Every step of the system keeps the invariant of the scheduler.
LEMMA SchedulerSteps ==
    ASSUME QueueInv, LabelsFit, HoldersAreTasks, PeersAreTasks, SchedInv,
           \A t \in Tasks : local[t].pc = "notifyPeer" => Peer(t) \in Someone, SystemNext
    PROVE  Kept
<1>1. CASE Processor /\ UNCHANGED <<streams, timers, wall>>
  BY <1>1, SwitchKeeps, IdleAndTicksKeep, QueueStepsKeep, OtherStepsKeep DEF Processor, AllKept, Kept
<1>2. CASE (\E t \in Tasks : StreamStep(t)) /\ UNCHANGED <<timers, wall>>
  BY <1>2, StreamStepsKeep
<1>3. CASE (\E t \in Tasks : ComposeCommand(t) \/ DaemonStep(t)) /\ UNCHANGED <<streams, wall>>
  BY <1>3, DaemonStepsKeep
<1>4. CASE (\E t \in Tasks : ClockStep(t)) /\ UNCHANGED <<streams, timers>>
  BY <1>4, ClockStepsKeep
<1>5. CASE SystemInterrupt \/ Tick
  BY <1>5, QueueInterruptsKeep, TaskInterruptKeeps, StreamInterruptKeeps, IdleAndTicksKeep
     DEF SystemInterrupt, Interrupt, Tick, CommandInterrupt, AllKept, Kept
<1>. QED  BY <1>1, <1>2, <1>3, <1>4, <1>5 DEF SystemNext, SystemProcessor

(***************************************************************************)
(* Every task stays where its call can be.                                 *)
(***************************************************************************)

\* A step within a call, into a label of that call.
LEMMA FitsGoto ==
    ASSUME QueueInv, LabelsFit, TimersFit', program' = program, NEW t \in Tasks, NEW changes,
           Goto(t, changes), "at" \notin DOMAIN changes,
           "pc" \in DOMAIN changes => Fits(t, changes.pc)
    PROVE  LabelsFit'
<1>1. /\ OthersStay(t) /\ Call(t)' = Call(t) /\ HasCall(t)' = HasCall(t)
      /\ {"pc", "placed"} \subseteq DOMAIN local'[t]
      /\ local'[t].pc = IF "pc" \in DOMAIN changes THEN changes.pc ELSE local[t].pc
  BY GoesTo
<1>2. \A label : Fits(t, label) => Fits(t, label)'
  BY <1>1 DEF Fits, Using
<1>3. Fits(t, local[t].pc)'
  BY <1>1, <1>2 DEF LabelsFit
<1>4. ASSUME NEW u \in Tasks, u # t
      PROVE  {"pc", "placed"} \subseteq DOMAIN local'[u] /\ Fits(u, local[u].pc)'
  BY <1>1, <1>4 DEF LabelsFit, OthersStay, Fits, Using, HasCall, Call
<1>. QED  BY <1>1, <1>3, <1>4 DEF LabelsFit

\* The return from a call.
LEMMA FitsReturn ==
    ASSUME QueueInv, LabelsFit, TimersFit', program' = program, NEW t \in Tasks, NEW changes,
           Return(t, changes), "pc" \notin DOMAIN changes, "placed" \notin DOMAIN changes,
           "at" \notin DOMAIN changes
    PROVE  LabelsFit'
<1>1. OthersStay(t) /\ {"pc", "placed"} \subseteq DOMAIN local'[t] /\ local'[t].pc = "call"
  BY ComesBack
<1>2. Fits(t, local[t].pc)'
  BY <1>1 DEF Fits, DaemonLabels
<1>3. ASSUME NEW u \in Tasks, u # t
      PROVE  {"pc", "placed"} \subseteq DOMAIN local'[u] /\ Fits(u, local[u].pc)'
  BY <1>1, <1>3 DEF LabelsFit, OthersStay, Fits, Using, HasCall, Call
<1>. QED  BY <1>1, <1>2, <1>3 DEF LabelsFit

\* A step that no task takes.
LEMMA FitsSame ==
    ASSUME LabelsFit, TimersFit', program' = program, local' = local
    PROVE  LabelsFit'
BY DEF LabelsFit, Fits, Using, HasCall, Call

\* Most labels fit every call, whatever the operation.
OnlySome == {"lock", "expired", "disinherit", "check", "place", "unlockTx", "unlockRx"} \cup DaemonLabels
Within(t) == t # Idle /\ HasCall(t)
LEMMA MostFit ==
    ASSUME NEW t, NEW label, label = "call" \/ (Within(t) /\ label \notin OnlySome)
    PROVE  Fits(t, label)
BY DEF Fits, OnlySome, Within, DaemonLabels

\* Who is in the middle of a call is not the idle task.
LEMMA InCallIs ==
    ASSUME LabelsFit, NEW t \in Tasks, NEW label, At(t, label), label # "call"
    PROVE  Within(t) /\ Fits(t, label)
BY DEF LabelsFit, At, Fits, Within

LEMMA FitsNext ==
    ASSUME QueueInv, LabelsFit, TimersFit', program' = program, NEW t \in Tasks, NEW changes,
           Goto(t, changes), "at" \notin DOMAIN changes,
           "pc" \in DOMAIN changes => changes.pc = "call" \/ (Within(t) /\ changes.pc \notin OnlySome)
    PROVE  LabelsFit'
BY FitsGoto, MostFit

\* The calls on queues, semaphores and mutexes.
LEMMA QueueStepsFit ==
    ASSUME QueueInv, LabelsFit, TimersFit', NEW t \in Tasks, QueueStep(t)
    PROVE  LabelsFit'
<1>1. CASE SendNow(t)
  BY <1>1, FitsReturn DEF SendNow
<1>2. CASE ReceiveNow(t)
  BY <1>2, FitsReturn DEF ReceiveNow
<1>3. CASE PeekNow(t)
  BY <1>3, FitsReturn DEF PeekNow
<1>4. CASE TakeNow(t)
  BY <1>4, FitsReturn DEF TakeNow
<1>5. CASE TakeAgain(t)
  BY <1>5, FitsReturn DEF TakeAgain
<1>6. CASE GiveOnce(t)
  BY <1>6, FitsReturn DEF GiveOnce
<1>7. CASE Give(t)
  BY <1>7, FitsReturn DEF Give
<1>8. CASE GiveNothing(t)
  BY <1>8, FitsReturn DEF GiveNothing
<1>9. CASE Refuse(t)
  <2>1. program' = program /\ Return(t, << >>)
    BY <1>9 DEF Refuse
  <2>. QED  BY <2>1, FitsReturn
<1>10. CASE GoWait(t)
  <2>1. Within(t) /\ Using(t, Blocking)
    <3>1. Calls(t, Blocking) /\ Blocking \cap {"compose", "readClock", "convert"} = {}
      BY <1>10 DEF GoWait, Blocking, Sends, Receives, Takes
    <3>. QED  BY <3>1, BeginsCall DEF Within
  <2>2. Fits(t, "lock")
    BY <2>1 DEF Fits, DaemonLabels, Within
  <2>. QED  BY <1>10, <2>2, FitsGoto DEF GoWait
<1>11. CASE LockAndCheck(t)
  <2>1. Within(t) /\ Fits(t, "lock")
    BY <1>11, InCallIs DEF LockAndCheck
  <2>2. Fits(t, "unlockTx") /\ Fits(t, "check")
    BY <2>1 DEF Fits, Using, DaemonLabels, Within
  <2>. QED  BY <1>11, <2>2, FitsGoto DEF LockAndCheck
<1>12. CASE CheckStill(t)
  <2>1. Within(t) /\ Fits(t, "check")
    BY <1>12, InCallIs DEF CheckStill
  <2>2. Fits(t, "unlockTx") /\ Fits(t, "place")
    BY <2>1 DEF Fits, Using, DaemonLabels, Within
  <2>. QED  BY <1>12, <2>2, FitsGoto DEF CheckStill
<1>13. CASE Place(t)
  <2>1. Within(t) /\ Fits(t, "place")
    BY <1>13, InCallIs DEF Place
  <2>2. Fits(t, "unlockTx")
    BY <2>1 DEF Fits, Using, DaemonLabels, Within
  <2>. QED  BY <1>13, <2>2, FitsGoto DEF Place
<1>14. CASE UnlockTx(t)
  <2>1. Within(t) /\ Fits(t, "unlockTx")
    BY <1>14, InCallIs DEF UnlockTx
  <2>2. Fits(t, "unlockRx")
    BY <2>1 DEF Fits, Using, DaemonLabels, Within
  <2>. QED  BY <1>14, <2>2, FitsGoto DEF UnlockTx
<1>15. CASE UnlockRx(t)
  <2>1. Within(t)
    BY <1>15, InCallIs DEF UnlockRx
  <2>2. Fits(t, "resume")
    BY <2>1, MostFit DEF OnlySome, DaemonLabels
  <2>. QED  BY <1>15, <2>2, FitsGoto DEF UnlockRx
<1>16. CASE Resume(t)
  <2>0. program' = program /\ At(t, "resume") /\ Call(t).op \in Blocking
    BY <1>16 DEF Resume
  <2>1. Within(t)
    BY <2>0, InCallIs
  <2>2. Fits(t, "call")
    BY <2>1, MostFit DEF OnlySome, DaemonLabels
  <2>3. CASE Return(t, << >>)
    BY <2>0, <2>3, FitsReturn
  <2>4. CASE ~ local[t].expired /\ Goto(t, [placed |-> FALSE, expired |-> FALSE, pc |-> "call"])
    BY <2>0, <2>2, <2>4, FitsGoto
  <2>5. CASE local[t].expired /\ Call(t).op \notin Sends
             /\ Goto(t, [placed |-> FALSE, expired |-> FALSE, pc |-> "expired"])
    <3>1. Fits(t, "expired")
      BY <2>0, <2>1 DEF Fits, Using, DaemonLabels, Within
    <3>. QED  BY <2>0, <2>5, <3>1, FitsGoto
  <2>. QED  BY <1>16, <2>3, <2>4, <2>5 DEF Resume
<1>17. CASE GiveUp(t)
  <2>0. program' = program /\ At(t, "expired")
    BY <1>17 DEF GiveUp
  <2>1. Within(t) /\ Fits(t, "expired")
    BY <2>0, InCallIs
  <2>2. Fits(t, "call") /\ Fits(t, "disinherit")
    BY <2>1 DEF Fits, Using, DaemonLabels, Within
  <2>3. CASE Return(t, << >>)
    BY <2>0, <2>3, FitsReturn
  <2>4. CASE Goto(t, [pc |-> "call"])
    BY <2>0, <2>2, <2>4, FitsGoto
  <2>5. CASE Goto(t, [pc |-> "disinherit"])
    BY <2>0, <2>2, <2>5, FitsGoto
  <2>. QED  BY <1>17, <2>3, <2>4, <2>5 DEF GiveUp
<1>18. CASE DisinheritAfterTimeout(t)
  BY <1>18, FitsReturn DEF DisinheritAfterTimeout
<1>. QED  BY <1>1, <1>2, <1>3, <1>4, <1>5, <1>6, <1>7, <1>8, <1>9, <1>10, <1>11, <1>12, <1>13,
             <1>14, <1>15, <1>16, <1>17, <1>18 DEF QueueStep

LEMMA CallWithin ==
    ASSUME QueueInv, NEW t \in Tasks, NEW operations, Calls(t, operations)
    PROVE  Within(t)
BY BeginsCall DEF Within

\* The steps of the other calls of a task: to a label that fits any call, or to
\* the next call.
GoesWithin(t) ==
    \/ Return(t, << >>)
    \/ \E changes : /\ Goto(t, changes) /\ "at" \notin DOMAIN changes
                    /\ "pc" \in DOMAIN changes => changes.pc = "call" \/ (Within(t) /\ changes.pc \notin OnlySome)

LEMMA FitsWithin ==
    ASSUME QueueInv, LabelsFit, TimersFit', program' = program, NEW t \in Tasks, GoesWithin(t)
    PROVE  LabelsFit'
<1>1. CASE Return(t, << >>)
  BY <1>1, FitsReturn
<1>2. CASE ~ Return(t, << >>)
  <2>1. PICK changes : /\ Goto(t, changes) /\ "at" \notin DOMAIN changes
                       /\ "pc" \in DOMAIN changes => changes.pc = "call" \/ (Within(t) /\ changes.pc \notin OnlySome)
    BY <1>2 DEF GoesWithin
  <2>. QED  BY <2>1, FitsNext
<1>. QED  BY <1>1, <1>2

LEMMA GotoWithin ==
    ASSUME NEW t, NEW changes, Goto(t, changes), "at" \notin DOMAIN changes,
           "pc" \in DOMAIN changes => changes.pc = "call" \/ (Within(t) /\ changes.pc \notin OnlySome)
    PROVE  GoesWithin(t)
BY DEF GoesWithin

LEMMA OtherStepsFit ==
    ASSUME QueueInv, LabelsFit, TimersFit', NEW t \in Tasks, OtherStep(t)
    PROVE  LabelsFit'
<1>0. program' = program
  BY DEF OtherStep, Delay, DelayNothing, DelayUntil, ReturnFromDelay, WaitForNotification, NotifyTaken,
     WaitBits, SetBits, SyncBits, BitsCame, ReadBits, ClearBits, DeleteGroup, ResumeOther, TaskCall,
     AbortDelayOf, Exit
<1>1. CASE Exit(t)
  <2>1. local' = local
    BY <1>1 DEF Exit
  <2>. QED  BY <1>0, <2>1, FitsSame
<1>2. CASE DelayNothing(t) \/ ReturnFromDelay(t) \/ NotifyTaken(t) \/ BitsCame(t) \/ ReadBits(t)
           \/ ClearBits(t) \/ TaskCall(t)
  <2>1. Return(t, << >>)
    BY <1>2 DEF DelayNothing, ReturnFromDelay, NotifyTaken, BitsCame, ReadBits, ClearBits, TaskCall
  <2>. QED  BY <1>0, <2>1, FitsReturn
<1>3. CASE Delay(t) \/ DelayUntil(t) \/ WaitForNotification(t) \/ SetBits(t) \/ DeleteGroup(t)
           \/ AbortDelayOf(t)
  <2>1. Within(t)
    BY <1>3, CallWithin DEF Delay, DelayUntil, WaitForNotification, SetBits, DeleteGroup, AbortDelayOf
  <2>2. CASE Delay(t)
    <3>1. GoesWithin(t)
      BY <2>1, <2>2, GotoWithin DEF Delay, OnlySome, DaemonLabels
    <3>. QED  BY <1>0, <3>1, FitsWithin
  <2>3. CASE DelayUntil(t)
    <3>1. GoesWithin(t)
      BY <2>1, <2>3, GotoWithin DEF DelayUntil, OnlySome, DaemonLabels
    <3>. QED  BY <1>0, <3>1, FitsWithin
  <2>4. CASE WaitForNotification(t)
    <3>1. GoesWithin(t)
      BY <2>1, <2>4, GotoWithin DEF WaitForNotification, OnlySome, DaemonLabels
    <3>. QED  BY <1>0, <3>1, FitsWithin
  <2>5. CASE SetBits(t) \/ DeleteGroup(t) \/ AbortDelayOf(t)
    <3>1. Goto(t, [pc |-> "resume"])
      BY <2>5 DEF SetBits, DeleteGroup, AbortDelayOf
    <3>2. GoesWithin(t)
      BY <2>1, <3>1, GotoWithin DEF OnlySome, DaemonLabels
    <3>. QED  BY <1>0, <3>2, FitsWithin
  <2>. QED  BY <1>3, <2>2, <2>3, <2>4, <2>5
<1>4. CASE WaitBits(t) \/ SyncBits(t)
  <2>1. Within(t)
    BY <1>4, CallWithin DEF WaitBits, SyncBits
  <2>2. Goto(t, [pc |-> "resume"])
        \/ Goto(t, [pc |-> "resume", placed |-> TRUE, deadline |-> Deadline(Call(t).wait)])
    BY <1>4 DEF WaitBits, SyncBits, WaitForBits
  <2>3. GoesWithin(t)
    <3>1. CASE Goto(t, [pc |-> "resume"])
      BY <2>1, <3>1, GotoWithin DEF OnlySome, DaemonLabels
    <3>2. CASE Goto(t, [pc |-> "resume", placed |-> TRUE, deadline |-> Deadline(Call(t).wait)])
      BY <2>1, <3>2, GotoWithin DEF OnlySome, DaemonLabels
    <3>. QED  BY <2>2, <3>1, <3>2
  <2>. QED  BY <1>0, <2>3, FitsWithin
<1>5. CASE ResumeOther(t)
  <2>1. Within(t)
    BY <1>5, InCallIs DEF ResumeOther
  <2>2. \/ Return(t, << >>) \/ Goto(t, [pc |-> "readBits"]) \/ Goto(t, [pc |-> "woken"])
        \/ Goto(t, [pc |-> "bits"])
    BY <1>5 DEF ResumeOther
  <2>3. GoesWithin(t)
    <3>1. CASE Return(t, << >>)
      BY <3>1 DEF GoesWithin
    <3>2. CASE Goto(t, [pc |-> "readBits"])
      BY <2>1, <3>2, GotoWithin DEF OnlySome, DaemonLabels
    <3>3. CASE Goto(t, [pc |-> "woken"])
      BY <2>1, <3>3, GotoWithin DEF OnlySome, DaemonLabels
    <3>4. CASE Goto(t, [pc |-> "bits"])
      BY <2>1, <3>4, GotoWithin DEF OnlySome, DaemonLabels
    <3>. QED  BY <2>2, <3>1, <3>2, <3>3, <3>4
  <2>. QED  BY <1>0, <2>3, FitsWithin
<1>. QED  BY <1>1, <1>2, <1>3, <1>4, <1>5 DEF OtherStep

\* The calls on buffers.
BufferLabels == StreamLabels \cup {"resume"}
LEMMA StreamStepsFit ==
    ASSUME QueueInv, LabelsFit, TimersFit', NEW t \in Tasks, StreamStep(t)
    PROVE  LabelsFit'
<1>0. /\ program' = program
      /\ BufferLabels \cap OnlySome = {} /\ "call" \notin BufferLabels
  BY DEF StreamStep, StreamSend, CheckSpace, SendTimeout, WriteStream, WriteData, TestTrigger, StreamWait,
     StreamWaited, Forget, Complete, NotifyPeer, ForgetPeer, StreamReceive, Recheck, ReadStream, ReadData,
     NextLength, BufferLabels, StreamLabels, OnlySome, DaemonLabels
<1>1. Within(t)
  <2>1. CASE StreamSend(t) \/ StreamReceive(t) \/ NextLength(t)
    BY <2>1, CallWithin DEF StreamSend, StreamReceive, NextLength
  <2>2. CASE \E label \in BufferLabels : At(t, label)
    BY <1>0, <2>2, InCallIs
  <2>. QED  BY <2>1, <2>2 DEF StreamStep, CheckSpace, SendTimeout, WriteStream, WriteData, TestTrigger,
            StreamWait, StreamWaited, Forget, Complete, NotifyPeer, ForgetPeer, Recheck, ReadStream, ReadData,
            BufferLabels, StreamLabels
<1>2. \/ Return(t, << >>)
      \/ \E changes : Goto(t, changes) /\ "at" \notin DOMAIN changes /\ changes.pc \in BufferLabels
  <2>a. ASSUME NEW changes, Goto(t, changes), "at" \notin DOMAIN changes, changes.pc \in BufferLabels
        PROVE  \E c : Goto(t, c) /\ "at" \notin DOMAIN c /\ c.pc \in BufferLabels
    BY <2>a
  <2>1. CASE StreamSend(t)
    BY <2>1, <2>a DEF StreamSend, BufferLabels, StreamLabels
  <2>2. CASE CheckSpace(t)
    BY <2>2, <2>a DEF CheckSpace, BufferLabels, StreamLabels
  <2>3. CASE SendTimeout(t)
    BY <2>3, <2>a DEF SendTimeout, BufferLabels, StreamLabels
  <2>4. CASE WriteStream(t)
    BY <2>4, <2>a DEF WriteStream, BufferLabels, StreamLabels
  <2>5. CASE WriteData(t)
    BY <2>5, <2>a DEF WriteData, BufferLabels, StreamLabels
  <2>6. CASE TestTrigger(t)
    BY <2>6, <2>a DEF TestTrigger, BufferLabels, StreamLabels
  <2>7. CASE StreamWait(t)
    BY <2>7, <2>a DEF StreamWait, BufferLabels, StreamLabels
  <2>8. CASE StreamWaited(t)
    BY <2>8, <2>a DEF StreamWaited, BufferLabels, StreamLabels
  <2>9. CASE Forget(t)
    BY <2>9, <2>a DEF Forget, BufferLabels, StreamLabels
  <2>10. CASE Complete(t)
    BY <2>10, <2>a DEF Complete, BufferLabels, StreamLabels
  <2>11. CASE NotifyPeer(t)
    BY <2>11, <2>a DEF NotifyPeer, BufferLabels, StreamLabels
  <2>12. CASE ForgetPeer(t)
    BY <2>12, <2>a DEF ForgetPeer, BufferLabels, StreamLabels
  <2>13. CASE StreamReceive(t)
    BY <2>13, <2>a DEF StreamReceive, BufferLabels, StreamLabels
  <2>14. CASE Recheck(t)
    BY <2>14, <2>a DEF Recheck, BufferLabels, StreamLabels
  <2>15. CASE ReadStream(t)
    BY <2>15, <2>a DEF ReadStream, BufferLabels, StreamLabels
  <2>16. CASE ReadData(t)
    BY <2>16, <2>a DEF ReadData, BufferLabels, StreamLabels
  <2>17. CASE NextLength(t)
    BY <2>17, <2>a DEF NextLength, BufferLabels, StreamLabels
  <2>. QED  BY <2>1, <2>2, <2>3, <2>4, <2>5, <2>6, <2>7, <2>8, <2>9, <2>10, <2>11, <2>12, <2>13, <2>14,
               <2>15, <2>16, <2>17 DEF StreamStep
<1>. QED  BY <1>0, <1>1, <1>2, FitsWithin DEF GoesWithin

\* The wall clock.
LEMMA ClockStepsFit ==
    ASSUME QueueInv, LabelsFit, TimersFit', NEW t \in Tasks, ClockStep(t)
    PROVE  LabelsFit'
<1>0. program' = program
  BY DEF ClockStep, ReadClock, SleepFor, BeginSetClock, StoreClock
<1>1. CASE ReadClock(t) \/ SleepFor(t)
  <2>1. PICK changes : Goto(t, changes) /\ DOMAIN changes = {"asked", "asker", "due"}
    BY <1>1 DEF ReadClock, SleepFor, WaitUntil, WaitFor
  <2>. QED  BY <1>0, <2>1, FitsNext
<1>2. CASE BeginSetClock(t)
  <2>1. Within(t) /\ Goto(t, [pc |-> "storeClock", clock |-> ClockSetTo(Call(t).time)])
    BY <1>2, CallWithin DEF BeginSetClock
  <2>2. GoesWithin(t)
    BY <2>1, GotoWithin DEF OnlySome, DaemonLabels
  <2>. QED  BY <1>0, <2>2, FitsWithin
<1>3. CASE StoreClock(t)
  BY <1>0, <1>3, FitsReturn DEF StoreClock
<1>. QED  BY <1>1, <1>2, <1>3 DEF ClockStep

\* The timer task: where a label is only its own, it is in its only call.
LEMMA DaemonFits ==
    ASSUME NEW t, Within(t), Using(t, {"daemon"}), NEW label,
           label \in DaemonLabels \cup {"call", "check", "place", "unlockTx", "unlockRx", "resume"}
    PROVE  Fits(t, label)
BY DEF Fits, Using, Within, DaemonLabels

LEMMA DaemonStepsFit ==
    ASSUME QueueInv, LabelsFit, TimersFit', NEW t \in Tasks, ComposeCommand(t) \/ DaemonStep(t)
    PROVE  LabelsFit'
<1>0. /\ program' = program
      /\ timers.then \in DaemonLabels /\ timers.switched \in DaemonLabels
  BY DEF ComposeCommand, DaemonStep, LookAtTimers, AwaitCommand, PlaceDaemon, ResumeDaemon, ExpireTimer,
     Callback, SwitchOne, ReloadSwitched, SwitchLists, ReceiveCommand, SampleTime, ApplyStart, ReloadStarted,
     ApplyChangePeriod, ApplyStop, LabelsFit, TimersFit, DaemonLabels
<1>1. CASE ComposeCommand(t)
  <2>1. Goto(t, [message |-> Message(Call(t))])
    BY <1>1 DEF ComposeCommand
  <2>. QED  BY <1>0, <2>1, FitsNext
<1>2. CASE DaemonStep(t)
  <2>1. Within(t) /\ Using(t, {"daemon"})
    <3>1. CASE LookAtTimers(t)
      BY <3>1, CallWithin, DaemonIs DEF LookAtTimers
    <3>2. CASE \E label \in DaemonLabels : At(t, label)
      <4>1. PICK label \in DaemonLabels : At(t, label)
        BY <3>2
      <4>2. label # "call"
        BY <4>1 DEF DaemonLabels
      <4>. QED  BY <4>1, <4>2, InCallIs, DaemonIs
    <3>3. CASE PlaceDaemon(t) \/ (At(t, "resume") /\ Call(t).op = "daemon")
      <4>1. Within(t) /\ Call(t).op = "daemon"
        BY <3>3, InCallIs DEF PlaceDaemon
      <4>. QED  BY <4>1 DEF Within, Using
    <3>. QED  BY <1>2, <3>1, <3>2, <3>3 DEF DaemonStep, AwaitCommand, ResumeDaemon, ExpireTimer,
              Callback, SwitchOne, ReloadSwitched, SwitchLists, ReceiveCommand, SampleTime, ApplyStart,
              ReloadStarted, ApplyChangePeriod, ApplyStop, DaemonLabels
  <2>2. \E changes : /\ Goto(t, changes) /\ "at" \notin DOMAIN changes /\ "pc" \in DOMAIN changes
                     /\ changes.pc \in DaemonLabels \cup {"call", "check", "unlockTx"}
    <3>a. ASSUME NEW changes, Goto(t, changes), "at" \notin DOMAIN changes, "pc" \in DOMAIN changes,
                 changes.pc \in DaemonLabels \cup {"call", "check", "unlockTx"}
          PROVE  \E c : /\ Goto(t, c) /\ "at" \notin DOMAIN c /\ "pc" \in DOMAIN c
                        /\ c.pc \in DaemonLabels \cup {"call", "check", "unlockTx"}
      BY <3>a
    <3>1. CASE LookAtTimers(t)
      BY <3>1, <3>a DEF LookAtTimers, DaemonLabels
    <3>2. CASE AwaitCommand(t)
      BY <3>2, <3>a DEF AwaitCommand
    <3>3. CASE PlaceDaemon(t)
      BY <3>3, <3>a DEF PlaceDaemon
    <3>4. CASE ResumeDaemon(t)
      BY <3>4, <3>a DEF ResumeDaemon, DaemonLabels
    <3>5. CASE ExpireTimer(t)
      BY <3>5, <3>a DEF ExpireTimer, DaemonLabels
    <3>6. CASE Callback(t)
      BY <1>0, <3>6, <3>a DEF Callback
    <3>7. CASE SwitchOne(t)
      BY <3>7, <3>a DEF SwitchOne, DaemonLabels
    <3>8. CASE ReloadSwitched(t)
      BY <3>8, <3>a DEF ReloadSwitched, DaemonLabels
    <3>9. CASE SwitchLists(t)
      BY <1>0, <3>9, <3>a DEF SwitchLists
    <3>10. CASE ReceiveCommand(t)
      BY <3>10, <3>a DEF ReceiveCommand, DaemonLabels
    <3>11. CASE SampleTime(t)
      BY <3>11, <3>a DEF SampleTime, DaemonLabels
    <3>12. CASE ApplyStart(t)
      BY <3>12, <3>a DEF ApplyStart, DaemonLabels
    <3>13. CASE ReloadStarted(t)
      BY <3>13, <3>a DEF ReloadStarted, DaemonLabels
    <3>14. CASE ApplyChangePeriod(t)
      BY <3>14, <3>a DEF ApplyChangePeriod, DaemonLabels
    <3>15. CASE ApplyStop(t)
      BY <3>15, <3>a DEF ApplyStop, DaemonLabels
    <3>. QED  BY <1>2, <3>1, <3>2, <3>3, <3>4, <3>5, <3>6, <3>7, <3>8, <3>9, <3>10, <3>11, <3>12, <3>13,
                 <3>14, <3>15 DEF DaemonStep
  <2>3. PICK changes : /\ Goto(t, changes) /\ "at" \notin DOMAIN changes
                       /\ changes.pc \in DaemonLabels \cup {"call", "check", "unlockTx"}
    BY <2>2
  <2>4. Fits(t, changes.pc)
    BY <2>1, <2>3, DaemonFits
  <2>. QED  BY <1>0, <2>3, <2>4, FitsGoto
<1>. QED  BY <1>1, <1>2

\* Every step of the system.
LEMMA LabelsStillFit ==
    ASSUME QueueInv, LabelsFit, SystemNext
    PROVE  LabelsFit'
<1>1. ASSUME timers' = timers PROVE TimersFit'
  BY <1>1 DEF LabelsFit, TimersFit
<1>2. CASE \E t \in Tasks : ComposeCommand(t) \/ DaemonStep(t)
  BY <1>2, TimersStillFit, DaemonStepsFit DEF LabelsFit
<1>3. CASE \E t \in Tasks : (QueueStep(t) \/ OtherStep(t)) /\ timers' = timers
  BY <1>1, <1>3, QueueStepsFit, OtherStepsFit
<1>4. CASE \E t \in Tasks : (StreamStep(t) \/ ClockStep(t)) /\ timers' = timers
  BY <1>1, <1>4, StreamStepsFit, ClockStepsFit
<1>5. CASE /\ Switch \/ IdleCleansUp \/ Interrupt \/ StreamInterrupt \/ CommandInterrupt \/ TickInterrupt
           /\ timers' = timers
  <2>1. program' = program /\ local' = local
    BY <1>5 DEF Switch, IdleCleansUp, Interrupt, StreamInterrupt, CommandInterrupt, TickInterrupt,
       SendInterrupt, ReceiveInterrupt, TaskInterrupt, StreamSendInterrupt, StreamReceiveInterrupt, Raise
  <2>. QED  BY <1>1, <1>5, <2>1, FitsSame
<1>. QED  BY <1>2, <1>3, <1>4, <1>5
          DEF SystemNext, SystemProcessor, SystemInterrupt, Tick, Processor, CommandInterrupt

(***************************************************************************)
(* What holds a mutex and what waits for a buffer stay tasks.              *)
(***************************************************************************)

HolderFits(q) == "holder" \in DOMAIN q /\ q.holder \in Someone

LEMMA HolderKept ==
    ASSUME NEW q, HolderFits(q)
    PROVE  /\ HolderFits(Received(q)) /\ HolderFits(LockQueue(q))
           /\ HolderFits(CountTx(q)) /\ HolderFits(CountRx(q))
           /\ \A value, position : HolderFits(CopyDataToQueue(q, value, position))
           /\ \A t \in Tasks : HolderFits(Taken(q, t))
           /\ \A n : /\ HolderFits([q EXCEPT !.calls = n]) /\ HolderFits([q EXCEPT !.txLock = n])
                     /\ HolderFits([q EXCEPT !.rxLock = n])
<1>1. HolderFits(Received(q)) /\ HolderFits(LockQueue(q)) /\ HolderFits(CountTx(q)) /\ HolderFits(CountRx(q))
  BY DEF HolderFits, Received, LockQueue, CountTx, CountRx
<1>2. ASSUME NEW value, NEW position PROVE HolderFits(CopyDataToQueue(q, value, position))
  <2>1. CASE ~ HoldsData(q)
    BY <2>1 DEF HolderFits, CopyDataToQueue, Someone
  <2>2. CASE HoldsData(q) /\ position = "back"
    BY <2>2 DEF HolderFits, CopyDataToQueue
  <2>3. CASE HoldsData(q) /\ position # "back"
    BY <2>3 DEF HolderFits, CopyDataToQueue
  <2>. QED  BY <2>1, <2>2, <2>3
<1>3. \A t \in Tasks : HolderFits(Taken(q, t))
  BY DEF HolderFits, Taken, Someone
<1>4. \A n : /\ HolderFits([q EXCEPT !.calls = n]) /\ HolderFits([q EXCEPT !.txLock = n])
             /\ HolderFits([q EXCEPT !.rxLock = n])
  BY DEF HolderFits
<1>. QED  BY <1>1, <1>2, <1>3, <1>4

\* A step that changes one queue: a program's queues are sound anyway.
LEMMA HoldersAfter ==
    ASSUME QueueInv, QueueInv', HoldersAreTasks, NEW o, NEW r, queues' = [queues EXCEPT ![o] = r],
           o \in Objects => HolderFits(r)
    PROVE  HoldersAreTasks'
<1>1. ASSUME NEW p \in Objects PROVE "holder" \in DOMAIN queues'[p] /\ queues'[p].holder \in Someone
  <2>1. CASE p = o
    BY <2>1 DEF HolderFits, QueueInv
  <2>2. CASE p # o
    BY <2>2 DEF HoldersAreTasks, QueueInv
  <2>. QED  BY <2>1, <2>2
<1>. QED  BY <1>1 DEF HoldersAreTasks, Someone

LEMMA HoldersSame ==
    ASSUME HoldersAreTasks, queues' = queues
    PROVE  HoldersAreTasks'
BY DEF HoldersAreTasks, Someone

LEMMA QueueHolders ==
    ASSUME QueueInv, QueueInv', HoldersAreTasks, NEW t \in Tasks, QueueStep(t)
    PROVE  HoldersAreTasks'
<1>0. PICK o, q : o = Object(t) /\ q = queues[o] /\ (o \in Objects => HolderFits(q))
  BY DEF HoldersAreTasks, HolderFits
<1>1. CASE queues' = queues
  BY <1>1, HoldersSame
<1>2. CASE SendNow(t)
  <2>1. PICK r : r = CopyDataToQueue(q, Value(t), Call(t).position)
    OBVIOUS
  <2>2. queues' = [queues EXCEPT ![o] = r]
    BY <1>0, <1>2, <2>1 DEF SendNow
  <2>. QED  BY <1>0, <2>1, <2>2, HolderKept, HoldersAfter
<1>3. CASE ReceiveNow(t)
  <2>1. PICK r : r = Received(q)
    OBVIOUS
  <2>2. queues' = [queues EXCEPT ![o] = r]
    BY <1>0, <1>3, <2>1 DEF ReceiveNow
  <2>. QED  BY <1>0, <2>1, <2>2, HolderKept, HoldersAfter
<1>4. CASE TakeNow(t)
  <2>1. PICK s : s = Taken(q, t)
    OBVIOUS
  <2>2. PICK n : queues' = [queues EXCEPT ![o] = [s EXCEPT !.calls = n]]
    BY <1>0, <1>4, <2>1 DEF TakeNow, Queue
  <2>3. o \in Objects => HolderFits(s)
    BY <1>0, <2>1, HolderKept
  <2>4. o \in Objects => HolderFits([s EXCEPT !.calls = n])
    BY <2>3, HolderKept
  <2>. QED  BY <2>2, <2>4, HoldersAfter
<1>5. CASE TakeAgain(t) \/ GiveOnce(t)
  <2>1. PICK n : queues' = [queues EXCEPT ![o] = [q EXCEPT !.calls = n]]
    BY <1>0, <1>5 DEF TakeAgain, GiveOnce
  <2>2. o \in Objects => HolderFits([q EXCEPT !.calls = n])
    BY <1>0, HolderKept
  <2>. QED  BY <2>1, <2>2, HoldersAfter
<1>6. CASE Give(t)
  <2>1. PICK s : s = CopyDataToQueue(q, None, "back")
    OBVIOUS
  <2>2. queues' = [queues EXCEPT ![o] = [s EXCEPT !.calls = 0]]
    BY <1>0, <1>6, <2>1 DEF Give
  <2>3. o \in Objects => HolderFits(s)
    BY <1>0, <2>1, HolderKept
  <2>4. o \in Objects => HolderFits([s EXCEPT !.calls = 0])
    BY <2>3, HolderKept
  <2>. QED  BY <2>2, <2>4, HoldersAfter
<1>7. CASE LockAndCheck(t)
  <2>1. PICK r : r = LockQueue(q)
    OBVIOUS
  <2>2. queues' = [queues EXCEPT ![o] = r]
    BY <1>0, <1>7, <2>1 DEF LockAndCheck
  <2>. QED  BY <1>0, <2>1, <2>2, HolderKept, HoldersAfter
<1>8. CASE UnlockTx(t)
  <2>1. queues' = [queues EXCEPT ![o] = [q EXCEPT !.txLock = Unlocked]]
    BY <1>0, <1>8 DEF UnlockTx
  <2>2. o \in Objects => HolderFits([q EXCEPT !.txLock = Unlocked])
    BY <1>0, HolderKept
  <2>. QED  BY <2>1, <2>2, HoldersAfter
<1>9. CASE UnlockRx(t)
  <2>1. queues' = [queues EXCEPT ![o] = [q EXCEPT !.rxLock = Unlocked]]
    BY <1>0, <1>9 DEF UnlockRx
  <2>2. o \in Objects => HolderFits([q EXCEPT !.rxLock = Unlocked])
    BY <1>0, HolderKept
  <2>. QED  BY <2>1, <2>2, HoldersAfter
<1>. QED  BY <1>1, <1>2, <1>3, <1>4, <1>5, <1>6, <1>7, <1>8, <1>9
          DEF QueueStep, PeekNow, GiveNothing, Refuse, GoWait, CheckStill, Place, Resume, GiveUp,
              DisinheritAfterTimeout

LEMMA DaemonHolders ==
    ASSUME QueueInv, QueueInv', HoldersAreTasks, NEW t \in Tasks, ComposeCommand(t) \/ DaemonStep(t)
    PROVE  HoldersAreTasks'
<1>0. PICK q : q = queues[TimerQueue] /\ HolderFits(q)
  BY ListAssumption DEF HoldersAreTasks, HolderFits
<1>1. ASSUME NEW h, NEW value, SendReload(h, value) PROVE HoldersAreTasks'
  <2>1. CASE queues' = queues
    BY <2>1, HoldersSame
  <2>2. CASE queues' # queues
    <3>1. PICK reload : queues' = [queues EXCEPT ![TimerQueue] = CopyDataToQueue(q, reload, "back")]
      BY <1>0, <1>1, <2>2 DEF SendReload
    <3>2. HolderFits(CopyDataToQueue(q, reload, "back"))
      BY <1>0, HolderKept
    <3>. QED  BY <3>1, <3>2, HoldersAfter
  <2>. QED  BY <2>1, <2>2
<1>2. CASE queues' = queues
  BY <1>2, HoldersSame
<1>3. CASE AwaitCommand(t)
  <2>1. queues' = [queues EXCEPT ![TimerQueue] = LockQueue(q)]
    BY <1>0, <1>3 DEF AwaitCommand
  <2>2. HolderFits(LockQueue(q))
    BY <1>0, HolderKept
  <2>. QED  BY <2>1, <2>2, HoldersAfter
<1>4. CASE ReceiveCommand(t) /\ queues' # queues
  <2>1. queues' = [queues EXCEPT ![TimerQueue] = Received(q)]
    BY <1>0, <1>4 DEF ReceiveCommand
  <2>2. HolderFits(Received(q))
    BY <1>0, HolderKept
  <2>. QED  BY <2>1, <2>2, HoldersAfter
<1>5. CASE ExpireTimer(t) \/ ReloadSwitched(t) \/ ReloadStarted(t)
  BY <1>1, <1>2, <1>5 DEF ExpireTimer, ReloadSwitched, ReloadStarted
<1>. QED  BY <1>2, <1>3, <1>4, <1>5
          DEF ComposeCommand, DaemonStep, LookAtTimers, PlaceDaemon, ResumeDaemon, Callback, SwitchOne,
              SwitchLists, SampleTime, ApplyStart, ApplyChangePeriod, ApplyStop

LEMMA InterruptHolders ==
    ASSUME QueueInv, QueueInv', HoldersAreTasks, SendInterrupt \/ ReceiveInterrupt \/ CommandInterrupt
    PROVE  HoldersAreTasks'
<1>1. CASE queues' = queues
  BY <1>1, HoldersSame
<1>2. CASE SendInterrupt /\ queues' # queues
  <2>1. PICK o, q : o = Raised.object /\ q = queues[o] /\ (o \in Objects => HolderFits(q))
    BY DEF HoldersAreTasks, HolderFits
  <2>2. PICK r : r = CopyDataToQueue(q, Raised.value, "back")
    OBVIOUS
  <2>3. queues' = [queues EXCEPT ![o] = CountTx(r)]
    BY <1>2, <2>1, <2>2 DEF SendInterrupt
  <2>4. o \in Objects => HolderFits(r)
    BY <2>1, <2>2, HolderKept
  <2>5. o \in Objects => HolderFits(CountTx(r))
    BY <2>4, HolderKept
  <2>. QED  BY <2>3, <2>5, HoldersAfter
<1>3. CASE ReceiveInterrupt /\ queues' # queues
  <2>1. PICK o, q : o = Raised.object /\ q = queues[o] /\ (o \in Objects => HolderFits(q))
    BY DEF HoldersAreTasks, HolderFits
  <2>2. PICK r : r = Received(q)
    OBVIOUS
  <2>3. queues' = [queues EXCEPT ![o] = CountRx(r)]
    BY <1>3, <2>1, <2>2 DEF ReceiveInterrupt
  <2>4. o \in Objects => HolderFits(r)
    BY <2>1, <2>2, HolderKept
  <2>5. o \in Objects => HolderFits(CountRx(r))
    BY <2>4, HolderKept
  <2>. QED  BY <2>3, <2>5, HoldersAfter
<1>4. CASE CommandInterrupt /\ queues' # queues
  <2>1. PICK q : q = queues[TimerQueue] /\ HolderFits(q)
    BY ListAssumption DEF HoldersAreTasks, HolderFits
  <2>2. PICK r : r = CopyDataToQueue(q, Message(Raised), "back")
    OBVIOUS
  <2>3. queues' = [queues EXCEPT ![TimerQueue] = CountTx(r)]
    BY <1>4, <2>1, <2>2 DEF CommandInterrupt
  <2>4. HolderFits(r)
    BY <2>1, <2>2, HolderKept
  <2>5. HolderFits(CountTx(r))
    BY <2>4, HolderKept
  <2>. QED  BY <2>3, <2>5, HoldersAfter
<1>. QED  BY <1>1, <1>2, <1>3, <1>4

LEMMA HoldersStillTasks ==
    ASSUME QueueInv, QueueInv', HoldersAreTasks, SystemNext
    PROVE  HoldersAreTasks'
<1>1. CASE \E t \in Tasks : QueueStep(t) \/ ComposeCommand(t) \/ DaemonStep(t)
  BY <1>1, QueueHolders, DaemonHolders
<1>2. CASE SendInterrupt \/ ReceiveInterrupt \/ CommandInterrupt
  BY <1>2, InterruptHolders
<1>3. CASE queues' = queues
  BY <1>3, HoldersSame
<1>4. CASE \E t \in Tasks : OtherStep(t)
  BY <1>3, <1>4 DEF OtherStep, Delay, DelayNothing, DelayUntil, ReturnFromDelay, WaitForNotification,
     NotifyTaken, WaitBits, SetBits, SyncBits, BitsCame, ReadBits, ClearBits, DeleteGroup, ResumeOther,
     TaskCall, AbortDelayOf, Exit
<1>5. CASE \E t \in Tasks : StreamStep(t)
  BY <1>3, <1>5 DEF StreamStep, StreamSend, CheckSpace, SendTimeout, WriteStream, WriteData, TestTrigger,
     StreamWait, StreamWaited, Forget, Complete, NotifyPeer, ForgetPeer, StreamReceive, Recheck, ReadStream,
     ReadData, NextLength
<1>6. CASE (\E t \in Tasks : ClockStep(t)) \/ Switch \/ IdleCleansUp \/ TaskInterrupt \/ StreamInterrupt
           \/ TickInterrupt
  BY <1>3, <1>6 DEF ClockStep, ReadClock, SleepFor, BeginSetClock, StoreClock, Switch, IdleCleansUp,
     TaskInterrupt, StreamInterrupt, StreamSendInterrupt, StreamReceiveInterrupt, TickInterrupt
<1>. QED  BY <1>1, <1>2, <1>4, <1>5, <1>6
          DEF SystemNext, SystemProcessor, SystemInterrupt, Tick, Processor, Interrupt

PeerFits(s) ==
    /\ {"waitingToReceive", "waitingToSend", "isMessage", "trigger"} \subseteq DOMAIN s
    /\ s.waitingToReceive \in Someone /\ s.waitingToSend \in Someone
    /\ s.isMessage => s.trigger = 1

LEMMA PeerKept ==
    ASSUME NEW s, PeerFits(s)
    PROVE  /\ \A values : PeerFits(Written(s, values))
           /\ \A n : PeerFits(Advanced(s, n)) /\ PeerFits(Sent(s, n)) /\ PeerFits(Got(s, n))
           /\ PeerFits(PutLengthBack(s))
           /\ \A t \in Someone : /\ PeerFits([s EXCEPT !.waitingToReceive = t])
                                 /\ PeerFits([s EXCEPT !.waitingToSend = t])
<1>1. ASSUME NEW r, PeerFits(r), NEW values PROVE PeerFits(Written(r, values))
  BY <1>1 DEF PeerFits, Written
<1>2. ASSUME NEW r, PeerFits(r), NEW n PROVE PeerFits(Advanced(r, n))
  BY <1>2 DEF PeerFits, Advanced
<1>3. ASSUME NEW n PROVE PeerFits(Sent(s, n))
  <2>1. PICK r, data : r = Written(s, data) /\ data = NewData(s, n) /\ PeerFits(r)
    BY <1>1
  <2>. QED  BY <2>1 DEF Sent, PeerFits
<1>4. ASSUME NEW n PROVE PeerFits(Got(s, n))
  <2>1. PICK r : r = Advanced(s, n) /\ PeerFits(r)
    BY <1>2
  <2>. QED  BY <2>1 DEF Got, PeerFits
<1>5. PeerFits(PutLengthBack(s))
  BY DEF PeerFits, PutLengthBack
<1>6. \A t \in Someone : /\ PeerFits([s EXCEPT !.waitingToReceive = t])
                         /\ PeerFits([s EXCEPT !.waitingToSend = t])
  BY DEF PeerFits
<1>. QED  BY <1>1, <1>2, <1>3, <1>4, <1>5, <1>6

LEMMA PeersAfter ==
    ASSUME PeersAreTasks, NEW b, NEW r, streams' = [streams EXCEPT ![b] = r],
           b \in Streams => PeerFits(r)
    PROVE  PeersAreTasks'
BY DEF PeersAreTasks, PeerFits, Someone

LEMMA PeersSame ==
    ASSUME PeersAreTasks, streams' = streams
    PROVE  PeersAreTasks'
BY DEF PeersAreTasks, Someone

LEMMA StreamPeers ==
    ASSUME PeersAreTasks, NEW t \in Tasks, StreamStep(t)
    PROVE  PeersAreTasks'
<1>0. PICK b, s : b = Call(t).stream /\ s = streams[b] /\ s = Stream(t) /\ (b \in Streams => PeerFits(s))
  BY DEF PeersAreTasks, PeerFits, Stream
<1>a. ASSUME NEW r, SetStream(t, r), b \in Streams => PeerFits(r) PROVE PeersAreTasks'
  <2>1. streams' = [streams EXCEPT ![b] = r]
    BY <1>0, <1>a DEF SetStream
  <2>. QED  BY <1>a, <2>1, PeersAfter
<1>b. t \in Someone /\ None \in Someone
  BY DEF Someone
<1>1. CASE streams' = streams
  BY <1>1, PeersSame
<1>2. CASE CheckSpace(t) /\ streams' # streams
  <2>1. SetStream(t, [s EXCEPT !.waitingToSend = t])
    BY <1>0, <1>2 DEF CheckSpace
  <2>2. b \in Streams => PeerFits([s EXCEPT !.waitingToSend = t])
    BY <1>0, <1>b, PeerKept
  <2>. QED  BY <1>a, <2>1, <2>2
<1>3. CASE WriteStream(t) /\ streams' # streams
  <2>1. (\E values : SetStream(t, Written(s, values))) \/ (\E n : SetStream(t, Sent(s, n)))
    BY <1>0, <1>3 DEF WriteStream
  <2>2. \A values, n : b \in Streams => PeerFits(Written(s, values)) /\ PeerFits(Sent(s, n))
    BY <1>0, PeerKept
  <2>. QED  BY <1>a, <2>1, <2>2
<1>4. CASE WriteData(t)
  <2>1. \E n : SetStream(t, Sent(s, n))
    BY <1>0, <1>4 DEF WriteData
  <2>2. \A n : b \in Streams => PeerFits(Sent(s, n))
    BY <1>0, PeerKept
  <2>. QED  BY <1>a, <2>1, <2>2
<1>5. CASE Forget(t) \/ ForgetPeer(t)
  <2>1. \/ SetStream(t, [s EXCEPT !.waitingToSend = None])
        \/ SetStream(t, [s EXCEPT !.waitingToReceive = None])
    BY <1>0, <1>5 DEF Forget, ForgetPeer
  <2>2. b \in Streams => /\ PeerFits([s EXCEPT !.waitingToSend = None])
                         /\ PeerFits([s EXCEPT !.waitingToReceive = None])
    BY <1>0, <1>b, PeerKept
  <2>. QED  BY <1>a, <2>1, <2>2
<1>6. CASE StreamReceive(t) /\ streams' # streams
  <2>1. SetStream(t, [s EXCEPT !.waitingToReceive = t])
    BY <1>0, <1>6 DEF StreamReceive
  <2>2. b \in Streams => PeerFits([s EXCEPT !.waitingToReceive = t])
    BY <1>0, <1>b, PeerKept
  <2>. QED  BY <1>a, <2>1, <2>2
<1>7. CASE (ReadStream(t) \/ NextLength(t)) /\ streams' # streams
  <2>1. (\E n : SetStream(t, Advanced(s, n))) \/ (\E n : SetStream(t, Got(s, n)))
    BY <1>0, <1>7 DEF ReadStream, NextLength
  <2>2. \A n : b \in Streams => PeerFits(Advanced(s, n)) /\ PeerFits(Got(s, n))
    BY <1>0, PeerKept
  <2>. QED  BY <1>a, <2>1, <2>2
<1>8. CASE ReadData(t)
  <2>1. SetStream(t, PutLengthBack(s)) \/ (\E n : SetStream(t, Got(s, n)))
    BY <1>0, <1>8 DEF ReadData
  <2>2. \A n : b \in Streams => PeerFits(PutLengthBack(s)) /\ PeerFits(Got(s, n))
    BY <1>0, PeerKept
  <2>. QED  BY <1>a, <2>1, <2>2
<1>. QED  BY <1>1, <1>2, <1>3, <1>4, <1>5, <1>6, <1>7, <1>8
          DEF StreamStep, StreamSend, SendTimeout, TestTrigger, StreamWait, StreamWaited, Complete, NotifyPeer,
              Recheck

LEMMA InterruptPeers ==
    ASSUME PeersAreTasks, StreamInterrupt
    PROVE  PeersAreTasks'
<1>0. PICK b, s : b = Raised.stream /\ s = streams[b] /\ (b \in Streams => PeerFits(s))
  BY DEF PeersAreTasks, PeerFits
<1>a. ASSUME NEW r, SetRaised(r), b \in Streams => PeerFits(r) PROVE PeersAreTasks'
  <2>1. streams' = [streams EXCEPT ![b] = r]
    BY <1>0, <1>a DEF SetRaised
  <2>. QED  BY <1>a, <2>1, PeersAfter
<1>b. None \in Someone
  BY DEF Someone
<1>1. CASE streams' = streams
  BY <1>1, PeersSame
<1>2. CASE StreamSendInterrupt /\ streams' # streams
  <2>1. PICK sent : /\ sent = IF s.isMessage THEN Sent(Written(s, <<Raised.bytes>>), Raised.bytes)
                              ELSE Sent(s, Min({Raised.bytes, SpaceIn(s)}))
                    /\ SetRaised([sent EXCEPT !.waitingToReceive = None]) \/ SetRaised(sent)
    BY <1>0, <1>2 DEF StreamSendInterrupt
  <2>2. b \in Streams => PeerFits(sent)
    <3>1. PICK w, m : w = Written(s, <<Raised.bytes>>) /\ m = Min({Raised.bytes, SpaceIn(s)})
      OBVIOUS
    <3>2. b \in Streams => PeerFits(w)
      BY <1>0, <3>1, PeerKept
    <3>3. b \in Streams => PeerFits(Sent(w, Raised.bytes)) /\ PeerFits(Sent(s, m))
      BY <1>0, <3>2, PeerKept
    <3>. QED  BY <2>1, <3>1, <3>3
  <2>3. b \in Streams => PeerFits([sent EXCEPT !.waitingToReceive = None])
    BY <1>b, <2>2, PeerKept
  <2>. QED  BY <1>a, <2>1, <2>2, <2>3
<1>3. CASE StreamReceiveInterrupt /\ streams' # streams
  <2>1. PICK got : /\ got = IF s.isMessage THEN Got(Advanced(s, LengthSize), Head(Oldest(s, 1)))
                            ELSE Got(s, Min({BytesIn(s), Raised.bytes}))
                   /\ SetRaised([got EXCEPT !.waitingToSend = None]) \/ SetRaised(got)
    BY <1>0, <1>3 DEF StreamReceiveInterrupt
  <2>2. b \in Streams => PeerFits(got)
    <3>1. PICK w, m : w = Advanced(s, LengthSize) /\ m = Min({BytesIn(s), Raised.bytes})
      OBVIOUS
    <3>2. b \in Streams => PeerFits(w)
      BY <1>0, <3>1, PeerKept
    <3>3. b \in Streams => PeerFits(Got(w, Head(Oldest(s, 1)))) /\ PeerFits(Got(s, m))
      BY <1>0, <3>2, PeerKept
    <3>. QED  BY <2>1, <3>1, <3>3
  <2>3. b \in Streams => PeerFits([got EXCEPT !.waitingToSend = None])
    BY <1>b, <2>2, PeerKept
  <2>. QED  BY <1>a, <2>1, <2>2, <2>3
<1>. QED  BY <1>1, <1>2, <1>3 DEF StreamInterrupt

LEMMA PeersStillTasks ==
    ASSUME PeersAreTasks, SystemNext
    PROVE  PeersAreTasks'
BY StreamPeers, InterruptPeers, PeersSame
   DEF SystemNext, SystemProcessor, SystemInterrupt, Tick

\* Who is notified.
LEMMA PeerIs ==
    ASSUME QueueInv, PeersAreTasks, NEW t \in Tasks, Placed(t), local[t].pc = "notifyPeer"
    PROVE  Peer(t) \in Someone
<1>1. Using(t, {"streamSend"} \cup Reads)
  BY DEF Placed
<1>2. Call(t).stream \in Streams
  BY <1>1, StreamCalls DEF Using, LegalStreamCall
<1>. QED  BY <1>2 DEF PeersAreTasks, Peer, Stream

(***************************************************************************)
(* The scheduler is started with the tasks that a program begins with, the *)
(* idle task and the services, one after the other.                        *)
(***************************************************************************)

NothingWaits(s) == \A l \in AllLists : Range(s.waiting[l]) = {}
\* After the first n of them.
StartedSoFar(s, seq, n) ==
    /\ Well(s) /\ s.suspended = 0 /\ Ticks(s) = InitialTick
    /\ NothingWaits(s)
    /\ \A t \in Tasks : s.notifyState[t] = "none"
    /\ \A i \in 1 .. n : InReady(s, seq[i])
    /\ \A t \in Tasks : (\A i \in 1 .. n : seq[i] # t) => Unused(s, t)
    /\ IF n = 0 THEN s.current = None ELSE \E i \in 1 .. n : s.current = seq[i]

LEMMA NothingStarted ==
    ASSUME NEW seq
    PROVE  StartedSoFar(NoScheduler, seq, 0)
<1>1. /\ EmptyRing \in Seq(Tasks \cup {End}) /\ DOMAIN EmptyRing = {1} /\ EmptyRing[1] = End
  BY DEF EmptyRing
<1>2. EmptyRing \in Rings /\ Range(EmptyRing) = {End}
  <2>1. Range(EmptyRing) = {End}
    BY <1>1 DEF Range
  <2>2. IsInjective(EmptyRing)
    BY <1>1 DEF IsInjective
  <2>. QED  BY <1>1, <2>1, <2>2 DEF Rings, Lists
<1>3. << >> \in Lists(Tasks) /\ Range(<< >>) = {}
  BY DEF Lists, IsInjective, Range
<1>4. End \notin Tasks
  BY ListAssumption
<1>5. Numbers(NoScheduler)
  BY KernelAssumption DEF Numbers, NoScheduler, Priorities
<1>6. ReadyLists(NoScheduler)
  BY <1>2, <1>4 DEF ReadyLists, NoScheduler
<1>7. OtherLists(NoScheduler)
  BY <1>3 DEF OtherLists, NoScheduler, AllLists
<1>8. DOMAIN NoScheduler = SchedFields
  BY DEF NoScheduler, SchedFields
<1>9. ASSUME NEW t \in Tasks
      PROVE  /\ ~ InReady(NoScheduler, t) /\ Unused(NoScheduler, t)
  <2>1. ~ InReady(NoScheduler, t)
    BY <1>2, <1>4 DEF InReady, NoScheduler
  <2>. QED  BY <1>3, <2>1 DEF Unused, NoScheduler, AllLists
<1>10. NothingWaits(NoScheduler)
  BY <1>3 DEF NothingWaits, NoScheduler, AllLists
<1>11. \A t \in Tasks : Homed(NoScheduler, t)
  BY <1>9 DEF Homed, Unused
<1>12. Settled(NoScheduler)
  BY <1>10 DEF NothingWaits, Settled, InPending, AllLists
<1>13. Ticks(NoScheduler) = InitialTick
  BY KernelAssumption DEF Ticks, NoScheduler
<1>14. NoScheduler.suspended = 0 /\ NoScheduler.current = None /\ \A t \in Tasks : NoScheduler.notifyState[t] = "none"
  BY DEF NoScheduler
<1>. QED  BY <1>5, <1>6, <1>7, <1>8, <1>9, <1>10, <1>11, <1>12, <1>13, <1>14
          DEF StartedSoFar, Well, InPlace, Shape

\* The task that runs first may be any while nothing is pending.
RunsFirst(s, t) == [s EXCEPT !.current = t]
LEMMA CurrentChosen ==
    ASSUME NEW s, Well(s), NothingWaits(s), NEW t,
           NEW r, r = RunsFirst(s, t)
    PROVE  /\ Well(r) /\ r.current = t /\ \A x \in SchedFields \ {"current"} : r[x] = s[x]
<1>1. /\ DOMAIN r = SchedFields /\ r.current = t
      /\ \A x \in SchedFields \ {"current"} : r[x] = s[x]
  BY DEF RunsFirst, Well, InPlace, Shape, SchedFields
<1>2. /\ r.ready = s.ready /\ r.topReady = s.topReady /\ r.priority = s.priority /\ r.delayed = s.delayed
      /\ r.overflowDelayed = s.overflowDelayed /\ r.suspendedTasks = s.suspendedTasks
      /\ r.terminating = s.terminating /\ r.waiting = s.waiting
  BY <1>1 DEF SchedFields
<1>3. /\ r.basePriority = s.basePriority /\ r.eventOrder = s.eventOrder /\ r.eventBits = s.eventBits
      /\ r.notifyState = s.notifyState /\ r.tick = s.tick /\ r.overflows = s.overflows
      /\ r.pendedTicks = s.pendedTicks /\ r.suspended = s.suspended
  BY <1>1 DEF SchedFields
<1>4. Shape(r)
  BY <1>1, <1>2, <1>3 DEF Well, InPlace, Shape, ReadyLists, OtherLists, Numbers
<1>5. \A u \in Tasks : Homed(r, u)
  <2>1. ASSUME NEW u \in Tasks PROVE Homed(r, u)
    <3>1. Homed(s, u)
      BY DEF Well, InPlace
    <3>. QED  BY <1>2, <3>1 DEF Homed, InReady, InEvents
  <2>. QED  BY <2>1
<1>6. Settled(r)
  BY <1>2 DEF NothingWaits, Settled, InPending, AllLists
<1>. QED  BY <1>1, <1>4, <1>5, <1>6 DEF Well, InPlace

LEMMA OneMoreStarted ==
    ASSUME program \in Programs, NEW seq \in Seq(Tasks), IsInjective(seq), NEW n \in Nat, n + 1 <= Len(seq),
           NEW s, StartedSoFar(s, seq, n), NEW r, r = StartTask(s, seq[n + 1])
    PROVE  StartedSoFar(r, seq, n + 1)
<1>1. /\ n + 1 \in 1 .. Len(seq) /\ Len(seq) \in Nat /\ DOMAIN seq = 1 .. Len(seq)
      /\ 1 .. n \subseteq 1 .. Len(seq) /\ 1 .. n + 1 = (1 .. n) \cup {n + 1}
  OBVIOUS
<1>2. PICK t \in Tasks : t = seq[n + 1]
  BY <1>1, ElementOfSeq
<1>3. \A i \in 1 .. n : seq[i] # t
  BY <1>1, <1>2 DEF IsInjective
<1>4. Unused(s, t) /\ Well(s)
  BY <1>3 DEF StartedSoFar
<1>5. PICK p \in Priorities : p = program.priority[t]
  BY ProgramAssumption DEF LegalTasks
<1>6. PICK q : q = CreateTask(s, t, p)
  OBVIOUS
<1>7. /\ Well(q) /\ Gently(s, q, {t}) /\ InReady(q, t)
      /\ q.notifyState = s.notifyState /\ q.suspended = s.suspended
      /\ q.current = s.current /\ q.waiting = s.waiting
  BY <1>4, <1>6, CreatedTask
<1>8. PICK c : /\ r = [q EXCEPT !.current = c]
               /\ c = IF s.current = None THEN t ELSE IF s.priority[s.current] <= q.priority[t] THEN t ELSE s.current
  BY <1>2, <1>5, <1>6, <1>7 DEF StartTask
<1>9. NothingWaits(q)
  BY <1>7 DEF StartedSoFar, NothingWaits
<1>10. Well(r) /\ r.current = c /\ \A x \in SchedFields \ {"current"} : r[x] = q[x]
  <2>1. Well(q)
    BY <1>7
  <2>2. r = RunsFirst(q, c)
    BY <1>8 DEF RunsFirst
  <2>. QED  BY <1>9, <2>1, <2>2, CurrentChosen
<1>11. /\ r.ready = q.ready /\ r.delayed = q.delayed /\ r.overflowDelayed = q.overflowDelayed
       /\ r.suspendedTasks = q.suspendedTasks /\ r.terminating = q.terminating /\ r.waiting = q.waiting
       /\ r.notifyState = q.notifyState /\ r.tick = q.tick /\ r.overflows = q.overflows
       /\ r.pendedTicks = q.pendedTicks /\ r.suspended = q.suspended
  BY <1>10 DEF SchedFields
<1>12. Ticks(r) = InitialTick
  <2>1. Ticks(q) = Ticks(s)
    BY <1>7 DEF Gently, Steady
  <2>. QED  BY <1>11, <2>1 DEF StartedSoFar, Ticks
<1>13. r.suspended = 0 /\ NothingWaits(r) /\ \A u \in Tasks : r.notifyState[u] = "none"
  BY <1>7, <1>9, <1>11 DEF StartedSoFar, NothingWaits
<1>14. \A i \in 1 .. n + 1 : InReady(r, seq[i])
  <2>1. ASSUME NEW i \in 1 .. n PROVE InReady(q, seq[i])
    <3>1. seq[i] \in Tasks /\ InReady(s, seq[i])
      BY <1>1, ElementOfSeq DEF StartedSoFar
    <3>. QED  BY <1>7, <3>1 DEF Gently, Spares
  <2>. QED  BY <1>1, <1>2, <1>7, <1>11, <2>1 DEF InReady
<1>15. ASSUME NEW u \in Tasks, \A i \in 1 .. n + 1 : seq[i] # u
       PROVE  Unused(r, u)
  <2>1. Unused(s, u) /\ u # t
    BY <1>1, <1>2, <1>15 DEF StartedSoFar
  <2>2. Unused(q, u)
    BY <1>7, <2>1 DEF Gently, Spares
  <2>. QED  BY <1>11, <2>2 DEF Unused, InReady
<1>16. \E i \in 1 .. n + 1 : r.current = seq[i]
  <2>1. CASE c = t
    BY <1>1, <1>2, <1>10, <2>1
  <2>2. CASE c = s.current /\ s.current # None
    <3>1. CASE n = 0
      BY <2>2, <3>1 DEF StartedSoFar
    <3>2. CASE n # 0
      BY <1>1, <1>10, <2>2, <3>2 DEF StartedSoFar
    <3>. QED  BY <3>1, <3>2
  <2>. QED  BY <1>8, <2>1, <2>2
<1>17. n + 1 # 0
  OBVIOUS
<1>. QED  BY <1>10, <1>12, <1>13, <1>14, <1>15, <1>16, <1>17 DEF StartedSoFar

LEMMA AllStarted ==
    ASSUME program \in Programs, NEW seq \in Seq(Tasks), IsInjective(seq)
    PROVE  StartedSoFar(Each(StartTask, NoScheduler, seq), seq, Len(seq))
<1>1. Len(seq) \in Nat
  OBVIOUS
<1>2. PICK f : /\ f[0] = NoScheduler /\ f[Len(seq)] = Each(StartTask, NoScheduler, seq)
               /\ \A i \in 1 .. Len(seq) : f[i] = StartTask(f[i - 1], seq[i])
  BY <1>1, StartSteps
<1>. DEFINE N == {n \in Nat : n <= Len(seq) => StartedSoFar(f[n], seq, n)}
<1>3. 0 \in N
  BY <1>2, NothingStarted
<1>4. ASSUME NEW n \in Nat, n \in N PROVE n + 1 \in N
  <2>1. SUFFICES ASSUME n + 1 <= Len(seq) PROVE StartedSoFar(f[n + 1], seq, n + 1)
    OBVIOUS
  <2>2. StartedSoFar(f[n], seq, n)
    BY <1>1, <1>4, <2>1
  <2>3. n + 1 \in 1 .. Len(seq) /\ (n + 1) - 1 = n
    BY <1>1, <2>1
  <2>4. f[n + 1] = StartTask(f[n], seq[n + 1])
    BY <1>2, <2>3
  <2>5. PICK s, r : s = f[n] /\ r = f[n + 1]
    OBVIOUS
  <2>6. StartedSoFar(s, seq, n) /\ r = StartTask(s, seq[n + 1])
    BY <2>2, <2>4, <2>5
  <2>7. StartedSoFar(r, seq, n + 1)
    BY <2>1, <2>6, OneMoreStarted
  <2>. QED  BY <2>5, <2>7
<1>. HIDE DEF N
<1>5. Nat \subseteq N
  BY <1>3, <1>4, NumbersFrom
<1>. QED  BY <1>1, <1>2, <1>5 DEF N

\* The idle task is one of those.
LEMMA IdleBegins ==
    ASSUME program \in Programs
    PROVE  /\ Begins(program) \in Seq(Tasks) /\ IsInjective(Begins(program))
           /\ \E i \in 1 .. Len(Begins(program)) : Begins(program)[i] = Idle
<1>1. PICK starts, services :
         /\ starts = program.starts /\ services = program.services
         /\ starts \in Seq(Tasks) /\ services \in Seq(Tasks) /\ IsInjective(Begins(program))
  BY ProgramAssumption DEF LegalTasks
<1>2. <<Idle>> \in Seq(Tasks) /\ Len(<<Idle>>) = 1 /\ <<Idle>>[1] = Idle
  BY KernelAssumption
<1>3. PICK two : two = starts \o <<Idle>>
  OBVIOUS
<1>4. /\ two \in Seq(Tasks) /\ Len(two) = Len(starts) + 1
      /\ \A i \in 1 .. Len(starts) + 1 : two[i] = IF i <= Len(starts) THEN starts[i] ELSE <<Idle>>[i - Len(starts)]
  BY <1>1, <1>2, <1>3, ConcatProperties
<1>5. Len(starts) \in Nat /\ Len(services) \in Nat
  BY <1>1
<1>6. two[Len(starts) + 1] = Idle
  BY <1>2, <1>4, <1>5
<1>7. Begins(program) = two \o services
  BY <1>1, <1>3 DEF Begins
<1>8. /\ two \o services \in Seq(Tasks) /\ Len(two \o services) = Len(two) + Len(services)
      /\ \A i \in 1 .. Len(two) + Len(services) :
            (two \o services)[i] = IF i <= Len(two) THEN two[i] ELSE services[i - Len(two)]
  BY <1>1, <1>4, ConcatProperties
<1>9. Len(starts) + 1 \in 1 .. Len(two) + Len(services)
  BY <1>4, <1>5
<1>10. Begins(program)[Len(starts) + 1] = Idle
  BY <1>4, <1>5, <1>6, <1>7, <1>8, <1>9
<1>. QED  BY <1>1, <1>7, <1>8, <1>9, <1>10

\* Where the scheduler starts.
LEMMA SchedulerStarts ==
    ASSUME SystemInit
    PROVE  SchedInv
<1>1. /\ program \in Programs /\ sched = Each(StartTask, NoScheduler, Begins(program))
      /\ groups = [g \in Groups |-> [bits |-> {}, exists |-> TRUE]] /\ now = 0
  BY DEF SystemInit, Init
<1>2. \A t \in Tasks : local[t].pc = "call" /\ local[t].at = 1
  BY DEF SystemInit, Init, Updated, NewCall
<1>3. PICK seq : /\ seq = Begins(program) /\ seq \in Seq(Tasks) /\ IsInjective(seq)
                 /\ \E i \in 1 .. Len(seq) : seq[i] = Idle
  BY <1>1, IdleBegins
<1>4. StartedSoFar(sched, seq, Len(seq))
  BY <1>1, <1>3, AllStarted
<1>5. Len(seq) \in Nat /\ Len(seq) # 0
  BY <1>3
<1>6. PICK first \in 1 .. Len(seq) : sched.current = seq[first]
  BY <1>4, <1>5 DEF StartedSoFar
<1>7. \A i \in 1 .. Len(seq) : seq[i] \in Tasks /\ InReady(sched, seq[i])
  BY <1>3, <1>4, ElementOfSeq DEF StartedSoFar
<1>8. sched.current \in Tasks /\ InReady(sched, sched.current) /\ InReady(sched, Idle)
  BY <1>3, <1>6, <1>7
<1>9. \A t \in Tasks : ~ Locks(local[t].pc)
  BY <1>2 DEF Locks, LockLabels
<1>10. OnlyOneLocks
  BY <1>4, <1>8, <1>9 DEF OnlyOneLocks, StartedSoFar
<1>11. StopsInTime
  BY <1>8 DEF StopsInTime
<1>12. NewTasksAreNew
  <2>1. SUFFICES ASSUME NEW t \in Tasks, NotYet(t) PROVE Unused(sched, t) /\ t # sched.current
    BY DEF NewTasksAreNew
  <2>2. PICK u \in Tasks : \E i \in 1 .. Len(program.script[u]) :
           program.script[u][i].op = "create" /\ program.script[u][i].task = t
    BY <2>1 DEF NotYet
  <2>3. PICK i \in 1 .. Len(program.script[u]) :
           program.script[u][i].op = "create" /\ program.script[u][i].task = t
    BY <2>2
  <2>4. LegalCreation(program, u, i)
    BY <1>1, <2>3, ProgramAssumption DEF LegalTasks
  <2>5. t \notin Range(seq)
    BY <1>3, <2>3, <2>4 DEF LegalCreation
  <2>6. \A j \in 1 .. Len(seq) : seq[j] # t
    BY <1>3, <2>5 DEF Range
  <2>. QED  BY <1>4, <1>6, <2>6 DEF StartedSoFar
<1>13. WaitsRightly
  BY <1>4 DEF WaitsRightly, StartedSoFar
<1>14. BitsAreMissing
  <2>1. ASSUME NEW g \in Groups, NEW t \in Tasks PROVE Lacks(sched, t, groups[g].bits, g)
    BY <1>4, BitsListed DEF Lacks, StartedSoFar, NothingWaits, AllLists
  <2>. QED  BY <1>1, <2>1 DEF BitsAreMissing
<1>15. Well(sched) /\ Ticks(sched) = InitialTick + now /\ now \in Nat
  BY <1>1, <1>4, KernelAssumption DEF StartedSoFar
<1>. QED  BY <1>8, <1>10, <1>11, <1>12, <1>13, <1>14, <1>15 DEF SchedInv

LEMMA ControlStarts ==
    ASSUME SystemInit
    PROVE  LabelsFit /\ HoldersAreTasks /\ PeersAreTasks
<1>1. /\ program \in Programs /\ queues = program.queues /\ streams = program.streams /\ timers = NoTimers
  BY DEF SystemInit, Init
<1>2. \A t \in Tasks : {"pc", "placed"} \subseteq DOMAIN local[t] /\ local[t].pc = "call"
  BY DEF SystemInit, Init, Updated, NewCall
<1>3. TimersFit
  BY <1>1 DEF TimersFit, NoTimers
<1>4. LabelsFit
  BY <1>2, <1>3, MostFit DEF LabelsFit
<1>5. HoldersAreTasks
  <2>1. ASSUME NEW o \in Objects
        PROVE  "holder" \in DOMAIN queues[o] /\ queues[o].holder \in Someone
    <3>1. Created(queues[o])
      BY <1>1, ProgramAssumption
    <3>. QED  BY <3>1 DEF Created, NewQueue, NewSemaphore, NewMutex, Someone
  <2>. QED  BY <2>1 DEF HoldersAreTasks
<1>6. PeersAreTasks
  <2>1. DOMAIN streams = Streams
    BY <1>1, StreamAssumption
  <2>2. ASSUME NEW b \in Streams
        PROVE  PeerFits(streams[b])
    <3>1. PICK isMessage, length, trigger : /\ streams[b] = NewStream(isMessage, length, trigger)
                                            /\ streams[b].isMessage => streams[b].trigger = 1
      BY <1>1, StreamAssumption
    <3>. QED  BY <3>1 DEF NewStream, Someone, PeerFits
  <2>. QED  BY <2>1, <2>2 DEF PeersAreTasks, PeerFits
<1>. QED  BY <1>4, <1>5, <1>6

(***************************************************************************)
(* What the scheduler promises.                                            *)
(***************************************************************************)

\* Every part of the invariant at once.
IInv == QueueInv /\ StreamInv /\ LabelsFit /\ HoldersAreTasks /\ PeersAreTasks /\ SchedInv

LEMMA IInvStarts == SystemInit => IInv
BY QueuesStart, StreamsStart, ControlStarts, SchedulerStarts DEF IInv

LEMMA IInvStays == IInv /\ [SystemNext]_systemVars => IInv'
<1>1. SUFFICES ASSUME IInv, [SystemNext]_systemVars PROVE IInv'
  OBVIOUS
<1>2. QueueInv' /\ StreamInv'
  BY <1>1, QueuesStep, StreamsStep DEF IInv
<1>3. CASE SystemNext
  <2>1. \A t \in Tasks : local[t].pc = "notifyPeer" => Peer(t) \in Someone
    BY <1>1, PeerIs DEF IInv, StreamInv, ControlInv
  <2>2. SchedInv'
    BY <1>1, <1>3, <2>1, SchedulerSteps DEF IInv, Kept
  <2>3. LabelsFit' /\ HoldersAreTasks' /\ PeersAreTasks'
    BY <1>1, <1>2, <1>3, LabelsStillFit, HoldersStillTasks, PeersStillTasks DEF IInv
  <2>. QED  BY <1>2, <2>2, <2>3 DEF IInv
<1>4. CASE UNCHANGED systemVars
  <2>1. /\ UNCHANGED <<program, sched, queues, groups, local, raised, now>>
        /\ UNCHANGED <<streams, timers, wall>>
    BY <1>4 DEF systemVars, vars
  <2>2. LabelsFit' /\ HoldersAreTasks' /\ PeersAreTasks'
    BY <1>1, <2>1 DEF IInv, LabelsFit, TimersFit, Fits, Using, HasCall, Call, HoldersAreTasks, PeersAreTasks, Someone
  <2>3. SchedInv'
    BY <1>1, <2>1 DEF IInv, SchedInv, Well, InPlace, Settled, OnlyOneLocks, Locks, StopsInTime, Dozes, Using,
       HasCall, Call, NewTasksAreNew, NotYet, WaitsRightly, BitsAreMissing, Lacks
  <2>. QED  BY <1>2, <2>2, <2>3 DEF IInv
<1>. QED  BY <1>1, <1>3, <1>4

\* A set without two elements.
LEMMA OneAtMost ==
    ASSUME NEW S, \A x, y \in S : x = y
    PROVE  Cardinality(S) <= 1
<1>1. CASE S = {}
  BY <1>1, FS_EmptySet
<1>2. CASE S # {}
  <2>1. PICK x \in S : S = {x}
    BY <1>2
  <2>. QED  BY <2>1, FS_Singleton
<1>. QED  BY <1>1, <1>2

\* The lists that hold a task.
LEMMA HomesAre ==
    ASSUME Shape(sched), NEW t \in Tasks, NEW x \in Homes(t)
    PROVE  \/ x = <<"ready", sched.priority[t]>> /\ InReady(sched, t)
           \/ x = <<"delayed">> /\ t \in Range(sched.delayed)
           \/ x = <<"overflowDelayed">> /\ t \in Range(sched.overflowDelayed)
           \/ x = <<"terminating">> /\ t \in Range(sched.terminating)
           \/ x = <<"suspendedTasks">> /\ t \in sched.suspendedTasks
<1>1. CASE \E p \in Priorities : x = <<"ready", p>> /\ Contains(sched.ready[p], t)
  <2>1. PICK p \in Priorities : x = <<"ready", p>> /\ Contains(sched.ready[p], t)
    BY <1>1
  <2>2. sched.ready[p] \in Seq(Tasks \cup {End})
    BY DEF Shape, ReadyLists, Rings, Lists
  <2>3. t \in Range(sched.ready[p])
    BY <2>1, <2>2, ContainsIs
  <2>4. p = sched.priority[t] /\ InReady(sched, t)
    BY <2>3 DEF Shape, ReadyLists, InReady
  <2>. QED  BY <2>1, <2>4
<1>2. CASE \E list \in {"delayed", "overflowDelayed", "terminating"} : x = <<list>> /\ Contains(sched[list], t)
  <2>1. PICK list \in {"delayed", "overflowDelayed", "terminating"} : x = <<list>> /\ Contains(sched[list], t)
    BY <1>2
  <2>2. sched[list] \in Seq(Tasks)
    BY DEF Shape, OtherLists, Lists
  <2>3. t \in Range(sched[list])
    BY <2>1, <2>2, ContainsIs
  <2>. QED  BY <2>1, <2>3
<1>3. CASE x = <<"suspendedTasks">> /\ t \in sched.suspendedTasks
  BY <1>3
<1>. QED  BY <1>1, <1>2, <1>3 DEF Homes

LEMMA ListedOnce ==
    ASSUME Well(sched)
    PROVE  TasksAreListedOnce
<1>0. Shape(sched)
  BY DEF Well, InPlace
<1>1. SUFFICES ASSUME NEW t \in Tasks
               PROVE  /\ Cardinality(Homes(t)) <= 1
                      /\ \A p \in Priorities : <<"ready", p>> \in Homes(t) => p = sched.priority[t]
                      /\ Cardinality(EventContainer(sched, t)) <= 1
                      /\ EventContainer(sched, t) \subseteq EventLists => EventContainer(sched, t) = {}
                            \/ Homes(t) \subseteq {<<"delayed">>, <<"overflowDelayed">>, <<"suspendedTasks">>}
  BY DEF TasksAreListedOnce
<1>2. Homed(sched, t)
  BY DEF Well, InPlace
<1>3. Cardinality(Homes(t)) <= 1
  <2>1. ASSUME NEW x \in Homes(t), NEW y \in Homes(t) PROVE x = y
    BY <1>0, <1>2, HomesAre DEF Homed
  <2>. QED  BY <2>1, OneAtMost
<1>4. ASSUME NEW p \in Priorities, <<"ready", p>> \in Homes(t) PROVE p = sched.priority[t]
  <2>1. PICK x : x = <<"ready", p>>
    OBVIOUS
  <2>2. x = <<"ready", sched.priority[t]>> \/ \E list : x = <<list>>
    BY <1>0, <1>4, <2>1, HomesAre
  <2>. QED  BY <2>1, <2>2
<1>5. EventContainer(sched, t) = {l \in AllLists : t \in Range(sched.waiting[l])}
  BY <1>0, ContainerIs
<1>6. Cardinality(EventContainer(sched, t)) <= 1
  <2>1. ASSUME NEW k \in EventContainer(sched, t), NEW l \in EventContainer(sched, t) PROVE k = l
    BY <1>2, <1>5 DEF Homed
  <2>. QED  BY <2>1, OneAtMost
<1>7. ASSUME EventContainer(sched, t) \subseteq EventLists, EventContainer(sched, t) # {}
      PROVE  Homes(t) \subseteq {<<"delayed">>, <<"overflowDelayed">>, <<"suspendedTasks">>}
  <2>1. InEvents(sched, t)
    BY <1>5, <1>7 DEF InEvents
  <2>2. ~ InReady(sched, t) /\ t \notin Range(sched.terminating)
    BY <1>2, <2>1 DEF Homed
  <2>3. ASSUME NEW x \in Homes(t) PROVE x \in {<<"delayed">>, <<"overflowDelayed">>, <<"suspendedTasks">>}
    BY <1>0, <2>2, HomesAre
  <2>. QED  BY <2>3
<1>. QED  BY <1>3, <1>4, <1>6, <1>7

\* Whatever the tasks and interrupts do, and however long the scheduler is
\* suspended, no tick is lost or counted twice (xTaskIncrementTick, xTaskResumeAll).
THEOREM TicksAreNotLost == SystemSpec => []TicksAreCounted
<1>1. IInv => TicksAreCounted
  BY DEF IInv, SchedInv, TicksAreCounted, Ticks
<1>. QED  BY <1>1, IInvStarts, IInvStays, PTL DEF SystemSpec

\* Every task is in one of the lists of the scheduler at most, whatever call of
\* a task, interrupt or tick is between two of its critical sections (tasks.c).
THEOREM TasksStayListedOnce == SystemSpec => []TasksAreListedOnce
<1>1. IInv => TasksAreListedOnce
  BY ListedOnce DEF IInv, SchedInv
<1>. QED  BY <1>1, IInvStarts, IInvStays, PTL DEF SystemSpec

\* No task is left waiting for bits that its group has (event_groups.c).
THEOREM BitsAreDelivered == SystemSpec => []BitsDelivered
<1>1. IInv => BitsDelivered
  <2>1. SUFFICES ASSUME IInv, NEW g \in Groups, NEW t \in Range(sched.waiting[WaitingForBits(g)])
                 PROVE  ~ Satisfied(groups[g].bits, sched.eventBits[t])
    BY DEF BitsDelivered
  <2>2. sched.waiting[WaitingForBits(g)] \in Lists(Tasks)
    BY <2>1, BitsListed DEF IInv, SchedInv, Well, InPlace, Shape, OtherLists, AllLists
  <2>3. t \in Tasks
    BY <2>2, RangeIn
  <2>. QED  BY <2>1, <2>3 DEF IInv, SchedInv, BitsAreMissing, Lacks
<1>. QED  BY <1>1, IInvStarts, IInvStays, PTL DEF SystemSpec

\* The processor never runs a task that has gone to sleep, suspended or deleted
\* itself, but to end the section that suspends the scheduler (vTaskSwitchContext,
\* and every portYIELD_WITHIN_API of tasks.c and queue.c).
THEOREM OnlyReadyTasksRun == SystemSpec => []RunningTaskIsReady
<1>1. IInv => RunningTaskIsReady
  <2>1. SUFFICES ASSUME IInv, sched.suspended = 0, ~ sched.switchPending, sched.failed = None
                 PROVE  IsReady(sched, sched.current)
    BY DEF RunningTaskIsReady
  <2>2. Well(sched) /\ sched.current \in Tasks
    BY <2>1 DEF IInv, SchedInv
  <2>3. ~ Locks(local[sched.current].pc)
    BY <2>1 DEF IInv, SchedInv, OnlyOneLocks
  <2>4. ~ Dozes(sched.current)
    BY <2>3 DEF Dozes, Locks, LockLabels
  <2>5. InReady(sched, sched.current)
    BY <2>1, <2>4 DEF IInv, SchedInv, StopsInTime
  <2>. QED  BY <2>2, <2>5, ReadyIs DEF Well, InPlace
<1>. QED  BY <1>1, IInvStarts, IInvStays, PTL DEF SystemSpec

\* The scheduler is suspended exactly while the running task is in a section that
\* suspends it, and then once: no section nests, none is left without
\* xTaskResumeAll, and no task is switched out in one (vTaskSuspendAll).
THEOREM SchedulerIsResumed == SystemSpec => []OnlyOneLocks
<1>1. IInv => OnlyOneLocks
  BY DEF IInv, SchedInv
<1>. QED  BY <1>1, IInvStarts, IInvStays, PTL DEF SystemSpec

\* The ready map has the bit of every priority with a ready task, so that
\* taskSELECT_HIGHEST_PRIORITY_TASK overlooks none (tasks.c).  That it has no other
\* bit is what the code breaks: see StaleBit in MCKernel.
ReadyIsMapped == \A t \in Tasks : IsReady(sched, t) => sched.priority[t] \in sched.topReady
THEOREM ReadyTasksAreMapped == SystemSpec => []ReadyIsMapped
<1>1. IInv => ReadyIsMapped
  <2>1. SUFFICES ASSUME IInv, NEW t \in Tasks, IsReady(sched, t)
                 PROVE  sched.priority[t] \in sched.topReady
    BY DEF ReadyIsMapped
  <2>2. Well(sched)
    BY <2>1 DEF IInv, SchedInv
  <2>3. InReady(sched, t)
    BY <2>1, <2>2, ReadyIs DEF Well, InPlace
  <2>. QED  BY <2>2, <2>3 DEF Well, InPlace, Shape, ReadyLists, InReady
<1>. QED  BY <1>1, IInvStarts, IInvStays, PTL DEF SystemSpec

(***************************************************************************)
(* No reader or writer sleeps on what it waits for.                        *)
(***************************************************************************)

Sides == {"streamSend", "streamReceive"}
Other(side) == IF side = "streamSend" THEN "streamReceive" ELSE "streamSend"
WaitLabels == {"wait", "waited", "forget"}
Waiter(s, side) == IF side = "streamSend" THEN s.waitingToSend ELSE s.waitingToReceive
Arrived(s, side, bytes) ==
    IF side = "streamSend" THEN SpaceIn(s) >= Required(s, bytes)
    ELSE BytesIn(s) > LengthBytes(s) /\ Triggers(s)

\* The other side is on its way to tell.
TellLabels(side) ==
    {"complete", "notifyPeer"} \cup (IF side = "streamSend" THEN {"readData"} ELSE {"trigger"})
Tells(t, b, side) == Inside(t, b, Other(side), TellLabels(side))
\* The next wait ends at once, or the one that has begun has been ended.
Heard(x) ==
    /\ sched.notifyState[x] # "waiting"
    /\ local[x].pc = "wait" => sched.notifyState[x] = "received"

\* Whoever is announced is between its announcement and its taking it back, and
\* once what it waits for is there it is told, or about to be.
Told(x, b, side) ==
    /\ x \in Tasks /\ Inside(x, b, side, WaitLabels)
    /\ Arrived(streams[b], side, Call(x).bytes) /\ (\A t \in Tasks : ~ Tells(t, b, side)) => Heard(x)
WaiterInv(b, side) ==
    Waiter(streams[b], side) # None => Told(Waiter(streams[b], side), b, side)
WaitersInv ==
    \A b \in Streams : KeepsMessages(program, b) => \A side \in Sides : WaiterInv(b, side)

LEMMA SidesAre ==
    ASSUME NEW side \in Sides
    PROVE  /\ Other(side) \in Sides /\ Other(side) # side /\ Other(Other(side)) = side
           /\ TellLabels(side) \subseteq StreamLabels /\ WaitLabels \subseteq StreamLabels
           /\ side \in {"streamSend"} \cup Reads
BY DEF Sides, Other, TellLabels, WaitLabels, StreamLabels, Reads

\* What was heard is not forgotten by others.
LEMMA HeardStays ==
    ASSUME NEW x, Heard(x), Noted(x), local'[x] = local[x]
    PROVE  Heard(x)'
BY DEF Heard, Noted

\* A task that is in no call on a buffer, before a step and after it.
AwayFrom(u, b) ==
    \A op \in Sides : ~ Inside(u, b, op, StreamLabels) /\ ~ Inside(u, b, op, StreamLabels)'

\* A step that does not change a buffer, nor where anyone is in it.
LEMMA ToldElsewhere ==
    ASSUME program' = program, NEW b, NEW side \in Sides, WaiterInv(b, side), streams'[b] = streams[b],
           \A u \in Tasks : AwayFrom(u, b) \/ (local'[u] = local[u] /\ Noted(u))
    PROVE  WaiterInv(b, side)'
<1>1. PICK x : x = Waiter(streams[b], side)
  OBVIOUS
<1>2. SUFFICES ASSUME x # None PROVE Told(x, b, side)'
  BY <1>1 DEF WaiterInv, Waiter
<1>3. Told(x, b, side)
  BY <1>1, <1>2 DEF WaiterInv
<1>4. ASSUME NEW u \in Tasks, NEW op \in Sides, NEW labels \in SUBSET StreamLabels, Inside(u, b, op, labels)
      PROVE  local'[u] = local[u] /\ Noted(u) /\ Inside(u, b, op, labels)' /\ Call(u)' = Call(u)
  <2>1. ~ AwayFrom(u, b)
    BY <1>4 DEF AwayFrom, Inside
  <2>2. local'[u] = local[u] /\ Noted(u)
    BY <2>1
  <2>. QED  BY <1>4, <2>2 DEF Inside, Calling, HasCall, Call
<1>5. x \in Tasks /\ Inside(x, b, side, WaitLabels)
  BY <1>3 DEF Told
<1>6. local'[x] = local[x] /\ Noted(x) /\ Inside(x, b, side, WaitLabels)' /\ Call(x)' = Call(x)
  BY <1>4, <1>5, SidesAre
<1>7. ASSUME NEW u \in Tasks, Tells(u, b, side) PROVE Tells(u, b, side)'
  <2>1. PICK op, labels : op = Other(side) /\ labels = TellLabels(side)
    OBVIOUS
  <2>2. op \in Sides /\ labels \in SUBSET StreamLabels /\ Inside(u, b, op, labels)
    BY <1>7, <2>1, SidesAre DEF Tells
  <2>3. Inside(u, b, op, labels)'
    BY <1>4, <2>2
  <2>4. Inside(u, b, Other(side), TellLabels(side))'
    BY <2>1, <2>3 DEF Inside
  <2>. QED  BY <2>4 DEF Tells
<1>8. Heard(x) => Heard(x)'
  BY <1>6, HeardStays
<1>9. ASSUME Arrived(streams'[b], side, Call(x)'.bytes), \A u \in Tasks : ~ Tells(u, b, side)'
      PROVE  Heard(x)'
  <2>1. Arrived(streams[b], side, Call(x).bytes) /\ \A u \in Tasks : ~ Tells(u, b, side)
    BY <1>6, <1>7, <1>9
  <2>. QED  BY <1>3, <1>8, <2>1 DEF Told
<1>. QED  BY <1>5, <1>6, <1>9 DEF Told

\* A step of one task on another buffer.
LEMMA OnAnother ==
    ASSUME NEW t \in Tasks, Moves(t), NEW b, Call(t).stream # b
    PROVE  AwayFrom(t, b)
<1>1. ASSUME NEW op \in Sides PROVE ~ Inside(t, b, op, StreamLabels)
  BY DEF Inside, Calling
<1>2. ASSUME NEW op \in Sides PROVE ~ Inside(t, b, op, StreamLabels)'
  <2>1. CASE local'[t].pc = "call"
    BY <2>1 DEF Inside, StreamLabels
  <2>2. CASE HasCall(t)' = HasCall(t) /\ Call(t)' = Call(t)
    BY <2>2 DEF Inside, Calling
  <2>. QED  BY <2>1, <2>2 DEF Moves
<1>. QED  BY <1>1, <1>2 DEF AwayFrom

LEMMA OneBufferAtMost ==
    ASSUME NEW t \in Tasks, StreamStep(t)
    PROVE  streams' = streams \/ \E v : SetStream(t, v)
<1>1. CASE StreamSend(t) \/ CheckSpace(t) \/ SendTimeout(t) \/ WriteStream(t) \/ WriteData(t) \/ TestTrigger(t)
  BY <1>1 DEF StreamSend, CheckSpace, SendTimeout, WriteStream, WriteData, TestTrigger
<1>2. CASE StreamWait(t) \/ StreamWaited(t) \/ Forget(t) \/ Complete(t) \/ NotifyPeer(t) \/ ForgetPeer(t)
  BY <1>2 DEF StreamWait, StreamWaited, Forget, Complete, NotifyPeer, ForgetPeer
<1>3. CASE StreamReceive(t) \/ Recheck(t) \/ ReadStream(t) \/ ReadData(t) \/ NextLength(t)
  BY <1>3 DEF StreamReceive, Recheck, ReadStream, ReadData, NextLength
<1>. QED  BY <1>1, <1>2, <1>3 DEF StreamStep

LEMMA StreamStepRuns ==
    ASSUME NEW t \in Tasks, StreamStep(t)
    PROVE  Running(t)
BY DEF StreamStep, StreamSend, CheckSpace, SendTimeout, WriteStream, WriteData, TestTrigger, StreamWait,
       StreamWaited, Forget, Complete, NotifyPeer, ForgetPeer, StreamReceive, Recheck, ReadStream,
       ReadData, NextLength, Calls, At

(***************************************************************************)
(* The side that waits.                                                    *)
(***************************************************************************)

\* One task alone can be announced on its side of a buffer.
LEMMA OwnWaiter ==
    ASSUME QueueInv, NEW t \in Tasks, NEW b, NEW side \in Sides, Calling(t, b, side),
           WaiterInv(b, side), NEW x, x = Waiter(streams[b], side), x # None
    PROVE  x = t /\ local[t].pc \in WaitLabels
<1>1. x \in Tasks /\ Calling(x, b, side) /\ local[x].pc \in WaitLabels
  BY DEF WaiterInv, Told, Inside
<1>2. CASE side = "streamSend"
  <2>1. x = t
    BY <1>1, <1>2, OneUser DEF Calling
  <2>. QED  BY <1>1, <2>1
<1>3. CASE side = "streamReceive"
  <2>1. x = t
    BY <1>1, <1>3, OneUser DEF Calling, Reads
  <2>. QED  BY <1>1, <2>1
<1>. QED  BY <1>2, <1>3 DEF Sides

LEMMA OwnRests ==
    ASSUME QueueInv, NEW t \in Tasks, NEW b, NEW side \in Sides, Calling(t, b, side),
           WaiterInv(b, side), local[t].pc \notin WaitLabels,
           Waiter(streams'[b], side) = Waiter(streams[b], side)
    PROVE  WaiterInv(b, side)'
<1>1. PICK x : x = Waiter(streams[b], side)
  OBVIOUS
<1>2. x = None
  BY <1>1, OwnWaiter
<1>. QED  BY <1>1, <1>2 DEF WaiterInv, Waiter

\* A task that waits, stays announced or is announced, and need not be told yet.
LEMMA OwnTold ==
    ASSUME NEW t \in Tasks, NEW b, NEW side \in Sides, Calling(t, b, side)', local'[t].pc \in WaitLabels,
           Waiter(streams'[b], side) \in {t, None},
           Arrived(streams'[b], side, Call(t)'.bytes) /\ (\A u \in Tasks : ~ Tells(u, b, side)') => Heard(t)'
    PROVE  WaiterInv(b, side)'
<1>1. PICK x : x = Waiter(streams'[b], side)
  OBVIOUS
<1>2. CASE x = None
  BY <1>1, <1>2 DEF WaiterInv, Waiter
<1>3. CASE x = t
  <2>1. Inside(t, b, side, WaitLabels)'
    BY DEF Inside
  <2>2. Told(t, b, side)'
    BY <2>1 DEF Told
  <2>. QED  BY <1>1, <1>3, <2>2 DEF WaiterInv, Waiter
<1>. QED  BY <1>1, <1>2, <1>3

\* Nobody on one side tells that side.
LEMMA NoSelfTelling ==
    ASSUME NEW t \in Tasks, Moves(t), NEW b, NEW side \in Sides, Calling(t, b, side), NEW u \in Tasks,
           Tells(u, b, side)
    PROVE  Tells(u, b, side)'
<1>1. u # t
  BY SidesAre DEF Tells, Inside, Calling
<1>2. local'[u] = local[u] /\ program' = program
  BY <1>1 DEF Moves
<1>. QED  BY <1>2 DEF Tells, Inside, Calling, HasCall, Call

\* The wait begins, and ends (xTaskNotifyWait).
LEMMA OwnWaits ==
    ASSUME QueueInv, LabelsFit, ControlInv, SchedInv, NEW t \in Tasks, NEW b, NEW side \in Sides, Calling(t, b, side),
           WaiterInv(b, side), StreamWait(t) \/ StreamWaited(t)
    PROVE  WaiterInv(b, side)'
<1>0. PICK x : x = Waiter(streams[b], side)
  OBVIOUS
<1>1. /\ Running(t) /\ sched.current = t /\ streams' = streams /\ program' = program /\ HasCall(t)
      /\ local[t].pc \in {"wait", "waited"}
  BY DEF StreamWait, StreamWaited, At, Running, Calling
<1>2. PICK changes : /\ Goto(t, changes) /\ "at" \notin DOMAIN changes /\ "pc" \in DOMAIN changes
                     /\ changes.pc = IF local[t].pc = "wait" THEN "waited" ELSE "forget"
  <2>1. CASE StreamWait(t)
    BY <2>1 DEF StreamWait, At
  <2>2. CASE StreamWaited(t)
    BY <2>2 DEF StreamWaited, At
  <2>. QED  BY <2>1, <2>2
<1>3. /\ Moves(t) /\ HasCall(t)' = HasCall(t) /\ Call(t)' = Call(t) /\ local'[t].pc = changes.pc
  BY <1>1, <1>2, GotoMoves
<1>4. Calling(t, b, side)' /\ local'[t].pc \in WaitLabels /\ local'[t].pc # "wait"
  BY <1>1, <1>2, <1>3 DEF Calling, WaitLabels
<1>5. Waiter(streams'[b], side) = x /\ x \in {t, None}
  BY <1>0, <1>1, OwnWaiter
<1>6. CASE x = None
  BY <1>0, <1>1, <1>6 DEF WaiterInv
<1>7. ASSUME x = t, Arrived(streams'[b], side, Call(t)'.bytes), \A u \in Tasks : ~ Tells(u, b, side)'
      PROVE  Heard(t)'
  <2>1. CASE StreamWait(t)
    <3>1. Told(t, b, side)
      BY <1>0, <1>7, KernelAssumption DEF WaiterInv
    <3>2. Arrived(streams[b], side, Call(t).bytes)
      BY <1>1, <1>3, <1>7
    <3>3. \A u \in Tasks : ~ Tells(u, b, side)
      BY <1>3, <1>7, NoSelfTelling
    <3>4. Heard(t) /\ local[t].pc = "wait"
      BY <2>1, <3>1, <3>2, <3>3 DEF Told, StreamWait, At
    <3>5. sched' = sched
      BY <1>1, <2>1, <3>4 DEF Heard, StreamWait, NotifyWait
    <3>. QED  BY <1>4, <3>4, <3>5 DEF Heard
  <2>2. CASE StreamWaited(t)
    <3>1. Awake(sched, t)
      BY <1>1, <2>2, IsAwake DEF Dozes, StreamWaited, At
    <3>2. PICK r : r = sched' /\ r = NotifyEnd(sched)
      BY <2>2 DEF StreamWaited
    <3>3. r.notifyState[t] = "none"
      BY <3>1, <3>2, OwnChanges
    <3>. QED  BY <1>4, <3>2, <3>3 DEF Heard
  <2>. QED  BY <2>1, <2>2
<1>8. CASE x = t
  BY <1>4, <1>5, <1>7, <1>8, OwnTold
<1>. QED  BY <1>5, <1>6, <1>8

\* What a task announces itself for has not come.
LEMMA NotArrived ==
    ASSUME NEW s, SoundStream(s), NEW r, SameData(s, r), NEW side \in Sides, NEW bytes \in Nat
    PROVE  /\ Arrived(r, side, bytes) = Arrived(s, side, bytes)
           /\ SpaceIn(s) < Required(s, bytes) => ~ Arrived(s, "streamSend", bytes)
           /\ BytesIn(s) <= LengthBytes(s) => ~ Arrived(s, "streamReceive", bytes)
<1>1. /\ BytesIn(r) = BytesIn(s) /\ SpaceIn(r) = SpaceIn(s) /\ BytesIn(s) \in Nat /\ SpaceIn(s) \in Nat
      /\ r.length = s.length /\ r.isMessage = s.isMessage /\ r.trigger = s.trigger
  BY DataStays, Counts DEF SameData
<1>2. Required(r, bytes) = Required(s, bytes) /\ LengthBytes(r) = LengthBytes(s) /\ Triggers(r) = Triggers(s)
  BY <1>1 DEF Required, LengthBytes, Triggers
<1>3. Required(s, bytes) \in Nat /\ LengthBytes(s) \in Nat
  <2>1. s.length - 1 \in Nat
    BY DEF SoundStream
  <2>2. Min({bytes, s.length - 1}) \in Nat
    BY <2>1, MinOfTwo
  <2>. QED  BY <2>2 DEF Required, LengthBytes, LengthSize
<1>. QED  BY <1>1, <1>2, <1>3 DEF Arrived

\* Data that moves leaves alone who waits.
SamePeers(s, r) ==
    r.waitingToSend = s.waitingToSend /\ r.waitingToReceive = s.waitingToReceive /\ r.trigger = s.trigger

LEMMA DataPeers ==
    ASSUME NEW s, PeerFits(s)
    PROVE  /\ \A values : SamePeers(s, Written(s, values))
           /\ \A n : SamePeers(s, Advanced(s, n)) /\ SamePeers(s, Sent(s, n)) /\ SamePeers(s, Got(s, n))
           /\ SamePeers(s, PutLengthBack(s))
<1>1. ASSUME NEW values PROVE SamePeers(s, Written(s, values))
  BY DEF PeerFits, Written, SamePeers
<1>2. ASSUME NEW n PROVE SamePeers(s, Advanced(s, n))
  BY DEF PeerFits, Advanced, SamePeers
<1>3. ASSUME NEW n PROVE SamePeers(s, Sent(s, n))
  <2>1. PICK r, data : r = Written(s, data) /\ data = NewData(s, n) /\ PeerFits(r) /\ SamePeers(s, r)
    BY <1>1, PeerKept
  <2>. QED  BY <2>1 DEF Sent, PeerFits, SamePeers
<1>4. ASSUME NEW n PROVE SamePeers(s, Got(s, n))
  <2>1. PICK r : r = Advanced(s, n) /\ PeerFits(r) /\ SamePeers(s, r)
    BY <1>2, PeerKept
  <2>. QED  BY <2>1 DEF Got, PeerFits, SamePeers
<1>5. SamePeers(s, PutLengthBack(s))
  BY DEF PeerFits, PutLengthBack, SamePeers
<1>. QED  BY <1>1, <1>2, <1>3, <1>4, <1>5

LEMMA MovesPeers ==
    ASSUME QueueInv, ControlInv, PeersAreTasks, NEW t \in Tasks, NEW b \in Streams, Call(t).stream = b,
           WriteStream(t) \/ WriteData(t) \/ ReadStream(t) \/ ReadData(t)
    PROVE  SamePeers(streams[b], streams'[b])
<1>0. PICK s : s = streams[b] /\ s = Stream(t) /\ PeerFits(s)
  BY DEF PeersAreTasks, PeerFits, Stream
<1>1. ASSUME NEW r, SetStream(t, r), SamePeers(s, r) PROVE SamePeers(streams[b], streams'[b])
  BY <1>0, <1>1, SetStreamIs
<1>2. CASE streams' = streams
  BY <1>2 DEF SamePeers
<1>3. CASE (WriteStream(t) \/ WriteData(t)) /\ streams' # streams
  <2>1. (\E values : SetStream(t, Written(s, values))) \/ (\E n : SetStream(t, Sent(s, n)))
    BY <1>0, <1>3 DEF WriteStream, WriteData
  <2>2. \A values, n : SamePeers(s, Written(s, values)) /\ SamePeers(s, Sent(s, n))
    BY <1>0, DataPeers
  <2>. QED  BY <1>1, <2>1, <2>2
<1>4. CASE (ReadStream(t) \/ ReadData(t)) /\ streams' # streams
  <2>1. \/ \E n : SetStream(t, Advanced(s, n))
        \/ \E n : SetStream(t, Got(s, n))
        \/ SetStream(t, PutLengthBack(s))
    BY <1>0, <1>4 DEF ReadStream, ReadData
  <2>2. \A n : SamePeers(s, Advanced(s, n)) /\ SamePeers(s, Got(s, n)) /\ SamePeers(s, PutLengthBack(s))
    BY <1>0, DataPeers
  <2>. QED  BY <1>1, <2>1, <2>2
<1>. QED  BY <1>2, <1>3, <1>4

\* A task announces itself while it sees that what it waits for has not come.
LEMMA OwnAnnounces ==
    ASSUME QueueInv, ControlInv, PeersAreTasks, NEW t \in Tasks, NEW b \in Streams, NEW side \in Sides,
           Calling(t, b, side), BufferInv(b), WaiterInv(b, side), CheckSpace(t) \/ StreamReceive(t)
    PROVE  WaiterInv(b, side)'
<1>0. PICK s : s = streams[b] /\ s = Stream(t) /\ PeerFits(s) /\ SoundStream(s)
  BY DEF PeersAreTasks, PeerFits, Stream, Calling, BufferInv
<1>1. /\ program' = program /\ HasCall(t) /\ Call(t).op = side /\ Call(t).stream = b
      /\ local[t].pc \notin WaitLabels
  BY DEF CheckSpace, StreamReceive, At, Calls, Calling, WaitLabels
<1>2. CASE streams' = streams
  BY <1>1, <1>2, OwnRests
<1>3. CASE CheckSpace(t) /\ streams' # streams
  <2>1. side = "streamSend"
    BY <1>1, <1>3 DEF CheckSpace, At, ControlInv, Placed, Using
  <2>2. PICK v : v = [s EXCEPT !.waitingToSend = t]
    OBVIOUS
  <2>3. PICK space : space = SpaceIn(s)
    OBVIOUS
  <2>4. SetStream(t, v) /\ space < Required(s, Call(t).bytes) /\ Goto(t, [pc |-> "wait", room |-> space])
    BY <1>0, <1>3, <2>2, <2>3 DEF CheckSpace
  <2>a. PICK changes : changes = [pc |-> "wait", room |-> space]
    OBVIOUS
  <2>5. "at" \notin DOMAIN changes /\ "pc" \in DOMAIN changes /\ changes.pc = "wait"
    BY <2>a
  <2>6. HasCall(t)' = HasCall(t) /\ Call(t)' = Call(t) /\ local'[t].pc = "wait"
    BY <1>1, <2>a, <2>4, <2>5, GotoMoves
  <2>7. streams'[b] = v /\ v.waitingToSend = t /\ SameData(s, v)
    BY <1>0, <1>1, <2>2, <2>4, SetStreamIs, WaitingChanges DEF PeerFits
  <2>8. Call(t).bytes \in Nat
    BY <2>1, SendsBytes
  <2>9. ~ Arrived(v, side, Call(t).bytes)
    BY <1>0, <2>1, <2>3, <2>4, <2>7, <2>8, NotArrived
  <2>10. Calling(t, b, side)' /\ local'[t].pc \in WaitLabels
    BY <1>1, <2>6 DEF Calling, WaitLabels
  <2>11. Waiter(streams'[b], side) = t
    BY <2>1, <2>7 DEF Waiter
  <2>. QED  BY <2>6, <2>7, <2>9, <2>10, <2>11, OwnTold
<1>4. CASE StreamReceive(t) /\ streams' # streams
  <2>1. side = "streamReceive"
    BY <1>1, <1>4, StreamOperation DEF StreamReceive
  <2>2. PICK v : v = [s EXCEPT !.waitingToReceive = t]
    OBVIOUS
  <2>3. SetStream(t, v) /\ BytesIn(s) <= LengthBytes(s) /\ Goto(t, [pc |-> "wait"])
    BY <1>0, <1>4, <2>2 DEF StreamReceive
  <2>a. PICK changes : changes = [pc |-> "wait"]
    OBVIOUS
  <2>4. "at" \notin DOMAIN changes /\ "pc" \in DOMAIN changes /\ changes.pc = "wait"
    BY <2>a
  <2>5. HasCall(t)' = HasCall(t) /\ Call(t)' = Call(t) /\ local'[t].pc = "wait"
    BY <1>1, <2>a, <2>3, <2>4, GotoMoves
  <2>6. streams'[b] = v /\ v.waitingToReceive = t /\ SameData(s, v)
    BY <1>0, <1>1, <2>2, <2>3, SetStreamIs, WaitingChanges DEF PeerFits
  <2>7. Call(t).bytes \in Nat
    BY <1>1, <2>1, StreamCalls DEF LegalStreamCall
  <2>8. ~ Arrived(v, side, Call(t).bytes)
    BY <1>0, <2>1, <2>3, <2>6, <2>7, NotArrived
  <2>9. Calling(t, b, side)' /\ local'[t].pc \in WaitLabels
    BY <1>1, <2>5 DEF Calling, WaitLabels
  <2>10. Waiter(streams'[b], side) = t
    BY <2>1, <2>6 DEF Waiter
  <2>. QED  BY <2>5, <2>6, <2>8, <2>9, <2>10, OwnTold
<1>. QED  BY <1>2, <1>3, <1>4

\* Every step of a task keeps what its own side of a buffer is told.
LEMMA OwnSide ==
    ASSUME QueueInv, LabelsFit, ControlInv, PeersAreTasks, SchedInv, NEW t \in Tasks, StreamStep(t),
           NEW b \in Streams, BufferInv(b), NEW side \in Sides, Calling(t, b, side), WaiterInv(b, side)
    PROVE  WaiterInv(b, side)'
<1>1. CASE CheckSpace(t) \/ StreamReceive(t)
  BY <1>1, OwnAnnounces
<1>2. CASE StreamWait(t) \/ StreamWaited(t)
  BY <1>2, OwnWaits
<1>3. CASE Forget(t) \/ ForgetPeer(t)
  <2>0. PICK s : s = streams[b] /\ s = Stream(t) /\ PeerFits(s)
    BY DEF PeersAreTasks, PeerFits, Stream, Calling
  <2>1. PICK p, q : p = [s EXCEPT !.waitingToSend = None] /\ q = [s EXCEPT !.waitingToReceive = None]
    OBVIOUS
  <2>2. /\ p.waitingToSend = None /\ p.waitingToReceive = s.waitingToReceive
        /\ q.waitingToReceive = None /\ q.waitingToSend = s.waitingToSend
    BY <2>0, <2>1 DEF PeerFits
  <2>3. Call(t).op = side /\ Call(t).stream = b
    BY DEF Calling
  <2>4. CASE Forget(t)
    <3>1. SetStream(t, IF side = "streamSend" THEN p ELSE q)
      BY <2>0, <2>1, <2>3, <2>4 DEF Forget
    <3>2. streams'[b] = IF side = "streamSend" THEN p ELSE q
      BY <2>3, <3>1, SetStreamIs
    <3>. QED  BY <2>2, <3>2 DEF WaiterInv, Waiter
  <2>5. CASE ForgetPeer(t)
    <3>1. SetStream(t, IF side = "streamSend" THEN q ELSE p)
      BY <2>0, <2>1, <2>3, <2>5 DEF ForgetPeer
    <3>2. streams'[b] = IF side = "streamSend" THEN q ELSE p
      BY <2>3, <3>1, SetStreamIs
    <3>3. Waiter(streams'[b], side) = Waiter(streams[b], side)
      BY <2>0, <2>2, <3>2 DEF Waiter
    <3>4. local[t].pc \notin WaitLabels
      BY <2>5 DEF ForgetPeer, At, WaitLabels
    <3>. QED  BY <3>3, <3>4, OwnRests
  <2>. QED  BY <1>3, <2>4, <2>5
<1>4. CASE WriteStream(t) \/ WriteData(t) \/ ReadStream(t) \/ ReadData(t)
  <2>1. SamePeers(streams[b], streams'[b])
    BY <1>4, MovesPeers DEF Calling
  <2>2. local[t].pc \notin WaitLabels
    BY <1>4 DEF WriteStream, WriteData, ReadStream, ReadData, At, WaitLabels
  <2>. QED  BY <2>1, <2>2, OwnRests DEF SamePeers, Waiter
<1>5. CASE \/ StreamSend(t) \/ SendTimeout(t) \/ TestTrigger(t) \/ Complete(t) \/ NotifyPeer(t)
           \/ Recheck(t)
  <2>1. streams' = streams /\ local[t].pc \notin WaitLabels
    BY <1>5 DEF StreamSend, SendTimeout, TestTrigger, Complete, NotifyPeer, Recheck, At, Calls, WaitLabels
  <2>. QED  BY <2>1, OwnRests
<1>6. CASE NextLength(t)
  BY <1>6, StreamOperation DEF NextLength, Calling, Sides
<1>. QED  BY <1>1, <1>2, <1>3, <1>4, <1>5, <1>6 DEF StreamStep

(***************************************************************************)
(* The side that tells.                                                    *)
(***************************************************************************)

\* The data of a buffer decides what has come.
LEMMA ArrivedSame ==
    ASSUME NEW s, NEW r, SameData(s, r)
    PROVE  \A side, bytes : Arrived(r, side, bytes) <=> Arrived(s, side, bytes)
BY DEF SameData, Arrived, BytesIn, SpaceIn, LengthBytes, Triggers, Required

\* A step of the other side must tell whoever waits, unless it brings nothing.
LEMMA OtherTold ==
    ASSUME NEW t \in Tasks, Moves(t), NEW b, NEW side \in Sides, Calling(t, b, Other(side)),
           WaiterInv(b, side), \A u \in Tasks : u # t => Noted(u),
           NEW x, x = Waiter(streams[b], side),
           Waiter(streams'[b], side) = None
              \/ /\ Waiter(streams'[b], side) = x
                 /\ \/ Tells(t, b, side)'
                    \/ sched'.notifyState[x] = "received"
                    \/ Arrived(streams'[b], side, Call(x).bytes) =>
                          Arrived(streams[b], side, Call(x).bytes) /\ ~ Tells(t, b, side)
    PROVE  WaiterInv(b, side)'
<1>1. CASE Waiter(streams'[b], side) = None
  BY <1>1 DEF WaiterInv, Waiter
<1>2. CASE x = None
  BY <1>2 DEF WaiterInv, Waiter
<1>3. CASE x # None /\ Waiter(streams'[b], side) = x
  <2>1. Told(x, b, side)
    BY <1>3 DEF WaiterInv
  <2>2. x \in Tasks /\ Inside(x, b, side, WaitLabels)
    BY <2>1 DEF Told
  <2>3. x # t
    BY <2>2, SidesAre DEF Inside, Calling
  <2>4. local'[x] = local[x] /\ program' = program /\ Noted(x)
    BY <2>2, <2>3 DEF Moves
  <2>5. Inside(x, b, side, WaitLabels)' /\ Call(x)' = Call(x)
    BY <2>2, <2>4 DEF Inside, Calling, HasCall, Call
  <2>6. ASSUME Arrived(streams'[b], side, Call(x)'.bytes), \A u \in Tasks : ~ Tells(u, b, side)'
        PROVE  Heard(x)'
    <3>1. CASE sched'.notifyState[x] = "received"
      BY <3>1 DEF Heard
    <3>2. CASE Arrived(streams'[b], side, Call(x).bytes) =>
                  Arrived(streams[b], side, Call(x).bytes) /\ ~ Tells(t, b, side)
      <4>1. ASSUME NEW u \in Tasks PROVE ~ Tells(u, b, side)
        <5>1. CASE u = t
          BY <2>5, <2>6, <3>2, <5>1
        <5>2. CASE u # t
          <6>1. local'[u] = local[u]
            BY <5>2 DEF Moves
          <6>2. Tells(u, b, side) => Tells(u, b, side)'
            BY <2>4, <6>1 DEF Tells, Inside, Calling, HasCall, Call
          <6>. QED  BY <2>6, <6>2
        <5>. QED  BY <5>1, <5>2
      <4>2. Arrived(streams[b], side, Call(x).bytes)
        BY <2>5, <2>6, <3>2
      <4>3. Heard(x)
        BY <2>1, <4>1, <4>2 DEF Told
      <4>. QED  BY <2>4, <4>3, HeardStays
    <3>. QED  BY <1>1, <1>3, <2>6, <3>1, <3>2
  <2>7. Told(x, b, side)'
    BY <2>2, <2>5, <2>6 DEF Told
  <2>. QED  BY <1>3, <2>7 DEF WaiterInv, Waiter
<1>. QED  BY <1>1, <1>2, <1>3

\* The length of a message alone is nothing to a reader that waits.
LEMMA LengthTellsNobody ==
    ASSUME QueueInv, PeersAreTasks, NEW b \in Streams, KeepsMessages(program, b), BufferInv(b),
           streams[b].isMessage, NEW t \in Tasks, Inside(t, b, "streamSend", {"write"}),
           NEW x \in Tasks, Inside(x, b, "streamReceive", WaitLabels),
           NEW v \in Seq(Nat), Len(v) = 1, 1 <= SpaceIn(streams[b]), streams'[b] = Written(streams[b], v),
           NEW bytes, Arrived(streams'[b], "streamReceive", bytes)
    PROVE  Arrived(streams[b], "streamReceive", bytes)
<1>0. PICK s, w : s = streams[b] /\ w = streams'[b] /\ w = Written(s, v) /\ SoundStream(s)
  BY DEF BufferInv
<1>1. /\ BytesIn(w) = BytesIn(s) + 1 /\ w.isMessage /\ BytesIn(s) \in Nat
      /\ s.isMessage /\ s.trigger = 1
  <2>1. s.isMessage /\ s.trigger = 1
    BY <1>0 DEF PeersAreTasks
  <2>2. BytesIn(w) = BytesIn(s) + 1 /\ w.isMessage = s.isMessage
    BY <1>0, WrittenIsLast
  <2>. QED  BY <1>0, <2>1, <2>2, Counts
<1>2. BytesIn(w) > 1
  BY <1>0, <1>1 DEF Arrived, LengthBytes, LengthSize
<1>3. PICK taken, rest, begun :
         /\ OnTheWay(s, Sizes(program, b), taken, rest, begun)
         /\ Begun(b, begun) /\ PartRead(b, taken, rest)
  BY <1>0, <1>1 DEF BufferInv, Messages
<1>4. begun = <<>>
  <2>1. \A u \in Tasks : ~ Inside(u, b, "streamSend", {"writeData"})
    BY OnlyWriter DEF Inside, Calling
  <2>. QED  BY <1>3, <2>1 DEF Begun
<1>5. taken = <<>>
  <2>1. \A u \in Tasks : ~ Inside(u, b, "streamReceive", {"readData"})
    BY OnlyReader DEF Inside, Calling, WaitLabels, Reads
  <2>. QED  BY <1>3, <2>1 DEF PartRead
<1>6. rest # <<>>
  <2>1. Len(begun) < BytesIn(s)
    BY <1>1, <1>2, <1>4
  <2>. QED  BY <1>0, <1>3, <1>5, <2>1, MessageIsThere
<1>7. 1 + Len(Head(rest)) <= BytesIn(s) /\ Len(Head(rest)) \in Nat \ {0}
  <2>1. OnTheWay(s, Sizes(program, b), <<>>, rest, begun)
    BY <1>3, <1>5
  <2>2. 1 + Len(Head(rest)) <= BytesIn(s) /\ Len(Head(rest)) \in Sizes(program, b)
    BY <1>0, <1>6, <2>1, MessageIsFirst
  <2>. QED  BY <2>2 DEF Sizes
<1>. QED  BY <1>0, <1>1, <1>7 DEF Arrived, LengthBytes, LengthSize, Triggers

\* A task that writes to the buffer tells, or is about to.
LEMMA WriterTells ==
    ASSUME QueueInv, LabelsFit, ControlInv, PeersAreTasks, SchedInv, NEW t \in Tasks,
           WriteStream(t) \/ WriteData(t) \/ TestTrigger(t), Moves(t),
           NEW b \in Streams, KeepsMessages(program, b), BufferInv(b), NEW side \in Sides,
           Calling(t, b, Other(side)), WaiterInv(b, side), \A u \in Tasks : u # t => Noted(u)
    PROVE  WaiterInv(b, side)'
<1>0. PICK s, x : s = streams[b] /\ s = Stream(t) /\ x = Waiter(s, side) /\ SoundStream(s)
  BY DEF Stream, Calling, BufferInv
<1>1. /\ program' = program /\ HasCall(t) /\ Call(t).op = Other(side) /\ Call(t).stream = b
      /\ local[t].pc \in {"write", "writeData", "trigger"}
  BY DEF WriteStream, WriteData, TestTrigger, At, Calling
<1>2. Waiter(streams'[b], side) = x
  <2>1. CASE TestTrigger(t)
    BY <1>0, <2>1 DEF TestTrigger
  <2>2. CASE WriteStream(t) \/ WriteData(t)
    BY <1>0, <1>1, <2>2, MovesPeers DEF SamePeers, Waiter
  <2>. QED  BY <2>1, <2>2
<1>3. ASSUME Arrived(streams'[b], side, Call(x).bytes) =>
                Arrived(streams[b], side, Call(x).bytes) /\ ~ Tells(t, b, side)
      PROVE  WaiterInv(b, side)'
  BY <1>0, <1>2, <1>3, OtherTold
<1>4. ASSUME Tells(t, b, side)' PROVE WaiterInv(b, side)'
  BY <1>0, <1>2, <1>4, OtherTold
<1>5. local[t].pc \in {"write", "writeData"} => ~ Tells(t, b, side) /\ side = "streamReceive"
  <2>1. local[t].pc \in {"write", "writeData"} => Other(side) = "streamSend"
    BY <1>1 DEF ControlInv, Placed, Using
  <2>. QED  BY <2>1, SidesAre DEF Tells, Inside, TellLabels, Other, Sides
<1>6. ASSUME streams' = streams, local[t].pc = "write" PROVE WaiterInv(b, side)'
  BY <1>3, <1>5, <1>6
<1>7. ASSUME NEW label \in TellLabels(side), Goto(t, [pc |-> label]) PROVE WaiterInv(b, side)'
  <2>a. PICK changes : changes = [pc |-> label]
    OBVIOUS
  <2>1. "at" \notin DOMAIN changes /\ "pc" \in DOMAIN changes /\ changes.pc = label
    BY <2>a
  <2>2. HasCall(t)' = HasCall(t) /\ Call(t)' = Call(t) /\ local'[t].pc = label
    BY <1>1, <1>7, <2>a, <2>1, GotoMoves
  <2>3. Tells(t, b, side)'
    BY <1>1, <2>2 DEF Tells, Inside, Calling
  <2>. QED  BY <1>4, <2>3
<1>8. CASE WriteStream(t)
  <2>0. PICK space, bytes : /\ space = IF local[t].room = 0 THEN SpaceIn(s) ELSE local[t].room
                            /\ bytes = Call(t).bytes
    OBVIOUS
  <2>1. local[t].pc = "write" /\ side = "streamReceive" /\ ~ Tells(t, b, side)
    BY <1>5, <1>8 DEF WriteStream, At
  <2>2. CASE space = 0 \/ (s.isMessage /\ space < Required(s, bytes))
    <3>1. streams' = streams
      BY <1>0, <1>8, <2>0, <2>2 DEF WriteStream
    <3>. QED  BY <1>6, <2>1, <3>1
  <2>3. CASE ~ (space = 0 \/ (s.isMessage /\ space < Required(s, bytes))) /\ s.isMessage
    <3>1. PICK v : v = <<bytes>>
      OBVIOUS
    <3>2. SetStream(t, Written(s, v))
      BY <1>0, <1>8, <2>0, <2>3, <3>1 DEF WriteStream
    <3>3. streams'[b] = Written(s, v)
      BY <1>1, <3>2, SetStreamIs
    <3>4. Inside(t, b, "streamSend", {"write"}) /\ Inside(t, b, "streamSend", SendLabels)
      BY <1>1, <2>1 DEF Inside, Calling, SendLabels, Other
    <3>5. bytes \in Nat \ {0}
      BY <2>0, <3>4, SendsBytes DEF Inside
    <3>6. SpaceIn(s) \in Nat /\ local[t].room \in Nat /\ local[t].room <= SpaceIn(s)
      BY <1>0, <3>4, Counts DEF BufferInv, SpaceSeen
    <3>7. 1 <= SpaceIn(s)
      BY <2>0, <2>3, <3>6
    <3>8. v \in Seq(Nat) /\ Len(v) = 1
      BY <3>1, <3>5
    <3>9. CASE x = None
      BY <1>0, <1>2, <3>9 DEF WaiterInv, Waiter
    <3>10. CASE x # None
      <4>1. x \in Tasks /\ Inside(x, b, "streamReceive", WaitLabels)
        BY <1>0, <2>1, <3>10 DEF WaiterInv, Told
      <4>2. Arrived(streams'[b], side, Call(x).bytes) => Arrived(streams[b], side, Call(x).bytes)
        BY <1>0, <2>1, <2>3, <3>3, <3>4, <3>7, <3>8, <4>1, LengthTellsNobody
      <4>. QED  BY <1>3, <2>1, <4>2
    <3>. QED  BY <3>9, <3>10
  <2>4. CASE ~ (space = 0 \/ (s.isMessage /\ space < Required(s, bytes))) /\ ~ s.isMessage
    <3>1. Goto(t, [pc |-> "trigger"])
      BY <1>0, <1>8, <2>0, <2>4 DEF WriteStream
    <3>2. "trigger" \in TellLabels(side)
      BY <2>1 DEF TellLabels
    <3>. QED  BY <1>7, <3>1, <3>2
  <2>. QED  BY <2>2, <2>3, <2>4
<1>9. CASE WriteData(t)
  <2>1. side = "streamReceive"
    BY <1>5, <1>9 DEF WriteData, At
  <2>2. Goto(t, [pc |-> "trigger"]) /\ "trigger" \in TellLabels(side)
    BY <1>9, <2>1 DEF WriteData, TellLabels
  <2>. QED  BY <1>7, <2>2
<1>10. CASE TestTrigger(t)
  <2>1. local[t].pc = "trigger" /\ streams' = streams
    BY <1>10 DEF TestTrigger, At
  <2>2. CASE Triggers(s)
    <3>1. Goto(t, [pc |-> "complete"]) /\ "complete" \in TellLabels(side)
      BY <1>0, <1>10, <2>2 DEF TestTrigger, TellLabels
    <3>. QED  BY <1>7, <3>1
  <2>3. CASE ~ Triggers(s) /\ side = "streamReceive"
    <3>1. ~ Arrived(streams'[b], side, Call(x).bytes)
      BY <1>0, <2>1, <2>3 DEF Arrived
    <3>. QED  BY <1>3, <3>1
  <2>4. CASE ~ Triggers(s) /\ side = "streamSend"
    <3>1. ~ Tells(t, b, side)
      BY <2>1, <2>4 DEF Tells, Inside, TellLabels
    <3>. QED  BY <1>3, <2>1, <3>1
  <2>. QED  BY <2>2, <2>3, <2>4 DEF Sides
<1>. QED  BY <1>8, <1>9, <1>10

\* A task that reads the buffer is about to tell.
LEMMA ReaderTells ==
    ASSUME QueueInv, ControlInv, PeersAreTasks, NEW t \in Tasks, ReadStream(t) \/ ReadData(t), Moves(t),
           NEW b \in Streams, KeepsMessages(program, b), BufferInv(b), NEW side \in Sides,
           Calling(t, b, Other(side)), WaiterInv(b, side), \A u \in Tasks : u # t => Noted(u)
    PROVE  WaiterInv(b, side)'
<1>0. PICK s, x : s = streams[b] /\ s = Stream(t) /\ x = Waiter(s, side)
  BY DEF Stream, Calling
<1>1. /\ program' = program /\ HasCall(t) /\ Call(t).op = Other(side) /\ Call(t).stream = b
      /\ local[t].pc \in {"read", "readData"}
  BY DEF ReadStream, ReadData, At, Calling
<1>2. Waiter(streams'[b], side) = x
  BY <1>0, <1>1, MovesPeers DEF SamePeers, Waiter
<1>3. side = "streamSend" /\ Call(t).op = "streamReceive"
  <2>1. Call(t).op \in Reads
    BY <1>1 DEF ControlInv, Placed, Using, Reads
  <2>. QED  BY <1>1, <2>1 DEF Sides, Other, Reads
<1>4. ASSUME NEW changes, Goto(t, changes), "at" \notin DOMAIN changes, "pc" \in DOMAIN changes,
             changes.pc \in {"readData", "complete"}
      PROVE  WaiterInv(b, side)'
  <2>1. HasCall(t)' = HasCall(t) /\ Call(t)' = Call(t) /\ local'[t].pc = changes.pc
    BY <1>1, <1>4, GotoMoves
  <2>2. Tells(t, b, side)'
    BY <1>1, <1>3, <1>4, <2>1 DEF Tells, Inside, Calling, TellLabels
  <2>. QED  BY <1>0, <1>2, <2>2, OtherTold
<1>5. CASE ReadStream(t)
  <2>1. CASE local[t].room <= LengthBytes(s)
    <3>1. streams' = streams /\ local[t].pc = "read"
      BY <1>0, <1>5, <2>1 DEF ReadStream, At
    <3>2. ~ Tells(t, b, side)
      BY <1>3, <3>1 DEF Tells, Inside, TellLabels
    <3>. QED  BY <1>0, <1>2, <3>1, <3>2, OtherTold
  <2>2. CASE ~ (local[t].room <= LengthBytes(s)) /\ s.isMessage
    <3>1. PICK room : Goto(t, [pc |-> "readData", room |-> room])
      BY <1>0, <1>5, <2>2 DEF ReadStream
    <3>2. PICK changes : changes = [pc |-> "readData", room |-> room]
      OBVIOUS
    <3>3. "at" \notin DOMAIN changes /\ "pc" \in DOMAIN changes /\ changes.pc = "readData"
      BY <3>2
    <3>. QED  BY <1>4, <3>1, <3>2, <3>3
  <2>3. CASE ~ (local[t].room <= LengthBytes(s)) /\ ~ s.isMessage
    <3>1. Goto(t, [pc |-> "complete"])
      BY <1>0, <1>5, <2>3 DEF ReadStream
    <3>2. PICK changes : changes = [pc |-> "complete"]
      OBVIOUS
    <3>3. "at" \notin DOMAIN changes /\ "pc" \in DOMAIN changes /\ changes.pc = "complete"
      BY <3>2
    <3>. QED  BY <1>4, <3>1, <3>2, <3>3
  <2>. QED  BY <2>1, <2>2, <2>3
<1>6. CASE ReadData(t)
  <2>1. Inside(t, b, "streamReceive", {"readData"})
    BY <1>1, <1>3, <1>6 DEF ReadData, At, Inside, Calling
  <2>2. PICK taken, rest, begun :
           /\ OnTheWay(s, Sizes(program, b), taken, rest, begun)
           /\ Begun(b, begun) /\ PartRead(b, taken, rest)
    BY <1>0, <2>1 DEF BufferInv, BytesSeen, Messages
  <2>3. rest # <<>> /\ local[t].room = Len(Head(rest))
    BY <2>1, <2>2 DEF PartRead
  <2>4. Len(Head(rest)) \in Sizes(program, b)
    <3>1. rest \in Seq(Seq(Nat)) /\ \A i \in 1 .. Len(rest) : Len(rest[i]) \in Sizes(program, b)
      BY <2>2 DEF OnTheWay
    <3>2. 1 \in 1 .. Len(rest) /\ Head(rest) = rest[1]
      BY <2>3, <3>1
    <3>. QED  BY <3>1, <3>2
  <2>5. local[t].room # 0
    BY <2>3, <2>4 DEF Sizes
  <2>6. Goto(t, [pc |-> "complete"])
    BY <1>6, <2>5 DEF ReadData
  <2>7. PICK changes : changes = [pc |-> "complete"]
    OBVIOUS
  <2>8. "at" \notin DOMAIN changes /\ "pc" \in DOMAIN changes /\ changes.pc = "complete"
    BY <2>7
  <2>. QED  BY <1>4, <2>6, <2>7, <2>8
<1>. QED  BY <1>5, <1>6

\* Whoever is announced is notified, then forgotten.
LEMMA PeerIsTold ==
    ASSUME QueueInv, ControlInv, PeersAreTasks, SchedInv, NEW t \in Tasks,
           Complete(t) \/ NotifyPeer(t) \/ ForgetPeer(t), Moves(t),
           NEW b \in Streams, NEW side \in Sides,
           Calling(t, b, Other(side)), WaiterInv(b, side), \A u \in Tasks : u # t => Noted(u)
    PROVE  WaiterInv(b, side)'
<1>0. PICK s, x : s = streams[b] /\ s = Stream(t) /\ x = Waiter(s, side) /\ PeerFits(s)
  BY DEF Stream, Calling, PeersAreTasks, PeerFits
<1>1. /\ program' = program /\ HasCall(t) /\ Call(t).op = Other(side) /\ Call(t).stream = b
  BY DEF Complete, NotifyPeer, ForgetPeer, Calling
<1>2. Peer(t) = x
  BY <1>0, <1>1 DEF Peer, Waiter, Other, Sides
<1>3. CASE Complete(t)
  <2>1. Goto(t, [pc |-> "notifyPeer"]) /\ streams' = streams
    BY <1>3 DEF Complete
  <2>2. PICK changes : changes = [pc |-> "notifyPeer"]
    OBVIOUS
  <2>3. "at" \notin DOMAIN changes /\ "pc" \in DOMAIN changes /\ changes.pc = "notifyPeer"
    BY <2>2
  <2>4. HasCall(t)' = HasCall(t) /\ Call(t)' = Call(t) /\ local'[t].pc = "notifyPeer"
    BY <1>1, <2>1, <2>2, <2>3, GotoMoves
  <2>5. Tells(t, b, side)'
    BY <1>1, <2>4 DEF Tells, Inside, Calling, TellLabels
  <2>. QED  BY <1>0, <2>1, <2>5, OtherTold
<1>4. CASE NotifyPeer(t)
  <2>0. PICK r : r = sched'
    OBVIOUS
  <2>1. streams' = streams /\ Running(t) /\ local[t].pc = "notifyPeer"
    BY <1>4 DEF NotifyPeer, At
  <2>2. CASE x = None
    BY <1>0, <2>1, <2>2, OtherTold
  <2>3. CASE x # None
    <3>1. x \in Tasks /\ Well(sched)
      BY <1>0, <2>3 DEF SchedInv, PeerFits, Waiter, Someone
    <3>2. PICK n : n = Signalled(sched, x) /\ n \in {Counted(sched, x), Signalled(sched, x)}
      OBVIOUS
    <3>3. r = Notify(sched, x, n)
      BY <1>2, <1>4, <2>0, <2>3, <3>2 DEF NotifyPeer
    <3>4. sched.notifyState[x] = "waiting" => ~ InEvents(sched, x) /\ (sched.suspended # 0 => x # sched.current)
      BY <2>1, <3>1, NobodyElseNotifies
    <3>5. r.notifyState[x] = "received"
      BY <3>1, <3>2, <3>3, <3>4, Notified
    <3>. QED  BY <1>0, <2>0, <2>1, <3>5, OtherTold
  <2>. QED  BY <2>2, <2>3
<1>5. CASE ForgetPeer(t)
  <2>1. PICK p, q : p = [s EXCEPT !.waitingToSend = None] /\ q = [s EXCEPT !.waitingToReceive = None]
    OBVIOUS
  <2>2. p.waitingToSend = None /\ q.waitingToReceive = None
    BY <1>0, <2>1 DEF PeerFits
  <2>3. SetStream(t, IF Other(side) = "streamSend" THEN q ELSE p)
    BY <1>0, <1>1, <1>5, <2>1 DEF ForgetPeer
  <2>4. streams'[b] = IF Other(side) = "streamSend" THEN q ELSE p
    BY <1>1, <2>3, SetStreamIs
  <2>5. Waiter(streams'[b], side) = None
    BY <2>2, <2>4 DEF Waiter, Other, Sides
  <2>. QED  BY <1>0, <2>5, OtherTold
<1>. QED  BY <1>3, <1>4, <1>5

\* Every step of a task keeps what the other side of its buffer is told.
LEMMA OtherSide ==
    ASSUME QueueInv, LabelsFit, ControlInv, PeersAreTasks, SchedInv, NEW t \in Tasks, StreamStep(t), Moves(t),
           NEW b \in Streams, KeepsMessages(program, b), BufferInv(b), NEW side \in Sides,
           Calling(t, b, Other(side)), WaiterInv(b, side), \A u \in Tasks : u # t => Noted(u)
    PROVE  WaiterInv(b, side)'
<1>0. PICK s, x : s = streams[b] /\ s = Stream(t) /\ x = Waiter(s, side) /\ PeerFits(s)
  BY DEF Stream, Calling, PeersAreTasks, PeerFits
<1>1. HasCall(t) /\ Call(t).op = Other(side) /\ Call(t).stream = b
  BY DEF Calling
<1>2. CASE \/ StreamSend(t) \/ SendTimeout(t) \/ StreamWait(t) \/ StreamWaited(t) \/ Recheck(t)
           \/ CheckSpace(t) \/ StreamReceive(t) \/ Forget(t)
  <2>1. ~ Tells(t, b, side)
    <3>1. local[t].pc \in {"call", "time", "wait", "waited", "recheck", "space", "forget"}
      BY <1>2 DEF StreamSend, SendTimeout, StreamWait, StreamWaited, Recheck, CheckSpace, StreamReceive, Forget,
                  At, Calls
    <3>. QED  BY <3>1 DEF Tells, Inside, TellLabels
  <2>2. SameData(s, streams'[b]) /\ Waiter(streams'[b], side) = x
    <3>1. CASE streams' = streams
      BY <1>0, <3>1 DEF SameData
    <3>2. CASE streams' # streams
      <4>1. \/ Other(side) = "streamSend" /\ \E w : SetStream(t, [s EXCEPT !.waitingToSend = w])
            \/ Other(side) = "streamReceive" /\ \E w : SetStream(t, [s EXCEPT !.waitingToReceive = w])
        <5>1. CASE CheckSpace(t)
          <6>1. Other(side) = "streamSend"
            BY <1>1, <5>1 DEF CheckSpace, At, ControlInv, Placed, Using
          <6>. QED  BY <1>0, <3>2, <5>1, <6>1 DEF CheckSpace
        <5>2. CASE StreamReceive(t)
          <6>1. Other(side) = "streamReceive"
            BY <1>1, <5>2, StreamOperation DEF StreamReceive
          <6>. QED  BY <1>0, <3>2, <5>2, <6>1 DEF StreamReceive
        <5>3. CASE Forget(t)
          BY <1>0, <1>1, <5>3, SidesAre DEF Forget, Sides
        <5>. QED  BY <1>2, <3>2, <5>1, <5>2, <5>3
                  DEF StreamSend, SendTimeout, StreamWait, StreamWaited, Recheck
      <4>2. CASE Other(side) = "streamSend" /\ \E w : SetStream(t, [s EXCEPT !.waitingToSend = w])
        <5>1. PICK w, v : v = [s EXCEPT !.waitingToSend = w] /\ SetStream(t, v)
          BY <4>2
        <5>2. streams'[b] = v
          BY <1>1, <5>1, SetStreamIs
        <5>3. SameData(s, v) /\ v.waitingToReceive = s.waitingToReceive
          BY <1>0, <5>1, WaitingChanges DEF PeerFits
        <5>. QED  BY <1>0, <4>2, <5>2, <5>3 DEF Waiter, Other, Sides
      <4>3. CASE Other(side) = "streamReceive" /\ \E w : SetStream(t, [s EXCEPT !.waitingToReceive = w])
        <5>1. PICK w, v : v = [s EXCEPT !.waitingToReceive = w] /\ SetStream(t, v)
          BY <4>3
        <5>2. streams'[b] = v
          BY <1>1, <5>1, SetStreamIs
        <5>3. SameData(s, v) /\ v.waitingToSend = s.waitingToSend
          BY <1>0, <5>1, WaitingChanges DEF PeerFits
        <5>. QED  BY <1>0, <4>3, <5>2, <5>3 DEF Waiter, Other, Sides
      <4>. QED  BY <4>1, <4>2, <4>3
    <3>. QED  BY <3>1, <3>2
  <2>3. Arrived(streams'[b], side, Call(x).bytes) => Arrived(streams[b], side, Call(x).bytes)
    BY <1>0, <2>2, ArrivedSame
  <2>. QED  BY <1>0, <2>1, <2>2, <2>3, OtherTold
<1>3. CASE WriteStream(t) \/ WriteData(t) \/ TestTrigger(t)
  BY <1>3, WriterTells
<1>4. CASE ReadStream(t) \/ ReadData(t)
  BY <1>4, ReaderTells
<1>5. CASE Complete(t) \/ NotifyPeer(t) \/ ForgetPeer(t)
  BY <1>5, PeerIsTold
<1>6. CASE NextLength(t)
  BY <1>6, StreamOperation, SidesAre DEF NextLength, Calling, Sides
<1>. QED  BY <1>2, <1>3, <1>4, <1>5, <1>6 DEF StreamStep

\* A step of one task in a call on a buffer.
LEMMA StreamStepTells ==
    ASSUME QueueInv, LabelsFit, ControlInv, PeersAreTasks, SchedInv, NEW t \in Tasks, StreamStep(t), Keeps(t), Kept,
           NEW b \in Streams, KeepsMessages(program, b), BufferInv(b), NEW side \in Sides, WaiterInv(b, side)
    PROVE  WaiterInv(b, side)'
<1>1. Running(t) /\ sched.current = t
  BY StreamStepRuns DEF Running
<1>2. Moves(t) /\ HasCall(t) /\ program' = program /\ \A u \in Tasks : u # t => local'[u] = local[u] /\ Noted(u)
  BY <1>1 DEF Keeps, Moves, Kept
<1>3. CASE Call(t).stream # b
  <2>1. streams'[b] = streams[b]
    BY <1>3, OneBufferAtMost, SetStreamIs
  <2>2. AwayFrom(t, b)
    BY <1>2, <1>3, OnAnother
  <2>. QED  BY <1>2, <2>1, <2>2, ToldElsewhere
<1>4. CASE Call(t).stream = b
  <2>1. Calling(t, b, side) \/ Calling(t, b, Other(side)) \/ Call(t).op \notin Sides
    BY <1>2, <1>4, SidesAre DEF Calling, Sides, Other
  <2>2. CASE Calling(t, b, side)
    BY <2>2, OwnSide
  <2>3. CASE Calling(t, b, Other(side))
    BY <1>2, <2>3, OtherSide
  <2>4. CASE Call(t).op \notin Sides
    <3>1. Call(t).op \in {"streamSend"} \cup Reads
      <4>1. CASE \/ StreamSend(t) \/ StreamReceive(t) \/ NextLength(t)
        BY <4>1, StreamOperation DEF StreamSend, StreamReceive, NextLength, Reads
      <4>2. CASE ~ (StreamSend(t) \/ StreamReceive(t) \/ NextLength(t))
        <5>1. local[t].pc \in StreamLabels
          BY <4>2 DEF StreamStep, CheckSpace, SendTimeout, WriteStream, WriteData, TestTrigger, StreamWait,
             StreamWaited, Forget, Complete, NotifyPeer, ForgetPeer, Recheck, ReadStream, ReadData, At, StreamLabels
        <5>. QED  BY <5>1 DEF StreamLabels, ControlInv, Placed, Using, Reads
      <4>. QED  BY <4>1, <4>2
    <3>2. Calling(t, b, "nextLength")
      BY <1>2, <1>4, <2>4, <3>1 DEF Sides, Reads, Calling
    <3>. QED  BY <3>2, NoLengthIsRead
  <2>. QED  BY <2>1, <2>2, <2>3, <2>4
<1>. QED  BY <1>3, <1>4

(***************************************************************************)
(* Interrupts, and the rest of the system.                                 *)
(***************************************************************************)

\* No task is on the side of the interrupts.
LEMMA NobodyBeside ==
    ASSUME QueueInv, raised < Len(Interrupts), NEW side \in Sides, Raised.op = side,
           NEW b, b = Raised.stream, WaiterInv(b, side)
    PROVE  Waiter(streams[b], side) = None
<1>0. PICK x : x = Waiter(streams[b], side)
  OBVIOUS
<1>1. SUFFICES ASSUME x # None PROVE FALSE
  BY <1>0
<1>2. x \in Tasks /\ HasCall(x) /\ Call(x).op = side /\ Call(x).stream = b
  BY <1>0, <1>1 DEF WaiterInv, Told, Inside, Calling
<1>3. raised + 1 \in 1 .. Len(Interrupts) /\ Raised = Interrupts[raised + 1]
  BY InterruptCalls
<1>4. CASE side = "streamSend"
  BY <1>2, <1>3, <1>4, OnlyInterrupts
<1>5. CASE side = "streamReceive"
  BY <1>2, <1>3, <1>5, OnlyInterrupts DEF Reads
<1>. QED  BY <1>4, <1>5 DEF Sides

\* An interrupt that writes to a buffer tells its reader.
LEMMA SendInterruptTells ==
    ASSUME QueueInv, ControlInv, PeersAreTasks, StreamSendInterrupt, \A u \in Tasks : Noted(u),
           NEW b \in Streams, NEW side \in Sides, WaiterInv(b, side)
    PROVE  WaiterInv(b, side)'
<1>1. /\ program' = program /\ local' = local /\ raised < Len(Interrupts) /\ Raised.op = "streamSend"
      /\ DOMAIN streams = Streams
  BY DEF StreamSendInterrupt, Raise, Raised, ControlInv
<1>2. CASE streams'[b] = streams[b]
  BY <1>1, <1>2, ToldElsewhere
<1>3. CASE streams'[b] # streams[b]
  <2>0. PICK s : s = streams[b] /\ PeerFits(s)
    BY DEF PeersAreTasks, PeerFits
  <2>1. b = Raised.stream
    BY <1>1, <1>3 DEF StreamSendInterrupt, SetRaised
  <2>2. PICK w, m : w = Written(s, <<Raised.bytes>>) /\ m = Min({Raised.bytes, SpaceIn(s)})
    OBVIOUS
  <2>3. PICK sent, told : /\ sent = IF s.isMessage THEN Sent(w, Raised.bytes) ELSE Sent(s, m)
                          /\ told = [sent EXCEPT !.waitingToReceive = None]
    OBVIOUS
  <2>4. /\ streams'[b] \in {sent, told}
        /\ streams'[b] = sent => s.waitingToReceive = None \/ ~ Triggers(sent) \/ sent = told
    BY <1>1, <1>3, <2>0, <2>1, <2>2, <2>3 DEF StreamSendInterrupt, SetRaised
  <2>5. SamePeers(s, sent) /\ PeerFits(sent)
    <3>1. PeerFits(w) /\ SamePeers(s, w)
      BY <2>0, <2>2, PeerKept, DataPeers
    <3>2. PeerFits(Sent(w, Raised.bytes)) /\ SamePeers(w, Sent(w, Raised.bytes))
      BY <3>1, PeerKept, DataPeers
    <3>3. PeerFits(Sent(s, m)) /\ SamePeers(s, Sent(s, m))
      BY <2>0, PeerKept, DataPeers
    <3>. QED  BY <2>3, <3>1, <3>2, <3>3 DEF SamePeers
  <2>6. /\ told.waitingToReceive = None /\ told.waitingToSend = s.waitingToSend
        /\ sent.waitingToSend = s.waitingToSend /\ sent.waitingToReceive = s.waitingToReceive
    BY <2>3, <2>5 DEF SamePeers, PeerFits
  <2>7. CASE side = "streamSend"
    <3>1. Waiter(streams[b], side) = None
      BY <1>1, <2>1, <2>7, NobodyBeside
    <3>2. Waiter(streams'[b], side) = None
      BY <2>0, <2>4, <2>6, <2>7, <3>1 DEF Waiter
    <3>. QED  BY <3>2 DEF WaiterInv, Waiter
  <2>8. CASE side = "streamReceive" /\ Waiter(streams'[b], side) = None
    BY <2>8 DEF WaiterInv, Waiter
  <2>9. CASE side = "streamReceive" /\ Waiter(streams'[b], side) # None
    <3>0. PICK x : x = Waiter(streams[b], side)
      OBVIOUS
    <3>1. streams'[b] = sent /\ ~ Triggers(sent) /\ Waiter(streams'[b], side) = x /\ x # None
      BY <2>0, <2>4, <2>6, <2>9, <3>0 DEF Waiter
    <3>2. x \in Tasks /\ Inside(x, b, side, WaitLabels)
      BY <3>0, <3>1 DEF WaiterInv, Told
    <3>3. Inside(x, b, side, WaitLabels)'
      BY <1>1, <3>2 DEF Inside, Calling, HasCall, Call
    <3>4. ~ Arrived(streams'[b], side, Call(x)'.bytes)
      BY <2>9, <3>1 DEF Arrived
    <3>5. Told(x, b, side)'
      BY <3>2, <3>3, <3>4 DEF Told
    <3>6. Waiter(streams[b], side)' = x
      BY <3>1 DEF Waiter
    <3>. QED  BY <3>5, <3>6 DEF WaiterInv
  <2>. QED  BY <2>7, <2>8, <2>9 DEF Sides
<1>. QED  BY <1>2, <1>3

\* And one that reads it, its writer.
LEMMA ReceiveInterruptTells ==
    ASSUME QueueInv, ControlInv, PeersAreTasks, StreamReceiveInterrupt, \A u \in Tasks : Noted(u),
           NEW b \in Streams, NEW side \in Sides, WaiterInv(b, side)
    PROVE  WaiterInv(b, side)'
<1>1. /\ program' = program /\ local' = local /\ raised < Len(Interrupts) /\ Raised.op = "streamReceive"
      /\ DOMAIN streams = Streams
  BY DEF StreamReceiveInterrupt, Raise, Raised, ControlInv
<1>2. CASE streams'[b] = streams[b]
  BY <1>1, <1>2, ToldElsewhere
<1>3. CASE streams'[b] # streams[b]
  <2>0. PICK s : s = streams[b] /\ PeerFits(s)
    BY DEF PeersAreTasks, PeerFits
  <2>1. b = Raised.stream
    BY <1>1, <1>3 DEF StreamReceiveInterrupt, SetRaised
  <2>2. PICK w, k, m : /\ w = Advanced(s, LengthSize) /\ k = Head(Oldest(s, 1))
                       /\ m = Min({BytesIn(s), Raised.bytes})
    OBVIOUS
  <2>3. PICK got, told : /\ got = IF s.isMessage THEN Got(w, k) ELSE Got(s, m)
                         /\ told = [got EXCEPT !.waitingToSend = None]
    OBVIOUS
  <2>4. /\ streams'[b] \in {got, told}
        /\ streams'[b] = got => s.waitingToSend = None \/ got = told
    BY <1>1, <1>3, <2>0, <2>1, <2>2, <2>3 DEF StreamReceiveInterrupt, SetRaised
  <2>5. SamePeers(s, got) /\ PeerFits(got)
    <3>1. PeerFits(w) /\ SamePeers(s, w)
      BY <2>0, <2>2, PeerKept, DataPeers
    <3>2. PeerFits(Got(w, k)) /\ SamePeers(w, Got(w, k))
      BY <3>1, PeerKept, DataPeers
    <3>3. PeerFits(Got(s, m)) /\ SamePeers(s, Got(s, m))
      BY <2>0, PeerKept, DataPeers
    <3>. QED  BY <2>3, <3>1, <3>2, <3>3 DEF SamePeers
  <2>6. /\ told.waitingToSend = None /\ told.waitingToReceive = s.waitingToReceive
        /\ got.waitingToSend = s.waitingToSend /\ got.waitingToReceive = s.waitingToReceive
    BY <2>3, <2>5 DEF SamePeers, PeerFits
  <2>7. Waiter(streams'[b], side) = None
    <3>1. CASE side = "streamReceive"
      <4>1. Waiter(streams[b], side) = None
        BY <1>1, <2>1, <3>1, NobodyBeside
      <4>. QED  BY <2>0, <2>4, <2>6, <3>1, <4>1 DEF Waiter
    <3>2. CASE side = "streamSend"
      BY <2>4, <2>6, <3>2 DEF Waiter
    <3>. QED  BY <3>1, <3>2 DEF Sides
  <2>. QED  BY <2>7 DEF WaiterInv, Waiter
<1>. QED  BY <1>2, <1>3

\* A task in any other call is at no step of one on a buffer.
LEMMA QueueStepsAway ==
    ASSUME NEW t \in Tasks, QueueStep(t)
    PROVE  Running(t) /\ local[t].pc \notin StreamLabels
BY DEF QueueStep, SendNow, ReceiveNow, PeekNow, TakeNow, TakeAgain, GiveOnce, Give, GiveNothing, Refuse, GoWait,
       LockAndCheck, CheckStill, Place, UnlockTx, UnlockRx, Resume, GiveUp, DisinheritAfterTimeout,
       Calls, At, StreamLabels

LEMMA OtherStepsAway ==
    ASSUME NEW t \in Tasks, OtherStep(t)
    PROVE  Running(t) /\ local[t].pc \notin StreamLabels
BY DEF OtherStep, Delay, DelayUntil, ReturnFromDelay, WaitForNotification, NotifyTaken, WaitBits, SetBits,
       SyncBits, BitsCame, ReadBits, ClearBits, DeleteGroup, ResumeOther, TaskCall, AbortDelayOf, Exit,
       DelayNothing, Calls, At, StreamLabels

LEMMA ServiceStepsAway ==
    ASSUME NEW t \in Tasks, ComposeCommand(t) \/ DaemonStep(t) \/ ClockStep(t)
    PROVE  Running(t) /\ local[t].pc \notin StreamLabels
BY DEF ComposeCommand, DaemonStep, LookAtTimers, AwaitCommand, PlaceDaemon, ResumeDaemon, ExpireTimer, Callback,
       SwitchOne, ReloadSwitched, SwitchLists, ReceiveCommand, SampleTime, ApplyStart, ReloadStarted,
       ApplyChangePeriod, ApplyStop, ClockStep, ReadClock, SleepFor, BeginSetClock, StoreClock,
       Calls, At, StreamLabels

\* So it leaves the buffers alone.
LEMMA OutsideTells ==
    ASSUME Outside, \/ \A u \in Tasks : Noted(u)
                    \/ \E t \in Tasks : Running(t) /\ local[t].pc \notin StreamLabels /\ Kept,
           NEW b, NEW side \in Sides, WaiterInv(b, side)
    PROVE  WaiterInv(b, side)'
<1>1. ASSUME NEW u \in Tasks PROVE AwayFrom(u, b) \/ (local'[u] = local[u] /\ Noted(u))
  <2>1. CASE local[u].pc \notin StreamLabels
    <3>1. local'[u].pc \notin StreamLabels
      BY <2>1 DEF Outside
    <3>. QED  BY <2>1, <3>1 DEF AwayFrom, Inside
  <2>2. CASE local[u].pc \in StreamLabels
    <3>1. local'[u] = local[u]
      BY <2>2 DEF Outside
    <3>2. Noted(u)
      BY <2>2 DEF Kept, Running
    <3>. QED  BY <3>1, <3>2
  <2>. QED  BY <2>1, <2>2
<1>. QED  BY <1>1, ToldElsewhere DEF Outside

LEMMA WaitersStart == SystemInit => WaitersInv
<1>1. SUFFICES ASSUME SystemInit, NEW b \in Streams, NEW side \in Sides PROVE Waiter(streams[b], side) = None
  BY DEF WaitersInv, WaiterInv
<1>2. streams[b] = NewStream(streams[b].isMessage, streams[b].length, streams[b].trigger)
  BY <1>1, StreamAssumption DEF SystemInit, Init
<1>3. PICK isMessage, length, trigger : streams[b] = NewStream(isMessage, length, trigger)
  BY <1>2
<1>. QED  BY <1>3 DEF NewStream, Waiter

LEMMA WaitersStay == IInv /\ WaitersInv /\ [SystemNext]_systemVars => WaitersInv'
<1>1. SUFFICES ASSUME IInv, WaitersInv, [SystemNext]_systemVars PROVE WaitersInv'
  OBVIOUS
<1>2. QueueInv /\ StreamInv /\ ControlInv /\ LabelsFit /\ HoldersAreTasks /\ PeersAreTasks /\ SchedInv
  BY <1>1 DEF IInv, StreamInv
<1>3. CASE UNCHANGED systemVars
  BY <1>1, <1>3 DEF systemVars, vars, WaitersInv, WaiterInv, Told, Heard, Tells, Inside, Calling, HasCall, Call
<1>4. CASE SystemNext
  <2>1. \A t \in Tasks : local[t].pc = "notifyPeer" => Peer(t) \in Someone
    BY <1>2, PeerIs DEF ControlInv
  <2>2. Kept
    BY <1>2, <1>4, <2>1, SchedulerSteps
  <2>3. ASSUME program' = program,
               \A b \in Streams : KeepsMessages(program, b) => \A side \in Sides : WaiterInv(b, side)'
        PROVE  WaitersInv'
    BY <2>3 DEF WaitersInv
  <2>4. ASSUME NEW b \in Streams, KeepsMessages(program, b), NEW side \in Sides
        PROVE  BufferInv(b) /\ WaiterInv(b, side)
    BY <1>1, <1>2, <2>4 DEF StreamInv, WaitersInv
  <2>5. ASSUME NEW t \in Tasks, Outside, Running(t), local[t].pc \notin StreamLabels PROVE WaitersInv'
    BY <2>2, <2>3, <2>4, <2>5, OutsideTells DEF Outside
  <2>6. ASSUME Outside, AllKept PROVE WaitersInv'
    BY <2>3, <2>4, <2>6, OutsideTells DEF AllKept, Outside
  <2>7. CASE Processor /\ UNCHANGED <<streams, timers, wall>>
    <3>1. CASE \E t \in Tasks : QueueStep(t) \/ OtherStep(t)
      BY <1>2, <2>5, <2>7, <3>1, QueueStepsOutside, OtherStepsOutside, QueueStepsAway, OtherStepsAway
    <3>2. CASE Switch \/ IdleCleansUp
      BY <1>2, <2>6, <2>7, <3>2, InterruptsOutside, SwitchKeeps, IdleAndTicksKeep
    <3>. QED  BY <2>7, <3>1, <3>2 DEF Processor
  <2>8. CASE (\E t \in Tasks : StreamStep(t)) /\ UNCHANGED <<timers, wall>>
    <3>1. PICK t \in Tasks : StreamStep(t)
      BY <2>8
    <3>2. Keeps(t)
      BY <1>2, <3>1, StreamStepKeeps
    <3>3. program' = program
      BY <3>2 DEF Keeps, Moves
    <3>4. ASSUME NEW b \in Streams, KeepsMessages(program, b), NEW side \in Sides PROVE WaiterInv(b, side)'
      BY <1>2, <2>2, <2>4, <3>1, <3>2, <3>4, StreamStepTells
    <3>. QED  BY <2>3, <3>3, <3>4
  <2>9. CASE (\E t \in Tasks : ComposeCommand(t) \/ DaemonStep(t)) /\ UNCHANGED <<streams, wall>>
    BY <1>2, <2>5, <2>9, DaemonStepsOutside, ServiceStepsAway
  <2>10. CASE (\E t \in Tasks : ClockStep(t)) /\ UNCHANGED <<streams, timers>>
    BY <1>2, <2>5, <2>10, ClockStepsOutside, ServiceStepsAway
  <2>11. CASE Interrupt /\ UNCHANGED <<streams, timers, wall>>
    BY <1>2, <2>6, <2>11, InterruptsOutside, QueueInterruptsKeep, TaskInterruptKeeps DEF Interrupt
  <2>12. CASE CommandInterrupt /\ UNCHANGED <<streams, wall>>
    BY <1>2, <2>6, <2>12, InterruptsOutside, QueueInterruptsKeep DEF CommandInterrupt
  <2>13. CASE StreamInterrupt /\ UNCHANGED <<timers, wall>>
    <3>1. \A u \in Tasks : Noted(u)
      BY <1>2, <2>13, StreamInterruptKeeps DEF AllKept
    <3>2. program' = program
      BY <2>13 DEF StreamInterrupt, StreamSendInterrupt, StreamReceiveInterrupt, Raise
    <3>3. ASSUME NEW b \in Streams, KeepsMessages(program, b), NEW side \in Sides PROVE WaiterInv(b, side)'
      BY <1>2, <2>4, <2>13, <3>1, <3>3, SendInterruptTells, ReceiveInterruptTells DEF StreamInterrupt
    <3>. QED  BY <2>3, <3>2, <3>3
  <2>14. CASE Tick
    BY <1>2, <2>6, <2>14, InterruptsOutside, IdleAndTicksKeep DEF Tick
  <2>. QED  BY <1>4, <2>7, <2>8, <2>9, <2>10, <2>11, <2>12, <2>13, <2>14
            DEF SystemNext, SystemProcessor, SystemInterrupt
<1>. QED  BY <1>1, <1>3, <1>4

\* No reader sleeps on data that it waits for, and no writer on space, without
\* the other side being about to notify it, on every buffer whose reads have
\* room for its messages: no notification is lost between the look at the buffer
\* and the wait, and none is used up by another wait (stream_buffer.c).
THEOREM NobodySleepsOnData ==
    SystemSpec => []((\A b \in Streams : KeepsMessages(program, b)) => StreamWaitersWake)
<1>1. IInv /\ WaitersInv => ((\A b \in Streams : KeepsMessages(program, b)) => StreamWaitersWake)
  <2>1. SUFFICES ASSUME IInv, WaitersInv, NEW b \in Streams, KeepsMessages(program, b)
                 PROVE  LET s == streams[b] IN
                        /\ Sleeps(s.waitingToReceive) /\ BytesIn(s) > LengthBytes(s) /\ BytesIn(s) >= s.trigger
                              => InCall(b, {"streamSend"}, {"trigger", "complete", "notifyPeer"})
                        /\ Sleeps(s.waitingToSend) /\ SpaceIn(s) >= Required(s, Call(s.waitingToSend).bytes)
                              => InCall(b, {"streamReceive"}, {"readData", "complete", "notifyPeer"})
    BY DEF StreamWaitersWake
  <2>2. ASSUME NEW side \in Sides, NEW x, x = Waiter(streams[b], side), Sleeps(x),
               Arrived(streams[b], side, Call(x).bytes)
        PROVE  \E t \in Tasks : Tells(t, b, side)
    <3>1. Told(x, b, side)
      BY <2>1, <2>2 DEF WaitersInv, WaiterInv, Sleeps
    <3>2. ~ Heard(x)
      BY <2>2 DEF Heard, Sleeps
    <3>. QED  BY <2>2, <3>1, <3>2 DEF Told
  <2>3. ASSUME Sleeps(streams[b].waitingToReceive), BytesIn(streams[b]) > LengthBytes(streams[b]),
               BytesIn(streams[b]) >= streams[b].trigger
        PROVE  InCall(b, {"streamSend"}, {"trigger", "complete", "notifyPeer"})
    <3>1. PICK side, x : side = "streamReceive" /\ x = streams[b].waitingToReceive
      OBVIOUS
    <3>2. side \in Sides /\ x = Waiter(streams[b], side) /\ Arrived(streams[b], side, Call(x).bytes)
      BY <2>3, <3>1 DEF Sides, Waiter, Arrived, Triggers
    <3>3. PICK t \in Tasks : Tells(t, b, side)
      BY <2>2, <2>3, <3>1, <3>2
    <3>. QED  BY <3>1, <3>3 DEF Tells, Inside, Calling, TellLabels, Other, InCall
  <2>4. ASSUME Sleeps(streams[b].waitingToSend),
               SpaceIn(streams[b]) >= Required(streams[b], Call(streams[b].waitingToSend).bytes)
        PROVE  InCall(b, {"streamReceive"}, {"readData", "complete", "notifyPeer"})
    <3>1. PICK side, x : side = "streamSend" /\ x = streams[b].waitingToSend
      OBVIOUS
    <3>2. side \in Sides /\ x = Waiter(streams[b], side) /\ Arrived(streams[b], side, Call(x).bytes)
      BY <2>4, <3>1 DEF Sides, Waiter, Arrived
    <3>3. PICK t \in Tasks : Tells(t, b, side)
      BY <2>2, <2>4, <3>1, <3>2
    <3>. QED  BY <3>1, <3>3 DEF Tells, Inside, Calling, TellLabels, Other, InCall
  <2>. QED  BY <2>3, <2>4
<1>. QED  BY <1>1, IInvStarts, IInvStays, WaitersStart, WaitersStay, PTL DEF SystemSpec

(***************************************************************************)
(* The arithmetic of WallClock, for every unit of time and every width of   *)
(* the tick count: what the clock shows, and how far the wait a timed call  *)
(* asks for can be from the time that is left.                              *)
(***************************************************************************)

\* A time in units, from its two parts.
Total(time) == time.sec * (PerSecond * Fine) + time.frac
Times == [sec : Int, frac : Int]

\* The quotient of natural numbers is the last multiple that is not more.
LEMMA DivisionLemma ==
  ASSUME NEW a \in Nat, NEW b \in Nat \ {0}
  PROVE  /\ a \div b \in Nat
         /\ b * (a \div b) <= a
         /\ a < b * (a \div b) + b
  BY SMT

\* The quotient of the code rounds toward zero and misses by less than one unit.
LEMMA QuotientLemma ==
  ASSUME NEW a \in Int, NEW b \in Nat \ {0}
  PROVE  /\ Quotient(a, b) \in Int
         /\ b * Quotient(a, b) < a + b
         /\ b * Quotient(a, b) > a - b
<1>1. CASE a >= 0
  BY <1>1, DivisionLemma DEF Quotient
<1>2. CASE a < 0
  <2> DEFINE q == (-a) \div b
  <2>1. -a \in Nat
    BY <1>2
  <2>2. q \in Nat /\ b * q <= -a /\ -a < b * q + b
    BY <2>1, DivisionLemma
  <2>3. Quotient(a, b) = -q
    BY <1>2 DEF Quotient
  <2> HIDE DEF q
  <2>4. b * (-q) = -(b * q)
    BY <2>2
  <2> QED BY <2>2, <2>3, <2>4
<1> QED BY <1>1, <1>2

\* A time split into seconds and a rest is the same time.
LEMMA PartsLemma ==
  ASSUME NEW time \in Int
  PROVE  Parts(time) \in Times /\ Total(Parts(time)) = time
<1> DEFINE unit == PerSecond * Fine
<1>1. unit \in Nat \ {0}
  BY ClockAssumption
<1>2. Quotient(time, unit) \in Int
  BY <1>1, QuotientLemma
<1>3. Parts(time) = [sec |-> Quotient(time, unit), frac |-> time - Quotient(time, unit) * unit]
  <2> DEFINE sec == Quotient(time, unit)
  <2>1. Parts(time) = [sec |-> sec, frac |-> time - sec * PerSecond * Fine]
    BY DEF Parts
  <2> HIDE DEF sec
  <2>2. sec * PerSecond * Fine = sec * (PerSecond * Fine)
    BY <1>2, ClockAssumption DEF sec
  <2> QED BY <2>1, <2>2 DEF sec
<1> HIDE DEF unit
<1>4. Quotient(time, unit) * unit \in Int
  BY <1>1, <1>2
<1>5. Total(Parts(time)) = Quotient(time, unit) * unit + (time - Quotient(time, unit) * unit)
  BY <1>3 DEF Total, unit
<1> QED BY <1>2, <1>3, <1>4, <1>5 DEF Times

\* Adding two times part by part, with the carry, adds the times.
LEMMA PlusLemma ==
  ASSUME NEW l \in Times, NEW r \in Times
  PROVE  Plus(l, r) \in Times /\ Total(Plus(l, r)) = Total(l) + Total(r)
<1> DEFINE unit == PerSecond * Fine
<1>1. unit \in Nat \ {0}
  BY ClockAssumption
<1>2. /\ l.sec \in Int /\ l.frac \in Int /\ r.sec \in Int /\ r.frac \in Int
      /\ l.sec * unit \in Int /\ r.sec * unit \in Int
  BY <1>1 DEF Times
<1>3. Total(l) = l.sec * unit + l.frac /\ Total(r) = r.sec * unit + r.frac
  BY DEF Total
<1>4. CASE l.frac + r.frac >= unit
  <2>0. Plus(l, r) \in Times
    BY <1>1, <1>2, <1>4 DEF Plus, Times
  <2>1. Plus(l, r) = [sec |-> l.sec + r.sec + 1, frac |-> (l.frac + r.frac) - unit]
    BY <1>4 DEF Plus
  <2>2. Total(Plus(l, r)) = (l.sec + r.sec + 1) * unit + ((l.frac + r.frac) - unit)
    BY <2>1 DEF Total
  <2> HIDE DEF unit
  <2>3. (l.sec + r.sec + 1) * unit = l.sec * unit + r.sec * unit + unit
    BY <1>1, <1>2
  <2> QED BY <1>1, <1>2, <1>3, <2>0, <2>2, <2>3
<1>5. CASE ~ (l.frac + r.frac >= unit)
  <2>0. Plus(l, r) \in Times
    BY <1>1, <1>2, <1>5 DEF Plus, Times
  <2>1. Plus(l, r) = [sec |-> l.sec + r.sec, frac |-> l.frac + r.frac]
    BY <1>5 DEF Plus
  <2>2. Total(Plus(l, r)) = (l.sec + r.sec) * unit + (l.frac + r.frac)
    BY <2>1 DEF Total
  <2> HIDE DEF unit
  <2>3. (l.sec + r.sec) * unit = l.sec * unit + r.sec * unit
    BY <1>1, <1>2
  <2> QED BY <1>1, <1>2, <1>3, <2>0, <2>2, <2>3
<1> QED BY <1>4, <1>5

\* The clock shows its offset and one millisecond for each tick, whatever carry
\* and sign its parts have (freertos_time.cpp, operator+ and _gettimeofday).
THEOREM ClockShowsTicks ==
  ASSUME NEW s, s.tick \in Nat, wall.offset \in Times
  PROVE  /\ TimeOfDay(s) \in Times
         /\ Total(TimeOfDay(s)) = Total(wall.offset) + s.tick * Fine
<1> DEFINE ms == TicksToMs(s.tick)
           sec == ms \div PerSecond
           rest == [sec |-> sec, frac |-> (ms - sec * PerSecond) * Fine]
<1>1. PerSecond \in Nat \ {0} /\ Fine \in Nat \ {0}
  BY ClockAssumption
<1>2. ms = s.tick
  <2>1. /\ s.tick * PerSecond \in Nat
        /\ ms = (s.tick * PerSecond) \div PerSecond
    BY <1>1 DEF TicksToMs, TickRate
  <2>2. /\ ms \in Nat
        /\ PerSecond * ms <= s.tick * PerSecond
        /\ s.tick * PerSecond < PerSecond * ms + PerSecond
    BY <1>1, <2>1, DivisionLemma
  <2> HIDE DEF ms
  <2>3. PerSecond * ms <= PerSecond * s.tick /\ PerSecond * s.tick < PerSecond * (ms + 1)
    BY <1>1, <2>2
  <2>4. ms <= s.tick
    BY <1>1, <2>2, <2>3
  <2>5. s.tick < ms + 1
    BY <1>1, <2>2, <2>3
  <2> QED BY <2>2, <2>4, <2>5
<1> HIDE DEF ms
<1>3. sec \in Nat
  BY <1>1, <1>2, DivisionLemma
<1>4. TimeOfDay(s) = Plus(wall.offset, rest)
  BY DEF TimeOfDay, ms
<1> HIDE DEF sec
<1>5. rest \in Times
  BY <1>1, <1>2, <1>3 DEF Times
<1>6. Total(rest) = sec * (PerSecond * Fine) + (ms - sec * PerSecond) * Fine
  BY DEF Total
<1>7. (ms - sec * PerSecond) * Fine = ms * Fine - sec * (PerSecond * Fine)
  BY <1>1, <1>2, <1>3
<1>8. ms * Fine \in Int /\ sec * (PerSecond * Fine) \in Int
  BY <1>1, <1>2, <1>3
<1>9. Total(rest) = ms * Fine
  BY <1>6, <1>7, <1>8
<1> QED BY <1>2, <1>4, <1>5, <1>9, PlusLemma

\* The milliseconds until a deadline are the time left on the clock, less than
\* one millisecond off in either direction: each part is rounded on its own
\* and towards zero (gthr-default.h, operator- and milliseconds).
THEOREM WaitIsTimeLeft ==
  ASSUME NEW until \in Int, NEW clock \in Times
  PROVE  LET ms == Milliseconds(Minus(Parts(until), clock))
             left == until - Total(clock)
         IN  ms \in Int /\ ms * Fine - left \in (1 - Fine)..(Fine - 1)
<1> DEFINE parts == Parts(until)
           sec == parts.sec - clock.sec
           frac == parts.frac - clock.frac
           q == Quotient(frac, Fine)
           ms == Milliseconds(Minus(parts, clock))
           unit == PerSecond * Fine
<1>1. PerSecond \in Nat \ {0} /\ Fine \in Nat \ {0} /\ unit \in Nat
  BY ClockAssumption
<1>2. parts \in Times /\ Total(parts) = until
  BY PartsLemma
<1> HIDE DEF parts
<1>3. /\ parts.sec \in Int /\ parts.frac \in Int /\ clock.sec \in Int /\ clock.frac \in Int
      /\ sec \in Int /\ frac \in Int
  BY <1>2 DEF Times
<1>4. q \in Int /\ Fine * q < frac + Fine /\ Fine * q > frac - Fine
  BY <1>1, <1>3, QuotientLemma
<1>5. ms = sec * PerSecond + q
  BY DEF Milliseconds, Minus
<1>6. Total(parts) - Total(clock) = (parts.sec * unit + parts.frac) - (clock.sec * unit + clock.frac)
  BY DEF Total
<1>7. (parts.sec - clock.sec) * unit = parts.sec * unit - clock.sec * unit
  BY <1>1, <1>3
<1>8. parts.sec * unit \in Int /\ clock.sec * unit \in Int
  BY <1>1, <1>3
<1>9. until - Total(clock) = sec * unit + frac
  BY <1>2, <1>3, <1>6, <1>7, <1>8
<1> HIDE DEF sec, frac, q
<1>10. (sec * PerSecond + q) * Fine = sec * unit + Fine * q
  BY <1>1, <1>3, <1>4
<1>11. sec * unit \in Int /\ Fine * q \in Int /\ ms \in Int
  BY <1>1, <1>3, <1>4, <1>5
<1> HIDE DEF ms, unit
<1>12. ms * Fine - (until - Total(clock)) = Fine * q - frac
  BY <1>3, <1>5, <1>9, <1>10, <1>11
<1>13. Fine * q - frac \in (1 - Fine)..(Fine - 1)
  BY <1>1, <1>3, <1>4, <1>11
<1> QED BY <1>11, <1>12, <1>13 DEF ms, parts

\* A number below the divisor is its own remainder.
LEMMA RemainderLemma ==
  ASSUME NEW a \in Nat, NEW b \in Nat \ {0}, a < b
  PROVE  a % b = a
  BY SMT

\* Multiplying and dividing by the same number changes nothing.
LEMMA CancelLemma ==
  ASSUME NEW a \in Nat, NEW b \in Nat \ {0}
  PROVE  (a * b) \div b = a
<1> DEFINE q == (a * b) \div b
<1>1. a * b \in Nat /\ b \in Nat \ {0}
  OBVIOUS
<1>2. q \in Nat /\ b * q <= a * b /\ a * b < b * q + b
  BY <1>1, DivisionLemma
<1> HIDE DEF q
<1>3. b * q <= b * a /\ b * a < b * (q + 1)
  BY <1>2
<1>4. q <= a
  BY <1>2, <1>3
<1>5. a < q + 1
  BY <1>2, <1>3
<1>6. q = a
  BY <1>2, <1>4, <1>5
<1> QED BY <1>6 DEF q

\* pdMS_TO_TICKS gives one tick for each millisecond as long as the product
\* fits into a tick count (projdefs.h:40); longer waits wrap.
THEOREM ShortWaitsConvert ==
  ASSUME NEW ms \in Nat, TickCount \in Nat \ {0}, ms * PerSecond < TickCount
  PROVE  MsToTicks(ms) = ms
<1>1. PerSecond \in Nat \ {0}
  BY ClockAssumption
<1>2. ms * PerSecond \in Nat /\ ms <= ms * PerSecond
  BY <1>1
<1>3. ms % TickCount = ms
  BY <1>2, RemainderLemma
<1>4. (ms * PerSecond) % TickCount = ms * PerSecond
  BY <1>2, RemainderLemma
<1>5. (ms * PerSecond) \div PerSecond = ms
  BY <1>1, CancelLemma
<1> QED BY <1>3, <1>4, <1>5 DEF MsToTicks, TickRate

\* A wait that is convertible and less than a millisecond off does not wrap.
LEMMA NearWaitsConvert ==
  ASSUME NEW left \in Nat, Convertible(left),
         NEW ms \in Int, ms * Fine - left \in (1 - Fine)..(Fine - 1)
  PROVE  MsToTicks(ms) = ms
<1> DEFINE whole == left \div Fine
           limit == TickCount \div PerSecond
<1>1. PerSecond \in Nat \ {0} /\ Fine \in Nat \ {0} /\ TickCount \in Nat \ {0}
  BY ClockAssumption, KernelAssumption
<1>2. whole \in Nat /\ left < Fine * whole + Fine
  BY <1>1, DivisionLemma
<1>3. limit \in Nat /\ PerSecond * limit <= TickCount
  BY <1>1, DivisionLemma
<1>4. whole + 1 < limit
  BY DEF Convertible
<1> HIDE DEF whole, limit
<1>5. ms * Fine < Fine * whole + Fine + Fine /\ ms * Fine > -Fine
  BY <1>1, <1>2
<1>6. Fine * ms < Fine * (whole + 2) /\ Fine * (-1) < Fine * ms
  BY <1>1, <1>2, <1>5
<1>7. ms < whole + 2
  BY <1>1, <1>2, <1>6
<1>8. -1 < ms
  BY <1>1, <1>6
<1>9. ms \in Nat /\ ms < limit
  BY <1>2, <1>3, <1>4, <1>7, <1>8
<1>10. PerSecond * ms < PerSecond * limit
  BY <1>1, <1>3, <1>9
<1>11. ms * PerSecond < TickCount
  BY <1>1, <1>3, <1>9, <1>10
<1> QED BY <1>1, <1>9, <1>11, ShortWaitsConvert

--------------------------------------------------------------------------
(* The two ends of the clock.  The kernel keeps tick and now in step as     *)
(* long as the tick count does not wrap (WaitsAreExact).                    *)

\* An offset shows the time of day until the tick count wraps.
ClockIsRight(clock) ==
  clock.round = sched.overflows =>
    Total(clock.offset) + sched.tick * Fine = clock.epoch + now * Fine

\* SetSystemClockTime computes an offset that shows the time it is asked for,
\* before or after the start of the clock.
THEOREM SettingIsRight ==
  ASSUME NEW time \in Int, sched.tick \in Nat, now \in Nat
  PROVE  ClockIsRight(ClockSetTo(time))
<1> DEFINE delta == Delta(time, sched.tick)
           clock == ClockSetTo(time)
<1>1. PerSecond \in Nat \ {0} /\ Fine \in Nat \ {0}
  BY ClockAssumption
<1>2. clock.offset = Parts(delta) /\ clock.epoch = time - now * Fine
  BY DEF ClockSetTo
<1> HIDE DEF clock
<1>3. TicksToMs(sched.tick) = sched.tick
  BY <1>1, CancelLemma DEF TicksToMs, TickRate
<1>4. sched.tick * Fine \in Int /\ now * Fine \in Int
  BY <1>1
<1>5. delta = time - sched.tick * Fine
  BY <1>3 DEF Delta
<1> HIDE DEF delta
<1>6. Total(Parts(delta)) = delta
  BY <1>4, <1>5, PartsLemma
<1>7. Total(clock.offset) + sched.tick * Fine = clock.epoch + now * Fine
  BY <1>2, <1>4, <1>5, <1>6
<1> QED BY <1>7 DEF ClockIsRight, clock

\* A timed call asks the kernel for the time that is left, to within a
\* millisecond, when its deadline is still to come and its milliseconds do not
\* wrap: for every deadline, offset, tick and unit.
THEOREM ReadingIsRight ==
  ASSUME NEW until \in Int, sched.tick \in Nat, now \in Nat, wall.offset \in Times,
         wall.epoch \in Int, ClockIsRight(wall), WaitUntil(until).due # None
  PROVE  LET wait == WaitUntil(until)
         IN  (wait.asker + wait.asked) * Fine - wait.due \in (1 - Fine)..(Fine - 1)
<1> DEFINE left == until - (wall.epoch + now * Fine)
           ms == Milliseconds(Minus(Parts(until), TimeOfDay(sched)))
           due == IF wall.round = sched.overflows /\ Convertible(left)
                  THEN now * Fine + left ELSE None
           asked == MsToTicks(ms)
<1>1. /\ PerSecond \in Nat \ {0} /\ Fine \in Nat \ {0} /\ TickCount \in Nat \ {0}
      /\ now * Fine \in Int /\ sched.tick * Fine \in Int
  BY ClockAssumption, KernelAssumption
<1>2. WaitUntil(until) = [asked |-> asked, asker |-> now, due |-> due]
  BY DEF WaitUntil
<1> HIDE DEF due, asked
<1>3. /\ WaitUntil(until).asked = asked /\ WaitUntil(until).asker = now
      /\ WaitUntil(until).due = due
  BY <1>2
<1>4. wall.round = sched.overflows /\ Convertible(left) /\ due = now * Fine + left
  BY <1>3 DEF due
<1>5. TimeOfDay(sched) \in Times
  BY ClockShowsTicks
<1>6. Total(TimeOfDay(sched)) = wall.epoch + now * Fine
  BY <1>4, ClockShowsTicks DEF ClockIsRight
<1>7. ms \in Int /\ ms * Fine - left \in (1 - Fine)..(Fine - 1)
  BY <1>5, <1>6, WaitIsTimeLeft
<1> HIDE DEF ms
<1>8. left \in Nat
  <2>1. left \in Int /\ left >= 0
    BY <1>1, <1>4 DEF Convertible
  <2> QED BY <2>1
<1> HIDE DEF left
<1>9. asked = ms
  BY <1>4, <1>7, <1>8, NearWaitsConvert DEF asked
<1>10. (now + ms) * Fine = now * Fine + ms * Fine
  BY <1>1, <1>7
<1>11. ms * Fine \in Int
  BY <1>1, <1>7
<1> QED BY <1>1, <1>3, <1>4, <1>7, <1>8, <1>9, <1>10, <1>11

\* sleep_for asks for the time it is given, rounded down to a millisecond, and
\* for one millisecond when that would be nothing (thread.cpp:105).
THEOREM SleepingIsRight ==
  ASSUME NEW span \in Int, now \in Nat, WaitFor(span).due # None
  PROVE  LET wait == WaitFor(span)
         IN  (wait.asker + wait.asked) * Fine - wait.due \in (1 - Fine)..(Fine - 1)
<1> DEFINE time == Parts(span)
           q == Quotient(time.frac, Fine)
           short == time.sec = 0 /\ time.frac \in 1..(Fine - 1)
           ms == time.sec * PerSecond + (IF short THEN 1 ELSE q)
           due == IF Convertible(span) THEN now * Fine + span ELSE None
           asked == MsToTicks(ms)
           unit == PerSecond * Fine
<1>1. PerSecond \in Nat \ {0} /\ Fine \in Nat \ {0} /\ now * Fine \in Int /\ unit \in Nat
  BY ClockAssumption
<1>2. WaitFor(span) = [asked |-> asked, asker |-> now, due |-> due]
  BY DEF WaitFor
<1> HIDE DEF asked
<1>3. /\ WaitFor(span).asked = asked /\ WaitFor(span).asker = now
      /\ Convertible(span) /\ WaitFor(span).due = now * Fine + span
  BY <1>2
<1>4. time \in Times /\ span = time.sec * unit + time.frac
  BY PartsLemma DEF Total
<1> HIDE DEF time
<1>5. time.sec \in Int /\ time.frac \in Int /\ time.sec * unit \in Int
  BY <1>1, <1>4 DEF Times
<1>6. ms \in Int /\ ms * Fine - span \in (1 - Fine)..(Fine - 1)
  <2>1. CASE short
    <3>1. time.sec * unit = 0 /\ time.sec * PerSecond = 0
      BY <1>1, <2>1
    <3>2. span = time.frac /\ ms = 1
      BY <1>4, <1>5, <2>1, <3>1
    <3> HIDE DEF ms, unit
    <3> QED BY <1>1, <1>5, <2>1, <3>2
  <2>2. CASE ~ short
    <3>1. q \in Int /\ Fine * q < time.frac + Fine /\ Fine * q > time.frac - Fine
      BY <1>1, <1>5, QuotientLemma
    <3>2. ms = time.sec * PerSecond + q
      BY <2>2
    <3> HIDE DEF q, ms
    <3>3. ms * Fine = time.sec * unit + Fine * q /\ Fine * q \in Int /\ ms \in Int
      BY <1>1, <1>5, <3>1, <3>2
    <3> HIDE DEF unit
    <3> QED BY <1>1, <1>4, <1>5, <3>1, <3>3
  <2> QED BY <2>1, <2>2
<1> HIDE DEF ms
<1>7. span \in Nat
  BY <1>3 DEF Convertible
<1>8. asked = ms
  BY <1>3, <1>6, <1>7, NearWaitsConvert DEF asked
<1>9. (now + ms) * Fine = now * Fine + ms * Fine /\ ms * Fine \in Int
  BY <1>1, <1>6
<1> QED BY <1>1, <1>3, <1>6, <1>7, <1>8, <1>9

=============================================================================
