-------------------------- MODULE SmartQueueProofs --------------------------
(***************************************************************************)
(* smart_shared_queue, for any set of processes, any capacity and any      *)
(* sizes of messages: free_space is exactly the space no message holds,    *)
(* the counters of the messages are exactly the subscribers that have not  *)
(* read them, and while the reserve is there neither joining nor leaving   *)
(* spins.  All this holds until a torn message is pushed, which takes from *)
(* the reserve and which no reader finds whole (see Torn).                 *)
(*                                                                         *)
(* The sections: sums over the layout of the queue; how clean_messages,    *)
(* the split into regions, the booking and the writing of chunks, pop and  *)
(* the subscriptions change a sound queue; the steps of the specification; *)
(* the theorems.                                                           *)
(***************************************************************************)
EXTENDS SmartQueue, SharedQueueProofs

(* The largest of the numbers up to n, and of some of them and n + 1.      *)
LEMMA TopNumber ==
    ASSUME NEW n \in Nat, NEW T, T \subseteq 1 .. n + 1, n + 1 \in T
    PROVE  Max(T) = n + 1
<1>1. \A x \in T : x \in Int /\ n + 1 >= x
  OBVIOUS
<1>2. ASSUME NEW x \in T, \A y \in T : x >= y PROVE x = n + 1
  BY <1>1, <1>2
<1>3. \A y \in T : n + 1 >= y
  BY <1>1
<1> QED BY <1>2, <1>3 DEF Max

(* One number more.                                                        *)
LEMMA OneMore ==
    ASSUME NEW n \in Nat, NEW k \in Nat, k + 1 <= n
    PROVE  \A x : /\ x \in 1 .. k <=> x \in 1 .. k + 1 /\ x # k + 1
                  /\ x \in 1 .. k + 1 => x \in 1 .. n
<1>1. \A x \in 1 .. k : x \in 1 .. k + 1 /\ x # k + 1
  OBVIOUS
<1>2. \A x \in 1 .. k + 1 : (x # k + 1 => x \in 1 .. k) /\ x \in 1 .. n
  OBVIOUS
<1> QED BY <1>1, <1>2

(* What FoldLeft computes with a sum, on the sets of indices, exists.      *)
AddsUp(f, n, w) ==
    f = [T \in SUBSET (1 .. n) |->
            IF T = {} THEN 0 ELSE f[T \ {Max(T)}] + w[Max(T)]]

(* A function that folds the numbers of w over every subset of 1 .. n.     *)
LEMMA FoldExists ==
    ASSUME NEW w, NEW n \in Nat
    PROVE  \E f : AddsUp(f, n, w)
<1> DEFINE Body(f, T) == IF T = {} THEN 0 ELSE f[T \ {Max(T)}] + w[Max(T)]
           S == {k \in Nat : \E f : f = [T \in SUBSET (1 .. k) |-> Body(f, T)]}
<1>1. 0 \in S
  <2> DEFINE f == [T \in SUBSET (1 .. 0) |-> 0]
  <2>1. \A T \in SUBSET (1 .. 0) : T = {}
    OBVIOUS
  <2>2. f = [T \in SUBSET (1 .. 0) |-> Body(f, T)]
    BY <2>1
  <2> QED BY <2>2
<1>2. ASSUME NEW k \in Nat, k \in S PROVE k + 1 \in S
  <2>1. PICK f : f = [T \in SUBSET (1 .. k) |-> Body(f, T)]
    BY <1>2
  <2> DEFINE g == [T \in SUBSET (1 .. k + 1) |->
                      IF k + 1 \in T THEN f[T \ {k + 1}] + w[k + 1] ELSE f[T]]
  <2>2. ASSUME NEW T \in SUBSET (1 .. k + 1) PROVE g[T] = Body(g, T)
    <3>1. CASE k + 1 \in T
      <4>1. Max(T) = k + 1 /\ T # {}
        BY <3>1, TopNumber
      <4> DEFINE R == T \ {k + 1}
      <4>2. R \in SUBSET (1 .. k + 1) /\ k + 1 \notin R
        OBVIOUS
      <4>3. g[R] = f[R]
        BY <4>2
      <4>4. g[T] = f[R] + w[k + 1]
        BY <3>1
      <4> HIDE DEF g
      <4> QED BY <4>1, <4>3, <4>4
    <3>2. CASE k + 1 \notin T
      <4> DEFINE R == T \ {Max(T)}
      <4>0. \A x \in 1 .. k + 1 : x # k + 1 => x \in 1 .. k
        OBVIOUS
      <4>1. /\ T \in SUBSET (1 .. k) /\ R \in SUBSET (1 .. k)
            /\ R \in SUBSET (1 .. k + 1) /\ k + 1 \notin R
        BY <3>2, <4>0
      <4> HIDE DEF R
      <4>2. g[T] = f[T] /\ g[R] = f[R]
        BY <3>2, <4>1
      <4>3. f[T] = Body(f, T)
        <5> HIDE DEF Body
        <5> QED BY <2>1, <4>1
      <4> HIDE DEF g
      <4> QED BY <4>2, <4>3 DEF R
    <3> QED BY <3>1, <3>2
  <2>3. g = [T \in SUBSET (1 .. k + 1) |-> g[T]]
    OBVIOUS
  <2> HIDE DEF g, Body
  <2>4. g = [T \in SUBSET (1 .. k + 1) |-> Body(g, T)]
    BY <2>2, <2>3
  <2> QED BY <2>4
<1> HIDE DEF S
<1>3. Nat \subseteq S
  BY <1>1, <1>2, SetInduction
<1> QED BY <1>3 DEF S, AddsUp

(* J[k] is the sum of the first k of the numbers w[1] .. w[n].             *)
Sums(J, n, w) ==
    /\ J \in [0 .. n -> Nat] /\ J[0] = 0
    /\ \A k \in 1 .. n : J[k] = J[k - 1] + w[k]

(* The fold adds them up in this order.                                    *)
LEMMA FoldSums ==
    ASSUME NEW w, NEW n \in Nat, NEW J, Sums(J, n, w), NEW f, AddsUp(f, n, w)
    PROVE  f[1 .. n] = J[n]
<1> DEFINE Body(T) == IF T = {} THEN 0 ELSE f[T \ {Max(T)}] + w[Max(T)]
           S == {k \in Nat : k <= n => f[1 .. k] = J[k]}
<1>0. \A T \in SUBSET (1 .. n) : f[T] = Body(T)
  <2> HIDE DEF Body
  <2>1. f = [T \in SUBSET (1 .. n) |-> Body(T)]
    BY DEF Body, AddsUp
  <2> QED BY <2>1
<1>1. 0 \in S
  <2>1. 1 .. 0 = {} /\ {} \in SUBSET (1 .. n)
    OBVIOUS
  <2> QED BY <1>0, <2>1 DEF Sums
<1>2. ASSUME NEW k \in Nat, k \in S PROVE k + 1 \in S
  <2>8. f[1 .. k] = J[k] \/ ~(k <= n)
    BY <1>2
  <2> HIDE DEF S
  <2>9. k + 1 \in Nat
    OBVIOUS
  <2> SUFFICES ASSUME k + 1 <= n PROVE f[1 .. k + 1] = J[k + 1]
    BY <2>9 DEF S
  <2> DEFINE T == 1 .. k + 1
  <2>7. \A x : /\ x \in 1 .. k <=> x \in 1 .. k + 1 /\ x # k + 1
               /\ x \in 1 .. k + 1 => x \in 1 .. n
    BY OneMore
  <2>1. T \in SUBSET (1 .. n) /\ k + 1 \in T /\ T # {} /\ k + 1 \in 1 .. n /\ (k + 1) - 1 = k
    BY <2>7
  <2>2. Max(T) = k + 1
    BY <2>1, TopNumber
  <2>3. T \ {k + 1} = 1 .. k
    BY <2>7
  <2>4. f[1 .. k] = J[k]
    <3>1. k <= n
      OBVIOUS
    <3> QED BY <2>8, <3>1
  <2> HIDE DEF T
  <2>5. f[T] = f[1 .. k] + w[k + 1]
    BY <1>0, <2>1, <2>2, <2>3
  <2>6. J[k + 1] = J[k] + w[k + 1]
    BY <2>1 DEF Sums
  <2> QED BY <2>4, <2>5, <2>6 DEF T
<1> HIDE DEF S
<1>3. n \in S
  BY <1>1, <1>2, SetInduction
<1>4. n <= n
  OBVIOUS
<1> QED BY <1>3, <1>4 DEF S

(* The space a message takes is that of its chunks ...                     *)
LEMMA TotalSums ==
    ASSUME NEW n \in Nat, NEW chunks, DOMAIN chunks = 1 .. n, NEW J,
           Sums(J, n, [k \in 1 .. n |-> static_size(chunks[k].cap)])
    PROVE  total_size(chunks) = J[n]
<1> DEFINE M == {Max(T) : T \in SUBSET (1 .. n)}
           w == [x \in M \cup 1 .. n |-> static_size(chunks[x].cap)]
           Body(f, T) == IF T = {} THEN 0
                         ELSE f[T \ {Max(T)}] + static_size(chunks[Max(T)].cap)
           fold == CHOOSE f : f = [T \in SUBSET (1 .. n) |-> Body(f, T)]
<1>1. total_size(chunks) = fold[1 .. n]
  BY DEF total_size, FoldLeft, MapThenFoldSet
<1>2. \A f : \A T \in SUBSET (1 .. n) :
          Body(f, T) = IF T = {} THEN 0 ELSE f[T \ {Max(T)}] + w[Max(T)]
  OBVIOUS
<1>3. \E f : f = [T \in SUBSET (1 .. n) |-> Body(f, T)]
  <2> HIDE DEF w, Body
  <2>1. PICK f : AddsUp(f, n, w)
    BY FoldExists
  <2> QED BY <1>2, <2>1 DEF AddsUp
<1> HIDE DEF Body
<1>4. fold = [T \in SUBSET (1 .. n) |-> Body(fold, T)]
  BY <1>3
<1> HIDE DEF fold
<1>5. AddsUp(fold, n, w)
  <2> HIDE DEF w
  <2> QED BY <1>2, <1>4 DEF AddsUp
<1>6. Sums(J, n, w)
  BY DEF Sums
<1> HIDE DEF w
<1>7. fold[1 .. n] = J[n]
  BY ONLY n \in Nat, <1>5, <1>6, FoldSums
<1> QED BY <1>1, <1>7

(* ... and the space some messages take that of each.                      *)
LEMMA SizeSums ==
    ASSUME NEW n \in Nat, NEW msgs, DOMAIN msgs = 1 .. n, NEW J,
           Sums(J, n, [k \in 1 .. n |-> total_size(msgs[k].chunks)])
    PROVE  SizeOf(msgs) = J[n]
<1> DEFINE M == {Max(T) : T \in SUBSET (1 .. n)}
           w == [x \in M \cup 1 .. n |-> total_size(msgs[x].chunks)]
           Body(f, T) == IF T = {} THEN 0
                         ELSE f[T \ {Max(T)}] + total_size(msgs[Max(T)].chunks)
           fold == CHOOSE f : f = [T \in SUBSET (1 .. n) |-> Body(f, T)]
<1>1. SizeOf(msgs) = fold[1 .. n]
  BY DEF SizeOf, FoldLeft, MapThenFoldSet
<1>2. \A f : \A T \in SUBSET (1 .. n) :
          Body(f, T) = IF T = {} THEN 0 ELSE f[T \ {Max(T)}] + w[Max(T)]
  OBVIOUS
<1>3. \E f : f = [T \in SUBSET (1 .. n) |-> Body(f, T)]
  <2> HIDE DEF w, Body
  <2>1. PICK f : AddsUp(f, n, w)
    BY FoldExists
  <2> QED BY <1>2, <2>1 DEF AddsUp
<1> HIDE DEF Body
<1>4. fold = [T \in SUBSET (1 .. n) |-> Body(fold, T)]
  BY <1>3
<1> HIDE DEF fold
<1>5. AddsUp(fold, n, w)
  <2> HIDE DEF w
  <2> QED BY <1>2, <1>4 DEF AddsUp
<1>6. Sums(J, n, w)
  BY DEF Sums
<1> HIDE DEF w
<1>7. fold[1 .. n] = J[n]
  BY ONLY n \in Nat, <1>5, <1>6, FoldSums
<1> QED BY <1>1, <1>7
-----------------------------------------------------------------------------
(* The sums of natural numbers exist, and they grow.                       *)
LEMMA SumsExist ==
    ASSUME NEW n \in Nat, NEW w, \A k \in 1 .. n : w[k] \in Nat
    PROVE  \E J : Sums(J, n, w)
<1> DEFINE S == {m \in Nat : m <= n => \E J : Sums(J, m, w)}
<1>1. 0 \in S
  <2> DEFINE J == [k \in 0 .. 0 |-> 0]
  <2>1. Sums(J, 0, w)
    BY DEF Sums
  <2> QED BY <2>1
<1>2. ASSUME NEW m \in Nat, m \in S PROVE m + 1 \in S
  <2>0. (m <= n => \E J : Sums(J, m, w)) /\ m + 1 \in Nat
    BY <1>2
  <2> HIDE DEF S
  <2> SUFFICES ASSUME m + 1 <= n PROVE \E J : Sums(J, m + 1, w)
    BY <2>0 DEF S
  <2>1. PICK J : Sums(J, m, w)
    BY <2>0
  <2>2. w[m + 1] \in Nat
    OBVIOUS
  <2>3. J \in [0 .. m -> Nat] /\ J[0] = 0 /\ \A k \in 1 .. m : J[k] = J[k - 1] + w[k]
    BY <2>1 DEF Sums
  <2> DEFINE J2 == [k \in 0 .. m + 1 |-> IF k <= m THEN J[k] ELSE J[m] + w[m + 1]]
  <2>4. J2 \in [0 .. m + 1 -> Nat] /\ J2[0] = 0
    <3>1. ASSUME NEW k \in 0 .. m + 1 PROVE (IF k <= m THEN J[k] ELSE J[m] + w[m + 1]) \in Nat
      BY <2>2, <2>3
    <3> QED BY <2>3, <3>1
  <2>5. ASSUME NEW k \in 1 .. m + 1 PROVE J2[k] = J2[k - 1] + w[k]
    <3>1. CASE k <= m
      BY <2>3, <3>1
    <3>2. CASE ~(k <= m)
      <4>1. k = m + 1 /\ k - 1 = m
        BY <3>2
      <4> QED BY <4>1
    <3> QED BY <3>1, <3>2
  <2> HIDE DEF J2
  <2>6. Sums(J2, m + 1, w)
    BY <2>4, <2>5 DEF Sums
  <2> QED BY <2>6
<1> HIDE DEF S
<1>3. n \in S
  BY <1>1, <1>2, SetInduction
<1>4. n <= n
  OBVIOUS
<1> QED BY <1>3, <1>4 DEF S

(* The sums of natural numbers grow.                                       *)
LEMMA SumsGrow ==
    ASSUME NEW n \in Nat, NEW w, \A k \in 1 .. n : w[k] \in Nat, NEW J, Sums(J, n, w),
           NEW m \in 0 .. n
    PROVE  \A k \in m .. n : J[m] <= J[k]
<1> DEFINE S == {k \in Nat : k + m <= n => J[m] <= J[k + m]}
<1>0. J \in [0 .. n -> Nat] /\ \A k \in 1 .. n : J[k] = J[k - 1] + w[k]
  BY DEF Sums
<1>1. 0 \in S
  BY <1>0
<1>2. ASSUME NEW k \in Nat, k \in S PROVE k + 1 \in S
  <2>0. (k + m <= n => J[m] <= J[k + m]) /\ k + 1 \in Nat
    BY <1>2
  <2> HIDE DEF S
  <2> SUFFICES ASSUME k + 1 + m <= n PROVE J[m] <= J[k + 1 + m]
    BY <2>0 DEF S
  <2>1. /\ k + 1 + m \in 1 .. n /\ (k + 1 + m) - 1 = k + m /\ k + m \in 0 .. n /\ m \in 0 .. n
        /\ k + m <= n
    OBVIOUS
  <2>2. J[k + 1 + m] = J[k + m] + w[k + 1 + m]
    BY <1>0, <2>1
  <2>3. w[k + 1 + m] \in Nat /\ J[k + m] \in Nat /\ J[m] \in Nat
    BY <1>0, <2>1
  <2> QED BY <2>0, <2>1, <2>2, <2>3
<1> HIDE DEF S
<1>3. Nat \subseteq S
  BY <1>1, <1>2, SetInduction
<1> SUFFICES ASSUME NEW k \in m .. n PROVE J[m] <= J[k]
  OBVIOUS
<1>4. k - m \in S /\ (k - m) + m = k /\ k <= n
  BY <1>3
<1>5. (k - m) + m <= n => J[m] <= J[(k - m) + m]
  BY <1>4 DEF S
<1> QED BY <1>4, <1>5

(* The space of one or two chunks.                                         *)
LEMMA ChunkTotals ==
    /\ \A c : c.cap \in Nat => total_size(<<c>>) = static_size(c.cap)
    /\ \A c, t : (c.cap \in Nat /\ t.cap \in Nat)
                    => total_size(<<c, t>>) = static_size(c.cap) + static_size(t.cap)
<1>0. \A n \in Nat : static_size(n) \in Nat
  BY RingAssumption DEF static_size
<1>1. ASSUME NEW c, c.cap \in Nat PROVE total_size(<<c>>) = static_size(c.cap)
  <2> DEFINE x == static_size(c.cap)
             J == [k \in 0 .. 1 |-> IF k = 0 THEN 0 ELSE x]
             chunks == <<c>>
             w == [k \in 1 .. 1 |-> static_size(chunks[k].cap)]
  <2>1. x \in Nat
    BY <1>0, <1>1
  <2>2. DOMAIN chunks = 1 .. 1 /\ w[1] = x
    OBVIOUS
  <2> HIDE DEF x, w
  <2>3. Sums(J, 1, w)
    <3>1. J \in [0 .. 1 -> Nat] /\ J[0] = 0 /\ J[1] = x
      BY <2>1
    <3>2. \A k \in 1 .. 1 : k = 1 /\ k - 1 = 0
      OBVIOUS
    <3> HIDE DEF J
    <3> QED BY <2>1, <2>2, <3>1, <3>2 DEF Sums
  <2>4. J[1] = x
    OBVIOUS
  <2> HIDE DEF J, chunks
  <2>5. total_size(chunks) = J[1]
    BY <2>2, <2>3, TotalSums DEF w
  <2> QED BY <2>4, <2>5 DEF chunks, x
<1>2. ASSUME NEW c, NEW t, c.cap \in Nat, t.cap \in Nat
      PROVE  total_size(<<c, t>>) = static_size(c.cap) + static_size(t.cap)
  <2> DEFINE x == static_size(c.cap)
             y == static_size(t.cap)
             J == [k \in 0 .. 2 |-> IF k = 0 THEN 0 ELSE IF k = 1 THEN x ELSE x + y]
             chunks == <<c, t>>
             w == [k \in 1 .. 2 |-> static_size(chunks[k].cap)]
  <2>1. x \in Nat /\ y \in Nat
    BY <1>0, <1>2
  <2>2. DOMAIN chunks = 1 .. 2 /\ w[1] = x /\ w[2] = y
    OBVIOUS
  <2> HIDE DEF x, y, w
  <2>3. Sums(J, 2, w)
    <3>1. J \in [0 .. 2 -> Nat] /\ J[0] = 0 /\ J[1] = x /\ J[2] = x + y
      BY <2>1
    <3>2. \A k \in 1 .. 2 : (k = 1 /\ k - 1 = 0) \/ (k = 2 /\ k - 1 = 1)
      OBVIOUS
    <3> HIDE DEF J
    <3> QED BY <2>1, <2>2, <3>1, <3>2 DEF Sums
  <2>4. J[2] = x + y
    OBVIOUS
  <2> HIDE DEF J, chunks
  <2>5. total_size(chunks) = J[2]
    BY <2>2, <2>3, TotalSums DEF w
  <2> QED BY <2>4, <2>5 DEF chunks, x, y
<1> QED BY <1>1, <1>2

(* J counts the space that the n messages descs take.                      *)
Weighs(descs, n, J) == Sums(J, n, [k \in 1 .. n |-> total_size(descs[k].chunks)])

(* The space of a message are its bytes in the ring, but for those it      *)
(* skips before the end.                                                   *)
LEMMA OccupiesTotal ==
    ASSUME NEW p \in Positions, NEW w \in Nat, NEW d, Occupies(p, w, d)
    PROVE  /\ total_size(d.chunks) \in Nat
           /\ \/ total_size(d.chunks) = w
              \/ /\ total_size(d.chunks) = w - (Capacity - p)
                 /\ Capacity - p <= HeaderSize /\ p + w >= Capacity
<1>0. /\ \A n \in Nat : static_size(n) \in Nat /\ static_size(n) >= n
      /\ p \in Nat /\ Capacity \in Nat /\ HeaderSize \in Nat
  BY RingAssumption DEF static_size, Positions
<1>1. CASE Whole(p, w, d)
  <2>1. PICK c : /\ d = OneChunk(c) /\ c.cap \in Nat \ {0} /\ w = static_size(c.cap)
    BY <1>1 DEF Whole
  <2>2. d.chunks = <<c>>
    BY <2>1 DEF OneChunk
  <2> QED BY <2>1, <2>2, ChunkTotals
<1>2. CASE Skipping(p, w, d)
  <2>1. PICK c : /\ d = OneChunk(c) /\ c.cap \in Nat \ {0} /\ Capacity - p <= HeaderSize
                 /\ w = Capacity - p + static_size(c.cap)
    BY <1>2 DEF Skipping
  <2>2. d.chunks = <<c>>
    BY <2>1 DEF OneChunk
  <2>3. total_size(d.chunks) = static_size(c.cap) /\ static_size(c.cap) \in Nat
    BY <1>0, <2>1, <2>2, ChunkTotals
  <2> QED BY <1>0, <2>1, <2>3
<1>3. CASE Split(p, w, d)
  <2>1. PICK c, t : /\ d = TwoChunks(c, t) /\ c.cap \in Nat \ {0} /\ t.cap \in Nat \ {0}
                    /\ p + static_size(c.cap) = Capacity
                    /\ w = Capacity - p + static_size(t.cap)
    BY <1>3 DEF Split
  <2>2. d.chunks = <<c, t>>
    BY <2>1 DEF TwoChunks
  <2>3. /\ total_size(d.chunks) = static_size(c.cap) + static_size(t.cap)
        /\ static_size(c.cap) \in Nat /\ static_size(t.cap) \in Nat
    BY <1>0, <2>1, <2>2, ChunkTotals
  <2> QED BY <1>0, <2>1, <2>3
<1> QED BY <1>1, <1>2, <1>3 DEF Occupies

(* The space of each message of the ring.                                  *)
LEMMA LayoutTotals ==
    ASSUME NEW V, NEW s \in Queues(V), NEW descs, NEW off, Layout(s, descs, off),
           NEW k \in 1 .. s.count, NEW p, p = Byte(s.head, off[k - 1])
    PROVE  /\ p \in Positions /\ off[k - 1] \in 0 .. Capacity /\ off[k] \in 0 .. Capacity
           /\ off[k - 1] < off[k] /\ total_size(descs[k].chunks) \in Nat
           /\ \/ total_size(descs[k].chunks) = off[k] - off[k - 1]
              \/ /\ total_size(descs[k].chunks) = off[k] - off[k - 1] - (Capacity - p)
                 /\ Capacity - p <= HeaderSize /\ p + (off[k] - off[k - 1]) >= Capacity
<1>1. /\ p \in Positions /\ off[k - 1] < off[k]
      /\ off[k - 1] \in 0 .. Capacity /\ off[k] \in 0 .. Capacity
  BY LayoutReads
<1>2. Occupies(p, off[k] - off[k - 1], descs[k])
  BY DEF Layout
<1> DEFINE w == off[k] - off[k - 1]
<1>3. w \in Nat
  BY <1>1, RingAssumption
<1> HIDE DEF w
<1>4. Occupies(p, w, descs[k])
  BY <1>2 DEF w
<1>5. /\ total_size(descs[k].chunks) \in Nat
      /\ \/ total_size(descs[k].chunks) = w
         \/ /\ total_size(descs[k].chunks) = w - (Capacity - p)
            /\ Capacity - p <= HeaderSize /\ p + w >= Capacity
  BY <1>1, <1>3, <1>4, OccupiesTotal
<1> QED BY <1>1, <1>5 DEF w

(* The space the messages take can be added up, ...                        *)
LEMMA LayoutWeighs ==
    ASSUME NEW V, NEW s \in Queues(V), NEW descs, NEW off, Layout(s, descs, off)
    PROVE  \E J : Weighs(descs, s.count, J)
<1>1. s.count \in Nat
  BY DEF Queues
<1>2. \A k \in 1 .. s.count : total_size(descs[k].chunks) \in Nat
  BY LayoutTotals
<1> DEFINE w == [k \in 1 .. s.count |-> total_size(descs[k].chunks)]
<1>3. \A k \in 1 .. s.count : w[k] \in Nat
  BY <1>2
<1> HIDE DEF w
<1>4. \E J : Sums(J, s.count, w)
  BY <1>1, <1>3, SumsExist
<1> QED BY <1>4 DEF Weighs, w

(* ... and are the bytes in use but for fewer than a message takes, which  *)
(* are there only when the messages go round the end.                      *)
LEMMA LayoutWaste ==
    ASSUME NEW V, NEW s \in Queues(V), NEW descs, NEW off, Layout(s, descs, off),
           NEW J, Weighs(descs, s.count, J)
    PROVE  /\ J[s.count] \in Nat /\ J[s.count] <= UsedBytes(s)
           /\ UsedBytes(s) <= J[s.count] + HeaderSize
           /\ J[s.count] # UsedBytes(s) => s.count # 0 /\ s.tail <= s.head
<1> DEFINE n == s.count
           Fine(k) == /\ J[k] <= off[k] /\ off[k] <= J[k] + HeaderSize
                      /\ s.head + off[k] < Capacity => J[k] = off[k]
           S == {k \in Nat : k <= n => Fine(k)}
<1>0. /\ n \in Nat /\ s.head \in Nat /\ s.tail \in Nat /\ s.head < Capacity
      /\ s.tail < Capacity /\ Capacity \in Nat \ {0} /\ HeaderSize \in Nat \ {0}
  BY RingAssumption DEF Queues, Positions
<1>1. /\ J \in [0 .. n -> Nat] /\ J[0] = 0
      /\ \A k \in 1 .. n : J[k] = J[k - 1] + total_size(descs[k].chunks)
  BY DEF Weighs, Sums
<1>2. /\ off \in [0 .. n -> 0 .. Capacity] /\ off[0] = 0 /\ off[n] = UsedBytes(s)
  BY DEF Layout
<1>3. 0 \in S
  BY <1>0, <1>1, <1>2
<1>4. ASSUME NEW k \in Nat, k + 1 <= n, Fine(k) PROVE Fine(k + 1)
  <2> DEFINE p == Byte(s.head, off[k])
             x == total_size(descs[k + 1].chunks)
             a == off[k]
             b == off[k + 1]
  <2>1. k + 1 \in 1 .. n /\ (k + 1) - 1 = k /\ k \in 0 .. n /\ k + 1 \in 0 .. n
    BY <1>0, <1>4
  <2>2. /\ p \in Positions /\ a \in 0 .. Capacity /\ b \in 0 .. Capacity /\ a < b
        /\ x \in Nat
        /\ \/ x = b - a
           \/ x = b - a - (Capacity - p) /\ Capacity - p <= HeaderSize /\ p + (b - a) >= Capacity
    <3>1. p = Byte(s.head, off[(k + 1) - 1])
      BY <2>1
    <3> HIDE DEF p
    <3> QED BY <2>1, <3>1, LayoutTotals
  <2>3. J[k + 1] = J[k] + x /\ J[k] \in Nat
    BY <1>1, <2>1
  <2>4. p = IF s.head + a < Capacity THEN s.head + a ELSE s.head + a - Capacity
    BY DEF Byte
  <2>5. J[k] <= a /\ a <= J[k] + HeaderSize /\ (s.head + a < Capacity => J[k] = a)
    BY <1>4
  <2> HIDE DEF p, x, a
  <2>6. J[k + 1] <= b /\ b <= J[k + 1] + HeaderSize
        /\ (s.head + b < Capacity => J[k + 1] = b)
    <3> DEFINE y == J[k]
               y2 == J[k + 1]
    <3>1. y2 = y + x /\ y \in Nat
      BY <2>3
    <3>2. y <= a /\ a <= y + HeaderSize /\ (s.head + a < Capacity => y = a)
      BY <2>5
    <3> HIDE DEF y, y2, b
    <3>3. y2 <= b /\ b <= y2 + HeaderSize /\ (s.head + b < Capacity => y2 = b)
      BY <1>0, <2>2, <2>4, <3>1, <3>2
    <3> QED BY <3>3 DEF y2
  <2> QED BY <2>6 DEF a
<1>5. ASSUME NEW k \in Nat, k \in S PROVE k + 1 \in S
  <2>1. k <= n => Fine(k)
    BY <1>5
  <2> HIDE DEF Fine
  <2>2. k + 1 <= n => Fine(k + 1)
    BY <1>0, <1>4, <2>1
  <2> QED BY <2>2
<1> HIDE DEF S
<1>6. n \in S
  BY <1>0, <1>3, <1>5, SetInduction
<1>7. Fine(n)
  BY <1>0, <1>6 DEF S
<1>8. UsedBytes(s) = IF n = 0 THEN 0 ELSE IF s.head < s.tail THEN s.tail - s.head
                     ELSE s.tail + Capacity - s.head
  BY DEF UsedBytes, Dist
<1>9. J[n] \in Nat
  BY <1>0, <1>1
<1> QED BY <1>0, <1>2, <1>7, <1>8, <1>9

-----------------------------------------------------------------------------
(* Remainders by Space: free_space is unsigned and, in a child queue, below *)
(* zero.                                                                   *)
LEMMA ModSpace ==
    \A a \in Int : /\ a % Space \in 0 .. Space - 1
                   /\ (0 <= a /\ a < Space) => a % Space = a
                   /\ (-Space <= a /\ a < 0) => a % Space = a + Space
                   /\ (Space <= a /\ a < 2 * Space) => a % Space = a - Space
<1>1. Space \in Nat /\ Space > 0
  BY SmartAssumption, RingAssumption
<1> QED BY <1>1

(* The free space when u bytes of messages are in the ring: it grows and   *)
(* shrinks with them.                                                      *)
FreeOf(base, u) == (base - u) % Space

(* free_space is a uint32_t: taking room away and giving it back is        *)
(* arithmetic modulo Space, and exact as long as at most Capacity is used. *)
LEMMA FreeMoves ==
    ASSUME NEW base \in {0, Capacity}, NEW u \in 0 .. Capacity
    PROVE  /\ \A x \in 0 .. u : (FreeOf(base, u) + x) % Space = FreeOf(base, u - x)
           /\ \A x \in 0 .. Capacity - u : (FreeOf(base, u) - x) % Space = FreeOf(base, u + x)
           /\ FreeOf(base, u) \in 0 .. Space - 1
           /\ FreeOf(Capacity, u) = Capacity - u
<1>0. Space \in Nat /\ Capacity \in Nat /\ Space > Capacity /\ base \in Int
      /\ 0 <= base /\ base <= Capacity
      /\ u \in Int /\ 0 <= u /\ u <= Capacity
  BY SmartAssumption, RingAssumption
<1> DEFINE f == FreeOf(base, u)
<1>1. f = IF u <= base THEN base - u ELSE base - u + Space
  <2>1. base - u \in Int /\ base - u < Space /\ -Space <= base - u
    BY <1>0
  <2>2. (base - u) % Space = IF 0 <= base - u THEN base - u ELSE base - u + Space
    BY <2>1, ModSpace
  <2> QED BY <1>0, <2>2 DEF FreeOf
<1>2. FreeOf(Capacity, u) = Capacity - u
  BY <1>0, ModSpace DEF FreeOf
<1> HIDE DEF f
<1>3. f \in Int /\ 0 <= f /\ f < Space /\ f \in 0 .. Space - 1
  BY <1>0, <1>1
<1>4. ASSUME NEW x \in 0 .. u PROVE (f + x) % Space = FreeOf(base, u - x)
  <2>1. x \in Int /\ 0 <= x /\ x <= u /\ f + x \in Int /\ base - (u - x) \in Int
    BY <1>0, <1>3
  <2>2. (f + x) % Space = IF f + x < Space THEN f + x ELSE f + x - Space
    BY SMTT(60), <1>0, <1>3, <2>1, ModSpace
  <2>3. (base - (u - x)) % Space = IF u - x <= base THEN base - (u - x)
                                   ELSE base - (u - x) + Space
    <3> DEFINE a == base - (u - x)
    <3>1. a \in Int /\ -Space <= a /\ a < Space /\ (0 <= a <=> u - x <= base)
      BY <1>0, <2>1
    <3>2. a % Space = IF 0 <= a THEN a ELSE a + Space
      <4> HIDE DEF a
      <4> QED BY <3>1, ModSpace
    <3> QED BY <3>1, <3>2
  <2> QED BY <1>0, <1>1, <2>1, <2>2, <2>3 DEF FreeOf
<1>5. ASSUME NEW x \in 0 .. Capacity - u PROVE (f - x) % Space = FreeOf(base, u + x)
  <2>1. x \in Int /\ 0 <= x /\ x + u <= Capacity /\ f - x \in Int /\ base - (u + x) \in Int
    BY <1>0, <1>3
  <2>2. (f - x) % Space = IF 0 <= f - x THEN f - x ELSE f - x + Space
    <3> DEFINE a == f - x
    <3>1. a \in Int /\ -Space <= a /\ a < Space
      BY <1>0, <1>3, <2>1
    <3> HIDE DEF a
    <3>2. a % Space = IF 0 <= a THEN a ELSE a + Space
      BY <3>1, ModSpace
    <3> QED BY <3>2 DEF a
  <2>3. (base - (u + x)) % Space = IF u + x <= base THEN base - (u + x)
                                   ELSE base - (u + x) + Space
    <3> DEFINE a == base - (u + x)
    <3>1. a \in Int /\ -Space <= a /\ a < Space /\ (0 <= a <=> u + x <= base)
      BY <1>0, <2>1
    <3>2. a % Space = IF 0 <= a THEN a ELSE a + Space
      <4> HIDE DEF a
      <4> QED BY <3>1, ModSpace
    <3> QED BY <3>1, <3>2
  <2> QED BY <1>0, <1>1, <2>1, <2>2, <2>3 DEF FreeOf
<1>6. /\ \A x \in 0 .. u : (f + x) % Space = FreeOf(base, u - x)
      /\ \A x \in 0 .. Capacity - u : (f - x) % Space = FreeOf(base, u + x)
  BY <1>4, <1>5
<1> QED BY <1>2, <1>3, <1>6 DEF f

(* The space of the first m of the messages, and of those that remain.     *)
LeftWeight(J, n, m) == [k \in 0 .. n |-> J[k + m] - J[m]]

(* What is left after the first m messages weighs as much less as they     *)
(* weighed.                                                                *)
LEMMA WeighsDrop ==
    ASSUME NEW n \in Nat, NEW descs, NEW J, Weighs(descs, n, J),
           \A k \in 1 .. n : total_size(descs[k].chunks) \in Nat, NEW m \in 0 .. n
    PROVE  /\ Weighs(DescsFrom(descs, n - m, m), n - m, LeftWeight(J, n - m, m))
           /\ J[m] \in 0 .. J[n] /\ LeftWeight(J, n - m, m)[n - m] = J[n] - J[m]
           /\ \A msgs : (DOMAIN msgs = 1 .. m /\ \A k \in 1 .. m : msgs[k] = descs[k])
                            => SizeOf(msgs) = J[m]
<1> DEFINE w == [k \in 1 .. n |-> total_size(descs[k].chunks)]
           l == n - m
           L == LeftWeight(J, l, m)
           rest == DescsFrom(descs, l, m)
<1>0. /\ J \in [0 .. n -> Nat] /\ J[0] = 0
      /\ \A k \in 1 .. n : J[k] = J[k - 1] + total_size(descs[k].chunks)
  BY DEF Weighs, Sums
<1>1. \A k \in m .. n : J[m] <= J[k]
  <2>1. Sums(J, n, w) /\ \A k \in 1 .. n : w[k] \in Nat
    BY DEF Weighs
  <2> HIDE DEF w
  <2> QED BY <2>1, SumsGrow
<1>2. l \in Nat /\ l + m = n /\ n \in m .. n
  OBVIOUS
<1> HIDE DEF l
<1>3. L \in [0 .. l -> Nat] /\ L[0] = 0
  <2>1. ASSUME NEW k \in 0 .. l PROVE J[k + m] - J[m] \in Nat
    <3>1. k + m \in m .. n /\ k + m \in 0 .. n
      BY <1>2
    <3>2. J[m] <= J[k + m] /\ J[m] \in Nat /\ J[k + m] \in Nat
      BY <1>0, <1>1, <3>1
    <3> QED BY <3>2
  <2>2. J[0 + m] - J[m] = 0
    BY <1>0
  <2> QED BY <1>2, <2>1, <2>2 DEF LeftWeight
<1>4. ASSUME NEW k \in 1 .. l PROVE L[k] = L[k - 1] + total_size(rest[k].chunks)
  <2>1. k + m \in 1 .. n /\ (k + m) - 1 = (k - 1) + m /\ k - 1 \in 0 .. l /\ k \in 0 .. l
        /\ (k - 1) + m \in 0 .. n /\ k + m \in 0 .. n
    BY <1>2
  <2>2. L[k] = J[k + m] - J[m] /\ L[k - 1] = J[(k - 1) + m] - J[m]
    BY <2>1 DEF LeftWeight
  <2>3. rest[k] = descs[k + m]
    BY DEF DescsFrom
  <2>4. J[k + m] = J[(k - 1) + m] + total_size(descs[k + m].chunks)
    BY <1>0, <2>1
  <2>5. J[k + m] \in Nat /\ J[(k - 1) + m] \in Nat /\ J[m] \in Nat
        /\ total_size(descs[k + m].chunks) \in Nat
    BY <1>0, <2>1
  <2> HIDE DEF L, rest
  <2> QED BY <2>2, <2>3, <2>4, <2>5
<1>5. Weighs(rest, l, L)
  <2> HIDE DEF L, rest
  <2> QED BY <1>3, <1>4 DEF Weighs, Sums
<1>6. L[l] = J[n] - J[m]
  BY <1>2 DEF LeftWeight
<1>7. ASSUME NEW msgs, DOMAIN msgs = 1 .. m, \A k \in 1 .. m : msgs[k] = descs[k]
      PROVE  SizeOf(msgs) = J[m]
  <2> DEFINE J2 == [k \in 0 .. m |-> J[k]]
             w2 == [k \in 1 .. m |-> total_size(msgs[k].chunks)]
  <2>1. Sums(J2, m, w2)
    <3>1. J2 \in [0 .. m -> Nat] /\ J2[0] = 0
      BY <1>0
    <3>2. ASSUME NEW k \in 1 .. m PROVE J2[k] = J2[k - 1] + w2[k]
      <4>1. k \in 1 .. n /\ k \in 0 .. m /\ k - 1 \in 0 .. m
        OBVIOUS
      <4>2. J[k] = J[k - 1] + total_size(descs[k].chunks) /\ msgs[k] = descs[k]
        BY <1>0, <1>7, <4>1
      <4> QED BY <4>1, <4>2
    <3> HIDE DEF J2, w2
    <3> QED BY <3>1, <3>2 DEF Sums
  <2>2. J2[m] = J[m]
    OBVIOUS
  <2> HIDE DEF J2
  <2> QED BY <1>7, <2>1, <2>2, SizeSums DEF w2
<1>8. J[m] \in Nat /\ J[n] \in Nat /\ J[m] <= J[n]
  BY <1>0, <1>1, <1>2
<1> QED BY <1>5, <1>6, <1>7, <1>8 DEF l

(* A message more.                                                         *)
LEMMA WeighsPush ==
    ASSUME NEW n \in Nat, NEW descs, NEW J, Weighs(descs, n, J), NEW d, NEW x \in Nat,
           x = total_size(d.chunks)
    PROVE  Weighs([k \in 1 .. n + 1 |-> IF k <= n THEN descs[k] ELSE d], n + 1,
                  [k \in 0 .. n + 1 |-> IF k <= n THEN J[k] ELSE J[n] + x])
<1> DEFINE more == [k \in 1 .. n + 1 |-> IF k <= n THEN descs[k] ELSE d]
           L == [k \in 0 .. n + 1 |-> IF k <= n THEN J[k] ELSE J[n] + x]
<1>0. /\ J \in [0 .. n -> Nat] /\ J[0] = 0
      /\ \A k \in 1 .. n : J[k] = J[k - 1] + total_size(descs[k].chunks)
  BY DEF Weighs, Sums
<1>1. L \in [0 .. n + 1 -> Nat] /\ L[0] = 0
  <2>1. ASSUME NEW k \in 0 .. n + 1 PROVE (IF k <= n THEN J[k] ELSE J[n] + x) \in Nat
    BY <1>0
  <2> QED BY <1>0, <2>1
<1>2. ASSUME NEW k \in 1 .. n + 1 PROVE L[k] = L[k - 1] + total_size(more[k].chunks)
  <2>1. CASE k <= n
    <3>1. k \in 1 .. n /\ k - 1 <= n /\ k - 1 \in 0 .. n + 1
      BY <2>1
    <3>2. L[k] = J[k] /\ L[k - 1] = J[k - 1] /\ more[k] = descs[k]
      BY <3>1
    <3> QED BY <1>0, <3>1, <3>2
  <2>2. CASE ~(k <= n)
    <3>1. k = n + 1 /\ k - 1 = n /\ n \in 0 .. n + 1
      BY <2>2
    <3>2. L[k] = J[n] + x /\ L[k - 1] = J[n] /\ more[k] = d
      BY <2>2, <3>1
    <3> QED BY <3>2
  <2> QED BY <2>1, <2>2
<1> HIDE DEF L, more
<1>3. Weighs(more, n + 1, L)
  BY <1>1, <1>2 DEF Weighs, Sums
<1> QED BY <1>3 DEF L, more
-----------------------------------------------------------------------------
(* One turn of the loop that divides a message among the free regions.     *)
Turn(s, space, special, before, k) ==
    LET r    == get_free_region(s, space, special, before.prev)
        room == static_capacity(r.second)
        part == IF room < before.rest THEN room ELSE before.rest
    IN  IF before.rest = 0 \/ r.second = 0 THEN before
        ELSE [prev    |-> r,
              parts   |-> IF part = 0 THEN before.parts
                          ELSE Append(before.parts, [pos |-> r.first, cap |-> part]),
              rest    |-> before.rest - part,
              regions |-> k]

(* The split of a message before its first turn (queue.cpp do_push).       *)
NothingPlaced(size) == [prev |-> NoRegion, parts |-> <<>>, rest |-> size, regions |-> 0]

(* Placed is where the loop has come to after as many turns as there are   *)
(* bytes.                                                                  *)
Turns(s, space, special, size, place) ==
    /\ Placed(s, space, special, size) = place[Capacity]
    /\ place[0] = NothingPlaced(size)
    /\ \A k \in 1 .. Capacity : place[k] = Turn(s, space, special, place[k - 1], k)

(* The loop of the split runs through at most Capacity turns, one region   *)
(* each.                                                                   *)
LEMMA PlacedTurns ==
    ASSUME NEW s, NEW space, NEW special, NEW size
    PROVE  \E place : Turns(s, space, special, size, place)
<1> DEFINE Body(f, k) == IF k = 0 THEN NothingPlaced(size)
                         ELSE Turn(s, space, special, f[k - 1], k)
           S == {n \in Nat : \E f : f = [k \in 0 .. n |-> Body(f, k)]}
           place == CHOOSE f : f = [k \in 0 .. Capacity |-> Body(f, k)]
<1>0. Capacity \in Nat
  BY RingAssumption
<1>1. Placed(s, space, special, size) = place[Capacity]
  BY DEF Placed, Turn, NothingPlaced
<1>2. 0 \in S
  <2> DEFINE f == [k \in 0 .. 0 |-> NothingPlaced(size)]
  <2>1. f = [k \in 0 .. 0 |-> Body(f, k)]
    OBVIOUS
  <2> QED BY <2>1
<1>3. ASSUME NEW n \in Nat, n \in S PROVE n + 1 \in S
  <2>1. PICK f : f = [k \in 0 .. n |-> Body(f, k)]
    BY <1>3
  <2> DEFINE t == Turn(s, space, special, f[n], n + 1)
             g == [k \in 0 .. n + 1 |-> IF k <= n THEN f[k] ELSE t]
  <2> HIDE DEF t
  <2>2. ASSUME NEW k \in 0 .. n + 1 PROVE g[k] = Body(g, k)
    <3>1. CASE k = 0
      <4>1. g[0] = f[0] /\ 0 \in 0 .. n
        OBVIOUS
      <4>2. f[0] = Body(f, 0)
        <5> HIDE DEF Body
        <5> QED BY <2>1, <4>1
      <4> QED BY <3>1, <4>1, <4>2
    <3>2. CASE k # 0 /\ k <= n
      <4>1. k \in 0 .. n /\ k - 1 \in 0 .. n + 1 /\ k - 1 <= n
        BY <3>2
      <4>2. f[k] = Body(f, k)
        <5> HIDE DEF Body
        <5> QED BY <2>1, <4>1
      <4>3. g[k] = f[k] /\ g[k - 1] = f[k - 1]
        BY <3>2, <4>1
      <4> HIDE DEF g
      <4> QED BY <3>2, <4>2, <4>3
    <3>3. CASE ~(k <= n)
      <4>1. k = n + 1 /\ k # 0 /\ k - 1 = n /\ n \in 0 .. n + 1
        BY <3>3
      <4>2. g[k] = t /\ g[k - 1] = f[n]
        BY <4>1
      <4> HIDE DEF g
      <4> QED BY <4>1, <4>2 DEF t
    <3> QED BY <3>1, <3>2, <3>3
  <2>3. g = [k \in 0 .. n + 1 |-> g[k]]
    OBVIOUS
  <2> HIDE DEF g, Body
  <2>4. g = [k \in 0 .. n + 1 |-> Body(g, k)]
    BY <2>2, <2>3
  <2> QED BY <2>4
<1> HIDE DEF S
<1>4. Capacity \in S
  BY <1>0, <1>2, <1>3, SetInduction
<1>5. place = [k \in 0 .. Capacity |-> Body(place, k)]
  <2>1. \E f : f = [k \in 0 .. Capacity |-> Body(f, k)]
    BY <1>4 DEF S
  <2> HIDE DEF Body
  <2> QED BY <2>1
<1> HIDE DEF place
<1>6. \A k \in 0 .. Capacity : place[k] = Body(place, k)
  <2> HIDE DEF Body
  <2> QED BY <1>5
<1>7. place[0] = NothingPlaced(size)
  <2>1. 0 \in 0 .. Capacity
    BY <1>0
  <2> QED BY <1>6, <2>1
<1>8. ASSUME NEW k \in 1 .. Capacity PROVE place[k] = Turn(s, space, special, place[k - 1], k)
  <2>1. k \in 0 .. Capacity /\ k # 0
    BY <1>0
  <2> QED BY <1>6, <2>1
<1> QED BY <1>1, <1>7, <1>8 DEF Turns

(* Where the limit of an ordinary message is: the free space above the     *)
(* reserve.                                                                *)
Limited(space, special) == ~special /\ ~(space < reserved_space(subscriptions))

(* The room above the reserve of service messages.                         *)
Above(space) == space - reserved_space(subscriptions)

(* Region r lies in region f.                                              *)
Inside(r, f) == /\ r.first \in Nat /\ r.second \in Nat /\ f.first <= r.first
                /\ r.first + r.second <= f.first + f.second

(* Every region the loop asks for lies in one of the two free regions of   *)
(* the ring.                                                               *)
InFree(s, r) ==
    LET r1 == first_free_region(s)
    IN  Inside(r, r1) \/ Inside(r, next_free_region(s, r1))

(* What is left of a free region behind a region in it.                    *)
LEMMA NextInFree ==
    ASSUME NEW V, NEW s \in Queues(V), NEW prev, InFree(s, prev), prev.second # 0
    PROVE  InFree(s, next_free_region(s, prev))
<1> DEFINE r1 == first_free_region(s)
           r2 == next_free_region(s, r1)
           end == prev.first + prev.second
           tl == end % Capacity
           next == next_free_region(s, prev)
<1>0. /\ s.head \in Nat /\ s.head < Capacity /\ s.tail \in Nat /\ s.tail < Capacity
      /\ s.count \in Nat /\ Capacity \in Nat \ {0}
  BY RingAssumption DEF Queues, Positions
<1>1. /\ r1.first = s.tail
      /\ \/ /\ s.count = 0 \/ s.head < s.tail
            /\ r1.second = Capacity - s.tail
            /\ r2.first = 0 /\ r2.second = s.head
         \/ /\ s.count # 0 /\ s.head >= s.tail
            /\ r1.second = s.head - s.tail
            /\ r2.first = s.head /\ r2.second = 0
  BY FreeRegions
<1>2. next = IF s.head < tl THEN Region(tl, Capacity - tl) ELSE Region(tl, s.head - tl)
  BY DEF next_free_region
<1>3. prev.first \in Nat /\ prev.second \in Nat \ {0} /\ end \in Nat
  BY DEF InFree, Inside
<1>4. (end < Capacity => tl = end) /\ (end = Capacity => tl = 0)
  <2>1. end < Capacity => end \in Positions
    BY <1>0, <1>3 DEF Positions
  <2> HIDE DEF end
  <2> QED BY <2>1, ModCapacity
<1> HIDE DEF r1, r2, tl, next
<1>5. InFree(s, next) <=> Inside(next, r1) \/ Inside(next, r2)
  BY DEF InFree, r1, r2, next
<1> SUFFICES InFree(s, next)
  BY DEF next
<1>6. CASE Inside(prev, r1)
  <2>1. s.tail <= prev.first /\ end <= s.tail + r1.second /\ end > 0
    BY <1>1, <1>3, <1>6 DEF Inside
  <2>2. CASE r1.second = Capacity - s.tail /\ r2.first = 0 /\ r2.second = s.head
    <3>1. end <= Capacity
      BY <1>0, <2>1, <2>2
    <3>2. CASE end = Capacity
      <4>1. tl = 0 /\ next = Region(0, s.head)
        BY <1>0, <1>2, <1>4, <3>2
      <4> QED BY <1>0, <1>5, <2>2, <4>1 DEF Inside, Region
    <3>3. CASE end < Capacity /\ s.head < end
      <4>1. next = Region(end, Capacity - end) /\ Capacity - end \in Nat
        BY <1>0, <1>2, <1>3, <1>4, <3>3
      <4>2. r1.first <= end /\ end + (Capacity - end) <= r1.first + r1.second
        BY <1>0, <1>1, <1>3, <2>1, <2>2
      <4> QED BY <1>3, <1>5, <4>1, <4>2 DEF Inside, Region
    <3>4. CASE end < Capacity /\ ~(s.head < end)
      <4>1. next = Region(end, s.head - end) /\ s.head - end \in Nat
        BY <1>0, <1>2, <1>3, <1>4, <3>4
      <4>2. r1.first <= end /\ end + (s.head - end) <= r1.first + r1.second
        BY <1>0, <1>1, <1>3, <2>1, <2>2
      <4> QED BY <1>3, <1>5, <4>1, <4>2 DEF Inside, Region
    <3> QED BY <1>0, <1>3, <3>1, <3>2, <3>3, <3>4
  <2>3. CASE s.head >= s.tail /\ r1.second = s.head - s.tail
    <3>1. end <= s.head /\ end < Capacity
      BY <1>0, <1>3, <2>1, <2>3
    <3>2. next = Region(end, s.head - end) /\ s.head - end \in Nat
      BY <1>0, <1>2, <1>3, <1>4, <3>1
    <3>3. r1.first <= end /\ end + (s.head - end) <= r1.first + r1.second
      BY <1>0, <1>1, <1>3, <2>1, <2>3
    <3> QED BY <1>3, <1>5, <3>2, <3>3 DEF Inside, Region
  <2> QED BY <1>1, <2>2, <2>3
<1>7. CASE Inside(prev, r2)
  <2>1. end <= r2.first + r2.second /\ r2.first <= prev.first
    BY <1>7 DEF Inside
  <2>2. r2.first = 0 /\ r2.second = s.head
    BY <1>0, <1>1, <1>3, <2>1
  <2>3. end <= s.head /\ end < Capacity
    BY <1>0, <1>3, <2>1, <2>2
  <2>4. next = Region(end, s.head - end) /\ s.head - end \in Nat
    BY <1>0, <1>2, <1>3, <1>4, <2>3
  <2>5. r2.first <= end /\ end + (s.head - end) <= r2.first + r2.second
    BY <1>0, <1>3, <2>2
  <2> QED BY <1>3, <1>5, <2>4, <2>5 DEF Inside, Region
<1> QED BY <1>6, <1>7 DEF InFree, r1, r2

(* A region the loop asks for is free, and with the one before it not      *)
(* beyond the limit.                                                       *)
Regions == [first : Nat, second : Nat]

(* The region that the loop has tried last is a free one, and an ordinary  *)
(* message stays above the reserve in it.                                  *)
Before(s, space, special, r) ==
    \/ r = NoRegion
    \/ /\ r \in Regions /\ r.second # 0 /\ InFree(s, r)
       /\ Limited(space, special) => r.second <= Above(space)

(* get_free_region returns a free region of the queue or an empty one, and *)
(* with the region before it an ordinary message takes no more than the room *)
(* above the reserve.                                                      *)
LEMMA RegionFound ==
    ASSUME NEW V, NEW s \in Queues(V), NEW space \in Nat, NEW special \in BOOLEAN,
           subscriptions \in Nat, NEW prev, Before(s, space, special, prev),
           NEW r, r = get_free_region(s, space, special, prev)
    PROVE  /\ r \in Regions /\ InFree(s, r)
           /\ Limited(space, special) => r.second + prev.second <= Above(space)
<1> DEFINE base == IF prev = NoRegion THEN first_free_region(s) ELSE next_free_region(s, prev)
           above == Above(space)
           over == base.second + prev.second - above
<1>0. reserved_space(subscriptions) \in Int
  BY RingAssumption DEF reserved_space, static_size
<1>1. above \in Int /\ (Limited(space, special) <=> ~special /\ above >= 0)
  BY <1>0 DEF Limited, Above
<1>2. prev.second \in Nat /\ (Limited(space, special) => prev.second <= above)
  BY <1>0, <1>1 DEF Before, Regions, NoRegion, Region, Limited
<1>3. base \in Regions /\ InFree(s, base)
  <2>1. CASE prev = NoRegion
    <3>1. base = first_free_region(s)
      BY <2>1
    <3>2. base.first = s.tail /\ base.second \in Nat /\ s.tail \in Nat
      BY <3>1, FreeRegions, RingAssumption DEF Queues, Positions
    <3>3. base \in Regions
      <4>1. base = Region(base.first, base.second)
        BY <3>1 DEF first_free_region, Region
      <4> HIDE DEF base
      <4> QED BY <3>2, <4>1 DEF Regions, Region
    <3>4. Inside(base, base)
      <4> HIDE DEF base
      <4> QED BY <3>2 DEF Inside
    <3>5. InFree(s, base)
      <4> HIDE DEF base
      <4> QED BY <3>1, <3>4 DEF InFree
    <3> QED BY <3>3, <3>5
  <2>2. CASE prev # NoRegion
    <3>1. base = next_free_region(s, prev)
      BY <2>2
    <3>2. InFree(s, base)
      <4> HIDE DEF base
      <4> QED BY <2>2, <3>1, NextInFree DEF Before
    <3>3. base = Region(base.first, base.second)
      BY <3>1 DEF next_free_region, Region
    <3> HIDE DEF base
    <3>4. base.first \in Nat /\ base.second \in Nat
      BY <3>2 DEF InFree, Inside
    <3>5. base \in Regions
      BY <3>3, <3>4 DEF Regions, Region
    <3> QED BY <3>2, <3>5
  <2> QED BY <2>1, <2>2
<1>4. r = IF special \/ space < reserved_space(subscriptions) \/ over <= 0
          THEN base ELSE Region(base.first, base.second - over)
  BY DEF get_free_region, Above
<1> HIDE DEF base
<1>5. base.first \in Nat /\ base.second \in Nat
  BY <1>3 DEF Regions
<1>6. CASE ~Limited(space, special)
  <2>1. r = base
    BY <1>4, <1>6 DEF Limited
  <2> QED BY <1>3, <1>6, <2>1
<1>7. CASE Limited(space, special) /\ over <= 0
  <2>1. r = base
    BY <1>4, <1>7 DEF Limited
  <2> QED BY <1>1, <1>2, <1>3, <1>5, <1>7, <2>1
<1>8. CASE Limited(space, special) /\ ~(over <= 0)
  <2>1. r = Region(base.first, above - prev.second)
    <3>1. base.second - over = above - prev.second
      BY <1>1, <1>2, <1>5
    <3> QED BY <1>4, <1>8, <3>1 DEF Limited
  <2>2. r.first = base.first /\ r.second = above - prev.second
    BY <2>1 DEF Region
  <2>3. r.second \in Nat /\ r.second <= base.second /\ r.second + prev.second <= above
    BY <1>1, <1>2, <1>5, <1>8, <2>2
  <2> DEFINE r1 == first_free_region(s)
             r2 == next_free_region(s, r1)
  <2>6. r1.first + r1.second \in Int /\ r2.first + r2.second \in Int
    BY FreeRegions, RingAssumption DEF Queues, Positions
  <2> HIDE DEF r1, r2
  <2>7. \A f \in {r1, r2} : Inside(base, f) => Inside(r, f)
    <3> SUFFICES ASSUME NEW f \in {r1, r2}, Inside(base, f) PROVE Inside(r, f)
      OBVIOUS
    <3>1. f.first <= base.first /\ base.first + base.second <= f.first + f.second
      BY DEF Inside
    <3>2. f.first + f.second \in Int
      BY <2>6
    <3> QED BY <1>5, <2>2, <2>3, <3>1, <3>2 DEF Inside
  <2>4. InFree(s, r)
    BY <1>3, <2>7 DEF InFree, r1, r2
  <2>5. r \in Regions
    BY <1>5, <2>1, <2>2, <2>3 DEF Region, Regions
  <2> QED BY <1>1, <2>3, <2>4, <2>5
<1> QED BY <1>6, <1>7, <1>8

(* The parts are in free regions, whatever is left over.                   *)
FreeParts(s) ==
    {p \in [pos : Nat, cap : Nat \ {0}] :
        \E r \in Regions : InFree(s, r) /\ p.pos = r.first /\ static_size(p.cap) <= r.second}

(* What the loop has split so far lies in free regions.                    *)
Divided(s, space, special, done) ==
    /\ Before(s, space, special, done.prev)
    /\ done.parts \in Seq(FreeParts(s)) /\ done.rest \in Nat /\ done.regions \in Nat

(* A chunk takes no more of a region than there is.                        *)
LEMMA RoomFits ==
    \A n \in Nat : /\ static_capacity(n) \in Nat
                   /\ static_capacity(n) = 0 <=> n <= HeaderSize
                   /\ n > HeaderSize => static_capacity(n) = n - HeaderSize
                   /\ \A x \in Nat : (x > 0 /\ x <= static_capacity(n)) => static_size(x) <= n
BY RingAssumption DEF static_capacity, static_size

(* One turn of the loop keeps the parts in free regions.                   *)
LEMMA TurnDivides ==
    ASSUME NEW V, NEW s \in Queues(V), NEW space \in Nat, NEW special \in BOOLEAN,
           subscriptions \in Nat, NEW before, Divided(s, space, special, before),
           NEW k \in Nat
    PROVE  Divided(s, space, special, Turn(s, space, special, before, k))
<1> DEFINE r == get_free_region(s, space, special, before.prev)
           room == static_capacity(r.second)
           part == IF room < before.rest THEN room ELSE before.rest
           parts == IF part = 0 THEN before.parts
                    ELSE Append(before.parts, [pos |-> r.first, cap |-> part])
           done == [prev |-> r, parts |-> parts, rest |-> before.rest - part, regions |-> k]
<1>1. /\ Before(s, space, special, before.prev)
      /\ before.parts \in Seq(FreeParts(s)) /\ before.rest \in Nat
  BY DEF Divided
<1>2. /\ r \in Regions /\ InFree(s, r)
      /\ Limited(space, special) => r.second + before.prev.second <= Above(space)
  BY <1>1, RegionFound
<1>3. before.prev.second \in Nat
  BY <1>1 DEF Before, Regions, NoRegion, Region
<1>4. Turn(s, space, special, before, k)
        = IF before.rest = 0 \/ r.second = 0 THEN before ELSE done
  BY DEF Turn
<1> HIDE DEF r
<1>5. r.first \in Nat /\ r.second \in Nat
  BY <1>2 DEF Regions
<1>6. room \in Nat
  BY <1>5, RoomFits
<1> HIDE DEF room
<1>7. part \in Nat /\ before.rest - part \in Nat /\ part <= room
  BY <1>1, <1>6
<1> HIDE DEF part
<1>8. parts \in Seq(FreeParts(s))
  <2>1. CASE part = 0
    BY <1>1, <2>1
  <2>2. CASE part # 0
    <3> DEFINE p == [pos |-> r.first, cap |-> part]
    <3>1. p \in [pos : Nat, cap : Nat \ {0}] /\ p.pos = r.first /\ p.cap = part
      BY <1>5, <1>7, <2>2
    <3>2. static_size(part) <= r.second
      BY <1>5, <1>7, <2>2, RoomFits DEF room
    <3> HIDE DEF p
    <3>3. p \in FreeParts(s)
      BY <1>2, <3>1, <3>2 DEF FreeParts
    <3>4. Append(before.parts, p) \in Seq(FreeParts(s))
      BY <1>1, <3>3
    <3> QED BY <2>2, <3>4 DEF p
  <2> QED BY <2>1, <2>2
<1> HIDE DEF parts
<1>9. r.second # 0 => Before(s, space, special, r)
  <2>1. Limited(space, special) => r.second <= Above(space)
    <3>1. Above(space) \in Int
      BY RingAssumption DEF Above, reserved_space, static_size
    <3> QED BY <1>2, <1>3, <1>5, <3>1
  <2> QED BY <1>2, <2>1 DEF Before
<1>10. CASE before.rest = 0 \/ r.second = 0
  BY <1>4, <1>10
<1>11. CASE ~(before.rest = 0 \/ r.second = 0)
  <2>1. Turn(s, space, special, before, k) = done
    BY <1>4, <1>11
  <2>2. Divided(s, space, special, done)
    BY <1>7, <1>8, <1>9, <1>11 DEF Divided
  <2> QED BY <2>1, <2>2
<1> QED BY <1>10, <1>11

(* The whole split keeps the parts in free regions, so erasing their       *)
(* headers, or writing them, touches no unread message.                    *)
LEMMA PlacedDivides ==
    ASSUME NEW V, NEW s \in Queues(V), NEW space \in Nat, NEW special \in BOOLEAN,
           subscriptions \in Nat, NEW size \in Nat
    PROVE  Divided(s, space, special, Placed(s, space, special, size))
<1>1. PICK place : Turns(s, space, special, size, place)
  BY PlacedTurns
<1> DEFINE S == {k \in Nat : k <= Capacity => Divided(s, space, special, place[k])}
<1>2. 0 \in S
  <2> DEFINE z == NothingPlaced(size)
  <2>1. /\ z.prev = NoRegion /\ z.parts = <<>> /\ z.rest = size /\ z.regions = 0
    BY DEF NothingPlaced
  <2> HIDE DEF z
  <2>2. Divided(s, space, special, z)
    BY <2>1 DEF Divided, Before
  <2>3. place[0] = z
    BY <1>1 DEF Turns, z
  <2> QED BY <2>2, <2>3
<1>3. ASSUME NEW k \in Nat, k \in S PROVE k + 1 \in S
  <2> SUFFICES ASSUME k + 1 <= Capacity PROVE Divided(s, space, special, place[k + 1])
    OBVIOUS
  <2>1. k <= Capacity /\ k + 1 \in 1 .. Capacity /\ (k + 1) - 1 = k
    BY RingAssumption
  <2>2. Divided(s, space, special, place[k])
    BY <1>3, <2>1
  <2>3. place[k + 1] = Turn(s, space, special, place[k], k + 1)
    BY <1>1, <2>1 DEF Turns
  <2> QED BY <2>2, <2>3, TurnDivides
<1> HIDE DEF S
<1>4. Capacity \in S /\ Capacity \in Nat
  BY <1>2, <1>3, SetInduction, RingAssumption
<1>5. Divided(s, space, special, place[Capacity])
  BY <1>4 DEF S
<1> QED BY <1>1, <1>5 DEF Turns

(* The first two regions the loop asks for, when the first is not empty:   *)
(* the free regions of the ring, cut at the limit.                         *)
LEMMA FirstTwo ==
    ASSUME NEW V, NEW s \in Queues(V), NEW space \in Nat, NEW special \in BOOLEAN,
           subscriptions \in Nat,
           NEW f1, f1 = first_free_region(s), NEW f2, f2 = next_free_region(s, f1),
           NEW r1, r1 = get_free_region(s, space, special, NoRegion),
           NEW r2, r2 = get_free_region(s, space, special, r1), r1.second # 0
    PROVE  /\ r1.first = f1.first /\ r1.second \in Nat /\ f1.second \in Nat
           /\ r1.second <= f1.second
           /\ r2.second \in Nat /\ f2.second \in Nat
           /\ Limited(space, special) => r1.second + r2.second <= Above(space)
           /\ r2.second # 0 => r1 = f1 /\ r2.first = f2.first /\ r2.second <= f2.second
           /\ ~Limited(space, special) => r1 = f1 /\ r2 = f2
<1> DEFINE above == Above(space)
           base == next_free_region(s, r1)
           over1 == f1.second + NoRegion.second - above
           over2 == base.second + r1.second - above
<1>0. reserved_space(subscriptions) \in Int /\ NoRegion.second = 0
  BY RingAssumption DEF reserved_space, static_size, NoRegion, Region
<1>1. above \in Int /\ (Limited(space, special) <=> ~special /\ above >= 0)
      /\ (~(special \/ space < reserved_space(subscriptions)) <=> Limited(space, special))
  BY <1>0 DEF Limited, Above
<1>2. r1 = IF ~Limited(space, special) \/ over1 <= 0
           THEN f1 ELSE Region(f1.first, f1.second - over1)
  BY <1>1 DEF get_free_region, Above
<1>3. r1 # NoRegion
  BY <1>0
<1>4. r2 = IF ~Limited(space, special) \/ over2 <= 0
           THEN base ELSE Region(base.first, base.second - over2)
  BY <1>1, <1>3 DEF get_free_region, Above
<1>5. /\ r1 \in Regions /\ InFree(s, r1)
      /\ Limited(space, special) => r1.second <= above
  <2>1. Before(s, space, special, NoRegion)
    BY DEF Before
  <2>2. /\ r1 \in Regions /\ InFree(s, r1)
        /\ Limited(space, special) => r1.second + 0 <= above
    BY <1>0, <2>1, RegionFound
  <2> QED BY <2>2 DEF Regions
<1>6. /\ r2 \in Regions
      /\ Limited(space, special) => r2.second + r1.second <= above
  <2>1. Before(s, space, special, r1)
    BY <1>5 DEF Before
  <2> QED BY <2>1, RegionFound
<1>7. f1.second \in Nat /\ f2.second \in Nat /\ r1.second \in Nat /\ r2.second \in Nat
  <2>1. f1.second \in Nat /\ f2.second \in Nat
    BY FreeRegions, RingAssumption DEF Queues, Positions
  <2> QED BY <1>5, <1>6, <2>1 DEF Regions
<1>8. base.second \in Nat
  <2>1. InFree(s, base)
    BY <1>5, NextInFree
  <2> HIDE DEF base
  <2> QED BY <2>1 DEF InFree, Inside
<1>9. CASE r1 = f1
  <2>1. base = f2
    BY <1>9
  <2> HIDE DEF base
  <2>2. r2.first = f2.first /\ r2.second <= f2.second
    <3>1. CASE r2 = f2
      BY <1>7, <3>1
    <3>2. CASE r2 = Region(f2.first, f2.second - over2) /\ over2 > 0
      <4>1. over2 \in Int
        BY <1>1, <1>7, <1>8
      <4> HIDE DEF over2
      <4> QED BY <1>7, <3>2, <4>1 DEF Region
    <3> QED BY <1>1, <1>4, <1>7, <2>1, <3>1, <3>2
  <2>3. ~Limited(space, special) => r2 = f2
    BY <1>4, <2>1
  <2> QED BY <1>1, <1>6, <1>7, <1>9, <2>2, <2>3
<1>10. CASE r1 # f1
  <2>1. Limited(space, special) /\ over1 > 0 /\ r1 = Region(f1.first, above)
    <3>1. f1.second - over1 = above /\ over1 \in Int
      BY <1>0, <1>1, <1>7
    <3> QED BY <1>2, <1>10, <3>1
  <2>2. r1.first = f1.first /\ r1.second = above
    BY <2>1 DEF Region
  <2>3. r1.second <= f1.second
    BY <1>0, <1>1, <1>7, <2>1, <2>2
  <2>4. r2.second = 0
    BY <1>1, <1>6, <1>7, <2>1, <2>2
  <2> QED BY <1>1, <1>6, <1>7, <2>1, <2>2, <2>3, <2>4
<1> QED BY <1>9, <1>10

(* Where the loop stands after its second turn.                            *)
SecondTurn(s, space, special, size, t2) ==
    t2 = Turn(s, space, special, Turn(s, space, special, NothingPlaced(size), 1), 2)

(* After them a service message has seen both free regions, and there is   *)
(* no third one.                                                           *)
LEMMA NoThirdTurn ==
    ASSUME NEW V, NEW s \in Queues(V), NEW space \in Nat, subscriptions \in Nat,
           NEW special, ~Limited(space, special),
           NEW size \in Nat \ {0}, NEW t2, SecondTurn(s, space, special, size, t2), NEW k
    PROVE  Turn(s, space, special, t2, k) = t2
<1>0. PICK z, t1 : /\ z = NothingPlaced(size) /\ t1 = Turn(s, space, special, z, 1)
                   /\ t2 = Turn(s, space, special, t1, 2)
  BY DEF SecondTurn
<1>1. PICK f1, f2, r1, r2 : /\ r1 = get_free_region(s, space, special, NoRegion)
                            /\ r2 = get_free_region(s, space, special, r1)
                            /\ f1 = first_free_region(s) /\ f2 = next_free_region(s, f1)
  OBVIOUS
<1>2. z.prev = NoRegion /\ z.rest = size /\ z.regions = 0
  BY <1>0 DEF NothingPlaced
<1>3. ASSUME NEW before, NEW j
      PROVE  /\ before.rest = 0 => Turn(s, space, special, before, j) = before
             /\ get_free_region(s, space, special, before.prev).second = 0
                   => Turn(s, space, special, before, j) = before
             /\ (before.rest # 0 /\ get_free_region(s, space, special, before.prev).second # 0)
                   => Turn(s, space, special, before, j).prev
                        = get_free_region(s, space, special, before.prev)
  BY DEF Turn
<1>4. CASE r1.second = 0
  <2>1. t1 = z
    BY <1>0, <1>1, <1>2, <1>3, <1>4
  <2>2. t2 = z
    BY <1>0, <1>1, <1>2, <1>3, <1>4, <2>1
  <2> QED BY <1>0, <1>1, <1>2, <1>3, <1>4, <2>2
<1>5. CASE r1.second # 0
  <2>1. r1 = f1 /\ r1 # NoRegion
    BY <1>1, <1>5 DEF get_free_region, NoRegion, Region, Limited
  <2>2. r1 = f1 /\ r2 = f2
    BY <1>1, <2>1 DEF get_free_region, Limited
  <2>3. next_free_region(s, f2).second = 0
    BY <1>1, ThirdRegionEmpty
  <2>4. t1.prev = r1
    BY <1>0, <1>1, <1>2, <1>3, <1>5
  <2>5. CASE r2.second = 0
    <3>1. t2 = t1
      BY <1>0, <1>1, <1>3, <2>4, <2>5
    <3>2. get_free_region(s, space, special, t2.prev).second = 0
      BY <1>1, <2>4, <2>5, <3>1
    <3> QED BY <1>3, <3>2
  <2>6. CASE t1.rest = 0
    <3>1. t2 = t1
      BY <1>0, <1>3, <2>6
    <3> QED BY <1>3, <2>6, <3>1
  <2>7. CASE r2.second # 0 /\ t1.rest # 0
    <3>1. t2.prev = r2
      BY <1>0, <1>1, <1>3, <2>4, <2>7
    <3>2. r2 # NoRegion
      BY <2>7 DEF NoRegion, Region
    <3>3. get_free_region(s, space, special, r2) = next_free_region(s, f2)
      BY <2>2, <3>2 DEF get_free_region, Limited
    <3> QED BY <1>3, <2>3, <3>1, <3>3
  <2> QED BY <2>5, <2>6, <2>7
<1> QED BY <1>4, <1>5

(* Two turns are all, but for an ordinary message that the limit cuts.     *)
LEMMA TwoTurns ==
    ASSUME NEW V, NEW s \in Queues(V), NEW space \in Nat, NEW special \in BOOLEAN,
           subscriptions \in Nat, NEW size \in Nat \ {0}, Capacity >= 2,
           NEW t1, t1 = Turn(s, space, special, NothingPlaced(size), 1),
           NEW t2, t2 = Turn(s, space, special, t1, 2),
           NEW p, p = Placed(s, space, special, size)
    PROVE  p = t2 \/ (~special /\ p.regions > 2)
<1>1. PICK place : Turns(s, space, special, size, place)
  BY PlacedTurns
<1>0. Capacity \in Nat
  BY RingAssumption
<1>2. /\ place[0] = NothingPlaced(size) /\ p = place[Capacity]
      /\ \A k \in 1 .. Capacity : place[k] = Turn(s, space, special, place[k - 1], k)
  BY <1>1 DEF Turns
<1>3. place[1] = t1 /\ place[2] = t2
  <2>1. 1 \in 1 .. Capacity /\ 2 \in 1 .. Capacity /\ 1 - 1 = 0 /\ 2 - 1 = 1
    BY <1>0
  <2> QED BY <1>2, <2>1
<1>4. ASSUME NEW before, NEW k
      PROVE  LET t == Turn(s, space, special, before, k)
             IN  /\ t = before \/ t.regions = k
                 /\ before.rest = 0 => t = before
                 /\ get_free_region(s, space, special, before.prev).second = 0 => t = before
                 /\ t # before => t.prev = get_free_region(s, space, special, before.prev)
  BY DEF Turn
<1>5. special => \A k \in Nat : Turn(s, space, special, t2, k) = t2
  <2>1. SecondTurn(s, space, special, size, t2)
    BY DEF SecondTurn
  <2>2. ~Limited(space, special) => \A k : Turn(s, space, special, t2, k) = t2
    BY <2>1, NoThirdTurn
  <2>3. special => ~Limited(space, special)
    BY DEF Limited
  <2> QED BY <2>2, <2>3
<1> DEFINE S == {j \in Nat : j + 2 <= Capacity =>
                    place[j + 2] = t2 \/ (~special /\ place[j + 2].regions > 2)}
<1>6. 0 \in S
  BY <1>3
<1>7. ASSUME NEW j \in Nat, j \in S PROVE j + 1 \in S
  <2> SUFFICES ASSUME j + 1 + 2 <= Capacity
               PROVE  place[j + 1 + 2] = t2 \/ (~special /\ place[j + 1 + 2].regions > 2)
    OBVIOUS
  <2> DEFINE k == j + 1 + 2
             m == j + 2
  <2>1. m <= Capacity /\ k \in 1 .. Capacity /\ k - 1 = m /\ k > 2 /\ k \in Nat
    BY <1>0
  <2>2. place[m] = t2 \/ (~special /\ place[m].regions > 2)
    BY <1>7, <2>1
  <2> HIDE DEF k, m
  <2>3. place[k] = Turn(s, space, special, place[m], k)
    BY <1>2, <2>1
  <2>4. place[k] = place[m] \/ place[k].regions = k
    BY <1>4, <2>3
  <2>5. place[k] = t2 \/ (~special /\ place[k].regions > 2)
    BY <1>5, <2>1, <2>2, <2>3, <2>4
  <2> QED BY <2>5 DEF k
<1> HIDE DEF S
<1>8. Capacity - 2 \in S /\ (Capacity - 2) + 2 = Capacity
  BY <1>0, <1>6, <1>7, SetInduction
<1>9. (Capacity - 2) + 2 <= Capacity =>
          \/ place[(Capacity - 2) + 2] = t2
          \/ ~special /\ place[(Capacity - 2) + 2].regions > 2
  BY <1>8 DEF S
<1> QED BY <1>0, <1>2, <1>8, <1>9

(* What a turn does when there is a region: it takes what the region can   *)
(* hold, or the rest.                                                      *)
Share(r, rest) ==
    LET room == static_capacity(r.second) IN IF room < rest THEN room ELSE rest

(* What one turn of the loop does: nothing when the message is placed or no *)
(* region is left; otherwise it takes from the region what the message needs *)
(* or the region has room for.                                             *)
TurnRule(s, space, special) ==
    \A before, k :
        LET r == get_free_region(s, space, special, before.prev)
            t == Turn(s, space, special, before, k)
            part == Share(r, before.rest)
        IN  /\ before.rest = 0 => t = before
            /\ r.second = 0 => t = before
            /\ (before.rest # 0 /\ r.second # 0) =>
                  /\ t.prev = r /\ t.rest = before.rest - part /\ t.regions = k
                  /\ part = 0 => t.parts = before.parts
                  /\ part # 0 => t.parts = Append(before.parts,
                                              [pos |-> r.first, cap |-> part])

(* Every turn follows this rule.                                           *)
LEMMA TurnTakes ==
    ASSUME NEW s, NEW space, NEW special
    PROVE  TurnRule(s, space, special)
<1> SUFFICES ASSUME NEW before, NEW k
             PROVE
             LET r == get_free_region(s, space, special, before.prev)
                 t == Turn(s, space, special, before, k)
                 part == Share(r, before.rest)
             IN  /\ before.rest = 0 => t = before
                 /\ r.second = 0 => t = before
                 /\ (before.rest # 0 /\ r.second # 0) =>
                       /\ t.prev = r /\ t.rest = before.rest - part /\ t.regions = k
                       /\ part = 0 => t.parts = before.parts
                       /\ part # 0 => t.parts = Append(before.parts,
                                                   [pos |-> r.first, cap |-> part])
  BY DEF TurnRule
<1> DEFINE r == get_free_region(s, space, special, before.prev)
           part == Share(r, before.rest)
<1>1. Turn(s, space, special, before, k)
        = IF before.rest = 0 \/ r.second = 0 THEN before
          ELSE [prev    |-> r,
                parts   |-> IF part = 0 THEN before.parts
                            ELSE Append(before.parts, [pos |-> r.first, cap |-> part]),
                rest    |-> before.rest - part,
                regions |-> k]
  BY DEF Turn, Share
<1> HIDE DEF r, part
<1> QED BY <1>1 DEF r, part
(* Sequences with the same items are the same; what Append appends.        *)
LEMMA SeqSame ==
    ASSUME NEW S, NEW s \in Seq(S), NEW t \in Seq(S), Len(s) = Len(t),
           \A i \in 1 .. Len(t) : s[i] = t[i]
    PROVE  s = t
OBVIOUS


(* Appending an item keeps the items before it.                            *)
LEMMA AppendItems ==
    ASSUME NEW S, NEW s \in Seq(S), NEW y \in S
    PROVE  /\ Append(s, y) \in Seq(S) /\ Len(Append(s, y)) = Len(s) + 1
           /\ Append(s, y)[Len(s) + 1] = y
           /\ \A i \in 1 .. Len(s) : Append(s, y)[i] = s[i]
<1>1. Append(s, y) \in Seq(S)
  OBVIOUS
<1>2. Len(Append(s, y)) = Len(s) + 1
  OBVIOUS
<1>3. Append(s, y)[Len(s) + 1] = y
  OBVIOUS
<1>4. \A i \in 1 .. Len(s) : Append(s, y)[i] = s[i]
  OBVIOUS
<1> QED BY <1>1, <1>2, <1>3, <1>4

(* A sequence of two items is its first item with the second appended.     *)
LEMMA SecondItem ==
    ASSUME NEW S, NEW s \in Seq(S), Len(s) = 1, NEW y \in S,
           NEW u \in Seq(S), Len(u) = 2, u[1] = s[1], u[2] = y
    PROVE  Append(s, y) = u
<1> DEFINE t == Append(s,y)
<1>1. /\ t \in Seq(S) /\ Len(t) = Len(s) + 1 /\ t[Len(s) + 1] = y
      /\ \A i \in 1 .. Len(s) : t[i] = s[i]
  BY ONLY s \in Seq(S), y \in S, AppendItems
<1> HIDE DEF t
<1>5. Len(t) = Len(u) /\ \A i \in 1 .. Len(t) : t[i] = u[i]
  <2>1. t[1] = s[1] /\ t[2] = y /\ Len(t) = 2
    BY <1>1
  <2> QED BY <2>1
<1>6. t = u
  BY <1>1, <1>5, SeqSame
<1> QED BY <1>6 DEF t

(* The sequence of two items.                                              *)
LEMMA AppendPair ==
    ASSUME NEW x, NEW y
    PROVE  Append(<<x>>, y) = <<x, y>>
<1> DEFINE S == {x, y}
           s == <<x>>
           u == <<x, y>>
<1>1. s \in Seq(S) /\ u \in Seq(S) /\ y \in S /\ Len(s) = 1 /\ s[1] = x
  OBVIOUS
<1>2. Len(u) = 2 /\ u[1] = x /\ u[2] = y
  OBVIOUS
<1> HIDE DEF s, u, S
<1>4. Append(s, y) = u
  BY <1>1, <1>2, SecondItem
<1> QED BY <1>4 DEF s, u

(* As a statement about Placed alone.                                      *)
LEMMA TwoTurnsPlaced ==
    ASSUME NEW V, NEW s \in Queues(V), NEW space \in Nat, NEW special \in BOOLEAN,
           subscriptions \in Nat, Capacity >= 2
    PROVE  \A size \in Nat \ {0} :
             \/ Placed(s, space, special, size)
                   = Turn(s, space, special,
                          Turn(s, space, special, NothingPlaced(size), 1), 2)
             \/ ~special /\ Placed(s, space, special, size).regions > 2
BY TwoTurns

(* A message that finds room is divided as static_make_message divides it  *)
(* without a limit, and it stays within the limit.                         *)
LEMMA PlacedParts ==
    ASSUME NEW V, NEW s \in Queues(V), NEW space \in Nat, NEW special \in BOOLEAN,
           subscriptions \in Nat, NEW size \in Nat \ {0}, Capacity >= 2,
           NEW p, p = Placed(s, space, special, size), p.rest = 0,
           special \/ p.regions <= 2
    PROVE  /\ p.parts = MessageParts(s, size) /\ p.parts # <<>>
           /\ Limited(space, special) =>
                 \/ \E a : p.parts = <<a>> /\ static_size(a.cap) <= Above(space)
                 \/ \E a, b : /\ p.parts = <<a, b>>
                              /\ static_size(a.cap) + static_size(b.cap) <= Above(space)
<1>0. TurnRule(s, space, special)
  BY TurnTakes
<1>1. PICK z, t1, t2 : /\ z = NothingPlaced(size)
                       /\ t1 = Turn(s, space, special, z, 1)
                       /\ t2 = Turn(s, space, special, t1, 2)
  OBVIOUS
<1>2. p.regions \in Nat
  BY PlacedDivides DEF Divided
<1>3. p = t2
  <2>1. p = t2 \/ (~special /\ p.regions > 2)
    BY <1>1, TwoTurnsPlaced
  <2> QED BY <1>2, <2>1
<1>4. PICK f1, f2, r1, r2 : /\ f1 = first_free_region(s) /\ f2 = next_free_region(s, f1)
                            /\ r1 = get_free_region(s, space, special, NoRegion)
                            /\ r2 = get_free_region(s, space, special, r1)
  OBVIOUS
<1>5. z.prev = NoRegion /\ z.rest = size /\ z.parts = <<>>
  BY <1>1 DEF NothingPlaced
<1>6. PICK room1, part1 : /\ room1 = static_capacity(r1.second)
                          /\ part1 = IF room1 < size THEN room1 ELSE size
                          /\ part1 = Share(r1, size)
  BY DEF Share
<1>7. r1.second # 0
  <2>1. SUFFICES ASSUME r1.second = 0 PROVE FALSE
    OBVIOUS
  <2>2. t1 = z
    BY <1>1, <1>4, <1>5, <2>1, <1>0 DEF TurnRule
  <2>3. get_free_region(s, space, special, t1.prev).second = 0
    BY <1>4, <1>5, <2>1, <2>2
  <2>4. t2 = t1
    BY <1>1, <2>3, <1>0 DEF TurnRule
  <2> QED BY <1>3, <1>5, <2>2, <2>4
<1>8. /\ r1.first = f1.first /\ r1.second \in Nat /\ f1.second \in Nat
      /\ r1.second <= f1.second
      /\ r2.second \in Nat /\ f2.second \in Nat
      /\ Limited(space, special) => r1.second + r2.second <= Above(space)
      /\ r2.second # 0 => r1 = f1 /\ r2.first = f2.first /\ r2.second <= f2.second
  BY <1>4, <1>7, FirstTwo
<1>9. /\ t1.prev = r1 /\ t1.rest = size - part1
      /\ part1 = 0 => t1.parts = <<>>
      /\ part1 # 0 => t1.parts = Append(<<>>, [pos |-> r1.first, cap |-> part1])
  BY <1>1, <1>4, <1>5, <1>6, <1>7, <1>0 DEF TurnRule
<1>10. Above(space) \in Int
  BY RingAssumption DEF Above, reserved_space, static_size
<1> DEFINE c1 == static_capacity(f1.second)
           c2 == static_capacity(f2.second)
<1>11. c1 \in Nat /\ c2 \in Nat /\ room1 \in Nat /\ room1 <= c1
  BY <1>6, <1>8, RingAssumption DEF static_capacity
<1>12. MessageParts(s, size) =
          IF size <= c1 THEN <<[pos |-> f1.first, cap |-> size]>>
          ELSE IF size > c1 + c2 THEN <<>>
          ELSE IF c1 = 0 THEN <<[pos |-> f2.first, cap |-> size]>>
          ELSE <<[pos |-> f1.first, cap |-> c1], [pos |-> f2.first, cap |-> size - c1]>>
  BY <1>4 DEF MessageParts
<1> HIDE DEF c1, c2
<1>13. CASE size <= room1
  <2>1. part1 = size /\ t1.rest = 0
    BY <1>6, <1>9, <1>11, <1>13
  <2>2. t2 = t1
    BY <1>1, <2>1, <1>0 DEF TurnRule
  <2>3. p.parts = <<[pos |-> f1.first, cap |-> size]>>
    BY <1>3, <1>8, <1>9, <2>1, <2>2
  <2>4. size <= c1
    BY <1>11, <1>13
  <2>5. static_size(size) <= r1.second
    BY <1>6, <1>8, <1>13, RoomFits
  <2>6. static_size(size) \in Nat
    BY RingAssumption DEF static_size
  <2>7. Limited(space, special) => static_size(size) <= Above(space)
    BY <1>8, <1>10, <2>5, <2>6
  <2>8. ASSUME Limited(space, special)
        PROVE  \E a : p.parts = <<a>> /\ static_size(a.cap) <= Above(space)
    BY <2>3, <2>7, <2>8
  <2> QED BY <1>12, <2>3, <2>4, <2>8
<1>14. CASE ~(size <= room1)
  <2>1. part1 = room1 /\ t1.rest = size - room1 /\ size - room1 \in Nat \ {0}
    BY <1>6, <1>9, <1>11, <1>14
  <2>2. r2.second # 0
    <3>1. SUFFICES ASSUME r2.second = 0 PROVE FALSE
      OBVIOUS
    <3>2. get_free_region(s, space, special, t1.prev).second = 0
      BY <1>4, <1>9, <3>1
    <3>3. t2 = t1
      BY <1>1, <3>2, <1>0 DEF TurnRule
    <3> QED BY <1>3, <2>1, <3>3
  <2>3. r1 = f1 /\ r2.first = f2.first /\ r2.second <= f2.second
    BY <1>8, <2>2
  <2>4. room1 = c1
    BY <1>6, <2>3 DEF c1
  <2>5. PICK room2, part2 : /\ room2 = static_capacity(r2.second)
                            /\ part2 = IF room2 < t1.rest THEN room2 ELSE t1.rest
                            /\ part2 = Share(r2, t1.rest)
    BY DEF Share
  <2>6. /\ t2.rest = t1.rest - part2
        /\ part2 # 0 => t2.parts = Append(t1.parts, [pos |-> r2.first, cap |-> part2])
    BY <1>1, <1>4, <1>9, <2>1, <2>2, <2>5, <1>0 DEF TurnRule
  <2>7. room2 \in Nat /\ room2 <= c2
    BY <1>8, <2>3, <2>5, RingAssumption DEF static_capacity, c2
  <2>8. part2 = size - c1 /\ size - c1 <= room2 /\ size - c1 \in Nat \ {0}
    BY <1>3, <2>1, <2>4, <2>5, <2>6, <2>7
  <2>9. size > c1 /\ size <= c1 + c2
    BY <1>11, <2>7, <2>8
  <2>10. static_size(size - c1) <= r2.second
    BY <1>8, <2>5, <2>8, RoomFits
  <2>11. static_size(size - c1) \in Nat /\ static_size(c1) \in Nat
    BY <1>11, <2>8, RingAssumption DEF static_size
  <2>12. CASE c1 = 0
    <3>1. t1.parts = <<>> /\ size - c1 = size
      BY <1>9, <2>1, <2>4, <2>12
    <3>2. p.parts = <<[pos |-> f2.first, cap |-> size]>>
      BY <1>3, <2>3, <2>6, <2>8, <3>1
    <3>3. Limited(space, special) => static_size(size) <= Above(space)
      BY <1>8, <1>10, <2>10, <2>11, <3>1
    <3>4. ASSUME Limited(space, special)
          PROVE  \E a : p.parts = <<a>> /\ static_size(a.cap) <= Above(space)
      BY <3>2, <3>3, <3>4
    <3>5. MessageParts(s, size) = <<[pos |-> f2.first, cap |-> size]>>
      BY <1>11, <1>12, <2>9, <2>12
    <3> QED BY <3>2, <3>4, <3>5
  <2>13. CASE c1 # 0
    <3>1. t1.parts = <<[pos |-> f1.first, cap |-> c1]>>
      BY <1>8, <1>9, <2>1, <2>4, <2>13
    <3>2. p.parts = <<[pos |-> f1.first, cap |-> c1], [pos |-> f2.first, cap |-> size - c1]>>
      <4> DEFINE x == [pos |-> f1.first, cap |-> c1]
                 y == [pos |-> f2.first, cap |-> size - c1]
      <4>1. p.parts = Append(<<x>>, y)
        BY <1>3, <2>3, <2>6, <2>8, <3>1
      <4> HIDE DEF x, y
      <4>2. Append(<<x>>, y) = <<x, y>>
        BY AppendPair
      <4> QED BY <4>1, <4>2 DEF x, y
    <3>3. static_size(c1) <= r1.second
      <4>1. room1 > 0 /\ room1 <= static_capacity(r1.second)
        BY <1>6, <1>11, <2>4, <2>13
      <4>2. static_size(room1) <= r1.second
        BY <1>8, <1>11, <4>1, RoomFits
      <4> QED BY <2>4, <4>2
    <3>4. Limited(space, special) =>
              static_size(c1) + static_size(size - c1) <= Above(space)
      BY <1>8, <1>10, <2>10, <2>11, <3>3
    <3>5. ASSUME Limited(space, special)
          PROVE  \E a, b : /\ p.parts = <<a, b>>
                           /\ static_size(a.cap) + static_size(b.cap) <= Above(space)
      BY <3>2, <3>4, <3>5
    <3>6. MessageParts(s, size)
             = <<[pos |-> f1.first, cap |-> c1], [pos |-> f2.first, cap |-> size - c1]>>
      BY <1>11, <1>12, <2>9, <2>13
    <3> QED BY <3>2, <3>5, <3>6
  <2> QED BY <2>12, <2>13
<1> QED BY <1>11, <1>13, <1>14

(* After two turns a service message has found room when a free region can *)
(* hold it, ...                                                            *)
LEMMA SpecialTurns ==
    ASSUME NEW V, NEW s \in Queues(V), NEW space \in Nat,
           NEW special \in BOOLEAN, ~Limited(space, special), NEW f1, f1 = first_free_region(s),
           f1.second # 0, f1.second > HeaderSize \/ next_free_region(s, f1).second > HeaderSize,
           NEW size \in Nat \ {0}, size <= 1, NEW t2, SecondTurn(s, space, special, size, t2)
    PROVE  t2.rest = 0
<1>0. TurnRule(s, space, special)
  BY TurnTakes
<1>1. PICK z, t1, r1, r2, f2 :
          /\ z = NothingPlaced(size)
          /\ t1 = Turn(s, space, special, z, 1)
          /\ t2 = Turn(s, space, special, t1, 2)
          /\ r1 = get_free_region(s, space, special, NoRegion)
          /\ r2 = get_free_region(s, space, special, r1)
          /\ f2 = next_free_region(s, f1)
  BY DEF SecondTurn
<1>3. z.prev = NoRegion /\ z.rest = size
  BY <1>1 DEF NothingPlaced
<1>4. r1 = f1 /\ r1 # NoRegion
  BY <1>1 DEF get_free_region, Limited, NoRegion, Region
<1>5. r2 = f2
  BY <1>1, <1>4 DEF get_free_region, Limited
<1>6. f1.second \in Nat /\ f2.second \in Nat
  BY <1>1, FreeRegions, RingAssumption DEF Queues, Positions
<1>7. PICK room1, part1 : /\ room1 = static_capacity(r1.second)
                          /\ part1 = IF room1 < size THEN room1 ELSE size
                          /\ part1 = Share(r1, size)
  BY DEF Share
<1>14. r1.second # 0
  BY <1>4
<1>8. t1.prev = r1 /\ t1.rest = size - part1
  <2>1. (z.rest # 0 /\ get_free_region(s, space, special, z.prev).second # 0) =>
            /\ Turn(s, space, special, z, 1).prev = get_free_region(s, space, special, z.prev)
            /\ Turn(s, space, special, z, 1).rest
                 = z.rest - Share(get_free_region(s, space, special, z.prev), z.rest)
    BY <1>0, Zenon DEF TurnRule
  <2>2. get_free_region(s, space, special, z.prev) = r1 /\ z.rest # 0
    BY <1>1, <1>3
  <2>3. t1.prev = r1 /\ t1.rest = z.rest - Share(r1, z.rest)
    BY <1>1, <1>14, <2>1, <2>2
  <2> QED BY <1>3, <1>7, <2>3
<1>9. room1 \in Nat /\ (room1 = 0 <=> f1.second <= HeaderSize)
  BY <1>4, <1>6, <1>7, RoomFits
<1>10. CASE room1 # 0
  <2>1. t1.rest = 0
    BY <1>7, <1>8, <1>9, <1>10
  <2>2. t2 = t1
    BY <1>1, <2>1, <1>0 DEF TurnRule
  <2> QED BY <1>1, <2>1, <2>2
<1>11. CASE room1 = 0
  <2>1. t1.rest = size /\ t1.rest # 0
    BY <1>7, <1>8, <1>11
  <2>2. f2.second > HeaderSize /\ f2.second # 0
    BY <1>1, <1>6, <1>9, <1>11, RingAssumption
  <2>3. PICK room2, part2 : /\ room2 = static_capacity(r2.second)
                            /\ part2 = IF room2 < t1.rest THEN room2 ELSE t1.rest
                            /\ part2 = Share(r2, t1.rest)
    BY DEF Share
  <2>4. t2.rest = t1.rest - part2
    <3>1. get_free_region(s, space, special, t1.prev) = r2 /\ r2.second # 0 /\ t1.rest # 0
      BY <1>1, <1>5, <1>8, <2>1, <2>2
    <3>2. (t1.rest # 0 /\ get_free_region(s, space, special, t1.prev).second # 0) =>
              Turn(s, space, special, t1, 2).rest
                 = t1.rest - Share(get_free_region(s, space, special, t1.prev), t1.rest)
      BY <1>0, Zenon DEF TurnRule
    <3> QED BY <1>1, <2>3, <3>1, <3>2
  <2>5. room2 \in Nat /\ room2 # 0
    BY <1>5, <1>6, <2>2, <2>3, RingAssumption DEF static_capacity
  <2>6. t2.rest = 0
    BY <2>1, <2>3, <2>4, <2>5
  <2> QED BY <1>1, <2>6
<1> QED BY <1>10, <1>11

(* ... and these are all the turns there are.                              *)
LEMMA SpecialFits ==
    ASSUME NEW V, NEW s \in Queues(V), NEW space \in Nat, subscriptions \in Nat,
           Capacity >= 2, NEW f1, f1 = first_free_region(s),
           f1.second # 0, f1.second > HeaderSize \/ next_free_region(s, f1).second > HeaderSize
    PROVE  \A special \in BOOLEAN, size \in Nat \ {0} :
              (special /\ size <= 1) => Placed(s, space, special, size).rest = 0
<1> SUFFICES ASSUME NEW special \in BOOLEAN, NEW size \in Nat \ {0}, special, size <= 1
             PROVE  Placed(s, space, special, size).rest = 0
  OBVIOUS
<1>1. \/ Placed(s, space, special, size)
            = Turn(s, space, special, Turn(s, space, special, NothingPlaced(size), 1), 2)
      \/ ~special /\ Placed(s, space, special, size).regions > 2
  BY TwoTurnsPlaced
<1>2. SecondTurn(s, space, special, size, Placed(s, space, special, size))
  BY <1>1 DEF SecondTurn
<1>3. ~Limited(space, special)
  BY DEF Limited
<1> QED BY <1>2, <1>3, SpecialTurns

-----------------------------------------------------------------------------

(* What is unpacked from one chunk or two.                                 *)
WholeOne(c) == c.off = IF c.head THEN 0 ELSE c.cap
WholeTwo(c, t) == WholeOne(c) /\ t.val = c.val /\ t.off = IF t.head THEN 0 ELSE c.cap

(* What is unpacked from one chunk.                                        *)
LEMMA UnpackOne ==
    ASSUME NEW c
    PROVE  Unpack(<<c>>) = [val  |-> IF WholeOne(c) THEN c.val ELSE "garbled",
                            size |-> c.cap, ts |-> c.ts]
<1>1. {<<c>>[i] : i \in DOMAIN <<c>>} = {c} /\ <<c>>[1] = c /\ Len(<<c>>) = 1
  OBVIOUS
<1> QED BY <1>1 DEF Unpack, WholeOne

(* What is unpacked from two chunks.                                       *)
LEMMA UnpackTwo ==
    ASSUME NEW c, NEW t
    PROVE  Unpack(<<c, t>>) = [val  |-> IF WholeTwo(c, t) THEN c.val ELSE "garbled",
                               size |-> c.cap + t.cap, ts |-> c.ts]
<1>1. /\ {<<c, t>>[i] : i \in DOMAIN <<c, t>>} = {c, t} /\ <<c, t>>[1] = c
      /\ <<c, t>>[2] = t /\ Len(<<c, t>>) = 2
  OBVIOUS
<1> QED BY <1>1 DEF Unpack, WholeOne, WholeTwo

(* Neither depends on the counter.                                         *)
SameText(x, c) ==
    /\ x.cap = c.cap /\ x.val = c.val /\ x.head = c.head /\ x.off = c.off /\ x.ts = c.ts

(* Unpacking looks at the texts alone: chunks that differ in their counters *)
(* give the same message.                                                  *)
LEMMA UnpackSame ==
    ASSUME NEW c, NEW x, SameText(x, c)
    PROVE  /\ Unpack(<<x>>) = Unpack(<<c>>)
           /\ \A t : Unpack(<<x, t>>) = Unpack(<<c, t>>)
<1>1. /\ x.cap = c.cap /\ x.val = c.val /\ x.ts = c.ts
      /\ WholeOne(x) <=> WholeOne(c)
      /\ \A t : WholeTwo(x, t) <=> WholeTwo(c, t)
  BY DEF SameText, WholeOne, WholeTwo
<1>2. Unpack(<<x>>) = Unpack(<<c>>)
  BY <1>1, UnpackOne, Zenon
<1>3. ASSUME NEW t PROVE Unpack(<<x, t>>) = Unpack(<<c, t>>)
  <2>1. WholeTwo(x, t) <=> WholeTwo(c, t)
    BY <1>1
  <2>2. /\ Unpack(<<x, t>>) = [val  |-> IF WholeTwo(x, t) THEN x.val ELSE "garbled",
                                size |-> x.cap + t.cap, ts |-> x.ts]
        /\ Unpack(<<c, t>>) = [val  |-> IF WholeTwo(c, t) THEN c.val ELSE "garbled",
                                size |-> c.cap + t.cap, ts |-> c.ts]
    BY UnpackTwo, Zenon
  <2>3. CASE WholeTwo(c, t)
    <3>1. Unpack(<<x, t>>) = [val |-> c.val, size |-> c.cap + t.cap, ts |-> c.ts]
      BY ONLY <1>1, <2>1, <2>2, <2>3, Zenon
    <3>2. Unpack(<<c, t>>) = [val |-> c.val, size |-> c.cap + t.cap, ts |-> c.ts]
      BY ONLY <2>2, <2>3, Zenon
    <3> QED BY <3>1, <3>2
  <2>4. CASE ~WholeTwo(c, t)
    <3>1. Unpack(<<x, t>>) = [val |-> "garbled", size |-> c.cap + t.cap, ts |-> c.ts]
      BY ONLY <1>1, <2>1, <2>2, <2>4, Zenon
    <3>2. Unpack(<<c, t>>) = [val |-> "garbled", size |-> c.cap + t.cap, ts |-> c.ts]
      BY ONLY <2>2, <2>4, Zenon
    <3> QED BY <3>1, <3>2
  <2> QED BY <2>3, <2>4
<1> QED BY <1>2, <1>3

(* A lowered message differs in the counter alone.                         *)
LEMMA LoweredSame ==
    ASSUME NEW V, NEW p, NEW w, NEW e, Occupies(p, w, e),
           \A i \in DOMAIN e.chunks : e.chunks[i] \in Chunks(V)
    PROVE  /\ Lowered(e).ok = e.ok /\ Lowered(e).next = e.next
           /\ Lowered(e).chunks[1].pos = e.chunks[1].pos
           /\ Lowered(e).chunks[1].val = e.chunks[1].val
           /\ Unpack(Lowered(e).chunks) = Unpack(e.chunks)
           /\ total_size(Lowered(e).chunks) = total_size(e.chunks)
           /\ RefCount(Lowered(e)) = (RefCount(e) - 1) % Word
<1> DEFINE l == Lowered(e)
<1>1. l.chunks = [i \in DOMAIN e.chunks |-> IF i = 1 THEN Lower(e.chunks[1])
                                                     ELSE e.chunks[i]]
  BY DEF Lowered
<1>2. l.ok = e.ok /\ l.next = e.next
  BY DEF Lowered
<1> HIDE DEF l
<1>3. ASSUME NEW c \in Chunks(V)
      PROVE  /\ Lower(c).pos = c.pos /\ Lower(c).cap = c.cap /\ Lower(c).val = c.val
             /\ Lower(c).counter = (c.counter - 1) % Word
             /\ Lower(c).head = c.head /\ Lower(c).off = c.off /\ Lower(c).ts = c.ts
  <2> DEFINE n == (c.counter - 1) % Word
  <2>1. Lower(c) = [pos |-> c.pos, cap |-> c.cap, head |-> c.head, tail |-> c.tail,
                    val |-> c.val, off |-> c.off, ts |-> c.ts, counter |-> n]
    BY <1>3, LowerKeeps
  <2> HIDE DEF n
  <2>2. /\ Lower(c).pos = c.pos /\ Lower(c).cap = c.cap /\ Lower(c).val = c.val
        /\ Lower(c).counter = n
        /\ Lower(c).head = c.head /\ Lower(c).off = c.off /\ Lower(c).ts = c.ts
    BY <2>1
  <2> QED BY <2>2 DEF n
<1>4. ASSUME NEW c, e.chunks = <<c>>
      PROVE  /\ l.chunks[1] = Lower(c) /\ c \in Chunks(V) /\ e.chunks[1] = c
             /\ total_size(l.chunks) = total_size(e.chunks)
             /\ Unpack(l.chunks) = Unpack(e.chunks)
  <2>1. l.chunks = <<Lower(c)>>
    BY <1>1, <1>4
  <2>2. c \in Chunks(V) /\ e.chunks[1] = c
    BY <1>4
  <2>3. Lower(c).cap = c.cap /\ c.cap \in Nat
    BY <1>3, <2>2 DEF Chunks
  <2>4. total_size(<<Lower(c)>>) = static_size(c.cap) /\ total_size(<<c>>) = static_size(c.cap)
    BY <2>3, ChunkTotals
  <2>5. Unpack(<<Lower(c)>>) = Unpack(<<c>>)
    <3>1. SameText(Lower(c), c)
      BY <1>3, <2>2 DEF SameText
    <3> QED BY ONLY <3>1, UnpackSame
  <2> QED BY <1>4, <2>1, <2>2, <2>4, <2>5
<1>5. ASSUME NEW c, NEW t, e.chunks = <<c, t>>
      PROVE  /\ l.chunks[1] = Lower(c) /\ c \in Chunks(V) /\ e.chunks[1] = c
             /\ total_size(l.chunks) = total_size(e.chunks)
             /\ Unpack(l.chunks) = Unpack(e.chunks)
  <2>1. l.chunks = <<Lower(c), t>>
    BY <1>1, <1>5
  <2>2. c \in Chunks(V) /\ e.chunks[1] = c /\ t \in Chunks(V)
    BY <1>5
  <2>3. Lower(c).cap = c.cap /\ c.cap \in Nat /\ t.cap \in Nat
    BY <1>3, <2>2 DEF Chunks
  <2>4. /\ total_size(<<Lower(c), t>>) = static_size(c.cap) + static_size(t.cap)
        /\ total_size(<<c, t>>) = static_size(c.cap) + static_size(t.cap)
    BY <2>3, ChunkTotals
  <2>5. Unpack(<<Lower(c), t>>) = Unpack(<<c, t>>)
    <3>1. SameText(Lower(c), c)
      BY <1>3, <2>2 DEF SameText
    <3> QED BY ONLY <3>1, UnpackSame
  <2> QED BY <1>5, <2>1, <2>2, <2>4, <2>5
<1>6. PICK c : /\ l.chunks[1] = Lower(c) /\ c \in Chunks(V) /\ e.chunks[1] = c
               /\ total_size(l.chunks) = total_size(e.chunks)
               /\ Unpack(l.chunks) = Unpack(e.chunks)
  BY <1>4, <1>5, ShapeOfChunks
<1>7. RefCount(l) = (RefCount(e) - 1) % Word
  BY <1>3, <1>6 DEF RefCount
<1> QED BY <1>2, <1>3, <1>6, <1>7 DEF l

(* The layout depends on the memory only where the messages are.           *)
LEMMA LayoutMoved ==
    ASSUME NEW V, NEW s \in Queues(V), NEW descs, NEW off, Layout(s, descs, off),
           NEW t, t.head = s.head, t.tail = s.tail, t.count = s.count,
           \A k \in 1 .. s.count : Holds(t.mem, descs[k])
    PROVE  Layout(t, descs, off)
<1>1. UsedBytes(t) = UsedBytes(s)
  BY DEF UsedBytes
<1> QED BY <1>1 DEF Layout

-----------------------------------------------------------------------------
(* A message read before is still the one in the ring.                     *)
SamePlace(d, e) ==
    /\ d.ok = e.ok /\ After(d) = After(e) /\ d.chunks[1].pos = e.chunks[1].pos
    /\ d.chunks[1].val = e.chunks[1].val /\ Unpack(d.chunks) = Unpack(e.chunks)

(* The messages of held are the first ones of the last lag messages.       *)
InPlace(held, n, lag, descs) ==
    \A i \in DOMAIN held : i \in 1 .. lag /\ SamePlace(held[i], descs[n - lag + i])

(* The place of a handle that has lag messages to read: hd, or the head of *)
(* the queue as long as it has popped nothing and nothing is collected.    *)
(* Some of the messages, the first ones, it may hold.                      *)
Tracked(s, descs, off, lag, hd, held) ==
    /\ lag \in 0 .. s.count
    /\ hd = NoPos => lag = s.count
    /\ hd # NoPos => hd = Byte(s.head, off[s.count - lag])
    /\ InPlace(held, s.count, lag, descs)

(* The handles that have still to pop the k-th message are as many as its  *)
(* reference counter says.                                                 *)
Behind(n, members, lags, k) == {h \in members : lags[h] > n - k}

(* The counter of each message is the number of handles that have still to *)
(* read it.                                                                *)
Tallied(n, descs, members, lags) ==
    \A k \in 1 .. n : RefCount(descs[k]) = Cardinality(Behind(n, members, lags, k))

(* A queue in order: its messages lie one after the other from head to tail, *)
(* J sums up their sizes, their counters are right, and every handle's     *)
(* m_head and the messages it holds are where its lag says.                *)
Kept(s, descs, off, J, members, lags, heads, held) ==
    /\ Layout(s, descs, off) /\ Weighs(descs, s.count, J)
    /\ Tallied(s.count, descs, members, lags)
    /\ \A h \in members : Tracked(s, descs, off, lags[h], heads[h], held[h])

(* A handle that has still to pop a message is counted for it.             *)
LEMMA CountedFor ==
    ASSUME NEW n \in Nat, NEW descs, NEW members, members \subseteq Readers, NEW lags,
           Tallied(n, descs, members, lags), NEW h \in members, lags[h] \in 0 .. n,
           NEW k \in 1 .. n, n - lags[h] < k
    PROVE  RefCount(descs[k]) \in 1 .. Cardinality(Readers)
<1> DEFINE T == Behind(n, members, lags, k)
<1>1. h \in T
  BY DEF Behind
<1>2. T \subseteq Readers
  BY DEF Behind
<1> HIDE DEF T
<1>3. Cardinality(T) \in Nat /\ Cardinality(T) <= Cardinality(Readers) /\ Cardinality(T) # 0
      /\ Cardinality(Readers) \in Nat
  BY <1>1, <1>2, ReadersFinite
<1> QED BY <1>3 DEF Tallied, T

(* What nobody has still to read can be dropped.                           *)
LEMMA DropKept ==
    ASSUME NEW V, NEW s \in Queues(V), NEW descs, NEW off, NEW J, NEW members,
           members \subseteq Readers, NEW lags, NEW heads, NEW held,
           Kept(s, descs, off, J, members, lags, heads, held),
           NEW m, Garbage(s, descs, m), NEW rest,
           rest.head = Byte(s.head, off[m]), rest.tail = s.tail, rest.count = s.count - m,
           \A k \in m + 1 .. s.count : Holds(rest.mem, descs[k])
    PROVE  Kept(rest, DescsFrom(descs, s.count - m, m), EndsFrom(off, s.count - m, m),
                LeftWeight(J, s.count - m, m), members, lags, heads, held)
<1> DEFINE n == s.count - m
           left == DescsFrom(descs, n, m)
           ends == EndsFrom(off, n, m)
<1>1. /\ s.count \in Nat /\ m \in Nat /\ m <= s.count /\ n \in Nat /\ n + m = s.count
      /\ m \in 0 .. s.count /\ s.head \in Positions /\ Capacity \in Nat
      /\ \A k \in 1 .. n : k + m \in 1 .. s.count /\ n - k = s.count - (k + m)
                           /\ k + m \in m + 1 .. s.count
  BY RingAssumption DEF Queues, Garbage
<1>2. /\ Layout(s, descs, off) /\ Weighs(descs, s.count, J)
      /\ Tallied(s.count, descs, members, lags)
      /\ \A h \in members : Tracked(s, descs, off, lags[h], heads[h], held[h])
  BY DEF Kept
<1>3. Layout(rest, left, ends)
  <2>1. Layout(Remaining(s, off, m), left, ends)
    BY <1>1, <1>2, LayoutDrop
  <2>2. PICK r : r = Remaining(s, off, m)
    OBVIOUS
  <2>3. r.head = rest.head /\ r.tail = rest.tail /\ r.count = rest.count /\ r.count = n
    BY <2>2 DEF Remaining
  <2>4. r \in Queues(V)
    <3>1. off[m] \in 0 .. Capacity
      BY <1>1, <1>2 DEF Layout
    <3>2. Byte(s.head, off[m]) \in Positions
      BY <1>1, <3>1, ByteInRing
    <3> QED BY <1>1, <2>2, <3>2 DEF Remaining, Queues
  <2>5. ASSUME NEW k \in 1 .. r.count PROVE Holds(rest.mem, left[k])
    <3>1. left[k] = descs[k + m] /\ k + m \in m + 1 .. s.count
      BY <1>1, <2>3 DEF DescsFrom
    <3> HIDE DEF left
    <3> QED BY <3>1
  <2> HIDE DEF left, ends
  <2> QED BY <2>1, <2>2, <2>3, <2>4, <2>5, LayoutMoved
<1>4. Weighs(left, n, LeftWeight(J, n, m))
  <2>1. \A k \in 1 .. s.count : total_size(descs[k].chunks) \in Nat
    BY <1>2, LayoutTotals
  <2> QED BY <1>1, <1>2, <2>1, WeighsDrop
<1>5. Tallied(n, left, members, lags)
  <2> SUFFICES ASSUME NEW k \in 1 .. n
               PROVE  RefCount(left[k]) = Cardinality(Behind(n, members, lags, k))
    BY DEF Tallied
  <2>1. left[k] = descs[k + m] /\ k + m \in 1 .. s.count /\ n - k = s.count - (k + m)
    BY <1>1 DEF DescsFrom
  <2>2. Behind(n, members, lags, k) = Behind(s.count, members, lags, k + m)
    BY <2>1 DEF Behind
  <2> HIDE DEF left, n
  <2> QED BY <1>2, <2>1, <2>2 DEF Tallied
<1>6. ASSUME NEW h \in members PROVE Tracked(rest, left, ends, lags[h], heads[h], held[h])
  <2> DEFINE l == lags[h]
             b == s.count - l
             c == n - l
  <2>1. Tracked(s, descs, off, l, heads[h], held[h]) /\ h \in Readers
    BY <1>2
  <2>2. l \in Nat /\ l <= s.count /\ b \in Nat /\ l \in 0 .. s.count
    BY <1>1, <2>1 DEF Tracked
  <2>3. m <= b
    <3> SUFFICES ASSUME b < m PROVE FALSE
      BY <1>1, <2>2
    <3>1. PICK k \in 1 .. s.count : k = b + 1
      BY <1>1, <2>2
    <3>2. k \in 1 .. m /\ s.count - lags[h] < k
      BY <1>1, <2>2, <3>1
    <3>3. RefCount(descs[k]) \in 1 .. Cardinality(Readers)
      BY <1>1, <1>2, <2>2, <3>2, CountedFor
    <3> QED BY <3>2, <3>3 DEF Garbage
  <2>4. c \in Nat /\ l <= n /\ c + m = b /\ c <= n /\ c \in 0 .. n /\ l \in 0 .. n
    BY <1>1, <2>2, <2>3
  <2>5. heads[h] # NoPos => heads[h] = Byte(rest.head, ends[c])
    <3> DEFINE o == off[m]
               w == off[b] - off[m]
    <3>1. ends[c] = w
      BY <2>4 DEF EndsFrom
    <3>2. off[m] \in 0 .. Capacity /\ off[b] \in 0 .. Capacity /\ off[m] <= off[b]
      <4>1. b \in 0 .. s.count
        BY <1>1, <2>2
      <4> QED BY <1>1, <1>2, <2>3, <4>1 DEF Layout
    <3>3. o \in Nat /\ w \in Nat /\ o + w = off[b] /\ o + w <= Capacity
      BY <1>1, <3>2
    <3>5. heads[h] # NoPos => heads[h] = Byte(s.head, off[b])
      BY <2>1 DEF Tracked
    <3>6. rest.head = Byte(s.head, o)
      OBVIOUS
    <3> HIDE DEF o, w, b, c, ends
    <3>4. Byte(Byte(s.head, o), w) = Byte(s.head, o + w)
      BY <1>1, <3>3, BytesAdd
    <3> QED BY <3>1, <3>3, <3>4, <3>5, <3>6
  <2>6. heads[h] = NoPos => l = n
    <3>1. heads[h] = NoPos => l = s.count
      BY <2>1 DEF Tracked
    <3>2. l = s.count => m = 0 /\ n = s.count
      BY <1>1, <2>2, <2>3
    <3> QED BY <3>1, <3>2
  <2>7. InPlace(held[h], n, l, left)
    <3> SUFFICES ASSUME NEW i \in DOMAIN held[h]
                 PROVE  i \in 1 .. l /\ SamePlace(held[h][i], left[n - l + i])
      BY DEF InPlace
    <3>1. i \in 1 .. l /\ SamePlace(held[h][i], descs[s.count - l + i])
      BY <2>1 DEF Tracked, InPlace
    <3>2. c + i \in 1 .. n /\ (c + i) + m = s.count - l + i /\ n - l + i = c + i
      BY <1>1, <2>2, <2>4, <3>1
    <3>3. left[c + i] = descs[s.count - l + i]
      BY <3>2 DEF DescsFrom
    <3> HIDE DEF left, b, c
    <3> QED BY <3>1, <3>2, <3>3
  <2> HIDE DEF left, ends
  <2> QED BY <2>4, <2>5, <2>6, <2>7 DEF Tracked
<1> HIDE DEF left, ends
<1>7. rest.count = n
  OBVIOUS
<1> HIDE DEF n
<1>8. Kept(rest, left, ends, LeftWeight(J, n, m), members, lags, heads, held)
  BY <1>3, <1>4, <1>5, <1>6, <1>7 DEF Kept
<1> QED BY <1>8 DEF left, ends, n
-----------------------------------------------------------------------------
(* A queue in order: its messages and the places of the members of it are  *)
(* as Kept says, and the free space is what the messages leave of base.    *)
Sound(V, s, space, base, members, lags, heads, held) ==
    /\ s \in Queues(V) /\ InRing(s.mem)
    /\ \E descs, off, J : /\ Kept(s, descs, off, J, members, lags, heads, held)
                          /\ space = FreeOf(base, J[s.count])

(* The space of the messages is at most the capacity.                      *)
LEMMA WeightFits ==
    ASSUME NEW V, NEW s \in Queues(V), NEW descs, NEW off, Layout(s, descs, off),
           NEW J, Weighs(descs, s.count, J)
    PROVE  /\ J \in [0 .. s.count -> Nat] /\ J[s.count] \in 0 .. Capacity
           /\ UsedBytes(s) \in 0 .. Capacity
<1>1. J[s.count] \in Nat /\ J[s.count] <= UsedBytes(s)
  BY LayoutWaste
<1>2. UsedBytes(s) \in 0 .. Capacity /\ Capacity \in Nat
  BY LayoutTail, RingAssumption
<1>3. J \in [0 .. s.count -> Nat]
  BY DEF Weighs, Sums
<1> QED BY <1>1, <1>2, <1>3

(* The queue after clean_messages, the first thing a push does.            *)
CleanedTo(c) == c = clean_messages(FALSE)

(* Collecting the garbage keeps the queue in order, and gives its space    *)
(* back.                                                                   *)
LEMMA CleanKept ==
    ASSUME NEW V, NEW base \in {0, Capacity}, NEW members, members \subseteq Readers,
           NEW lags, NEW heads, NEW held,
           Sound(V, q, free_space, base, members, lags, heads, held),
           NEW c, CleanedTo(c)
    PROVE  /\ Sound(V, c.s, c.space, base, members, lags, heads, held)
           /\ c.s.count <= q.count
           /\ base = Capacity => c.space >= free_space
<1>1. PICK descs, off, J : /\ Kept(q, descs, off, J, members, lags, heads, held)
                           /\ free_space = FreeOf(base, J[q.count])
  BY DEF Sound
<1>2. /\ q \in Queues(V) /\ InRing(q.mem) /\ q.count \in Nat /\ q.mem \subseteq Chunks(V)
      /\ q.head \in Positions /\ q.tail \in Positions
  BY DEF Sound, Queues
<1>21. q = [head |-> q.head, tail |-> q.tail, count |-> q.count, mem |-> q.mem]
  BY <1>2 DEF Queues
<1>3. Layout(q, descs, off) /\ Weighs(descs, q.count, J)
  BY <1>1 DEF Kept
<1>4. PICK m : Garbage(q, descs, m)
  BY <1>2, GarbageExists
<1>5. m \in Nat /\ m <= q.count /\ q.count - m \in Nat /\ m \in 0 .. q.count
      /\ q.count - (q.count - m) = m /\ q.count - m <= q.count
  BY <1>2, <1>4 DEF Garbage
<1>6. PICK s : s = [head |-> Byte(q.head, off[m]), tail |-> q.tail,
                    count |-> q.count - m, mem |-> q.mem]
  OBVIOUS
<1>7. Sweep(q, FALSE) = s
  <2>1. Sweep(q, FALSE) = [head |-> Byte(q.head, off[m]), tail |-> q.tail,
                           count |-> q.count - m, mem |-> q.mem]
    BY <1>2, <1>3, <1>4, SweepCollects
  <2> QED BY <1>6, <2>1
<1>8. PICK gone : gone = Contents(q.head, m)
  OBVIOUS
<1>9. DOMAIN gone = 1 .. m /\ \A k \in 1 .. m : gone[k] = descs[k]
  <2>1. 0 \in Nat /\ 0 + m <= q.count /\ off[0] = 0
    BY <1>3, <1>5 DEF Layout
  <2>2. q.head = Byte(q.head, off[0])
    <3>1. q.head \in Nat /\ Capacity \in Nat /\ q.head < Capacity
      BY <1>2, RingAssumption DEF Positions
    <3> QED BY <2>1, <3>1 DEF Byte
  <2>5. /\ DOMAIN Contents(q.head, m) = 1 .. m
        /\ \A k \in 1 .. m : Contents(q.head, m)[k] = descs[0 + k]
    <3>1. m > 0 => q.head = Byte(q.head, off[0])
      BY <2>2
    <3>2. PICK b \in Nat : b = 0
      OBVIOUS
    <3>3. b + m <= q.count /\ (m > 0 => q.head = Byte(q.head, off[b]))
      BY <2>1, <3>1, <3>2
    <3>4. /\ DOMAIN Contents(q.head, m) = 1 .. m
          /\ \A k \in 1 .. m : Contents(q.head, m)[k] = descs[b + k]
      BY SMTT(60), <1>2, <1>3, <1>5, <3>3, ContentsFrom
    <3> QED BY <3>2, <3>4
  <2>3. DOMAIN gone = 1 .. m /\ \A k \in 1 .. m : gone[k] = descs[0 + k]
    BY <1>8, <2>5
  <2>4. \A k \in 1 .. m : 0 + k = k
    OBVIOUS
  <2> QED BY <2>3, <2>4
<1> DEFINE lost == UNION {Range(gone[k].chunks) : k \in DOMAIN gone}
           rest == [s EXCEPT !.mem = @ \ lost]
       free == (free_space + SizeOf(gone)) % Space
<1>10. c.s = rest /\ c.space = free
  <2>1. q.count - s.count = m
    BY <1>5, <1>6
  <2>2. c = Freed(s, gone)
    BY <1>7, <1>8, <2>1 DEF CleanedTo, clean_messages, Collected
  <2>3. c = [s |-> rest, space |-> free]
    BY <2>2 DEF Freed
  <2> HIDE DEF rest, free
  <2> QED BY <2>3
<1>11. /\ rest.head = Byte(q.head, off[m]) /\ rest.tail = q.tail
       /\ rest.count = q.count - m /\ rest.mem = q.mem \ lost
  <2> HIDE DEF lost
  <2> QED BY <1>6
<1>22. rest = [head |-> Byte(q.head, off[m]), tail |-> q.tail, count |-> q.count - m,
                mem |-> q.mem \ lost]
  <2> HIDE DEF lost
  <2> QED BY <1>6
<1>12. ASSUME NEW k \in m + 1 .. q.count PROVE Holds(rest.mem, descs[k])
  <2>1. k \in 1 .. q.count
    BY <1>5
  <2>2. Holds(q.mem, descs[k])
    BY <1>3, <2>1 DEF Layout
  <2> SUFFICES ASSUME NEW i \in DOMAIN descs[k].chunks
               PROVE  ChunksAt(rest.mem, descs[k].chunks[i].pos) = {descs[k].chunks[i]}
    BY DEF Holds
  <2>3. ChunksAt(q.mem, descs[k].chunks[i].pos) = {descs[k].chunks[i]}
    BY <2>2 DEF Holds
  <2>4. descs[k].chunks[i] \notin lost
    <3> SUFFICES ASSUME NEW j \in 1 .. m, NEW a \in DOMAIN descs[j].chunks,
                        descs[k].chunks[i] = descs[j].chunks[a]
                 PROVE  FALSE
      BY <1>9 DEF Range
    <3>1. j \in 1 .. q.count /\ j # k
      <4>1. j \in Nat /\ j >= 1 /\ j <= m /\ k \in Nat /\ k >= m + 1
        BY <1>5
      <4> QED BY <1>2, <1>5, <4>1
    <3>2. descs[j].chunks[a].pos # descs[k].chunks[i].pos
      BY <1>2, <1>3, <2>1, <3>1, LayoutApart
    <3> QED BY <3>2
  <2> HIDE DEF lost, rest
  <2> QED BY <1>11, <2>3, <2>4 DEF ChunksAt
<1> HIDE DEF lost, rest
<1> DEFINE n == q.count - m
           K == LeftWeight(J, n, m)
<1>13. Kept(rest, DescsFrom(descs, n, m), EndsFrom(off, n, m), K, members, lags, heads, held)
  BY <1>1, <1>2, <1>4, <1>11, <1>12, DropKept
<1>14. \A k \in 1 .. q.count : total_size(descs[k].chunks) \in Nat
  BY <1>2, <1>3, LayoutTotals
<1>15. J[m] \in 0 .. J[q.count] /\ K[n] = J[q.count] - J[m] /\ SizeOf(gone) = J[m]
  <2>1. /\ J[m] \in 0 .. J[q.count] /\ LeftWeight(J, q.count - m, m)[q.count - m] = J[q.count] - J[m]
        /\ \A msgs : (DOMAIN msgs = 1 .. m /\ \A k \in 1 .. m : msgs[k] = descs[k])
                         => SizeOf(msgs) = J[m]
    <3>1. PICK x : x = q.count
      OBVIOUS
    <3>2. /\ J[m] \in 0 .. J[x] /\ LeftWeight(J, x - m, m)[x - m] = J[x] - J[m]
          /\ \A msgs : (DOMAIN msgs = 1 .. m /\ \A k \in 1 .. m : msgs[k] = descs[k])
                           => SizeOf(msgs) = J[m]
      <4>1. x \in Nat /\ Weighs(descs, x, J) /\ m \in 0 .. x
            /\ \A k \in 1 .. x : total_size(descs[k].chunks) \in Nat
        BY <1>2, <1>3, <1>5, <1>14, <3>1
      <4> QED BY ONLY <4>1, WeighsDrop
    <3> QED BY <3>1, <3>2
  <2> QED BY <1>9, <2>1
<1>16. J[q.count] \in 0 .. Capacity /\ Capacity \in Nat
  BY <1>2, <1>3, WeightFits, RingAssumption
<1> HIDE DEF K, n
<1>17. c.space = FreeOf(base, K[n])
  <2>1. \A x \in 0 .. J[q.count] :
            (FreeOf(base, J[q.count]) + x) % Space = FreeOf(base, J[q.count] - x)
    BY <1>16, FreeMoves
  <2>2. c.space = (FreeOf(base, J[q.count]) + J[m]) % Space
    <3>1. c.space = (free_space + SizeOf(gone)) % Space
      BY <1>10
    <3> QED BY <1>1, <1>15, <3>1
  <2>3. (FreeOf(base, J[q.count]) + J[m]) % Space = FreeOf(base, J[q.count] - J[m])
    BY <1>15, <2>1
  <2> QED BY <1>15, <2>2, <2>3
<1>18. rest \in Queues(V) /\ InRing(rest.mem)
  <2>1. off[m] \in 0 .. Capacity
    BY <1>3, <1>5 DEF Layout
  <2>2. Byte(q.head, off[m]) \in Positions
    BY <1>2, <2>1, ByteInRing
  <2>3. rest.mem \subseteq Chunks(V) /\ InRing(rest.mem)
    BY <1>2, <1>11 DEF InRing
  <2> QED BY <1>2, <1>5, <1>11, <1>22, <2>2, <2>3 DEF Queues
<1>19. base = Capacity => c.space >= free_space
  <2>1. J[q.count] - J[m] \in 0 .. Capacity /\ J[m] \in Nat /\ J[q.count] \in Nat
    BY <1>15, <1>16
  <2>2. FreeOf(Capacity, J[q.count] - J[m]) = Capacity - (J[q.count] - J[m])
        /\ FreeOf(Capacity, J[q.count]) = Capacity - J[q.count]
    BY <1>16, <2>1, FreeMoves
  <2> SUFFICES ASSUME base = Capacity PROVE c.space >= free_space
    OBVIOUS
  <2>3. c.space = Capacity - (J[q.count] - J[m]) /\ free_space = Capacity - J[q.count]
    BY <1>1, <1>15, <1>17, <2>2
  <2>4. PICK a, b : a = J[q.count] /\ b = J[m]
    OBVIOUS
  <2>5. /\ c.space = Capacity - (a - b) /\ free_space = Capacity - a
        /\ a \in Int /\ b \in Int /\ b >= 0
    BY <2>1, <2>3, <2>4
  <2> QED BY <1>16, <2>5
<1>20. c.s = rest /\ rest.count = n /\ n <= q.count
  <2>1. c.s = rest
    BY <1>10
  <2>2. rest.count = n
    BY <1>11 DEF n
  <2> QED BY <1>5, <2>1, <2>2 DEF n
<1> QED BY <1>13, <1>17, <1>18, <1>19, <1>20 DEF Sound
-----------------------------------------------------------------------------
(* A message more: everybody has to read one more.                         *)
MoreDescs(n, descs, d) == [k \in 1 .. n + 1 |-> IF k <= n THEN descs[k] ELSE d]
MoreEnds(n, off, end) == [k \in 0 .. n + 1 |-> IF k <= n THEN off[k] ELSE end]

(* A message written behind the last one and counted for everybody leaves  *)
(* the queue in order.                                                     *)
LEMMA AddKept ==
    ASSUME NEW V, NEW s \in Queues(V), NEW descs, NEW off, NEW J, NEW members,
           members \subseteq Readers, NEW lags, NEW heads, NEW held,
           Kept(s, descs, off, J, members, lags, heads, held),
           NEW d, NEW w, NEW mem, Added(s, d, w, mem), RefCount(d) = Cardinality(members),
           NEW lags2, \A h \in members : lags2[h] = lags[h] + 1,
           NEW more, more = [head |-> s.head, tail |-> After(d),
                             count |-> s.count + 1, mem |-> mem]
    PROVE  /\ Kept(more, MoreDescs(s.count, descs, d),
                   MoreEnds(s.count, off, UsedBytes(s) + w),
                   MoreEnds(s.count, J, J[s.count] + total_size(d.chunks)),
                   members, lags2, heads, held)
           /\ total_size(d.chunks) \in Nat
<1> DEFINE n == s.count
           all == MoreDescs(n, descs, d)
           ends == MoreEnds(n, off, UsedBytes(s) + w)
           J2 == MoreEnds(n, J, J[n] + total_size(d.chunks))
<1>0. /\ w \in Nat /\ w > 0 /\ UsedBytes(s) + w <= Capacity
      /\ Occupies(s.tail, w, d) /\ Holds(mem, d) /\ Keeps(s, mem)
  BY DEF Added
<1>1. /\ n \in Nat /\ s.tail \in Positions
      /\ more.count = n + 1 /\ more.head = s.head /\ n + 1 \in Nat
      /\ \A k \in 1 .. n + 1 : (k <= n => k \in 1 .. n) /\ (~(k <= n) => k = n + 1)
  BY DEF Queues
<1>2. /\ Layout(s, descs, off) /\ Weighs(descs, n, J) /\ Tallied(n, descs, members, lags)
      /\ \A h \in members : Tracked(s, descs, off, lags[h], heads[h], held[h])
  BY DEF Kept
<1>3. Layout(more, all, ends)
  <2>1. Layout(more,
               [k \in 1 .. more.count |-> IF k <= s.count THEN descs[k] ELSE d],
               [k \in 0 .. more.count |-> IF k <= s.count THEN off[k]
                                                          ELSE UsedBytes(s) + w])
    BY <1>0, <1>2, LayoutPush
  <2> QED BY <1>1, <2>1 DEF MoreDescs, MoreEnds
<1>4. total_size(d.chunks) \in Nat
  BY <1>0, <1>1, OccupiesTotal
<1>5. Weighs(all, n + 1, J2)
  <2>1. PICK x \in Nat : x = total_size(d.chunks)
    BY <1>4
  <2>2. Weighs([k \in 1 .. n + 1 |-> IF k <= n THEN descs[k] ELSE d], n + 1,
               [k \in 0 .. n + 1 |-> IF k <= n THEN J[k] ELSE J[n] + x])
    BY SMTT(60), <1>1, <1>2, <2>1, WeighsPush
  <2> QED BY <2>1, <2>2 DEF MoreDescs, MoreEnds
<1>6. ASSUME NEW h \in members PROVE lags[h] \in 0 .. n /\ lags2[h] = lags[h] + 1
  BY <1>2 DEF Tracked
<1>7. Tallied(n + 1, all, members, lags2)
  <2> SUFFICES ASSUME NEW k \in 1 .. n + 1
               PROVE  RefCount(all[k]) = Cardinality(Behind(n + 1, members, lags2, k))
    BY DEF Tallied
  <2>1. CASE k <= n
    <3>1. k \in 1 .. n /\ all[k] = descs[k]
      BY <1>1, <2>1 DEF MoreDescs
    <3>2. \A h \in members : lags2[h] > (n + 1) - k <=> lags[h] > n - k
      BY <1>1, <1>6, <3>1
    <3>3. Behind(n + 1, members, lags2, k) = Behind(n, members, lags, k)
      BY <3>2 DEF Behind
    <3> HIDE DEF all, n
    <3> QED BY <1>2, <3>1, <3>3 DEF Tallied
  <2>2. CASE ~(k <= n)
    <3>1. k = n + 1 /\ all[k] = d
      BY <1>1, <2>2 DEF MoreDescs
    <3>2. \A h \in members : lags2[h] > (n + 1) - k
      BY <1>1, <1>6, <3>1
    <3>3. Behind(n + 1, members, lags2, k) = members
      BY <3>2 DEF Behind
    <3> HIDE DEF all, n
    <3> QED BY <3>1, <3>3
  <2> QED BY <2>1, <2>2
<1>8. ASSUME NEW h \in members PROVE Tracked(more, all, ends, lags2[h], heads[h], held[h])
  <2>1. Tracked(s, descs, off, lags[h], heads[h], held[h])
    BY <1>2
  <2>2. PICK l, b : l = lags[h] /\ b = n - l
    OBVIOUS
  <2>3. /\ l \in 0 .. n /\ lags2[h] = l + 1 /\ b \in 0 .. n /\ b \in 0 .. n + 1 /\ b <= n
        /\ (n + 1) - (l + 1) = b /\ l + 1 \in 0 .. n + 1 /\ l + 1 > 0
    BY <1>1, <1>6, <2>2
  <2>4. ends[b] = off[b]
    BY <2>3 DEF MoreEnds
  <2>5. /\ heads[h] = NoPos => l + 1 = n + 1
        /\ heads[h] # NoPos => heads[h] = Byte(more.head, ends[b])
    BY <1>1, <2>1, <2>2, <2>4 DEF Tracked
  <2>6. InPlace(held[h], n + 1, l + 1, all)
    <3> SUFFICES ASSUME NEW i \in DOMAIN held[h]
                 PROVE  /\ i \in 1 .. l + 1
                        /\ SamePlace(held[h][i], all[(n + 1) - (l + 1) + i])
      BY DEF InPlace
    <3>1. i \in 1 .. l /\ SamePlace(held[h][i], descs[b + i])
      BY <2>1, <2>2 DEF Tracked, InPlace
    <3>2. /\ b + i \in 1 .. n + 1 /\ b + i <= n /\ i \in 1 .. l + 1
          /\ (n + 1) - (l + 1) + i = b + i
      BY <1>1, <2>2, <2>3, <3>1
    <3>3. all[b + i] = descs[b + i]
      BY <3>2 DEF MoreDescs
    <3> HIDE DEF all
    <3> QED BY <3>1, <3>2, <3>3
  <2> HIDE DEF all, ends, n
  <2> QED BY <1>1, <2>3, <2>5, <2>6 DEF Tracked
<1> HIDE DEF all, ends, J2
<1>9. Kept(more, all, ends, J2, members, lags2, heads, held)
  BY <1>1, <1>3, <1>5, <1>7, <1>8 DEF Kept
<1> QED BY <1>4, <1>9 DEF all, ends, J2

(* A push stores a message as make_message writes it.                      *)
LEMMA StoredAs ==
    ASSUME NEW V, NEW s \in Queues(V), s.count = 0 => s.head = s.tail,
           NEW size \in Nat \ {0}, MessageParts(s, size) # <<>>, NEW val, NEW counts,
           NEW chunks, chunks = MessageChunks(MessageParts(s, size), val, 0, counts)
    PROVE  /\ make_message(s, size, val, 0, counts).ok
           /\ make_message(s, size, val, 0, counts).mem = Written(s.mem, chunks)
           /\ make_message(s, size, val, 0, counts).next
                = Last(chunks).pos + static_size(Last(chunks).cap)
<1> DEFINE parts == MessageParts(s, size)
           made == make_message(s, size, val, 0, counts)
           last == chunks[Len(chunks)]
           Item(i) == [pos |-> parts[i].pos, cap |-> parts[i].cap,
                       head |-> i = 1, tail |-> i = Len(parts),
                       val |-> val, off |-> IF i = 1 THEN 0 ELSE parts[1].cap,
                       ts |-> 0, counter |-> IF i = 1 THEN counts ELSE 0]
<1>4. chunks = [i \in DOMAIN parts |-> Item(i)]
  BY DEF MessageChunks
<1>5. \A i : Item(i).pos = parts[i].pos /\ Item(i).cap = parts[i].cap
  OBVIOUS
<1> HIDE DEF Item
<1>1. /\ made.ok /\ made.mem = WriteMessage(s.mem, chunks)
      /\ made.next = last.pos + static_size(last.cap)
  BY DEF make_message
<1>2. Last(chunks) = last
  BY DEF Last
<1>3. WriteMessage(s.mem, chunks) = Written(s.mem, chunks)
  <2>1. CASE \E a : parts = <<a>>
    <3>1. PICK a : parts = <<a>>
      BY <2>1
    <3>2. PICK c : chunks = <<c>>
      <4>1. chunks = <<Item(1)>>
        BY <1>4, <3>1
      <4> QED BY <4>1
    <3>3. Len(chunks) = 1 /\ chunks[1] = c /\ DOMAIN chunks = {1}
      BY <3>2
    <3> QED BY <3>3 DEF WriteMessage, WriteChunk, Written, Erase
  <2>2. CASE \E n \in 1 .. size - 1 :
                   /\ parts = <<[pos |-> s.tail, cap |-> n],
                                [pos |-> 0, cap |-> size - n]>>
                   /\ s.tail + static_size(n) = Capacity
                   /\ static_size(size - n) <= s.head /\ (s.count = 0 \/ s.head < s.tail)
    <3>1. PICK n \in 1 .. size - 1 :
                   /\ parts = <<[pos |-> s.tail, cap |-> n],
                                [pos |-> 0, cap |-> size - n]>>
                   /\ s.tail + static_size(n) = Capacity
                   /\ static_size(size - n) <= s.head /\ (s.count = 0 \/ s.head < s.tail)
      BY <2>2
    <3>2. PICK c, t : /\ chunks = <<c, t>> /\ c.pos = s.tail /\ c.cap = n
                      /\ t.pos = 0 /\ t.cap = size - n
      <4>1. chunks = <<Item(1), Item(2)>>
        BY <1>4, <3>1
      <4>2. Item(1).pos = s.tail /\ Item(1).cap = n /\ Item(2).pos = 0 /\ Item(2).cap = size - n
        BY <1>5, <3>1
      <4> QED BY <4>1, <4>2
    <3>3. /\ Len(chunks) = 2 /\ chunks[1] = c /\ chunks[2] = t /\ DOMAIN chunks = {1, 2}
      BY <3>2
    <3>4. ~Touches(c, t.pos, t.pos + static_size(t.cap) - 1)
      <4>1. s.head \in Nat /\ s.tail \in Nat /\ s.head <= s.tail
        BY <3>1 DEF Queues, Positions
      <4>2. static_size(size - n) \in Nat
        BY RingAssumption DEF static_size
      <4> QED BY <3>1, <3>2, <4>1, <4>2 DEF Touches
    <3> QED BY <3>3, <3>4 DEF WriteMessage, WriteChunk, Written, Erase
  <2> QED BY <2>1, <2>2, PartsShape
<1> QED BY <1>1, <1>2, <1>3

(* The queue after a push, field by field.                                 *)
Changed(s, mem, tail, next, t) ==
    t = [s EXCEPT !.mem = mem, !.tail = tail, !.count = next]

(* The queue after a change of its memory, tail and count.                 *)
LEMMA QueueFields ==
    ASSUME NEW V, NEW s \in Queues(V), NEW mem, NEW tail, NEW next, NEW t,
           Changed(s, mem, tail, next, t)
    PROVE  t = [head |-> s.head, tail |-> tail, count |-> next, mem |-> mem]
  BY DEF Queues, Changed

(* What clean_messages has left, and the parts found in it.                *)
InOrder(V, cleaned, base, members, lags, heads, held) ==
    Sound(V, cleaned.s, cleaned.space, base, members, lags, heads, held)

(* The parts of a message lie in free regions.                             *)
InFreeSpace(cleaned, placed) == placed.parts \in Seq(FreeParts(cleaned.s))

(* The message has been placed as a whole.                                 *)
Suffices(cleaned, placed, size) ==
    placed.parts = MessageParts(cleaned.s, size) /\ placed.parts # <<>>

(* The push of a message for which there is room.                          *)
PushedTo(cleaned, placed, val, pushed) ==
    pushed = PushStored(cleaned, placed, MessageChunks(placed.parts, val, 0, subscriptions))

(* Storing a placed message leaves the queue in order with one message more, *)
(* that everybody has still to read, and takes exactly its size from       *)
(* free_space.                                                             *)
LEMMA StoreKept ==
    ASSUME NEW V, NEW base \in {0, Capacity}, NEW members, members \subseteq Readers,
           NEW lags, NEW heads, NEW held, NEW cleaned,
           InOrder(V, cleaned, base, members, lags, heads, held),
           subscriptions = Cardinality(members),
           NEW size \in Nat \ {0}, NEW val \in V, NEW placed,
           Suffices(cleaned, placed, size),
           NEW pushed, PushedTo(cleaned, placed, val, pushed),
           NEW lags2, \A h \in members : lags2[h] = lags[h] + 1
    PROVE  /\ pushed.q \in Queues(V) /\ InRing(pushed.q.mem)
           /\ pushed.q.head = cleaned.s.head /\ pushed.q.count = cleaned.s.count + 1
           /\ pushed.chunks = MessageChunks(placed.parts, val, 0, subscriptions)
           /\ Unpack(pushed.chunks) = [val |-> val, size |-> size, ts |-> 0]
           /\ pushed.chunks[1].val = val
           /\ total_size(pushed.chunks) \in Nat
           /\ base = Capacity => pushed.space = cleaned.space - total_size(pushed.chunks)
           /\ \E descs, off, J :
                 /\ Kept(pushed.q, descs, off, J, members, lags2, heads, held)
                 /\ pushed.space = FreeOf(base, J[pushed.q.count])
                 /\ descs[pushed.q.count].chunks = pushed.chunks
<1>1. PICK s, space : s = cleaned.s /\ space = cleaned.space
  OBVIOUS
<1>2. PICK descs, off, J : /\ Kept(s, descs, off, J, members, lags, heads, held)
                           /\ space = FreeOf(base, J[s.count])
                           /\ s \in Queues(V) /\ InRing(s.mem)
  BY <1>1 DEF Sound, InOrder
<1>3. /\ Layout(s, descs, off) /\ Weighs(descs, s.count, J) /\ s.count \in Nat
      /\ s.head \in Positions /\ s.tail \in Positions
  BY <1>2 DEF Kept, Queues
<1>0. placed.parts = MessageParts(s, size) /\ placed.parts # <<>>
  BY <1>1 DEF Suffices
<1>4. s.count = 0 => s.head = s.tail
  BY <1>3 DEF Layout
<1>5. PICK chunks : chunks = MessageChunks(MessageParts(s, size), val, 0, subscriptions)
  OBVIOUS
<1>6. PICK made : made = make_message(s, size, val, 0, subscriptions)
  OBVIOUS
<1>7. /\ made.ok /\ made.mem = Written(s.mem, chunks)
      /\ made.next = Last(chunks).pos + static_size(Last(chunks).cap)
  <2>1. MessageParts(s, size) # <<>>
    BY <1>0
  <2> QED BY <1>2, <1>4, <1>5, <1>6, <2>1, StoredAs
<1>8. PICK d, w : w \in Nat /\ Stores(s, size, val, 0, subscriptions, d, w)
  BY <1>2, <1>4, <1>6, <1>7, PushStores
<1>9. Keeps(s, made.mem)
  BY <1>2, <1>4, <1>6, PushStores
<1>10. /\ Added(s, d, w, made.mem) /\ d.next = made.next /\ d.chunks = chunks
       /\ RefCount(d) = subscriptions
      /\ Unpack(chunks) = [val |-> val, size |-> size, ts |-> 0]
  BY <1>5, <1>6, <1>8, <1>9 DEF Stores, Added, RefCount
<1>22. chunks[1].val = val
  <2>1. 1 \in DOMAIN MessageParts(s, size)
    <3>1. MessageParts(s, size) # <<>>
      BY <1>0
    <3>2. \/ \E a : MessageParts(s, size) = <<a>>
          \/ \E a, b : MessageParts(s, size) = <<a, b>>
      BY <1>2, <3>1, PartsInRing
    <3> QED BY <3>2
  <2> QED BY <1>5, <2>1 DEF MessageChunks
<1>11. PICK more : more = [head |-> s.head, tail |-> After(d),
                           count |-> s.count + 1, mem |-> made.mem]
  OBVIOUS
<1>12. /\ more.head = s.head /\ more.tail = After(d) /\ more.count = s.count + 1
       /\ more.mem = made.mem
  BY <1>11
<1>13. PICK descs2, off2, J2 :
          /\ descs2 = MoreDescs(s.count, descs, d)
          /\ off2 = MoreEnds(s.count, off, UsedBytes(s) + w)
          /\ J2 = MoreEnds(s.count, J, J[s.count] + total_size(d.chunks))
  OBVIOUS
<1>14. /\ Kept(more, descs2, off2, J2, members, lags2, heads, held)
       /\ total_size(d.chunks) \in Nat
  <2>1. RefCount(d) = Cardinality(members)
    BY <1>10
  <2> QED BY <1>2, <1>10, <1>11, <1>13, <2>1, AddKept
<1>15. /\ descs2[s.count + 1] = d
       /\ J2[s.count + 1] = J[s.count] + total_size(chunks)
  <2>1. s.count + 1 \in 1 .. s.count + 1 /\ ~(s.count + 1 <= s.count)
        /\ s.count + 1 \in 0 .. s.count + 1
    BY <1>3
  <2> QED BY <1>10, <1>13, <2>1 DEF MoreDescs, MoreEnds
<1>16. more \in Queues(V) /\ InRing(more.mem)
  <2>1. /\ made.mem \in SUBSET Chunks(V) /\ InRing(made.mem)
    <3>1. Cardinality(members) \in Nat
      BY ReadersFinite
    <3>2. subscriptions \in Nat /\ 0 \in Nat
      BY <3>1
    <3> QED BY <1>2, <1>6, <3>2, MakeMessageInRing
  <2>2. After(d) \in Positions
    <3>1. d.next \in Int
      <4>1. make_message(s, size, val, 0, subscriptions).next \in 0 .. Capacity
        <5>1. Cardinality(members) \in Nat
          BY ReadersFinite
        <5>2. subscriptions \in Nat /\ 0 \in Nat
          BY <5>1
        <5> QED BY <1>2, <5>2, MakeMessageInRing
      <4> QED BY <1>6, <1>10, <4>1, RingAssumption
    <3> QED BY <3>1, ModCapacity DEF After
  <2> QED BY <1>3, <1>11, <1>12, <2>1, <2>2 DEF Queues
<1>17. J[s.count] \in 0 .. Capacity /\ total_size(chunks) \in 0 .. Capacity - J[s.count]
  <2>1. J[s.count] \in 0 .. Capacity
    BY <1>2, <1>3, WeightFits
  <2>2. J2[more.count] \in 0 .. Capacity
    BY <1>14, <1>16, WeightFits DEF Kept
  <2>3. PICK a, b : a = J[s.count] /\ b = total_size(chunks)
    OBVIOUS
  <2>4. a \in 0 .. Capacity /\ a + b \in 0 .. Capacity /\ b \in Nat
    BY <1>10, <1>12, <1>14, <1>15, <2>1, <2>2, <2>3
  <2> QED BY <2>3, <2>4, RingAssumption
<1>18. PICK left : left = (space - total_size(chunks)) % Space
  OBVIOUS
<1>19. left = FreeOf(base, J2[more.count])
  <2>1. \A x \in 0 .. Capacity - J[s.count] :
            (FreeOf(base, J[s.count]) - x) % Space = FreeOf(base, J[s.count] + x)
    BY <1>17, FreeMoves
  <2>2. (FreeOf(base, J[s.count]) - total_size(chunks)) % Space
           = FreeOf(base, J[s.count] + total_size(chunks))
    BY <1>17, <2>1
  <2> QED BY <1>2, <1>12, <1>15, <1>18, <2>2
<1>20. base = Capacity => left = space - total_size(chunks)
  <2> SUFFICES ASSUME base = Capacity PROVE left = space - total_size(chunks)
    OBVIOUS
  <2>1. PICK a, b : a = J[s.count] /\ b = total_size(chunks)
    OBVIOUS
  <2>2. a \in 0 .. Capacity /\ b \in 0 .. Capacity - a /\ a + b \in 0 .. Capacity /\ Capacity \in Nat
    BY <1>17, <2>1, RingAssumption
  <2>3. FreeOf(Capacity, a) = Capacity - a /\ FreeOf(Capacity, a + b) = Capacity - (a + b)
    BY <2>2, FreeMoves
  <2>4. left = FreeOf(Capacity, a + b) /\ space = FreeOf(Capacity, a)
    BY <1>2, <1>12, <1>15, <1>19, <2>1
  <2>5. left = space - b
    BY <2>2, <2>3, <2>4
  <2> QED BY <2>1, <2>5
<1>21. /\ pushed.ok /\ pushed.regions = placed.regions /\ pushed.chunks = chunks
       /\ pushed.space = left /\ pushed.q = more
  <2>1. placed.parts = MessageParts(s, size)
    BY <1>0
  <2>2. pushed = PushStored(cleaned, placed, chunks)
    BY <1>5, <2>1 DEF PushedTo
  <2>3. pushed = [ok |-> TRUE, regions |-> placed.regions, chunks |-> chunks,
                  space |-> left,
                  q |-> [s EXCEPT !.mem = Written(@, chunks),
                                  !.tail = (Last(chunks).pos + static_size(Last(chunks).cap))
                                              % Capacity,
                                  !.count = @ + 1]]
    BY <1>1, <1>18, <2>2 DEF PushStored
  <2>4. [s EXCEPT !.mem = Written(@, chunks),
                  !.tail = (Last(chunks).pos + static_size(Last(chunks).cap)) % Capacity,
                  !.count = @ + 1] = more
    <3> DEFINE mem == Written(s.mem, chunks)
               tail == (Last(chunks).pos + static_size(Last(chunks).cap)) % Capacity
               next == s.count + 1
    <3>1. mem = made.mem /\ tail = After(d)
      BY <1>7, <1>10 DEF After
    <3>2. s \in Queues(V)
      BY <1>2
    <3>3. PICK t : t = [s EXCEPT !.mem = mem, !.tail = tail, !.count = next]
      OBVIOUS
    <3>6. Changed(s, mem, tail, next, t)
      BY <3>3 DEF Changed
    <3> HIDE DEF mem, tail, next
    <3>4. t = [head |-> s.head, tail |-> tail, count |-> next, mem |-> mem]
      BY <3>2, <3>6, QueueFields
    <3>5. t = more
      BY <1>11, <3>1, <3>4 DEF next
    <3> QED BY <3>3, <3>5 DEF mem, tail, next
  <2> QED BY <2>3, <2>4
<1> QED BY <1>1, <1>10, <1>12, <1>14, <1>15, <1>16, <1>19, <1>20, <1>21, <1>22, <1>5, <1>0
-----------------------------------------------------------------------------
(* h pops the first j messages it holds; of the others nothing changes.    *)
Pops(h, j, members, lags, heads, held, lags2, heads2, held2) ==
    /\ lags2[h] = lags[h] - j
    /\ heads2[h] = IF j = 0 THEN heads[h] ELSE After(held[h][j])
    /\ \A i \in DOMAIN held2[h] : /\ i \in Nat \ {0} /\ i + j \in DOMAIN held[h]
                                  /\ held2[h][i] = held[h][i + j]
    /\ \A g \in members \ {h} : /\ lags2[g] = lags[g] /\ heads2[g] = heads[g]
                                /\ held2[g] = held[g]

(* The numbers of these messages, and the places of their first chunks.    *)
PoppedOnes(s, l, j) == {k \in 1 .. s.count : s.count - l < k /\ k <= s.count - l + j}
PoppedAt(held, j)   == {held[i].chunks[1].pos : i \in 1 .. j}

(* The counters of the messages at some places go down by one.             *)
Lowers(s, places, t) == t = [s EXCEPT !.mem = LoweredAt(@, places)]

(* The messages of the queue, some of them with their counters lowered.    *)
LowOnes(s, descs, K) ==
    [k \in 1 .. s.count |-> IF k \in K THEN Lowered(descs[k]) ELSE descs[k]]

(* What a lowered message keeps: its size, its place and its text; its     *)
(* counter is one less.                                                    *)
LowKept(d, low, lowered) ==
    /\ total_size(low.chunks) = total_size(d.chunks)
    /\ \A x : SamePlace(x, d) => SamePlace(x, low)
    /\ lowered => RefCount(low) = (RefCount(d) - 1) % Word
    /\ ~lowered => RefCount(low) = RefCount(d)

(* So it is for every message of the queue.                                *)
LEMMA LowOnesKeep ==
    ASSUME NEW V, NEW s \in Queues(V), NEW descs, NEW off, Layout(s, descs, off),
           NEW K, NEW k \in 1 .. s.count
    PROVE  LowKept(descs[k], LowOnes(s, descs, K)[k], k \in K)
<1> DEFINE e == LowOnes(s, descs, K)[k]
           p == Byte(s.head, off[k - 1])
           w == off[k] - off[k - 1]
<1>1. Occupies(p, w, descs[k])
  BY DEF Layout
<1>2. \A i \in DOMAIN descs[k].chunks : descs[k].chunks[i] \in Chunks(V)
  BY LayoutChunks
<1>3. e = IF k \in K THEN Lowered(descs[k]) ELSE descs[k]
  BY DEF LowOnes
<1> HIDE DEF p, w, e
<1>4. /\ Lowered(descs[k]).next = descs[k].next /\ Lowered(descs[k]).ok = descs[k].ok
      /\ Lowered(descs[k]).chunks[1].val = descs[k].chunks[1].val
      /\ Unpack(Lowered(descs[k]).chunks) = Unpack(descs[k].chunks)
      /\ Lowered(descs[k]).chunks[1].pos = descs[k].chunks[1].pos
      /\ total_size(Lowered(descs[k]).chunks) = total_size(descs[k].chunks)
      /\ RefCount(Lowered(descs[k])) = (RefCount(descs[k]) - 1) % Word
  BY <1>1, <1>2, LoweredSame
<1>5. CASE k \in K
  BY <1>3, <1>4, <1>5 DEF SamePlace, After, LowKept, e
<1>6. CASE k \notin K
  BY <1>3, <1>6 DEF LowKept, e
<1> QED BY <1>5, <1>6

(* When a handle pops its first j messages the queue is in order again, with *)
(* the counters of those messages lowered and its lag shorter.             *)
LEMMA PopKept ==
    ASSUME NEW V, NEW s \in Queues(V), InRing(s.mem), NEW descs, NEW off, NEW J, NEW members,
           members \subseteq Readers, NEW lags, NEW heads, NEW held,
           Kept(s, descs, off, J, members, lags, heads, held),
           NEW h \in members, NEW j \in 0 .. lags[h], \A i \in 1 .. j : i \in DOMAIN held[h],
           NEW lags2, NEW heads2, NEW held2,
           Pops(h, j, members, lags, heads, held, lags2, heads2, held2),
           NEW t, Lowers(s, PoppedAt(held[h], j), t)
    PROVE  /\ t \in Queues(V) /\ InRing(t.mem)
           /\ t.head = s.head /\ t.tail = s.tail /\ t.count = s.count
           /\ Kept(t, LowOnes(s, descs, PoppedOnes(s, lags[h], j)), off, J,
                   members, lags2, heads2, held2)
<1> DEFINE l == lags[h]
           b == s.count - l
           K == PoppedOnes(s, l, j)
           low == LowOnes(s, descs, K)
<1>0. PICK places : places = PoppedAt(held[h], j) /\ t = [s EXCEPT !.mem = LoweredAt(@, places)]
  BY DEF Lowers
<1>1. /\ Layout(s, descs, off) /\ Weighs(descs, s.count, J) /\ s.count \in Nat
      /\ s.head \in Positions /\ Tallied(s.count, descs, members, lags)
      /\ \A g \in members : Tracked(s, descs, off, lags[g], heads[g], held[g])
  BY DEF Kept, Queues
<1>2. /\ l \in Nat /\ l <= s.count /\ b \in Nat /\ b + l = s.count /\ j \in Nat /\ j <= l
      /\ l \in 0 .. s.count
  <2>1. l \in 0 .. s.count
    BY <1>1 DEF Tracked
  <2> HIDE DEF l
  <2>2. j \in 0 .. l
    BY DEF l
  <2> QED BY <1>1, <2>1, <2>2
<1>3. /\ lags2[h] = l - j /\ heads2[h] = IF j = 0 THEN heads[h] ELSE After(held[h][j])
      /\ \A i \in DOMAIN held2[h] : /\ i \in Nat \ {0} /\ i + j \in DOMAIN held[h]
                                    /\ held2[h][i] = held[h][i + j]
      /\ \A g \in members \ {h} : /\ lags2[g] = lags[g] /\ heads2[g] = heads[g]
                                  /\ held2[g] = held[g]
  BY DEF Pops
<1>4. ASSUME NEW i \in DOMAIN held[h]
      PROVE  i \in 1 .. l /\ b + i \in 1 .. s.count /\ SamePlace(held[h][i], descs[b + i])
  <2>1. InPlace(held[h], s.count, l, descs)
    BY <1>1 DEF Tracked
  <2>2. i \in 1 .. l /\ SamePlace(held[h][i], descs[s.count - l + i])
    BY <2>1 DEF InPlace
  <2> QED BY <1>2, <2>2
<1>5. places = {descs[k].chunks[1].pos : k \in K} /\ K \subseteq 1 .. s.count
  <2>1. ASSUME NEW i \in 1 .. j
        PROVE  b + i \in K /\ held[h][i].chunks[1].pos = descs[b + i].chunks[1].pos
    <3>1. i \in DOMAIN held[h] /\ i \in Nat /\ i > 0 /\ i <= j
      BY <1>2
    <3>2. b + i \in 1 .. s.count /\ SamePlace(held[h][i], descs[b + i])
      BY <1>4, <3>1
    <3> HIDE DEF l
    <3> QED BY <1>1, <1>2, <3>1, <3>2 DEF PoppedOnes, SamePlace
  <2>2. ASSUME NEW k \in K PROVE \E i \in 1 .. j : k = b + i
    <3>1. k \in Nat /\ s.count - l < k /\ k <= s.count - l + j
      BY DEF PoppedOnes
    <3> HIDE DEF l, K
    <3>2. k - b \in 1 .. j /\ k = b + (k - b)
      BY <1>1, <1>2, <3>1
    <3> QED BY <3>2
  <2>3. K \subseteq 1 .. s.count
    BY DEF PoppedOnes
  <2> HIDE DEF K, b, l
  <2> QED BY <1>0, <2>1, <2>2, <2>3 DEF PoppedAt
<1>6. /\ t \in Queues(V) /\ InRing(t.mem)
      /\ t.head = s.head /\ t.tail = s.tail /\ t.count = s.count
  <2>1. t \in Queues(V) /\ InRing(t.mem)
    BY <1>0, DecInRing
  <2>2. t.head = s.head /\ t.tail = s.tail /\ t.count = s.count
    BY <1>0 DEF Queues
  <2> QED BY <2>1, <2>2
<1>7. Layout(t, low, off)
  <2> HIDE DEF K, l, b
  <2>1. Layout(t, [i \in 1 .. s.count |-> IF i \in K THEN Lowered(descs[i]) ELSE descs[i]], off)
    <3>1. t = [s EXCEPT !.mem = LoweredAt(@, places)]
      BY <1>0
    <3>2. /\ Layout(s, descs, off) /\ s \in Queues(V) /\ K \subseteq 1 .. s.count
          /\ places = {descs[k].chunks[1].pos : k \in K}
      BY <1>1, <1>5
    <3> QED BY ONLY <3>1, <3>2, LoweredLayout
  <2> QED BY <2>1 DEF LowOnes
<1>8. ASSUME NEW k \in 1 .. s.count
      PROVE  /\ total_size(low[k].chunks) = total_size(descs[k].chunks)
             /\ \A d : SamePlace(d, descs[k]) => SamePlace(d, low[k])
             /\ k \in K => RefCount(low[k]) = (RefCount(descs[k]) - 1) % Word
             /\ k \notin K => RefCount(low[k]) = RefCount(descs[k])
  <2> HIDE DEF K
  <2>1. LowKept(descs[k], LowOnes(s, descs, K)[k], k \in K)
    <3>1. Layout(s, descs, off) /\ s \in Queues(V) /\ k \in 1 .. s.count
      BY <1>1
    <3> QED BY ONLY <3>1, LowOnesKeep
  <2> QED BY <2>1 DEF LowKept
<1> HIDE DEF low
<1>9. Weighs(low, s.count, J)
  BY <1>1, <1>8 DEF Weighs, Sums
<1>10. Tallied(s.count, low, members, lags2)
  <2> SUFFICES ASSUME NEW k \in 1 .. s.count
               PROVE  RefCount(low[k]) = Cardinality(Behind(s.count, members, lags2, k))
    BY DEF Tallied
  <2> DEFINE T == Behind(s.count, members, lags, k)
             T2 == Behind(s.count, members, lags2, k)
  <2>1. RefCount(descs[k]) = Cardinality(T) /\ T \subseteq Readers
    BY <1>1 DEF Tallied, Behind
  <2>2. \A g \in members \ {h} : g \in T2 <=> g \in T
    BY <1>3 DEF Behind
  <2>3. k \in Nat /\ (h \in T <=> l > s.count - k) /\ (h \in T2 <=> l - j > s.count - k)
    BY <1>3 DEF Behind
  <2>4. CASE k \in K
    <3>1. s.count - l < k /\ k <= s.count - l + j
      BY <2>4 DEF PoppedOnes
    <3>2. h \in T /\ h \notin T2
      <4> HIDE DEF T, T2, l
      <4> QED BY <1>1, <1>2, <2>3, <3>1
    <3>3. T2 = T \ {h}
      BY <2>2, <3>2 DEF Behind
    <3>4. RefCount(descs[k]) \in 1 .. Cardinality(Readers)
      BY <1>1, <1>2, <3>1, CountedFor
    <3>5. Cardinality(T2) = Cardinality(T) - 1
      <4> HIDE DEF T, T2
      <4>1. IsFiniteSet(T)
        BY <2>1, ReadersFinite
      <4> QED BY <3>2, <3>3, <4>1, FS_RemoveElement
    <3>6. (RefCount(descs[k]) - 1) % Word = RefCount(descs[k]) - 1
      <4> DEFINE n == RefCount(descs[k])
      <4> HIDE DEF n
      <4>1. n \in 1 .. Cardinality(Readers)
        BY <3>4 DEF n
      <4>2. Cardinality(Readers) \in Nat /\ Cardinality(Readers) < Word /\ Word \in Nat \ {0}
        BY ReadersFinite, SharedQueueAssumption
      <4>3. n - 1 \in 0 .. Word - 1
        BY <4>1, <4>2
      <4>4. \A a \in 0 .. Word - 1 : a % Word = a
        BY ModWord
      <4>5. (n - 1) % Word = n - 1
        BY <4>3, <4>4
      <4> QED BY <4>5 DEF n
    <3>7. RefCount(low[k]) = RefCount(descs[k]) - 1
      BY <1>8, <2>4, <3>6
    <3> HIDE DEF T, K
    <3> QED BY <2>1, <3>5, <3>7
  <2>5. CASE k \notin K
    <3>1. ~(s.count - l < k /\ k <= s.count - l + j)
      BY <2>5 DEF PoppedOnes
    <3>2. h \in T2 <=> h \in T
      <4> HIDE DEF T, T2, l
      <4> QED BY <1>1, <1>2, <2>3, <3>1
    <3>3. T2 = T
      BY <2>2, <3>2 DEF Behind
    <3>4. RefCount(low[k]) = RefCount(descs[k])
      BY <1>8, <2>5
    <3> HIDE DEF T, K
    <3> QED BY <2>1, <3>3, <3>4
  <2> QED BY <2>4, <2>5
<1>11. ASSUME NEW g \in members PROVE Tracked(t, low, off, lags2[g], heads2[g], held2[g])
  <2>1. CASE g # h
    <3>1. Tracked(s, descs, off, lags[g], heads[g], held[g])
          /\ lags2[g] = lags[g] /\ heads2[g] = heads[g] /\ held2[g] = held[g]
      BY <1>1, <1>3, <2>1
    <3>2. PICK lag : lag = lags[g]
      OBVIOUS
    <3>3. InPlace(held2[g], s.count, lag, low)
      <4> SUFFICES ASSUME NEW i \in DOMAIN held2[g]
                   PROVE  i \in 1 .. lag /\ SamePlace(held2[g][i], low[s.count - lag + i])
        BY DEF InPlace
      <4>1. /\ i \in 1 .. lag /\ SamePlace(held[g][i], descs[s.count - lag + i])
            /\ lag \in 0 .. s.count
        BY <3>1, <3>2 DEF Tracked, InPlace
      <4>2. s.count - lag + i \in 1 .. s.count
        BY <1>1, <4>1
      <4> QED BY <1>8, <3>1, <4>1, <4>2
    <3> QED BY <1>6, <3>1, <3>2, <3>3 DEF Tracked
  <2>2. CASE g = h
    <3>1. Tracked(s, descs, off, l, heads[h], held[h])
      BY <1>1
    <3>2. /\ l - j \in 0 .. s.count /\ s.count - (l - j) = b + j
          /\ (l - j = s.count => j = 0 /\ l = s.count)
          /\ (j = 0 => l - j = l)
      <4> HIDE DEF l
      <4> QED BY <1>1, <1>2
    <3>3. InPlace(held2[h], s.count, l - j, low)
      <4> SUFFICES ASSUME NEW i \in DOMAIN held2[h]
                   PROVE  i \in 1 .. l - j /\ SamePlace(held2[h][i], low[s.count - (l - j) + i])
        BY DEF InPlace
      <4>1. i \in Nat \ {0} /\ i + j \in DOMAIN held[h] /\ held2[h][i] = held[h][i + j]
        BY <1>3
      <4>2. i + j \in 1 .. l /\ b + (i + j) \in 1 .. s.count
            /\ SamePlace(held[h][i + j], descs[b + (i + j)])
        BY <1>4, <4>1
      <4>3. i \in 1 .. l - j /\ s.count - (l - j) + i = b + (i + j)
        <5> HIDE DEF l
        <5> QED BY <1>1, <1>2, <4>1, <4>2
      <4> QED BY <1>8, <4>1, <4>2, <4>3
    <3>4. /\ heads2[h] = NoPos => l - j = s.count
          /\ heads2[h] # NoPos => heads2[h] = Byte(s.head, off[b + j])
      <4>1. CASE j = 0
        <5>1. heads2[h] = heads[h] /\ b + j = b
          BY <1>2, <1>3, <4>1
        <5> QED BY <3>1, <3>2, <4>1, <5>1 DEF Tracked
      <4>2. CASE j # 0
        <5>1. j \in 1 .. j
          BY <1>2, <4>2
        <5>2. SamePlace(held[h][j], descs[b + j]) /\ b + j \in 1 .. s.count
          BY <1>4, <5>1
        <5>3. heads2[h] = After(descs[b + j])
          BY <1>3, <4>2, <5>2 DEF SamePlace
        <5>4. PICK k \in 1 .. s.count : k = b + j
          BY <5>2
        <5>5. After(descs[k]) = Byte(s.head, off[k])
          BY <1>1, LayoutNext
        <5>6. off[k] \in 0 .. Capacity
          BY <1>1 DEF Layout
        <5>7. Byte(s.head, off[k]) \in Positions
          BY <1>1, <5>6, ByteInRing
        <5>8. heads2[h] \in Positions /\ heads2[h] = Byte(s.head, off[b + j])
          BY <5>3, <5>4, <5>5, <5>7
        <5>9. heads2[h] # NoPos
          BY <5>8, RingAssumption DEF Positions, NoPos
        <5> QED BY <5>8, <5>9
      <4> QED BY <4>1, <4>2
    <3> HIDE DEF b, l
    <3>5. Tracked(t, low, off, l - j, heads2[h], held2[h])
      BY <1>6, <3>2, <3>3, <3>4 DEF Tracked
    <3> QED BY <1>3, <2>2, <3>5
  <2> QED BY <2>1, <2>2
<1>12. Kept(t, low, off, J, members, lags2, heads2, held2)
  BY <1>6, <1>7, <1>9, <1>10, <1>11 DEF Kept
<1> QED BY <1>6, <1>12 DEF low, K, l
-----------------------------------------------------------------------------
(* The headers a refused push spoils lie where no message is.              *)
LEMMA SpoiltApart ==
    ASSUME NEW V, NEW s \in Queues(V), NEW part \in FreeParts(s),
           NEW o \in Nat, NEW w \in Nat, NEW d,
           o + w <= UsedBytes(s), Occupies(Byte(s.head, o), w, d), NEW i \in DOMAIN d.chunks
    PROVE  ~Touches(d.chunks[i], part.pos, part.pos + HeaderSize - 1)
<1> DEFINE r1 == first_free_region(s)
           r2 == next_free_region(s, r1)
<1>1. PICK r \in Regions : /\ InFree(s, r) /\ part.pos = r.first
                           /\ static_size(part.cap) <= r.second
                           /\ part.cap \in Nat \ {0}
  BY DEF FreeParts
<1>2. PICK first, last : first = part.pos /\ last = part.pos + HeaderSize - 1
  OBVIOUS
<1>3. /\ first \in Int /\ last \in Int /\ first <= last /\ first = r.first
      /\ last < r.first + r.second
  BY <1>1, <1>2, RingAssumption DEF Regions, static_size
<1>4. Inside(r, r1) \/ Inside(r, r2)
  BY <1>1 DEF InFree
<1>5. ASSUME NEW f \in {r1, r2}, Inside(r, f) PROVE ~Touches(d.chunks[i], first, last)
  <2>1. f.first <= r.first /\ r.first + r.second <= f.first + f.second
    BY <1>5 DEF Inside
  <2>2. f.first \in Int /\ f.second \in Int
    <3>1. \A x \in Int, y \in Nat : x - y \in Int
      OBVIOUS
    <3>2. r1.first \in Int /\ r1.second \in Int /\ r2.first \in Int /\ r2.second \in Int
      <4>1. /\ r1.first = s.tail
            /\ \/ /\ r1.second = Capacity - s.tail /\ r2.first = 0 /\ r2.second = s.head
               \/ /\ r1.second = s.head - s.tail /\ r2.first = s.head /\ r2.second = 0
        BY FreeRegions
      <4>2. s.head \in Int /\ s.tail \in Int /\ Capacity \in Int
        BY RingAssumption DEF Queues, Positions
      <4> HIDE DEF r1, r2
      <4> QED BY <4>1, <4>2
    <3> QED BY <3>2
  <2>3. f.first <= first /\ last < f.first + f.second
    <3>1. r.first \in Int /\ r.second \in Int
      BY DEF Regions
    <3> HIDE DEF r1, r2
    <3> QED BY <1>3, <2>1, <2>2, <3>1
  <2> QED BY <1>3, <2>3, ApartFromFree
<1> QED BY <1>2, <1>4, <1>5

(* Erasing headers in free regions harms no message.                       *)
LEMMA SpoiltKeeps ==
    ASSUME NEW V, NEW s \in Queues(V), NEW parts \in Seq(FreeParts(s))
    PROVE  Keeps(s, EraseHeaders(s.mem, {parts[i].pos : i \in DOMAIN parts}))
<1> DEFINE firsts == {parts[i].pos : i \in DOMAIN parts}
<1>1. \A f \in firsts : \E part \in FreeParts(s) : f = part.pos
  BY DEF firsts
<1> HIDE DEF firsts
<1>2. ASSUME NEW o \in Nat, NEW w \in Nat, NEW d, o + w <= UsedBytes(s),
             Occupies(Byte(s.head, o), w, d), Holds(s.mem, d)
      PROVE  Holds(EraseHeaders(s.mem, firsts), d)
  <2>1. ASSUME NEW i \in DOMAIN d.chunks, NEW f \in firsts
        PROVE  ~Touches(d.chunks[i], f, f + HeaderSize - 1)
    BY <1>1, <1>2, SpoiltApart
  <2> QED BY <1>2, <2>1, EraseKeeps
<1>3. Keeps(s, EraseHeaders(s.mem, firsts))
  BY <1>2 DEF Keeps
<1> QED BY <1>3 DEF firsts

(* A refused push changes nothing of what is kept.                         *)
RefusedTo(cleaned, placed, pushed) == pushed = PushRefused(cleaned, placed)

(* A push that finds no room leaves the queue in order: the headers it has *)
(* spoilt were of no message.                                              *)
LEMMA RefusedKept ==
    ASSUME NEW V, NEW base, NEW members, NEW lags, NEW heads, NEW held, NEW cleaned,
           InOrder(V, cleaned, base, members, lags, heads, held),
           NEW placed, InFreeSpace(cleaned, placed),
           NEW pushed, RefusedTo(cleaned, placed, pushed)
    PROVE  /\ Sound(V, pushed.q, pushed.space, base, members, lags, heads, held)
           /\ pushed.space = cleaned.space
<1>1. PICK s, space, parts : s = cleaned.s /\ space = cleaned.space /\ parts = placed.parts
  OBVIOUS
<1>2. PICK descs, off, J : /\ Kept(s, descs, off, J, members, lags, heads, held)
                           /\ space = FreeOf(base, J[s.count])
                           /\ s \in Queues(V) /\ InRing(s.mem)
  BY <1>1 DEF Sound, InOrder
<1>3. PICK mem : mem = EraseHeaders(s.mem, {parts[i].pos : i \in DOMAIN parts})
  OBVIOUS
<1>4. PICK full : full = [s EXCEPT !.mem = mem]
  OBVIOUS
<1>5. full.head = s.head /\ full.tail = s.tail /\ full.count = s.count /\ full.mem = mem
  BY <1>2, <1>4 DEF Queues
<1>6. ~pushed.ok /\ pushed.regions = placed.regions /\ pushed.space = space /\ pushed.q = full
  BY <1>1, <1>3, <1>4 DEF RefusedTo, PushRefused
<1>7. full \in Queues(V) /\ InRing(full.mem)
  <2>1. mem \in SUBSET Chunks(V) /\ InRing(mem)
    <3>1. s.mem \in SUBSET Chunks(V)
      BY <1>2 DEF Queues
    <3> QED BY <1>2, <1>3, <3>1, EraseInRing
  <2> QED BY <1>2, <1>4, <1>5, <2>1 DEF Queues
<1>8. /\ Layout(s, descs, off) /\ Weighs(descs, s.count, J)
      /\ Tallied(s.count, descs, members, lags)
      /\ \A h \in members : Tracked(s, descs, off, lags[h], heads[h], held[h])
  BY <1>2 DEF Kept
<1>9. Layout(full, descs, off)
  <2>1. Keeps(s, mem)
    <3>1. parts \in Seq(FreeParts(s))
      BY <1>1 DEF InFreeSpace
    <3> QED BY <1>1, <1>2, <1>3, <3>1, SpoiltKeeps
  <2>2. \A k \in 1 .. s.count : Holds(full.mem, descs[k])
    BY <1>2, <1>5, <1>8, <2>1, LayoutKept
  <2> QED BY <1>2, <1>5, <1>8, <2>2, LayoutMoved
<1>10. Kept(full, descs, off, J, members, lags, heads, held)
  BY <1>5, <1>8, <1>9 DEF Kept, Tracked
<1> QED BY <1>1, <1>2, <1>5, <1>6, <1>7, <1>10 DEF Sound
-----------------------------------------------------------------------------
(* Members that have nothing to read may leave; what they hold of what     *)
(* they read may be forgotten.                                             *)
Fewer(members, lags, heads, held, members2, lags2, heads2, held2) ==
    /\ members2 \subseteq members
    /\ \A g \in members \ members2 : lags[g] = 0
    /\ \A g \in members2 :
          /\ lags2[g] = lags[g] /\ heads2[g] = heads[g]
          /\ \A i \in DOMAIN held2[g] : i \in DOMAIN held[g] /\ held2[g][i] = held[g][i]

(* A queue is in order for fewer handles when those that left have nothing *)
(* to read.                                                                *)
LEMMA LeaveKept ==
    ASSUME NEW V, NEW s \in Queues(V), NEW descs, NEW off, NEW J, NEW members,
           NEW lags, NEW heads, NEW held,
           Kept(s, descs, off, J, members, lags, heads, held),
           NEW members2, NEW lags2, NEW heads2, NEW held2,
           Fewer(members, lags, heads, held, members2, lags2, heads2, held2)
    PROVE  Kept(s, descs, off, J, members2, lags2, heads2, held2)
<1>1. /\ Layout(s, descs, off) /\ Weighs(descs, s.count, J) /\ s.count \in Nat
      /\ Tallied(s.count, descs, members, lags)
      /\ \A g \in members : Tracked(s, descs, off, lags[g], heads[g], held[g])
  BY DEF Kept, Queues
<1>2. /\ members2 \subseteq members
      /\ \A g \in members \ members2 : lags[g] = 0
      /\ \A g \in members2 :
            /\ lags2[g] = lags[g] /\ heads2[g] = heads[g]
            /\ \A i \in DOMAIN held2[g] : i \in DOMAIN held[g] /\ held2[g][i] = held[g][i]
  BY DEF Fewer
<1>3. Tallied(s.count, descs, members2, lags2)
  <2> SUFFICES ASSUME NEW k \in 1 .. s.count
               PROVE  RefCount(descs[k]) = Cardinality(Behind(s.count, members2, lags2, k))
    BY DEF Tallied
  <2>1. ~(0 > s.count - k)
    BY <1>1
  <2>2. Behind(s.count, members2, lags2, k) = Behind(s.count, members, lags, k)
    BY <1>2, <2>1 DEF Behind
  <2> QED BY <1>1, <2>2 DEF Tallied
<1>4. ASSUME NEW g \in members2 PROVE Tracked(s, descs, off, lags2[g], heads2[g], held2[g])
  <2>1. Tracked(s, descs, off, lags[g], heads[g], held[g])
    BY <1>1, <1>2
  <2>2. InPlace(held2[g], s.count, lags[g], descs)
    BY <1>2, <2>1 DEF Tracked, InPlace
  <2> QED BY <1>2, <2>1, <2>2 DEF Tracked
<1> QED BY <1>1, <1>3, <1>4 DEF Kept

(* A new member starts behind the last message.                            *)
More(h, tail, members, lags, heads, held, lags2, heads2, held2) ==
    /\ h \notin members
    /\ lags2[h] = 0 /\ heads2[h] = tail /\ DOMAIN held2[h] = {}
    /\ \A g \in members : lags2[g] = lags[g] /\ heads2[g] = heads[g] /\ held2[g] = held[g]

(* A handle that joins with m_head at the tail has nothing to read.        *)
LEMMA JoinKept ==
    ASSUME NEW V, NEW s \in Queues(V), NEW descs, NEW off, NEW J, NEW members,
           NEW lags, NEW heads, NEW held,
           Kept(s, descs, off, J, members, lags, heads, held),
           NEW h, NEW lags2, NEW heads2, NEW held2,
           More(h, s.tail, members, lags, heads, held, lags2, heads2, held2)
    PROVE  Kept(s, descs, off, J, members \cup {h}, lags2, heads2, held2)
<1>1. /\ Layout(s, descs, off) /\ Weighs(descs, s.count, J) /\ s.count \in Nat
      /\ Tallied(s.count, descs, members, lags) /\ s.tail \in Positions
      /\ \A g \in members : Tracked(s, descs, off, lags[g], heads[g], held[g])
  BY DEF Kept, Queues
<1>2. /\ h \notin members
      /\ lags2[h] = 0 /\ heads2[h] = s.tail /\ DOMAIN held2[h] = {}
      /\ \A g \in members : lags2[g] = lags[g] /\ heads2[g] = heads[g] /\ held2[g] = held[g]
  BY DEF More
<1>3. Tallied(s.count, descs, members \cup {h}, lags2)
  <2> SUFFICES ASSUME NEW k \in 1 .. s.count
               PROVE  RefCount(descs[k])
                        = Cardinality(Behind(s.count, members \cup {h}, lags2, k))
    BY DEF Tallied
  <2>1. ~(0 > s.count - k)
    BY <1>1
  <2>2. Behind(s.count, members \cup {h}, lags2, k) = Behind(s.count, members, lags, k)
    BY <1>2, <2>1 DEF Behind
  <2> QED BY <1>1, <2>2 DEF Tallied
<1>4. ASSUME NEW g \in members \cup {h}
      PROVE  Tracked(s, descs, off, lags2[g], heads2[g], held2[g])
  <2>1. CASE g \in members
    BY <1>1, <1>2, <2>1
  <2>2. CASE g = h
    <3>1. heads2[h] = Byte(s.head, off[s.count - 0]) /\ heads2[h] # NoPos
      <4>1. off[s.count] = UsedBytes(s) /\ Byte(s.head, UsedBytes(s)) = s.tail
        BY <1>1, LayoutTail DEF Layout
      <4>2. s.count - 0 = s.count /\ s.tail # NoPos
        BY <1>1, RingAssumption DEF Positions, NoPos
      <4> QED BY <1>2, <4>1, <4>2
    <3>2. InPlace(held2[h], s.count, 0, descs)
      BY <1>2 DEF InPlace
    <3> QED BY <1>1, <1>2, <2>2, <3>1, <3>2 DEF Tracked
  <2> QED BY <2>1, <2>2
<1> QED BY <1>1, <1>3, <1>4 DEF Kept

(* A member that reads all it has not read holds it.                       *)
Reads(h, members, held, held2) ==
    /\ held2[h] = Unread(h)
    /\ \A g \in members \ {h} : held2[g] = held[g]

(* What a handle reads from m_head on, by its count, are the last messages *)
(* of the queue, and holding them is in order.                             *)
LEMMA ReadKept ==
    ASSUME NEW V, q \in Queues(V), NEW descs, NEW off, NEW J, NEW members,
           NEW lags, NEW heads, NEW held,
           Kept(q, descs, off, J, members, lags, heads, held),
           NEW h \in members, lags[h] = count(h), heads[h] = m_head[h],
           NEW held2, Reads(h, members, held, held2)
    PROVE  /\ Kept(q, descs, off, J, members, lags, heads, held2)
           /\ Unread(h) = [k \in 1 .. lags[h] |-> descs[q.count - lags[h] + k]]
           /\ lags[h] \in 0 .. q.count
           /\ \A k \in 1 .. lags[h] : Unread(h)[k].ok
<1> DEFINE n == lags[h]
           b == q.count - n
<1>1. /\ Layout(q, descs, off) /\ Weighs(descs, q.count, J) /\ q.count \in Nat
      /\ Tallied(q.count, descs, members, lags) /\ q.head \in Positions
      /\ \A g \in members : Tracked(q, descs, off, lags[g], heads[g], held[g])
  BY DEF Kept, Queues
<1>2. Tracked(q, descs, off, n, heads[h], held[h])
  BY <1>1
<1>3. n \in Nat /\ n <= q.count /\ b \in Nat /\ b + n = q.count
  <2>1. n \in 0 .. q.count
    BY <1>2 DEF Tracked
  <2> HIDE DEF n
  <2> QED BY <1>1, <2>1
<1>4. head(h) = Byte(q.head, off[b])
  <2>1. CASE m_head[h] # NoPos
    BY <1>2, <2>1 DEF Tracked, head
  <2>2. CASE m_head[h] = NoPos
    <3>1. n = q.count
      BY <1>2, <2>2 DEF Tracked
    <3>2. b = 0 /\ off[0] = 0 /\ head(h) = q.head
      BY <1>1, <1>3, <2>2, <3>1 DEF Layout, head
    <3>3. q.head = Byte(q.head, 0)
      BY <1>1, RingAssumption DEF Byte, Positions
    <3> QED BY <3>2, <3>3
  <2> QED BY <2>1, <2>2
<1> HIDE DEF b, n
<1>5. Unread(h) = [k \in 1 .. n |-> descs[b + k]]
  <2>1. n > 0 => head(h) = Byte(q.head, off[b])
    BY <1>4
  <2>2. Contents(head(h), n) = [k \in 1 .. n |-> descs[b + k]]
    <3>1. PICK hd : hd = head(h)
      OBVIOUS
    <3>2. n > 0 => hd = Byte(q.head, off[b])
      BY <2>1, <3>1
    <3>3. b + n <= q.count
      BY <1>1, <1>3
    <3>4. Contents(hd, n) = [k \in 1 .. n |-> descs[b + k]]
      BY <1>1, <1>3, <3>2, <3>3, ContentsFrom
    <3> QED BY <3>1, <3>4
  <2> QED BY <2>2 DEF Unread, n
<1>6. \A k \in 1 .. n : descs[b + k].ok
  <2> SUFFICES ASSUME NEW k \in 1 .. n PROVE descs[b + k].ok
    OBVIOUS
  <2>1. PICK f \in 1 .. q.count : f = b + k
    BY <1>1, <1>3
  <2>2. descs[f].ok
    BY <1>1, LayoutReads
  <2> QED BY <2>1, <2>2
<1>7. ASSUME NEW g \in members PROVE Tracked(q, descs, off, lags[g], heads[g], held2[g])
  <2>1. CASE g # h
    BY <1>1, <2>1 DEF Reads
  <2>2. CASE g = h
    <3>1. held2[h] = [k \in 1 .. n |-> descs[b + k]]
      BY <1>5 DEF Reads
    <3>2. InPlace(held2[h], q.count, n, descs)
      BY <3>1 DEF InPlace, SamePlace, b
    <3> QED BY <1>2, <2>2, <3>2 DEF Tracked, n
  <2> QED BY <2>1, <2>2
<1>8. Kept(q, descs, off, J, members, lags, heads, held2)
  BY <1>1, <1>7 DEF Kept
<1>9. /\ Unread(h) = [k \in 1 .. lags[h] |-> descs[q.count - lags[h] + k]]
      /\ lags[h] \in 0 .. q.count
  BY <1>1, <1>3, <1>5 DEF n, b
<1>10. \A k \in 1 .. lags[h] : Unread(h)[k].ok
  BY <1>5, <1>6 DEF n
<1> QED BY <1>8, <1>9, <1>10
-----------------------------------------------------------------------------
(* The messages of an ordered queue do not even reach the largest number.  *)
LEMMA FewKept ==
    ASSUME NEW V, NEW s \in Queues(V), NEW descs, NEW off, Layout(s, descs, off)
    PROVE  s.count < Word - 1
<1> DEFINE z == static_size(1)
<1>1. /\ s.count \in Nat /\ Capacity \in Nat /\ Word \in Nat \ {0} /\ z \in Nat \ {0}
  BY RingAssumption, SharedQueueAssumption DEF Queues, static_size
<1>2. s.count * z <= Capacity /\ Capacity < (Word - 1) * z
  BY LayoutCount, SmartAssumption
<1> HIDE DEF z
<1> SUFFICES ASSUME Word - 1 <= s.count PROVE FALSE
  BY <1>1
<1>3. (Word - 1) * z <= s.count * z
  BY <1>1
<1> QED BY <1>1, <1>2, <1>3

(* The facts about a sound queue in one place.                             *)
LEMMA SoundFacts ==
    ASSUME NEW V, NEW s, NEW space, NEW base \in {0, Capacity}, NEW members,
           NEW lags, NEW heads, NEW held,
           Sound(V, s, space, base, members, lags, heads, held)
    PROVE  /\ s \in Queues(V) /\ InRing(s.mem) /\ s.count \in Nat /\ s.count < Word - 1
           /\ s.head \in Positions /\ s.tail \in Positions
           /\ space \in 0 .. Space - 1 /\ space \in Nat
           /\ \A h \in members : lags[h] \in 0 .. s.count
<1>1. PICK descs, off, J : /\ Kept(s, descs, off, J, members, lags, heads, held)
                           /\ space = FreeOf(base, J[s.count])
                           /\ s \in Queues(V) /\ InRing(s.mem)
  BY DEF Sound
<1>2. Layout(s, descs, off) /\ Weighs(descs, s.count, J)
      /\ \A h \in members : Tracked(s, descs, off, lags[h], heads[h], held[h])
  BY <1>1 DEF Kept
<1>3. s.count < Word - 1 /\ s.count \in Nat /\ s.head \in Positions /\ s.tail \in Positions
  BY <1>1, <1>2, FewKept DEF Queues
<1>4. J[s.count] \in 0 .. Capacity
  BY <1>1, <1>2, WeightFits
<1>5. space \in 0 .. Space - 1 /\ space \in Nat
  <2>1. space \in 0 .. Space - 1
    BY <1>1, <1>4, FreeMoves
  <2> QED BY <2>1, SmartAssumption
<1> QED BY <1>1, <1>2, <1>3, <1>5 DEF Tracked

(* A service message takes the smallest space there is.                    *)
LEMMA ChunksWeigh ==
    ASSUME NEW parts, NEW val, NEW counts, NEW chunks,
           chunks = MessageChunks(parts, val, 0, counts)
    PROVE  /\ \A a : (parts = <<a>> /\ a.cap \in Nat)
                         => total_size(chunks) = static_size(a.cap)
           /\ \A a, b : (parts = <<a, b>> /\ a.cap \in Nat /\ b.cap \in Nat)
                         => total_size(chunks) = static_size(a.cap) + static_size(b.cap)
<1> DEFINE Item(i) == [pos |-> parts[i].pos, cap |-> parts[i].cap,
                       head |-> i = 1, tail |-> i = Len(parts),
                       val |-> val, off |-> IF i = 1 THEN 0 ELSE parts[1].cap,
                       ts |-> 0, counter |-> IF i = 1 THEN counts ELSE 0]
<1>1. chunks = [i \in DOMAIN parts |-> Item(i)]
  BY DEF MessageChunks
<1>2. \A i : Item(i).cap = parts[i].cap
  OBVIOUS
<1> HIDE DEF Item
<1>3. ASSUME NEW a, parts = <<a>>, a.cap \in Nat
      PROVE  total_size(chunks) = static_size(a.cap)
  <2>1. PICK c : chunks = <<c>> /\ c.cap = a.cap
    <3>1. chunks = <<Item(1)>> /\ Item(1).cap = a.cap
      BY <1>1, <1>2, <1>3
    <3> QED BY <3>1
  <2> QED BY <1>3, <2>1, ChunkTotals
<1>4. ASSUME NEW a, NEW b, parts = <<a, b>>, a.cap \in Nat, b.cap \in Nat
      PROVE  total_size(chunks) = static_size(a.cap) + static_size(b.cap)
  <2>1. PICK c, t : chunks = <<c, t>> /\ c.cap = a.cap /\ t.cap = b.cap
    <3>1. chunks = <<Item(1), Item(2)>> /\ Item(1).cap = a.cap /\ Item(2).cap = b.cap
      BY <1>1, <1>2, <1>4
    <3> QED BY <3>1
  <2> QED BY <1>4, <2>1, ChunkTotals
<1> QED BY <1>3, <1>4
-----------------------------------------------------------------------------
(* Where two service messages would fit, one does.                         *)
LEMMA RoomForOne ==
    ASSUME NEW V, NEW s, NEW space, NEW members, NEW lags, NEW heads, NEW held,
           Sound(V, s, space, Capacity, members, lags, heads, held),
           space >= 2 * static_size(1), subscriptions \in Nat, Capacity >= 2
    PROVE  \A special \in BOOLEAN, size \in Nat \ {0} :
              (special /\ size <= 1) => Placed(s, space, special, size).rest = 0
<1>1. PICK descs, off, J : /\ Kept(s, descs, off, J, members, lags, heads, held)
                           /\ space = FreeOf(Capacity, J[s.count])
                           /\ s \in Queues(V) /\ InRing(s.mem)
  BY DEF Sound
<1>2. /\ Layout(s, descs, off) /\ Weighs(descs, s.count, J)
      /\ s.count = 0 => s.head = s.tail
  BY <1>1 DEF Kept, Layout
<1>3. PICK f1, f2 : f1 = first_free_region(s) /\ f2 = next_free_region(s, f1)
  OBVIOUS
<1>4. PICK used, j : used = UsedBytes(s) /\ j = J[s.count]
  OBVIOUS
<1>5. /\ j \in 0 .. Capacity /\ used \in 0 .. Capacity
      /\ used <= j + HeaderSize
      /\ j # used => s.count # 0 /\ s.tail <= s.head
  BY <1>1, <1>2, <1>4, WeightFits, LayoutWaste
<1>6. /\ s.head \in Nat /\ s.tail \in Nat /\ s.head < Capacity /\ s.tail < Capacity
      /\ s.count \in Nat /\ Capacity \in Nat /\ HeaderSize \in Nat \ {0}
      /\ static_size(1) = HeaderSize + 1
  BY <1>1, RingAssumption DEF Queues, Positions, static_size
<1>7. space = Capacity - j /\ space \in Nat
  <2>1. FreeOf(Capacity, j) = Capacity - j
    BY <1>5, FreeMoves
  <2> QED BY <1>1, <1>4, <1>5, <1>6, <2>1
<1>8. f1.second # 0 /\ (f1.second > HeaderSize \/ f2.second > HeaderSize)
  <2>1. used = IF s.count = 0 THEN 0
               ELSE IF s.head < s.tail THEN s.tail - s.head ELSE s.tail + Capacity - s.head
    BY <1>4 DEF UsedBytes, Dist
  <2>2. \/ /\ s.count = 0 \/ s.head < s.tail
           /\ f1.second = Capacity - s.tail /\ f2.second = s.head
        \/ /\ s.count # 0 /\ s.head >= s.tail /\ f1.second = s.head - s.tail
    BY <1>1, <1>3, FreeRegions
  <2>3. PICK x, y : x = f1.second /\ y = f2.second
    OBVIOUS
  <2>4. CASE (s.count = 0 \/ s.head < s.tail) /\ x = Capacity - s.tail /\ y = s.head
    <3>1. j = used
      BY <1>2, <1>5, <1>6, <2>1, <2>4
    <3>2. x + y = Capacity - used
      BY <1>2, <1>6, <2>1, <2>4
    <3> QED BY <1>5, <1>6, <1>7, <2>3, <2>4, <3>1, <3>2
  <2>5. CASE s.count # 0 /\ s.head >= s.tail /\ x = s.head - s.tail
    <3>1. x = Capacity - used
      BY <1>6, <2>1, <2>5
    <3> QED BY <1>5, <1>6, <1>7, <2>3, <3>1
  <2> QED BY <2>2, <2>3, <2>4, <2>5
<1>9. f1.second > HeaderSize \/ next_free_region(s, f1).second > HeaderSize
  BY <1>3, <1>8
<1> QED BY <1>1, <1>3, <1>7, <1>8, <1>9, SpecialFits
-----------------------------------------------------------------------------
(* What a push makes of an ordered queue.                                  *)
Vals   == [sid : Readers, kind : Codes \cup {"data"}]
Base   == IF child THEN 0 ELSE Capacity

(* How many messages each handle has still to read, by its m_counter.      *)
Counts == [h \in Readers |-> count(h)]

(* The result of do_push.                                                  *)
Pushing(special, val, size, pushed) == pushed = do_push(FALSE, special, val, size)

(* It stores the message behind the last one.                              *)
Lands(pushed, lags, held, val, size) ==
    /\ pushed.q \in Queues(Vals) /\ InRing(pushed.q.mem)
    /\ \E descs, off, J :
          /\ Kept(pushed.q, descs, off, J, Subscribers, lags, m_head, held)
          /\ pushed.space = FreeOf(Base, J[pushed.q.count])
          /\ descs[pushed.q.count].chunks = pushed.chunks
    /\ Unpack(pushed.chunks) = [val |-> val, size |-> size, ts |-> 0]
    /\ pushed.chunks[1].val = val

(* Or it has only collected garbage.                                       *)
Bounces(pushed, held) ==
    /\ Sound(Vals, pushed.q, pushed.space, Base, Subscribers, Counts, m_head, held)
    /\ Base = Capacity => pushed.space >= free_space

(* The space it takes.                                                     *)
Spends(special, pushed) ==
    Base = Capacity =>
        /\ special => pushed.space >= free_space - static_size(1)
        /\ (~special /\ free_space >= reserved_space(subscriptions))
              => pushed.space >= reserved_space(subscriptions)

(* There is room for two bytes.                                            *)
LEMMA CapacityTwo == Capacity >= 2
<1>1. IsFiniteSet(Booked) /\ Cardinality(Booked) \in Nat
  <2>1. Booked \subseteq Readers
    BY SmartAssumption
  <2> QED BY <2>1, ReadersFinite
<1>2. static_size(1) * (Cardinality(Booked) + 1) <= Capacity
  BY SmartAssumption
<1>3. static_size(1) \in Nat /\ static_size(1) >= 2 /\ Capacity \in Nat
  BY RingAssumption DEF static_size
<1>4. PICK z, n : z = static_size(1) /\ n = Cardinality(Booked)
  OBVIOUS
<1>5. z \in Nat /\ z >= 2 /\ n \in Nat /\ z * (n + 1) <= Capacity
  BY <1>1, <1>2, <1>3, <1>4
<1>6. z * (n + 1) = z * n + z /\ z * n \in Nat
  BY <1>5
<1> QED BY <1>3, <1>5, <1>6

(* What do_push may return: a refusal that changes no message, or a message *)
(* more, for everybody, that spends its size; and a service message is never *)
(* refused while free_space has room for two.                              *)
LEMMA PushOutcome ==
    ASSUME NEW held, Sound(Vals, q, free_space, Base, Subscribers, Counts, m_head, held),
           subscriptions = Cardinality(Subscribers),
           NEW special \in BOOLEAN, NEW size \in Nat \ {0}, special => size <= 1,
           NEW val \in Vals, NEW pushed, Pushing(special, val, size, pushed),
           special \/ ~Torn(pushed),
           NEW lags2, \A h \in Subscribers : lags2[h] = Counts[h] + 1
    PROVE  /\ pushed.ok \in BOOLEAN
           /\ ~pushed.ok => Bounces(pushed, held)
           /\ pushed.ok => Lands(pushed, lags2, held, val, size) /\ Spends(special, pushed)
           /\ (special /\ Base = Capacity /\ free_space >= 2 * static_size(1)) => pushed.ok
<1> DEFINE S == Subscribers
<1>1. PICK c : CleanedTo(c)
  BY DEF CleanedTo
<1>2. PICK base : base = Base /\ base \in {0, Capacity}
  BY DEF Base
<1>3. S \subseteq Readers /\ subscriptions \in Nat
  <2>1. S \subseteq Readers
    BY DEF Subscribers
  <2> HIDE DEF S
  <2>2. Cardinality(S) \in Nat
    BY <2>1, ReadersFinite
  <2> QED BY <2>1, <2>2 DEF S
<1> HIDE DEF S
<1>4. /\ Sound(Vals, q, free_space, base, S, Counts, m_head, held)
      /\ subscriptions = Cardinality(S) /\ \A h \in S : lags2[h] = Counts[h] + 1
  BY <1>2 DEF S
<1>5. /\ Sound(Vals, c.s, c.space, base, S, Counts, m_head, held)
      /\ base = Capacity => c.space >= free_space
  BY <1>1, <1>2, <1>3, <1>4, CleanKept
<1>6. PICK s, space : s = c.s /\ space = c.space
  OBVIOUS
<1>7. s \in Queues(Vals) /\ space \in Nat /\ free_space \in Nat
  <2>1. s \in Queues(Vals) /\ space \in Nat
    <3>1. Sound(Vals, s, space, base, S, Counts, m_head, held)
      BY <1>5, <1>6
    <3> QED BY <1>2, <3>1, SoundFacts
  <2>2. free_space \in Nat
    BY <1>2, <1>4, SoundFacts
  <2> QED BY <2>1, <2>2
<1>8. PICK placed : placed = Placed(s, space, special, size)
  OBVIOUS
<1>9. pushed = push_message(c, placed, val)
  <2>1. pushed = PushOnto(c, special, val, size)
    BY <1>1 DEF Pushing, do_push, CleanedTo
  <2> QED BY <1>6, <1>8, <2>1 DEF PushOnto
<1>10. placed.parts \in Seq(FreeParts(s)) /\ placed.rest \in Nat /\ placed.regions \in Nat
  <2>1. Divided(s, space, special, Placed(s, space, special, size))
    <3>1. size \in Nat
      OBVIOUS
    <3> QED BY <1>3, <1>7, <3>1, PlacedDivides
  <2> QED BY <1>8, <2>1 DEF Divided
<1>11. CASE placed.rest > 0
  <2>1. RefusedTo(c, placed, pushed)
    BY <1>9, <1>11 DEF push_message, RefusedTo
  <2>2. InFreeSpace(c, placed)
    BY <1>6, <1>10 DEF InFreeSpace
  <2>3. /\ Sound(Vals, pushed.q, pushed.space, base, S, Counts, m_head, held)
        /\ pushed.space = c.space
    <3>1. InOrder(Vals, c, base, S, Counts, m_head, held)
      BY <1>5 DEF InOrder
    <3> QED BY ONLY <2>1, <2>2, <3>1, RefusedKept
  <2>4. pushed.ok = FALSE
    BY <2>1 DEF RefusedTo, PushRefused
  <2>5. Bounces(pushed, held)
    BY <1>2, <1>5, <2>3 DEF Bounces, S
  <2>6. ~(special /\ Base = Capacity /\ free_space >= 2 * static_size(1))
    <3> SUFFICES ASSUME special, Base = Capacity, free_space >= 2 * static_size(1)
                 PROVE  FALSE
      OBVIOUS
    <3>1. Sound(Vals, s, space, Capacity, S, Counts, m_head, held) /\ space >= free_space
      BY <1>2, <1>5, <1>6
    <3>2. space >= 2 * static_size(1)
      <4>1. static_size(1) \in Nat
        BY RingAssumption DEF static_size
      <4> QED BY <1>7, <3>1, <4>1
    <3>3. \A sp \in BOOLEAN, n \in Nat \ {0} :
              (sp /\ n <= 1) => Placed(s, space, sp, n).rest = 0
      BY <1>3, <3>1, <3>2, CapacityTwo, RoomForOne
    <3>4. placed.rest = 0
      BY <1>8, <3>3
    <3> QED BY <1>11, <3>4
  <2> QED BY <2>4, <2>5, <2>6
<1>12. CASE ~(placed.rest > 0)
  <2>1. PushedTo(c, placed, val, pushed) /\ placed.rest = 0
    BY <1>9, <1>10, <1>12 DEF push_message, PushedTo
  <2>2. pushed.ok = TRUE /\ pushed.regions = placed.regions
    BY <2>1 DEF PushedTo, PushStored
  <2>3. special \/ placed.regions <= 2
    BY <1>10, <2>2 DEF Torn
  <2>4. /\ placed.parts = MessageParts(s, size) /\ placed.parts # <<>>
        /\ Limited(space, special) =>
              \/ \E a : placed.parts = <<a>> /\ static_size(a.cap) <= Above(space)
              \/ \E a, b : /\ placed.parts = <<a, b>>
                           /\ static_size(a.cap) + static_size(b.cap) <= Above(space)
    BY <1>3, <1>7, <1>8, <2>1, <2>3, CapacityTwo, PlacedParts
  <2>5. PICK chunks : /\ chunks = MessageChunks(placed.parts, val, 0, subscriptions)
                      /\ chunks = pushed.chunks
    BY <2>1 DEF PushedTo, PushStored
  <2>6. /\ pushed.q \in Queues(Vals) /\ InRing(pushed.q.mem)
        /\ Unpack(pushed.chunks) = [val |-> val, size |-> size, ts |-> 0]
        /\ pushed.chunks[1].val = val
        /\ total_size(pushed.chunks) \in Nat
        /\ base = Capacity => pushed.space = c.space - total_size(pushed.chunks)
        /\ \E descs, off, J :
              /\ Kept(pushed.q, descs, off, J, S, lags2, m_head, held)
              /\ pushed.space = FreeOf(base, J[pushed.q.count])
              /\ descs[pushed.q.count].chunks = pushed.chunks
    <3>1. Suffices(c, placed, size)
      BY <1>6, <2>4 DEF Suffices
    <3>2. /\ base \in {0, Capacity} /\ S \subseteq Readers
          /\ InOrder(Vals, c, base, S, Counts, m_head, held)
          /\ subscriptions = Cardinality(S) /\ size \in Nat \ {0} /\ val \in Vals
          /\ \A h \in S : lags2[h] = Counts[h] + 1
      BY <1>2, <1>3, <1>4, <1>5 DEF InOrder
    <3> QED BY ONLY <2>1, <3>1, <3>2, StoreKept
  <2>7. Lands(pushed, lags2, held, val, size)
    BY <1>2, <2>6 DEF Lands, S
  <2>8. Spends(special, pushed)
    <3> SUFFICES ASSUME Base = Capacity
                 PROVE  /\ special => pushed.space >= free_space - static_size(1)
                        /\ (~special /\ free_space >= reserved_space(subscriptions))
                              => pushed.space >= reserved_space(subscriptions)
      BY DEF Spends
    <3>1. PICK t : t = total_size(chunks)
      OBVIOUS
    <3>2. t \in Nat /\ pushed.space = space - t /\ space >= free_space
      BY <1>2, <1>5, <1>6, <2>5, <2>6, <3>1
    <3>3. placed.parts \in Seq(FreeParts(s))
      BY <1>10
    <3>4. /\ \A a : placed.parts = <<a>> => a.cap \in Nat
          /\ \A a, b : placed.parts = <<a, b>> => a.cap \in Nat /\ b.cap \in Nat
      <4>1. \A i \in DOMAIN placed.parts : placed.parts[i] \in FreeParts(s)
        BY <3>3
      <4>2. \A p \in FreeParts(s) : p.cap \in Nat
        BY DEF FreeParts
      <4>3. ASSUME NEW a, placed.parts = <<a>> PROVE a.cap \in Nat
        <5>1. 1 \in DOMAIN placed.parts /\ placed.parts[1] = a
          BY <4>3
        <5> QED BY <4>1, <4>2, <5>1
      <4>4. ASSUME NEW a, NEW b, placed.parts = <<a, b>> PROVE a.cap \in Nat /\ b.cap \in Nat
        <5>1. /\ 1 \in DOMAIN placed.parts /\ placed.parts[1] = a
              /\ 2 \in DOMAIN placed.parts /\ placed.parts[2] = b
          BY <4>4
        <5> QED BY <4>1, <4>2, <5>1
      <4> QED BY <4>3, <4>4
    <3>5. /\ \A a : (placed.parts = <<a>> /\ a.cap \in Nat) => t = static_size(a.cap)
          /\ \A a, b : (placed.parts = <<a, b>> /\ a.cap \in Nat /\ b.cap \in Nat)
                          => t = static_size(a.cap) + static_size(b.cap)
      <4>1. chunks = MessageChunks(placed.parts, val, 0, subscriptions)
        BY <2>5
      <4>2. /\ \A a : (placed.parts = <<a>> /\ a.cap \in Nat)
                          => total_size(chunks) = static_size(a.cap)
            /\ \A a, b : (placed.parts = <<a, b>> /\ a.cap \in Nat /\ b.cap \in Nat)
                          => total_size(chunks) = static_size(a.cap) + static_size(b.cap)
        BY ONLY <4>1, ChunksWeigh
      <4> QED BY <3>1, <4>2
    <3>6. special => t = static_size(1)
      <4> SUFFICES ASSUME special PROVE t = static_size(1)
        OBVIOUS
      <4>1. size = 1
        OBVIOUS
      <4>2. \E pos : placed.parts = <<[pos |-> pos, cap |-> size]>>
        <5>1. \A n : n \in 1 .. size - 1 => FALSE
          BY <4>1
        <5> QED BY <1>7, <2>4, <5>1, PartsShape
      <4>3. PICK a : placed.parts = <<a>> /\ a.cap = size
        BY <4>2
      <4> QED BY <3>5, <4>1, <4>3
    <3>7. ASSUME ~special, free_space >= reserved_space(subscriptions)
          PROVE  t <= space - reserved_space(subscriptions)
                 /\ reserved_space(subscriptions) \in Nat
      <4>1. reserved_space(subscriptions) \in Nat
        <5>1. static_size(1) \in Nat
          BY RingAssumption DEF static_size
        <5> QED BY <1>3, <5>1 DEF reserved_space
      <4>2. Limited(space, special)
        BY <1>7, <3>2, <3>7, <4>1 DEF Limited
      <4>3. t <= Above(space)
        BY <2>4, <3>4, <3>5, <4>2
      <4> QED BY <4>1, <4>3 DEF Above
    <3>8. PICK r : r = reserved_space(subscriptions)
      OBVIOUS
    <3>9. (~special /\ free_space >= r) => t <= space - r /\ r \in Nat
      BY <3>7, <3>8
    <3>10. special => pushed.space >= free_space - static_size(1)
      <4>1. static_size(1) \in Nat
        BY RingAssumption DEF static_size
      <4> QED BY <1>7, <3>2, <3>6, <4>1
    <3>11. (~special /\ free_space >= r) => pushed.space >= r
      BY <1>7, <3>2, <3>9
    <3> QED BY <3>8, <3>10, <3>11
  <2> QED BY <2>2, <2>7, <2>8
<1>13. placed.rest > 0 \/ ~(placed.rest > 0)
  OBVIOUS
<1> QED BY <1>11, <1>12, <1>13
-----------------------------------------------------------------------------
(* The invariant.  What a handle holds between get and pop is the first    *)
(* message it has to read; a handle that is booked has still to read its   *)
(* BOOK messages and the creator's CONNECT.                                *)
Holding == [h \in Readers |-> IF m_message_desc[h].ok THEN <<m_message_desc[h]>> ELSE <<>>]

(* The inductive invariant: the queue is sound for the subscribers, their  *)
(* counts, heads and the messages they have at hand; that two service      *)
(* messages per subscriber are left and nobody spins is part of it, since  *)
(* each step needs the reserve of the step before.                         *)
ReserveIsKept == squeezed \/ free_space >= reserved_space(subscriptions)

NoSpinner ==
    squeezed \/ \A h \in Readers : stage[h] \notin {"joining", "leaving"}

SmartInv ==
    /\ Sound(Vals, q, free_space, Base, Subscribers, Counts, m_head, Holding)
    /\ SmartTypeOK
    /\ counter \in 0 .. Word - 1 /\ m_counter \in [Readers -> 0 .. Word - 1]
    /\ m_message_desc = [h \in Readers |-> m_message_desc[h]]
    /\ \A h \in Readers : m_message_desc[h].ok => stage[h] \in {"open", "leaving"}
    /\ \A h \in Readers : stage[h] = "booked" => count(h) >= Cardinality(Booked) + 1
    /\ child \in BOOLEAN /\ squeezed \in BOOLEAN /\ (child => squeezed)
    /\ ReserveIsKept /\ NoSpinner

(* The facts of the invariant that most steps need.                        *)
LEMMA SmartFacts ==
    ASSUME SmartInv
    PROVE  /\ Subscribers \subseteq Readers /\ subscriptions = Cardinality(Subscribers)
           /\ subscriptions \in Nat /\ IsFiniteSet(Subscribers)
           /\ q \in Queues(Vals) /\ InRing(q.mem) /\ q.count \in Nat /\ q.count < Word - 1
           /\ \A g \in Subscribers : count(g) \in 0 .. q.count /\ Counts[g] = count(g)
           /\ free_space \in Nat /\ Base \in {0, Capacity} /\ (~child => Base = Capacity)
           /\ Word \in Nat \ {0}
<1>1. Base \in {0, Capacity} /\ (~child => Base = Capacity)
  BY DEF Base
<1>2. Subscribers \subseteq Readers
  BY DEF Subscribers
<1>3. Cardinality(Subscribers) \in Nat /\ IsFiniteSet(Subscribers)
  BY <1>2, ReadersFinite
<1>4. PICK base : base = Base
  OBVIOUS
<1>5. /\ q \in Queues(Vals) /\ InRing(q.mem) /\ q.count \in Nat /\ q.count < Word - 1
      /\ free_space \in Nat
      /\ \A h \in Subscribers : Counts[h] \in 0 .. q.count
  <2>1. Sound(Vals, q, free_space, base, Subscribers, Counts, m_head, Holding)
        /\ base \in {0, Capacity}
    BY <1>1, <1>4 DEF SmartInv
  <2> QED BY <2>1, SoundFacts
<1>6. \A g \in Subscribers : Counts[g] = count(g)
  BY <1>2 DEF Counts
<1> QED BY <1>1, <1>2, <1>3, <1>5, <1>6, SharedQueueAssumption DEF SmartInv, SmartTypeOK

(* empty() is false within a push of the destructor or of a member.        *)
LEMMA NeverEmpty ==
    ASSUME SmartInv, NEW h \in Subscribers
    PROVE  ((count(h) + 1) % Word = 0) = FALSE
<1>1. count(h) \in Nat /\ count(h) + 1 < Word /\ Word \in Nat \ {0}
  BY SmartFacts
<1>2. \A a \in Int : (0 <= a /\ a < Word) => a % Word = a
  BY ModWrap
<1>3. (count(h) + 1) % Word = count(h) + 1
  BY <1>1, <1>2
<1>4. ~((count(h) + 1) % Word = 0)
  BY <1>1, <1>3
<1> QED BY <1>4

(* A message more for everybody who has not moved.                         *)
LEMMA OneMoreToRead ==
    ASSUME SmartInv, counter' = (counter + 1) % Word,
           NEW g \in Subscribers, m_counter'[g] = m_counter[g]
    PROVE  counter' \in 0 .. Word - 1 /\ count(g)' = count(g) + 1
<1>1. /\ counter \in 0 .. Word - 1 /\ m_counter[g] \in 0 .. Word - 1
      /\ count(g) \in Nat /\ count(g) + 1 < Word
  BY SmartFacts DEF SmartInv
<1>2. PICK n : n = count(g)
  OBVIOUS
<1>3. PICK a, b : a = counter /\ b = m_counter[g]
  OBVIOUS
<1>4. /\ a \in 0 .. Word - 1 /\ b \in 0 .. Word - 1 /\ n \in Nat /\ (a - b) % Word = n
      /\ n + 1 < Word
  BY <1>1, <1>2, <1>3 DEF count
<1>5. (a + 1) % Word \in 0 .. Word - 1 /\ (((a + 1) % Word) - b) % Word = n + 1
  BY <1>4, CountUp
<1> QED BY <1>2, <1>3, <1>5 DEF count

-----------------------------------------------------------------------------

(* What the push of a service message by a handle makes of the queue.      *)
LEMMA ServicePush ==
    ASSUME NEW held, Sound(Vals, q, free_space, Base, Subscribers, Counts, m_head, held),
           subscriptions = Cardinality(Subscribers),
           NEW h \in Readers, NEW code \in Codes, NEW pushed,
           pushed = do_push(FALSE, TRUE, Val(h, code), 1),
           NEW lags2, \A g \in Subscribers : lags2[g] = Counts[g] + 1
    PROVE  /\ pushed.ok \in BOOLEAN
           /\ ~pushed.ok => Bounces(pushed, held)
           /\ pushed.ok => /\ Lands(pushed, lags2, held, Val(h, code), 1)
                           /\ Base = Capacity => pushed.space >= free_space - static_size(1)
           /\ (Base = Capacity /\ free_space >= 2 * static_size(1)) => pushed.ok
<1>1. Val(h, code) \in Vals
  BY DEF Vals, Val
<1>2. PICK val \in Vals : val = Val(h, code)
  BY <1>1
<1>3. PICK special \in BOOLEAN : special = TRUE
  OBVIOUS
<1>4. PICK size \in Nat \ {0} : size = 1
  OBVIOUS
<1>5. Pushing(special, val, size, pushed)
  BY <1>2, <1>3, <1>4 DEF Pushing
<1>6. /\ Sound(Vals, q, free_space, Base, Subscribers, Counts, m_head, held)
      /\ subscriptions = Cardinality(Subscribers)
      /\ \A g \in Subscribers : lags2[g] = Counts[g] + 1
      /\ special => size <= 1
      /\ special \/ ~Torn(pushed)
      /\ special \in BOOLEAN /\ val \in Vals /\ size \in Nat \ {0}
  BY <1>3, <1>4
<1>7. /\ pushed.ok \in BOOLEAN
      /\ ~pushed.ok => Bounces(pushed, held)
      /\ pushed.ok => Lands(pushed, lags2, held, val, size) /\ Spends(special, pushed)
      /\ (special /\ Base = Capacity /\ free_space >= 2 * static_size(1)) => pushed.ok
  BY ONLY <1>5, <1>6, PushOutcome
<1>8. Spends(special, pushed)
         => (Base = Capacity => pushed.space >= free_space - static_size(1))
  BY <1>3 DEF Spends
<1> QED BY <1>2, <1>3, <1>4, <1>7, <1>8

(* The fields of the queue after a step that leaves it in order.           *)
LEMMA NextFacts ==
    ASSUME NEW held,
           Sound(Vals, q', free_space', Base', Subscribers', Counts', m_head', held)
    PROVE  /\ q'.head \in Positions /\ q'.tail \in Positions
           /\ free_space' \in 0 .. Space - 1 /\ free_space' \in Int
<1>1. PICK s, space, base, members, lags, heads :
          /\ s = q' /\ space = free_space' /\ base = Base' /\ members = Subscribers'
          /\ lags = Counts' /\ heads = m_head'
  OBVIOUS
<1>2. base \in {0, Capacity}
  <2>1. Base' \in {0, Capacity}
    BY DEF Base
  <2> QED BY <1>1, <2>1
<1>3. Sound(Vals, s, space, base, members, lags, heads, held)
  BY <1>1
<1>4. s.head \in Positions /\ s.tail \in Positions /\ space \in 0 .. Space - 1 /\ space \in Nat
  BY ONLY <1>2, <1>3, SoundFacts
<1> QED BY <1>1, <1>4

(* A handle joins: nobody has to pop its CONNECT, and it starts behind it. *)
LEMMA JoinStep ==
    ASSUME SmartInv, NEW h \in Readers, Join(h)
    PROVE  SmartInv'
<1>1. PICK pushed : /\ pushed = do_push(FALSE, TRUE, Val(h, "CONNECT"), 1)
                    /\ pushed.ok /\ Stored(pushed)
                    /\ q' = pushed.q /\ subscriptions' = subscriptions + 1
                    /\ stage' = [stage EXCEPT ![h] = "open"]
                    /\ m_head' = [m_head EXCEPT ![h] = JoinedHead(pushed)]
                    /\ m_counter' = [m_counter EXCEPT ![h] = counter']
                    /\ squeezed' = (squeezed \/ pushed.space < reserved_space(subscriptions + 1))
                    /\ UNCHANGED <<m_message_desc, inbox, abandoned, child>>
                    /\ stage[h] \in {"closed", "joining"} /\ Unlocked(h)
  BY DEF Join, Enter
<1>2. /\ free_space' = pushed.space /\ counter' = (counter + 1) % Word
      /\ UNCHANGED <<m_message_desc, child>>
  BY <1>1 DEF Stored
<1> DEFINE S == Subscribers
<1>3. /\ S \subseteq Readers /\ subscriptions = Cardinality(S) /\ subscriptions \in Nat
      /\ IsFiniteSet(S) /\ Base \in {0, Capacity} /\ (~child => Base = Capacity)
      /\ \A g \in S : count(g) \in 0 .. q.count
      /\ Sound(Vals, q, free_space, Base, S, Counts, m_head, Holding)
  BY SmartFacts DEF SmartInv
<1>4. h \notin S /\ Subscribers' = S \cup {h}
  BY <1>1, <1>3 DEF Subscribers, SmartInv, SmartTypeOK
<1>5. ~m_message_desc[h].ok
  BY <1>1 DEF SmartInv
<1>6. PICK lags2 : lags2 = [g \in Readers |-> count(g) + 1]
  OBVIOUS
<1>7. Lands(pushed, lags2, Holding, Val(h, "CONNECT"), 1)
  <2>1. \A g \in S : lags2[g] = Counts[g] + 1
    BY <1>3, <1>6 DEF Counts
  <2>2. PICK code \in Codes : code = "CONNECT"
    BY DEF Codes
  <2>3. /\ Sound(Vals, q, free_space, Base, Subscribers, Counts, m_head, Holding)
        /\ subscriptions = Cardinality(Subscribers)
        /\ pushed = do_push(FALSE, TRUE, Val(h, code), 1)
        /\ \A g \in Subscribers : lags2[g] = Counts[g] + 1
        /\ h \in Readers /\ code \in Codes
    BY <1>1, <1>3, <2>1, <2>2
  <2>4. pushed.ok => Lands(pushed, lags2, Holding, Val(h, code), 1)
    BY ONLY <2>3, ServicePush
  <2> QED BY <1>1, <2>2, <2>4
<1>8. counter' \in 0 .. Word - 1 /\ m_counter' \in [Readers -> 0 .. Word - 1]
  <2>1. counter' \in 0 .. Word - 1
    <3>1. counter + 1 \in Int /\ Word \in Nat \ {0}
      BY SharedQueueAssumption DEF SmartInv
    <3> QED BY <1>2, <3>1
  <2> QED BY <1>1, <2>1 DEF SmartInv
<1>9. ASSUME NEW g \in S PROVE count(g)' = count(g) + 1 /\ g # h
  <2>1. g # h /\ m_counter'[g] = m_counter[g]
    BY <1>1, <1>3, <1>4 DEF SmartInv
  <2> QED BY <1>2, <2>1, OneMoreToRead
<1>10. count(h)' = 0
  <2>1. PICK c : c = counter' /\ m_counter'[h] = c
    BY <1>1 DEF SmartInv
  <2>2. c \in Int /\ Word \in Nat \ {0}
    BY <1>8, <2>1, SharedQueueAssumption
  <2>3. (c - c) % Word = 0
    <3>1. c - c = 0 /\ 0 < Word
      BY <2>2
    <3>2. \A a \in Int : (0 <= a /\ a < Word) => a % Word = a
      BY ModWrap
    <3>3. 0 % Word = 0
      BY <2>2, <3>1, <3>2
    <3> QED BY <3>1, <3>3
  <2> QED BY <2>1, <2>3 DEF count
<1>11. PICK descs, off, J :
          /\ Kept(pushed.q, descs, off, J, S, lags2, m_head, Holding)
          /\ pushed.space = FreeOf(Base, J[pushed.q.count])
          /\ pushed.q \in Queues(Vals) /\ InRing(pushed.q.mem)
  BY <1>7 DEF Lands
<1>12. More(h, pushed.q.tail, S, lags2, m_head, Holding, Counts', m_head', Holding')
  <2>1. /\ Counts'[h] = 0 /\ m_head'[h] = pushed.q.tail
        /\ DOMAIN Holding'[h] = {}
    <3>1. m_head'[h] = pushed.q.tail
      BY <1>1 DEF SmartInv, SmartTypeOK, JoinedHead
    <3>2. Holding'[h] = <<>>
      BY <1>2, <1>5 DEF Holding
    <3>3. DOMAIN <<>> = {}
      OBVIOUS
    <3> QED BY <1>10, <3>1, <3>2, <3>3 DEF Counts
  <2>2. \A g \in S : Counts'[g] = lags2[g] /\ m_head'[g] = m_head[g] /\ Holding'[g] = Holding[g]
    BY <1>1, <1>2, <1>3, <1>6, <1>9 DEF Counts, SmartInv, SmartTypeOK, Holding
  <2> QED BY <1>4, <2>1, <2>2 DEF More
<1>13. Kept(pushed.q, descs, off, J, S \cup {h}, Counts', m_head', Holding')
  <2>1. PICK s : s = pushed.q
    OBVIOUS
  <2>2. /\ s \in Queues(Vals) /\ Kept(s, descs, off, J, S, lags2, m_head, Holding)
        /\ More(h, s.tail, S, lags2, m_head, Holding, Counts', m_head', Holding')
    BY <1>11, <1>12, <2>1
  <2>3. Kept(s, descs, off, J, S \cup {h}, Counts', m_head', Holding')
    BY ONLY <2>2, JoinKept
  <2> QED BY <2>1, <2>3
<1>14. Base' = Base
  BY <1>2 DEF Base
<1>15. Sound(Vals, q', free_space', Base', Subscribers', Counts', m_head', Holding')
  <2>1. /\ Kept(q', descs, off, J, Subscribers', Counts', m_head', Holding')
        /\ free_space' = FreeOf(Base', J[q'.count])
        /\ q' \in Queues(Vals) /\ InRing(q'.mem)
    BY <1>1, <1>2, <1>4, <1>11, <1>13, <1>14
  <2> QED BY ONLY <2>1 DEF Sound
<1>21. /\ q'.head \in Positions /\ q'.tail \in Positions
       /\ free_space' \in 0 .. Space - 1 /\ free_space' \in Int
  <2>1. PICK held : held = Holding'
    OBVIOUS
  <2>2. Sound(Vals, q', free_space', Base', Subscribers', Counts', m_head', held)
    BY <1>15, <2>1
  <2> QED BY <2>2, NextFacts
<1>16. SmartTypeOK'
  <2>3. subscriptions' = Cardinality(Subscribers')
    <3>1. Cardinality(S \cup {h}) = Cardinality(S) + 1
      BY <1>3, <1>4, FS_AddElement
    <3> QED BY <1>1, <1>3, <1>4, <3>1
  <2>4. /\ stage' \in [Readers -> {"closed", "joining", "booked", "open", "leaving"}]
        /\ m_head' \in [Readers -> Positions \cup {NoPos}]
    <3>1. JoinedHead(pushed) \in Positions
      BY <1>1, <1>21 DEF JoinedHead
    <3> QED BY <1>1, <3>1 DEF SmartInv, SmartTypeOK
  <2> QED BY <1>21, <2>3, <2>4 DEF SmartTypeOK
<1>17. /\ m_message_desc' = [g \in Readers |-> m_message_desc'[g]]
       /\ \A g \in Readers : m_message_desc'[g].ok => stage'[g] \in {"open", "leaving"}
  BY <1>1, <1>2 DEF SmartInv, SmartTypeOK
<1>18. ASSUME NEW g \in Readers, stage'[g] = "booked"
       PROVE  count(g)' >= Cardinality(Booked) + 1
  <2>1. g \in S /\ stage[g] = "booked"
    BY <1>1, <1>18 DEF SmartInv, SmartTypeOK, Subscribers
  <2>2. count(g) >= Cardinality(Booked) + 1 /\ count(g) \in Nat
    BY <1>3, <2>1, SmartFacts DEF SmartInv
  <2>3. Cardinality(Booked) \in Nat
    <3>1. Booked \subseteq Readers
      BY SmartAssumption
    <3> QED BY <3>1, ReadersFinite
  <2> QED BY <1>9, <2>1, <2>2, <2>3
<1>19. child' \in BOOLEAN /\ squeezed' \in BOOLEAN /\ (child' => squeezed')
  <2> DEFINE Less == pushed.space < reserved_space(subscriptions + 1)
  <2>1. squeezed' = (squeezed \/ Less) /\ child' = child
    BY <1>1, <1>2
  <2> HIDE DEF Less
  <2>2. child \in BOOLEAN /\ squeezed \in BOOLEAN /\ (child => squeezed)
    BY DEF SmartInv
  <2>3. squeezed => squeezed'
    BY <2>1, Zenon
  <2>4. squeezed' \in BOOLEAN
    BY <2>1, <2>2, Zenon
  <2> QED BY <2>1, <2>2, <2>3, <2>4, Zenon
<1>20. ReserveIsKept' /\ NoSpinner'
  <2>1. squeezed' \/ free_space' >= reserved_space(subscriptions')
    <3>1. free_space' \in Int
      BY <1>21
    <3>2. reserved_space(subscriptions + 1) \in Int
      <4>1. static_size(1) \in Nat
        BY RingAssumption DEF static_size
      <4> QED BY <1>3, <4>1 DEF reserved_space
    <3>3. PICK a, b : a = free_space' /\ b = reserved_space(subscriptions + 1)
      OBVIOUS
    <3>4. subscriptions' = subscriptions + 1 /\ a = pushed.space
      BY <1>1, <1>2, <3>3
    <3>5. a \in Int /\ b \in Int
      BY <3>1, <3>2, <3>3
    <3>6. squeezed' = (squeezed \/ a < b)
      BY <1>1, <3>3, <3>4
    <3>7. a < b \/ a >= b
      BY <3>5
    <3>8. squeezed' \/ a >= b
      BY <3>6, <3>7, Zenon
    <3> QED BY <3>3, <3>4, <3>8
  <2>2. NoSpinner'
    BY <1>1 DEF SmartInv, NoSpinner, SmartTypeOK
  <2> QED BY <2>1, <2>2 DEF ReserveIsKept
<1> QED BY <1>8, <1>15, <1>16, <1>17, <1>18, <1>19, <1>20 DEF SmartInv
-----------------------------------------------------------------------------
(* A refused push has only collected garbage.                              *)
LEMMA BounceKept ==
    ASSUME SmartInv, NEW pushed, Bounces(pushed, Holding), Refused(pushed),
           Subscribers' = Subscribers, NoSpinner',
           stage' \in [Readers -> {"closed", "joining", "booked", "open", "leaving"}],
           \A g \in Readers : stage'[g] = "booked" => stage[g] = "booked",
           \A g \in Readers : stage[g] \in {"open", "leaving"}
                                 => stage'[g] \in {"open", "leaving"}
    PROVE  SmartInv'
<1>1. /\ q' = pushed.q /\ free_space' = pushed.space
      /\ UNCHANGED <<counter, subscriptions, m_head, m_counter, m_message_desc,
                     child, squeezed>>
  BY DEF Refused
<1>2. Base' = Base /\ Counts' = Counts /\ Holding' = Holding
      /\ \A g \in Readers : count(g)' = count(g)
  BY <1>1 DEF Base, Counts, Holding, count
<1>3. /\ Sound(Vals, pushed.q, pushed.space, Base, Subscribers, Counts, m_head, Holding)
      /\ Base = Capacity => pushed.space >= free_space
  BY DEF Bounces
<1>4. Sound(Vals, q', free_space', Base', Subscribers', Counts', m_head', Holding')
  BY <1>1, <1>2, <1>3
<1>5. /\ q'.head \in Positions /\ q'.tail \in Positions
      /\ free_space' \in 0 .. Space - 1 /\ free_space' \in Int
  <2>1. PICK held : held = Holding'
    OBVIOUS
  <2>2. Sound(Vals, q', free_space', Base', Subscribers', Counts', m_head', held)
    BY <1>4, <2>1
  <2> QED BY <2>2, NextFacts
<1>6. SmartTypeOK'
  BY <1>1, <1>5 DEF SmartTypeOK, SmartInv
<1>7. ReserveIsKept'
  <2>1. CASE squeezed
    BY <1>1, <2>1 DEF ReserveIsKept
  <2>2. CASE ~squeezed
    <3>1. Base = Capacity
      BY <2>2 DEF SmartInv, Base
    <3>2. free_space >= reserved_space(subscriptions) /\ free_space' >= free_space
      BY <1>1, <1>3, <2>2, <3>1 DEF SmartInv, ReserveIsKept
    <3>3. reserved_space(subscriptions)' = reserved_space(subscriptions)
      BY <1>1
    <3>4. PICK r : r = reserved_space(subscriptions)
      OBVIOUS
    <3>5. r \in Int /\ free_space \in Int
      <4>1. static_size(1) \in Nat /\ subscriptions \in Nat
        BY RingAssumption, SmartFacts DEF static_size
      <4> QED BY <3>4, <4>1, SmartFacts DEF reserved_space
    <3>6. free_space' >= r
      BY <1>5, <3>2, <3>4, <3>5
    <3> QED BY <3>3, <3>4, <3>6 DEF ReserveIsKept
  <2> QED BY <2>1, <2>2
<1>8. /\ counter' \in 0 .. Word - 1 /\ m_counter' \in [Readers -> 0 .. Word - 1]
      /\ m_message_desc' = [g \in Readers |-> m_message_desc'[g]]
      /\ \A g \in Readers : m_message_desc'[g].ok => stage'[g] \in {"open", "leaving"}
      /\ child' \in BOOLEAN /\ squeezed' \in BOOLEAN /\ (child' => squeezed')
  BY <1>1 DEF SmartInv
<1>9. \A g \in Readers : stage'[g] = "booked" => count(g)' >= Cardinality(Booked) + 1
  BY <1>2 DEF SmartInv
<1> QED BY <1>4, <1>6, <1>7, <1>8, <1>9 DEF SmartInv

(* While the reserve is there, a service message fits.                     *)
LEMMA RoomForService ==
    ASSUME SmartInv, ~squeezed, subscriptions > 0
    PROVE  Base = Capacity /\ free_space >= 2 * static_size(1)
<1>1. Base = Capacity /\ free_space >= reserved_space(subscriptions)
  BY DEF SmartInv, Base, ReserveIsKept
<1>2. PICK z, n : z = static_size(1) /\ n = subscriptions
  OBVIOUS
<1>3. z \in Nat /\ n \in Nat /\ n >= 1 /\ free_space \in Nat
  BY <1>2, SmartFacts, RingAssumption DEF static_size
<1>4. free_space >= 2 * z * n
  BY <1>1, <1>2 DEF reserved_space
<1>5. 2 * z * n >= 2 * z
  <2>1. 2 * z * n = 2 * z + 2 * z * (n - 1)
    BY <1>3
  <2>2. 2 * z * (n - 1) >= 0
    <3>1. 2 * z \in Nat /\ n - 1 \in Nat
      BY <1>3
    <3> QED BY <3>1
  <2> QED BY <1>3, <2>1, <2>2
<1> QED BY <1>1, <1>2, <1>3, <1>4, <1>5

(* The push of a service message, with what its handles hold.              *)
LEMMA ServiceBounces ==
    ASSUME SmartInv, NEW h \in Readers, NEW code \in Codes, subscriptions > 0,
           NEW pushed, pushed = do_push(FALSE, TRUE, Val(h, code), 1), ~pushed.ok
    PROVE  Bounces(pushed, Holding) /\ squeezed
<1>1. PICK lags2 : lags2 = [g \in Readers |-> Counts[g] + 1]
  OBVIOUS
<1>2. PICK held : held = Holding
  OBVIOUS
<1>3. /\ Sound(Vals, q, free_space, Base, Subscribers, Counts, m_head, held)
      /\ subscriptions = Cardinality(Subscribers)
      /\ pushed = do_push(FALSE, TRUE, Val(h, code), 1)
      /\ \A g \in Subscribers : lags2[g] = Counts[g] + 1
      /\ h \in Readers /\ code \in Codes
  BY <1>1, <1>2, SmartFacts DEF SmartInv
<1>4. /\ ~pushed.ok => Bounces(pushed, held)
      /\ (Base = Capacity /\ free_space >= 2 * static_size(1)) => pushed.ok
  BY ONLY <1>3, ServicePush
<1> QED BY <1>2, <1>4, RoomForService

(* A constructor whose service message is refused, and which spins, keeps  *)
(* the invariant: with the reserve intact the message is not refused.      *)
LEMMA JoinSpinsStep ==
    ASSUME SmartInv, NEW h \in Readers, JoinSpins(h)
    PROVE  SmartInv'
<1>1. PICK pushed : /\ pushed = do_push(FALSE, TRUE, Val(h, "CONNECT"), 1)
                    /\ ~pushed.ok /\ Refused(pushed)
                    /\ stage' = [stage EXCEPT ![h] = "joining"]
                    /\ stage[h] \in {"closed", "joining"} /\ subscriptions > 0
  BY DEF JoinSpins, Enter
<1>2. Bounces(pushed, Holding) /\ squeezed
  <2>1. PICK code \in Codes : code = "CONNECT"
    BY DEF Codes
  <2>2. pushed = do_push(FALSE, TRUE, Val(h, code), 1)
    BY <1>1, <2>1
  <2> QED BY <1>1, <2>2, ServiceBounces
<1>3. squeezed' = squeezed
  BY <1>1 DEF Refused
<1>4. stage \in [Readers -> {"closed", "joining", "booked", "open", "leaving"}]
  BY DEF SmartInv, SmartTypeOK
<1>5. /\ Subscribers' = Subscribers
      /\ stage' \in [Readers -> {"closed", "joining", "booked", "open", "leaving"}]
      /\ \A g \in Readers : stage'[g] = "booked" => stage[g] = "booked"
      /\ \A g \in Readers : stage[g] \in {"open", "leaving"}
                               => stage'[g] \in {"open", "leaving"}
  BY <1>1, <1>4 DEF Subscribers
<1>6. NoSpinner'
  BY <1>2, <1>3 DEF NoSpinner
<1> QED BY <1>1, <1>2, <1>5, <1>6, BounceKept

(* A destructor whose service message is refused, and which spins, keeps the *)
(* invariant, likewise.                                                    *)
LEMMA LeaveSpinsStep ==
    ASSUME SmartInv, NEW h \in Readers, LeaveSpins(h)
    PROVE  SmartInv'
<1>1. PICK pushed : /\ pushed = LeavePush(h)
                    /\ ~pushed.ok /\ Refused(pushed)
                    /\ stage' = [stage EXCEPT ![h] = "leaving"]
                    /\ stage[h] \in {"open", "leaving"}
  BY DEF LeaveSpins, Enter
<1>2. h \in Subscribers /\ subscriptions > 0
  <2>1. h \in Subscribers
    BY <1>1 DEF Subscribers
  <2>2. Cardinality(Subscribers) # 0
    BY <2>1, SmartFacts, FS_EmptySet
  <2> QED BY <2>1, <2>2, SmartFacts
<1>3. Bounces(pushed, Holding) /\ squeezed
  <2>1. PICK code \in Codes : code = "DISCONNECT"
    BY DEF Codes
  <2>2. pushed = do_push(FALSE, TRUE, Val(h, code), 1)
    BY <1>1, <1>2, <2>1, NeverEmpty DEF LeavePush
  <2> QED BY <1>1, <1>2, <2>2, ServiceBounces
<1>4. squeezed' = squeezed
  BY <1>1 DEF Refused
<1>5. stage \in [Readers -> {"closed", "joining", "booked", "open", "leaving"}]
  BY DEF SmartInv, SmartTypeOK
<1>6. /\ Subscribers' = Subscribers
      /\ stage' \in [Readers -> {"closed", "joining", "booked", "open", "leaving"}]
      /\ \A g \in Readers : stage'[g] = "booked" => stage[g] = "booked"
      /\ \A g \in Readers : stage[g] \in {"open", "leaving"}
                               => stage'[g] \in {"open", "leaving"}
  BY <1>1, <1>5 DEF Subscribers
<1>7. NoSpinner'
  BY <1>3, <1>4 DEF NoSpinner
<1> QED BY <1>1, <1>3, <1>6, <1>7, BounceKept
-----------------------------------------------------------------------------
(* A handle that pops j messages is j messages nearer to the counter.      *)
LEMMA CountBy ==
    ASSUME NEW a \in 0 .. Word - 1, NEW b \in 0 .. Word - 1, NEW n \in Nat,
           (a - b) % Word = n, NEW j \in Nat, j <= n, NEW c, c = (b + j) % Word
    PROVE  c \in 0 .. Word - 1 /\ (a - c) % Word = n - j
<1>1. Word \in Nat /\ Word > 0
  BY SharedQueueAssumption
<1>2. (a - b) % Word = IF b <= a THEN a - b ELSE a - b + Word
  BY <1>1, ModWrap
<1>3. n < Word /\ j < Word
  BY <1>1, <1>2
<1>4. c = IF b + j < Word THEN b + j ELSE b + j - Word
  BY <1>1, <1>3, ModWrap
<1>5. CASE b + j < Word
  <2>1. (a - (b + j)) % Word = IF b + j <= a THEN a - (b + j) ELSE a - (b + j) + Word
    BY <1>1, <1>3, <1>5, ModWrap
  <2> QED BY <1>1, <1>2, <1>3, <1>4, <1>5, <2>1
<1>6. CASE ~(b + j < Word)
  <2>1. b + j - Word <= a /\ a - (b + j - Word) < Word /\ a < b
    BY <1>1, <1>2, <1>3, <1>6
  <2>2. (a - (b + j - Word)) % Word = a - (b + j - Word)
    BY <1>1, <1>6, <2>1, ModWrap
  <2> QED BY <1>1, <1>2, <1>3, <1>4, <1>6, <2>1, <2>2
<1> QED BY <1>5, <1>6

(* The first j messages that a handle holds.                               *)
Firsts(msgs, j, held) ==
    /\ j \in Nat /\ msgs = [i \in 1 .. j |-> held[i]]
    /\ \A i \in 1 .. j : i \in DOMAIN held

(* The first j messages of a handle, as pop_messages walks them.           *)
LEMMA FirstsAre ==
    ASSUME NEW msgs, NEW j, NEW held, Firsts(msgs, j, held)
    PROVE  /\ DOMAIN msgs = 1 .. j /\ Len(msgs) = j
           /\ msgs = <<>> <=> j = 0
           /\ j # 0 => Last(msgs) = held[j]
           /\ \A mem : dec_counters(mem, msgs) = LoweredAt(mem, PoppedAt(held, j))
<1>1. j \in Nat /\ msgs = [i \in 1 .. j |-> held[i]]
  BY DEF Firsts
<1>2. DOMAIN msgs = 1 .. j /\ Len(msgs) = j
  BY <1>1
<1>3. msgs = <<>> <=> j = 0
  BY <1>1, <1>2
<1>4. j # 0 => Last(msgs) = held[j]
  BY <1>1, <1>2 DEF Last
<1>5. ASSUME NEW mem PROVE dec_counters(mem, msgs) = LoweredAt(mem, PoppedAt(held, j))
  <2>1. {msgs[i].chunks[1].pos : i \in DOMAIN msgs} = PoppedAt(held, j)
    BY <1>1, <1>2 DEF PoppedAt
  <2> QED BY <2>1 DEF dec_counters, LoweredAt, Lower
<1> QED BY <1>2, <1>3, <1>4, <1>5

(* The head of a handle of an ordered queue is a place in the ring.        *)
LEMMA HeadsIn ==
    ASSUME NEW V, NEW s, NEW space, NEW base, NEW members, NEW lags, NEW heads, NEW held,
           Sound(V, s, space, base, members, lags, heads, held), NEW h \in members
    PROVE  heads[h] \in Positions \cup {NoPos}
<1>1. PICK descs, off, J : /\ Kept(s, descs, off, J, members, lags, heads, held)
                           /\ s \in Queues(V)
  BY DEF Sound
<1>2. Layout(s, descs, off) /\ Tracked(s, descs, off, lags[h], heads[h], held[h])
      /\ s.head \in Positions /\ s.count \in Nat
  BY <1>1 DEF Kept, Queues
<1>3. CASE heads[h] # NoPos
  <2>1. heads[h] = Byte(s.head, off[s.count - lags[h]]) /\ lags[h] \in 0 .. s.count
    BY <1>2, <1>3 DEF Tracked
  <2>2. PICK k \in 0 .. s.count : k = s.count - lags[h]
    BY <1>2, <2>1
  <2>4. PICK o \in 0 .. Capacity : o = off[k]
    BY <1>2 DEF Layout
  <2>5. Byte(s.head, o) \in Positions
    BY <1>2, ByteInRing
  <2> QED BY <2>1, <2>2, <2>4, <2>5
<1> QED BY <1>3

(* A handle pops the first messages it holds, and may hold the next one.   *)
HoldsNext(desc, j, own) == desc.ok => j + 1 \in DOMAIN own /\ desc = own[j + 1]

(* Whatever pops a handle's first j messages (get, pop and the constructor *)
(* that steps over the service messages) keeps the invariant.              *)
LEMMA PopMoves ==
    ASSUME SmartInv, NEW h \in Subscribers, NEW held,
           Sound(Vals, q, free_space, Base, Subscribers, Counts, m_head, held),
           \A g \in Subscribers \ {h} : held[g] = Holding[g],
           NEW msgs, NEW j, Firsts(msgs, j, held[h]), j <= count(h),
           q' = [q EXCEPT !.mem = dec_counters(@, msgs)], Advance(h, msgs),
           UNCHANGED <<counter, subscriptions, free_space, child, squeezed>>,
           stage' = [stage EXCEPT ![h] = "open"],
           NEW desc, m_message_desc' = [m_message_desc EXCEPT ![h] = desc],
           HoldsNext(desc, j, held[h])
    PROVE  SmartInv'
<1>0. desc.ok => j + 1 \in DOMAIN held[h] /\ desc = held[h][j + 1]
  BY DEF HoldsNext
<1>1. PICK descs, off, J : /\ Kept(q, descs, off, J, Subscribers, Counts, m_head, held)
                           /\ free_space = FreeOf(Base, J[q.count])
                           /\ q \in Queues(Vals) /\ InRing(q.mem)
  <2>1. PICK s, space, base, members, lags, heads, V :
           /\ s = q /\ space = free_space /\ base = Base /\ members = Subscribers
           /\ lags = Counts /\ heads = m_head /\ V = Vals
    OBVIOUS
  <2>2. Sound(V, s, space, base, members, lags, heads, held)
    BY <2>1
  <2>3. PICK descs, off, J : /\ Kept(s, descs, off, J, members, lags, heads, held)
                             /\ space = FreeOf(base, J[s.count])
                             /\ s \in Queues(V) /\ InRing(s.mem)
    BY ONLY <2>2 DEF Sound
  <2> QED BY <2>1, <2>3
<1>2. /\ h \in Readers /\ count(h) \in 0 .. q.count /\ q.count \in Nat /\ Counts[h] = count(h)
      /\ Subscribers \subseteq Readers
  BY SmartFacts
<1>3. /\ j \in Nat /\ DOMAIN msgs = 1 .. j /\ Len(msgs) = j
      /\ msgs = <<>> <=> j = 0
      /\ j # 0 => Last(msgs) = held[h][j]
      /\ dec_counters(q.mem, msgs) = LoweredAt(q.mem, PoppedAt(held[h], j))
      /\ \A i \in 1 .. j : i \in DOMAIN held[h]
  <2>1. PICK own : own = held[h]
    OBVIOUS
  <2>2. Firsts(msgs, j, own)
    BY <2>1
  <2>3. /\ DOMAIN msgs = 1 .. j /\ Len(msgs) = j
        /\ msgs = <<>> <=> j = 0
        /\ j # 0 => Last(msgs) = own[j]
        /\ \A mem : dec_counters(mem, msgs) = LoweredAt(mem, PoppedAt(own, j))
    BY <2>2, FirstsAre
  <2> QED BY <2>1, <2>2, <2>3 DEF Firsts
<1>4. /\ counter \in 0 .. Word - 1 /\ m_counter \in [Readers -> 0 .. Word - 1]
      /\ m_head \in [Readers -> Positions \cup {NoPos}]
      /\ stage \in [Readers -> {"closed", "joining", "booked", "open", "leaving"}]
      /\ m_message_desc = [g \in Readers |-> m_message_desc[g]]
  BY DEF SmartInv, SmartTypeOK
<1>5. /\ m_counter'[h] = (m_counter[h] + j) % Word
      /\ \A g \in Readers \ {h} : m_counter'[g] = m_counter[g] /\ m_head'[g] = m_head[g]
      /\ m_head'[h] = IF j = 0 THEN m_head[h] ELSE After(held[h][j])
      /\ m_counter' = [m_counter EXCEPT ![h] = m_counter'[h]]
      /\ m_head' = [m_head EXCEPT ![h] = m_head'[h]]
  <2>1. CASE j = 0
    <3>1. m_head' = m_head /\ m_counter' = m_counter
      BY <1>3, <2>1 DEF Advance
    <3>2. m_counter[h] \in 0 .. Word - 1
      BY <1>2, <1>4
    <3>3. (m_counter[h] + 0) % Word = m_counter[h]
      <4>1. PICK b \in 0 .. Word - 1 : b = m_counter[h]
        BY <3>2
      <4>2. b + 0 = b /\ b % Word = b
        BY ModWord, SharedQueueAssumption
      <4> QED BY <4>1, <4>2
    <3> QED BY <1>2, <1>4, <2>1, <3>1, <3>3
  <2>2. CASE j # 0
    <3>1. /\ m_head' = [m_head EXCEPT ![h] = Last(msgs).next % Capacity]
          /\ m_counter' = [m_counter EXCEPT ![h] = (@ + Len(msgs)) % Word]
      BY <1>3, <2>2 DEF Advance
    <3> QED BY <1>2, <1>3, <1>4, <2>2, <3>1 DEF After
  <2> QED BY <2>1, <2>2
<1>6. m_counter'[h] \in 0 .. Word - 1 /\ count(h)' = count(h) - j
  <2>1. PICK a, b, n, c : a = counter /\ b = m_counter[h] /\ n = count(h) /\ c = m_counter'[h]
    OBVIOUS
  <2>2. /\ a \in 0 .. Word - 1 /\ b \in 0 .. Word - 1 /\ n \in Nat /\ (a - b) % Word = n
        /\ j <= n /\ j \in Nat /\ c = (b + j) % Word
    BY <1>2, <1>3, <1>4, <1>5, <2>1 DEF count
  <2>3. c \in 0 .. Word - 1 /\ (a - c) % Word = n - j
    BY ONLY <2>2, CountBy
  <2> QED BY <2>1, <2>3 DEF count
<1>7. \A g \in Readers \ {h} : count(g)' = count(g)
  BY <1>5 DEF count
<1>8. Holding'[h] = (IF desc.ok THEN <<desc>> ELSE <<>>)
      /\ \A g \in Readers \ {h} : Holding'[g] = Holding[g]
  BY <1>2, <1>4 DEF Holding
<1>9. Pops(h, j, Subscribers, Counts, m_head, held, Counts', m_head', Holding')
  <2>1. /\ Counts'[h] = Counts[h] - j
        /\ m_head'[h] = IF j = 0 THEN m_head[h] ELSE After(held[h][j])
    BY <1>2, <1>5, <1>6 DEF Counts
  <2>2. ASSUME NEW i \in DOMAIN Holding'[h]
        PROVE  /\ i \in Nat \ {0} /\ i + j \in DOMAIN held[h]
               /\ Holding'[h][i] = held[h][i + j]
    <3>1. CASE desc.ok
      <4>1. Holding'[h] = <<desc>>
        BY <1>8, <3>1
      <4>2. i = 1 /\ Holding'[h][i] = desc
        BY <2>2, <4>1
      <4>3. i + j = j + 1
        BY <1>3, <4>2
      <4> QED BY <1>0, <3>1, <4>2, <4>3
    <3>2. CASE ~desc.ok
      <4>1. Holding'[h] = <<>> /\ DOMAIN <<>> = {}
        BY <1>8, <3>2
      <4> QED BY <2>2, <4>1
    <3> QED BY <3>1, <3>2
  <2>3. \A g \in Subscribers \ {h} : /\ Counts'[g] = Counts[g] /\ m_head'[g] = m_head[g]
                                     /\ Holding'[g] = held[g]
    BY <1>2, <1>5, <1>7, <1>8 DEF Counts
  <2> QED BY <2>1, <2>2, <2>3 DEF Pops
<1>10. Sound(Vals, q', free_space', Base', Subscribers', Counts', m_head', Holding')
  <2>1. PICK s, members, lags, heads, lags2, heads2, held2, t :
           /\ s = q /\ members = Subscribers /\ lags = Counts /\ heads = m_head
           /\ lags2 = Counts' /\ heads2 = m_head' /\ held2 = Holding' /\ t = q'
    OBVIOUS
  <2>2. Lowers(s, PoppedAt(held[h], j), t)
    BY <1>3, <2>1 DEF Lowers
  <2>3. /\ members \subseteq Readers /\ h \in members /\ j \in 0 .. lags[h]
        /\ \A i \in 1 .. j : i \in DOMAIN held[h]
        /\ Kept(s, descs, off, J, members, lags, heads, held)
        /\ Pops(h, j, members, lags, heads, held, lags2, heads2, held2)
        /\ s \in Queues(Vals) /\ InRing(s.mem)
    BY <1>1, <1>2, <1>3, <1>9, <2>1
  <2>4. /\ t \in Queues(Vals) /\ InRing(t.mem)
        /\ t.head = s.head /\ t.tail = s.tail /\ t.count = s.count
        /\ Kept(t, LowOnes(s, descs, PoppedOnes(s, lags[h], j)), off, J,
                members, lags2, heads2, held2)
    BY ONLY <2>2, <2>3, PopKept
  <2>5. Base' = Base
    BY DEF Base
  <2>6. Subscribers' = Subscribers
    <3>1. stage[h] \in {"open", "booked", "leaving"} /\ stage'[h] = "open"
      BY <1>2, <1>4 DEF Subscribers
    <3>2. \A g \in Readers : g # h => stage'[g] = stage[g]
      BY <1>4
    <3> QED BY <1>2, <3>1, <3>2 DEF Subscribers
  <2>7. free_space' = FreeOf(Base', J[t.count])
    BY <1>1, <2>1, <2>4, <2>5
  <2>8. Sound(Vals, t, free_space', Base', members, lags2, heads2, held2)
    BY <2>4, <2>7 DEF Sound
  <2> QED BY <2>1, <2>6, <2>8
<1>12. Subscribers' = Subscribers
  <2>1. stage[h] \in {"open", "booked", "leaving"} /\ stage'[h] = "open"
    BY <1>2, <1>4 DEF Subscribers
  <2>2. \A g \in Readers : g # h => stage'[g] = stage[g]
    BY <1>4
  <2> QED BY <1>2, <2>1, <2>2 DEF Subscribers
<1>13. /\ q'.head \in Positions /\ q'.tail \in Positions
       /\ free_space' \in 0 .. Space - 1 /\ free_space' \in Int
  <2>1. PICK held2 : held2 = Holding'
    OBVIOUS
  <2>2. Sound(Vals, q', free_space', Base', Subscribers', Counts', m_head', held2)
    BY <1>10, <2>1
  <2> QED BY <2>2, NextFacts
<1>14. m_head'[h] \in Positions \cup {NoPos}
  <2>1. PICK s, space, base, members, lags, heads, held2 :
          /\ s = q' /\ space = free_space' /\ base = Base' /\ members = Subscribers'
          /\ lags = Counts' /\ heads = m_head' /\ held2 = Holding'
    OBVIOUS
  <2>2. Sound(Vals, s, space, base, members, lags, heads, held2) /\ h \in members
    BY <1>10, <1>12, <2>1
  <2>3. heads[h] \in Positions \cup {NoPos}
    BY ONLY <2>2, HeadsIn
  <2> QED BY <2>1, <2>3
<1>15. SmartTypeOK'
  <2>1. /\ m_head' \in [Readers -> Positions \cup {NoPos}]
        /\ stage' \in [Readers -> {"closed", "joining", "booked", "open", "leaving"}]
    BY <1>2, <1>4, <1>5, <1>14
  <2>2. subscriptions' = Cardinality(Subscribers')
    BY <1>12, SmartFacts
  <2> QED BY <1>13, <2>1, <2>2 DEF SmartTypeOK
<1>21. SmartTypeOK' /\ Sound(Vals, q', free_space', Base', Subscribers', Counts', m_head', Holding')
  BY <1>10, <1>15
<1>16. /\ counter' \in 0 .. Word - 1 /\ m_counter' \in [Readers -> 0 .. Word - 1]
       /\ m_message_desc' = [g \in Readers |-> m_message_desc'[g]]
  BY <1>2, <1>4, <1>5, <1>6
<1>17. \A g \in Readers : m_message_desc'[g].ok => stage'[g] \in {"open", "leaving"}
  BY <1>2, <1>4 DEF SmartInv
<1>18. \A g \in Readers : stage'[g] = "booked" => count(g)' >= Cardinality(Booked) + 1
  <2>1. \A g \in Readers : stage'[g] = "booked" => g # h /\ stage[g] = "booked"
    BY <1>2, <1>4
  <2> QED BY <1>7, <2>1 DEF SmartInv
<1>19. child' \in BOOLEAN /\ squeezed' \in BOOLEAN /\ (child' => squeezed')
  BY DEF SmartInv
<1>20. ReserveIsKept' /\ NoSpinner'
  <2>1. NoSpinner'
    BY <1>2, <1>4 DEF SmartInv, NoSpinner
  <2>2. ReserveIsKept'
    BY DEF SmartInv, ReserveIsKept, reserved_space
  <2> QED BY <2>1, <2>2
<1> QED BY ONLY <1>21, <1>16, <1>17, <1>18, <1>19, <1>20 DEF SmartInv

(* A handle that reads all it has not read.                                *)
LEMMA UnreadHeld ==
    ASSUME SmartInv, NEW h \in Subscribers,
           NEW held, Reads(h, Subscribers, Holding, held)
    PROVE  /\ Sound(Vals, q, free_space, Base, Subscribers, Counts, m_head, held)
           /\ \A g \in Subscribers \ {h} : held[g] = Holding[g]
           /\ DOMAIN held[h] = 1 .. count(h) /\ Len(held[h]) = count(h) /\ count(h) \in Nat
           /\ \A k \in 1 .. count(h) : held[h][k].ok
           /\ held[h] = Unread(h) /\ Unread(h) = [k \in 1 .. count(h) |-> Unread(h)[k]]
<1>1. PICK base, members, lags, heads, had, V :
         /\ base = Base /\ members = Subscribers
         /\ lags = Counts /\ heads = m_head /\ V = Vals /\ had = Holding
  OBVIOUS
<1>2. Sound(V, q, free_space, base, members, lags, heads, had)
  BY <1>1 DEF SmartInv
<1>3. PICK descs, off, J : /\ Kept(q, descs, off, J, members, lags, heads, had)
                           /\ free_space = FreeOf(base, J[q.count])
                           /\ q \in Queues(V) /\ InRing(q.mem)
  BY ONLY <1>2 DEF Sound
<1>4. /\ h \in members /\ lags[h] = count(h) /\ heads[h] = m_head[h]
      /\ Reads(h, members, had, held)
  BY <1>1, SmartFacts
<1>5. /\ Kept(q, descs, off, J, members, lags, heads, held)
      /\ Unread(h) = [k \in 1 .. lags[h] |-> descs[q.count - lags[h] + k]]
      /\ lags[h] \in 0 .. q.count
      /\ \A k \in 1 .. lags[h] : Unread(h)[k].ok
  BY ONLY <1>3, <1>4, ReadKept
<1>6. Sound(V, q, free_space, base, members, lags, heads, held)
  BY <1>3, <1>5 DEF Sound
<1>7. held[h] = Unread(h) /\ \A g \in Subscribers \ {h} : held[g] = Holding[g]
  BY DEF Reads
<1>8. count(h) \in Nat
  BY SmartFacts
<1>9. PICK n \in Nat : n = count(h)
  BY <1>8
<1>10. DOMAIN held[h] = 1 .. n /\ Len(held[h]) = n
  <2>1. held[h] = [k \in 1 .. n |-> descs[q.count - n + k]]
    BY <1>4, <1>5, <1>7, <1>9
  <2> QED BY <2>1
<1>11. Unread(h) = [k \in 1 .. n |-> Unread(h)[k]]
  <2>1. Unread(h) = [k \in 1 .. n |-> descs[q.count - n + k]]
    BY <1>4, <1>5, <1>9
  <2> QED BY <2>1
<1> QED BY <1>1, <1>4, <1>5, <1>6, <1>7, <1>8, <1>9, <1>10, <1>11

(* The constructor of a booked handle, which pops the service messages up to *)
(* its own, keeps the invariant.                                           *)
LEMMA OpenBookedStep ==
    ASSUME SmartInv, NEW h \in Readers, OpenBooked(h)
    PROVE  SmartInv'
<1>1. /\ stage[h] = "booked" /\ stage' = [stage EXCEPT ![h] = "open"]
      /\ UNCHANGED <<counter, subscriptions, m_message_desc, free_space, child, squeezed>>
  BY DEF OpenBooked, Enter
<1>2. h \in Subscribers /\ ~m_message_desc[h].ok
  BY <1>1 DEF Subscribers, SmartInv
<1>3. PICK j : j = Cardinality(Booked) + 1
  OBVIOUS
<1>4. PICK msgs : /\ msgs = SubSeq(Unread(h), 1, j)
                  /\ q' = [q EXCEPT !.mem = dec_counters(@, msgs)]
                  /\ Advance(h, msgs)
  BY <1>3 DEF OpenBooked
<1>5. PICK held : held = [g \in Readers |-> IF g = h THEN Unread(h) ELSE Holding[g]]
  OBVIOUS
<1>6. Reads(h, Subscribers, Holding, held)
  BY <1>5 DEF Reads, Subscribers
<1>7. /\ Sound(Vals, q, free_space, Base, Subscribers, Counts, m_head, held)
      /\ \A g \in Subscribers \ {h} : held[g] = Holding[g]
      /\ DOMAIN held[h] = 1 .. count(h) /\ Len(held[h]) = count(h) /\ count(h) \in Nat
      /\ held[h] = Unread(h)
  BY <1>2, <1>6, UnreadHeld
<1>8. j \in Nat /\ j <= count(h)
  <2>1. Cardinality(Booked) \in Nat
    <3>1. Booked \subseteq Readers
      BY SmartAssumption
    <3> QED BY <3>1, ReadersFinite
  <2> QED BY <1>1, <1>3, <2>1 DEF SmartInv
<1>9. Firsts(msgs, j, held[h])
  <2>1. PICK own, n : own = held[h] /\ n = count(h)
    OBVIOUS
  <2>2. msgs = [i \in 1 .. j |-> own[i]]
    BY <1>4, <1>7, <1>8, <2>1
  <2>3. \A i \in 1 .. j : i \in DOMAIN own
    BY <1>7, <1>8, <2>1
  <2> QED BY <1>8, <2>1, <2>2, <2>3 DEF Firsts
<1>10. PICK desc : desc = m_message_desc[h]
  OBVIOUS
<1>11. m_message_desc' = [m_message_desc EXCEPT ![h] = desc] /\ HoldsNext(desc, j, held[h])
  BY <1>1, <1>2, <1>10 DEF SmartInv, HoldsNext
<1> QED BY <1>1, <1>2, <1>4, <1>7, <1>8, <1>9, <1>11, PopMoves

(* pop keeps the invariant.                                                *)
LEMMA SmartPopStep ==
    ASSUME SmartInv, NEW h \in Readers, SmartPop(h)
    PROVE  SmartInv'
<1>1. /\ stage[h] = "open" /\ m_message_desc[h].ok
      /\ UNCHANGED <<counter, subscriptions, stage, free_space, child, squeezed>>
      /\ m_message_desc' = [m_message_desc EXCEPT ![h] = NoMessage]
  BY DEF SmartPop, Enter
<1>2. h \in Subscribers /\ stage' = [stage EXCEPT ![h] = "open"]
  BY <1>1 DEF Subscribers, SmartInv, SmartTypeOK
<1>3. PICK msgs : /\ msgs = <<m_message_desc[h]>>
                  /\ q' = [q EXCEPT !.mem = dec_counters(@, msgs)]
                  /\ Advance(h, msgs)
  BY DEF SmartPop
<1>4. PICK held : held = Holding
  OBVIOUS
<1>5. /\ Sound(Vals, q, free_space, Base, Subscribers, Counts, m_head, held)
      /\ \A g \in Subscribers \ {h} : held[g] = Holding[g]
  BY <1>4 DEF SmartInv
<1>6. PICK j : j = 1
  OBVIOUS
<1>7. held[h] = <<m_message_desc[h]>>
  BY <1>1, <1>4 DEF Holding
<1>8. Firsts(msgs, j, held[h])
  <2>1. PICK own, d : own = held[h] /\ d = m_message_desc[h]
    OBVIOUS
  <2>2. own = <<d>> /\ msgs = <<d>>
    BY <1>3, <1>7, <2>1
  <2>3. msgs = [i \in 1 .. j |-> own[i]]
    BY <1>6, <2>2
  <2>4. \A i \in 1 .. j : i \in DOMAIN own
    BY <1>6, <2>2
  <2> QED BY <1>6, <2>1, <2>3, <2>4 DEF Firsts
<1>9. j <= count(h)
  <2>1. PICK descs, off, J : Kept(q, descs, off, J, Subscribers, Counts, m_head, held)
    <3>1. PICK s, space, base, members, lags, heads, V :
             /\ s = q /\ space = free_space /\ base = Base /\ members = Subscribers
             /\ lags = Counts /\ heads = m_head /\ V = Vals
      OBVIOUS
    <3>2. Sound(V, s, space, base, members, lags, heads, held)
      BY <1>5, <3>1
    <3>3. PICK descs, off, J : Kept(s, descs, off, J, members, lags, heads, held)
      BY ONLY <3>2 DEF Sound
    <3> QED BY <3>1, <3>3
  <2>2. InPlace(held[h], q.count, Counts[h], descs)
    BY <1>2, <2>1 DEF Kept, Tracked
  <2>3. 1 \in DOMAIN held[h]
    BY <1>7
  <2>4. 1 \in 1 .. Counts[h]
    BY <2>2, <2>3 DEF InPlace
  <2>5. Counts[h] = count(h) /\ count(h) \in Nat
    BY <1>2, SmartFacts
  <2> QED BY <1>6, <2>4, <2>5
<1>10. PICK desc : desc = NoMessage
  OBVIOUS
<1>11. m_message_desc' = [m_message_desc EXCEPT ![h] = desc] /\ HoldsNext(desc, j, held[h])
  BY <1>1, <1>10 DEF NoMessage, HoldsNext
<1> QED BY <1>1, <1>2, <1>3, <1>5, <1>8, <1>9, <1>11, PopMoves
-----------------------------------------------------------------------------
(* The first message that a handle does not pass over, or the number after *)
(* the last one.                                                           *)
LEMMA FirstHeardAt ==
    ASSUME NEW h, NEW msgs, NEW len \in Nat, DOMAIN msgs = 1 .. len, Len(msgs) = len,
           msgs = [k \in 1 .. len |-> msgs[k]], NEW n, n = FirstHeard(h, msgs)
    PROVE  /\ n \in 1 .. len + 1
           /\ \A i \in 1 .. n - 1 : msgs[i].ok /\ Skipped(h, msgs[i])
           /\ n <= len => ~msgs[n].ok \/ ~Skipped(h, msgs[n])
<1> DEFINE Test(m) == ~m.ok \/ ~Skipped(h, m)
           more == msgs \o <<NoMessage>>
           I == {i \in 1 .. Len(more) : Test(more[i])}
<1>1. /\ Len(more) = len + 1 /\ more[len + 1] = NoMessage
      /\ \A i \in 1 .. len : more[i] = msgs[i]
  <2>1. PICK R : R = {msgs[i] : i \in 1 .. len}
    OBVIOUS
  <2>2. msgs \in Seq(R)
    BY <2>1
  <2>3. Len(<<NoMessage>>) = 1 /\ <<NoMessage>>[1] = NoMessage
    OBVIOUS
  <2> QED BY <2>2, <2>3
<1>2. len + 1 \in I
  BY <1>1 DEF NoMessage
<1>3. I \subseteq 1 .. len + 1
  BY <1>1
<1>4. n = Min(I)
  BY <1>2 DEF FirstHeard, SelectInSeq
<1>5. n \in I /\ \A i \in I : n <= i
  <2> HIDE DEF I
  <2>1. I \subseteq Nat
    BY <1>3
  <2>2. \E x \in I : \A y \in I : x <= y
    BY <1>2, <2>1, LeastNumber
  <2> QED BY <1>4, <2>2 DEF Min
<1>6. n \in 1 .. len + 1
  BY <1>3, <1>5
<1>7. ASSUME NEW i \in 1 .. n - 1 PROVE msgs[i].ok /\ Skipped(h, msgs[i])
  <2> HIDE DEF I
  <2>0. i \in Nat /\ n \in Nat /\ i < n /\ i \in 1 .. len
    BY <1>6
  <2>1. i \notin I
    <3>1. i \in I => n <= i
      BY <1>5
    <3>2. ~(n <= i)
      BY <2>0
    <3> QED BY <3>1, <3>2
  <2> QED BY <1>1, <2>0, <2>1 DEF I
<1>8. n <= len => ~msgs[n].ok \/ ~Skipped(h, msgs[n])
  BY <1>1, <1>5, <1>6
<1> QED BY <1>6, <1>7, <1>8

(* get keeps the invariant: it steps over service messages and what the    *)
(* handle sent itself, and holds the first message it may return.          *)
LEMMA SmartGetStep ==
    ASSUME SmartInv, NEW h \in Readers, SmartGet(h)
    PROVE  SmartInv'
<1>1. /\ stage[h] = "open"
      /\ UNCHANGED <<counter, subscriptions, stage, free_space, child, squeezed>>
  BY DEF SmartGet, Enter
<1>2. h \in Subscribers /\ stage' = [stage EXCEPT ![h] = "open"]
  BY <1>1 DEF Subscribers, SmartInv, SmartTypeOK
<1>3. PICK own, n, desc, msgs :
          /\ own = Unread(h) /\ n = FirstHeard(h, own)
          /\ msgs = SubSeq(own, 1, n - 1)
          /\ q' = [q EXCEPT !.mem = dec_counters(@, msgs)]
          /\ Advance(h, msgs)
          /\ desc = (IF n > Len(own) THEN NoMessage ELSE own[n])
          /\ m_message_desc' = [m_message_desc EXCEPT ![h] = desc]
  BY DEF SmartGet
<1>4. PICK held : held = [g \in Readers |-> IF g = h THEN Unread(h) ELSE Holding[g]]
  OBVIOUS
<1>5. Reads(h, Subscribers, Holding, held)
  BY <1>4 DEF Reads, Subscribers
<1>6. /\ Sound(Vals, q, free_space, Base, Subscribers, Counts, m_head, held)
      /\ \A g \in Subscribers \ {h} : held[g] = Holding[g]
      /\ DOMAIN held[h] = 1 .. count(h) /\ Len(held[h]) = count(h) /\ count(h) \in Nat
      /\ held[h] = Unread(h) /\ Unread(h) = [k \in 1 .. count(h) |-> Unread(h)[k]]
  BY <1>2, <1>5, UnreadHeld
<1>7. PICK len \in Nat : len = count(h)
  BY <1>6
<1>8. DOMAIN own = 1 .. len /\ Len(own) = len /\ held[h] = own
  BY <1>3, <1>6, <1>7
<1>9. n \in 1 .. len + 1
  <2>1. own = [k \in 1 .. len |-> own[k]]
    BY <1>3, <1>6, <1>7
  <2> QED BY <1>3, <1>8, <2>1, FirstHeardAt
<1>10. PICK j \in Nat : j = n - 1 /\ j <= len
  BY <1>9
<1>11. Firsts(msgs, j, held[h])
  <2>1. msgs = [i \in 1 .. j |-> own[i]]
    BY <1>3, <1>8, <1>9, <1>10
  <2>2. \A i \in 1 .. j : i \in DOMAIN own
    BY <1>8, <1>10
  <2> QED BY <1>8, <2>1, <2>2 DEF Firsts
<1>12. HoldsNext(desc, j, held[h])
  <2>1. j + 1 = n
    BY <1>9, <1>10
  <2>2. CASE n > len
    BY <1>3, <1>8, <2>2 DEF NoMessage, HoldsNext
  <2>3. CASE ~(n > len)
    BY <1>3, <1>8, <1>9, <2>1, <2>3 DEF HoldsNext
  <2> QED BY <2>2, <2>3
<1>13. j <= count(h)
  BY <1>7, <1>10
<1>14. /\ q' = [q EXCEPT !.mem = dec_counters(@, msgs)] /\ Advance(h, msgs)
       /\ m_message_desc' = [m_message_desc EXCEPT ![h] = desc]
  BY <1>3
<1> QED BY <1>1, <1>2, <1>6, <1>11, <1>12, <1>13, <1>14, PopMoves
-----------------------------------------------------------------------------
(* What the push of an ordinary message makes of the queue.                *)
LEMMA OrdinaryPush ==
    ASSUME NEW held, Sound(Vals, q, free_space, Base, Subscribers, Counts, m_head, held),
           subscriptions = Cardinality(Subscribers),
           NEW h \in Readers, NEW n \in Sizes, NEW pushed,
           pushed = do_push(FALSE, FALSE, Val(h, "data"), n), ~Torn(pushed),
           NEW lags2, \A g \in Subscribers : lags2[g] = Counts[g] + 1
    PROVE  /\ pushed.ok \in BOOLEAN
           /\ ~pushed.ok => Bounces(pushed, held)
           /\ pushed.ok =>
                 /\ Lands(pushed, lags2, held, Val(h, "data"), n)
                 /\ (Base = Capacity /\ free_space >= reserved_space(subscriptions))
                       => pushed.space >= reserved_space(subscriptions)
<1>1. Val(h, "data") \in Vals
  BY DEF Vals, Val
<1>2. PICK val \in Vals : val = Val(h, "data")
  BY <1>1
<1>3. PICK special \in BOOLEAN : special = FALSE
  OBVIOUS
<1>4. PICK size \in Nat \ {0} : size = n
  BY SharedQueueAssumption
<1>5. Pushing(special, val, size, pushed)
  BY <1>2, <1>3, <1>4 DEF Pushing
<1>6. /\ Sound(Vals, q, free_space, Base, Subscribers, Counts, m_head, held)
      /\ subscriptions = Cardinality(Subscribers)
      /\ \A g \in Subscribers : lags2[g] = Counts[g] + 1
      /\ special => size <= 1
      /\ special \/ ~Torn(pushed)
      /\ special \in BOOLEAN /\ val \in Vals /\ size \in Nat \ {0}
  BY <1>3, <1>4
<1>7. /\ pushed.ok \in BOOLEAN
      /\ ~pushed.ok => Bounces(pushed, held)
      /\ pushed.ok => Lands(pushed, lags2, held, val, size) /\ Spends(special, pushed)
      /\ (special /\ Base = Capacity /\ free_space >= 2 * static_size(1)) => pushed.ok
  BY ONLY <1>5, <1>6, PushOutcome
<1>8. Spends(special, pushed)
         => ((Base = Capacity /\ free_space >= reserved_space(subscriptions))
                => pushed.space >= reserved_space(subscriptions))
  BY <1>3 DEF Spends
<1> QED BY <1>2, <1>3, <1>4, <1>7, <1>8

(* push keeps the invariant, stored or refused: an ordinary message leaves *)
(* the reserve untouched.                                                  *)
LEMMA SmartPushStep ==
    ASSUME SmartInv, NEW h \in Readers, NEW size \in Sizes, SmartPush(h, size), ~torn'
    PROVE  SmartInv'
<1>1. PICK pushed :
          /\ pushed = do_push((count(h) + 1) % Word = 0, FALSE, Val(h, "data"), size)
          /\ ~Torn(pushed)
          /\ \/ /\ pushed.ok /\ Stored(pushed) /\ q' = pushed.q
                /\ UNCHANGED <<subscriptions, m_head, m_counter, m_message_desc,
                               abandoned, child, squeezed>>
             \/ ~pushed.ok /\ Refused(pushed)
          /\ stage[h] = "open" /\ UNCHANGED stage
  BY DEF SmartPush, Enter, Torn
<1>2. h \in Subscribers
  BY <1>1 DEF Subscribers
<1>3. pushed = do_push(FALSE, FALSE, Val(h, "data"), size)
  BY <1>1, <1>2, NeverEmpty
<1>4. PICK lags2 : lags2 = [g \in Readers |-> Counts[g] + 1]
  OBVIOUS
<1>5. PICK held : held = Holding
  OBVIOUS
<1>6. /\ Sound(Vals, q, free_space, Base, Subscribers, Counts, m_head, held)
      /\ subscriptions = Cardinality(Subscribers)
      /\ \A g \in Subscribers : lags2[g] = Counts[g] + 1
      /\ pushed = do_push(FALSE, FALSE, Val(h, "data"), size)
      /\ ~Torn(pushed) /\ h \in Readers /\ size \in Sizes
  BY <1>1, <1>3, <1>4, <1>5, SmartFacts DEF SmartInv
<1>7. /\ ~pushed.ok => Bounces(pushed, held)
      /\ pushed.ok =>
            /\ Lands(pushed, lags2, held, Val(h, "data"), size)
            /\ (Base = Capacity /\ free_space >= reserved_space(subscriptions))
                  => pushed.space >= reserved_space(subscriptions)
  BY ONLY <1>6, OrdinaryPush
<1>8. stage \in [Readers -> {"closed", "joining", "booked", "open", "leaving"}]
  BY DEF SmartInv, SmartTypeOK
<1>9. Subscribers' = Subscribers
  BY <1>1 DEF Subscribers
<1>10. CASE ~pushed.ok
  <2>1. Bounces(pushed, Holding) /\ Refused(pushed)
    BY <1>1, <1>5, <1>7, <1>10
  <2>2. NoSpinner'
    BY <1>1, <2>1 DEF SmartInv, NoSpinner, Refused
  <2>3. /\ stage' \in [Readers -> {"closed", "joining", "booked", "open", "leaving"}]
        /\ \A g \in Readers : stage'[g] = "booked" => stage[g] = "booked"
        /\ \A g \in Readers : stage[g] \in {"open", "leaving"}
                                 => stage'[g] \in {"open", "leaving"}
    BY <1>1, <1>8
  <2> QED BY <1>9, <2>1, <2>2, <2>3, BounceKept
<1>11. CASE pushed.ok
  <2>1. /\ q' = pushed.q /\ free_space' = pushed.space /\ counter' = (counter + 1) % Word
        /\ UNCHANGED <<subscriptions, m_head, m_counter, m_message_desc, child, squeezed>>
    BY <1>1, <1>11 DEF Stored
  <2>2. \A g \in Subscribers : count(g)' = count(g) + 1
    BY <2>1, OneMoreToRead
  <2>3. counter' \in 0 .. Word - 1
    BY <1>2, <2>1, OneMoreToRead
  <2>4. Holding' = Holding /\ Base' = Base
    BY <2>1 DEF Holding, Base
  <2>5. PICK descs, off, J :
            /\ Kept(pushed.q, descs, off, J, Subscribers, lags2, m_head, held)
            /\ pushed.space = FreeOf(Base, J[pushed.q.count])
            /\ pushed.q \in Queues(Vals) /\ InRing(pushed.q.mem)
    BY <1>7, <1>11 DEF Lands
  <2>6. Sound(Vals, q', free_space', Base', Subscribers', Counts', m_head', Holding')
    <3>1. PICK s, members, lags, heads, held2 :
              /\ s = pushed.q /\ members = Subscribers /\ lags = Counts' /\ heads = m_head
              /\ held2 = held
      OBVIOUS
    <3>2. Fewer(members, lags2, heads, held, members, lags, heads, held2)
      <4>1. \A g \in members : lags[g] = lags2[g]
        BY <1>4, <2>2, <3>1, SmartFacts DEF Counts
      <4> QED BY <3>1, <4>1 DEF Fewer
    <3>3. Kept(s, descs, off, J, members, lags2, heads, held) /\ s \in Queues(Vals)
      BY <2>5, <3>1
    <3>4. Kept(s, descs, off, J, members, lags, heads, held2)
      BY ONLY <3>2, <3>3, LeaveKept
    <3>5. /\ Kept(q', descs, off, J, Subscribers', Counts', m_head', Holding')
          /\ free_space' = FreeOf(Base', J[q'.count])
          /\ q' \in Queues(Vals) /\ InRing(q'.mem)
      BY <1>5, <1>9, <2>1, <2>4, <2>5, <3>1, <3>4
    <3> QED BY ONLY <3>5 DEF Sound
  <2>7. /\ q'.head \in Positions /\ q'.tail \in Positions
        /\ free_space' \in 0 .. Space - 1 /\ free_space' \in Int
    <3>1. Sound(Vals, q', free_space', Base', Subscribers', Counts', m_head', held)
      BY <1>5, <2>4, <2>6
    <3> QED BY <3>1, NextFacts
  <2>8. SmartTypeOK'
    <3>1. /\ subscriptions' = Cardinality(Subscribers')
          /\ stage' \in [Readers -> {"closed", "joining", "booked", "open", "leaving"}]
          /\ m_head' \in [Readers -> Positions \cup {NoPos}]
      BY <1>1, <1>6, <1>8, <1>9, <2>1 DEF SmartInv, SmartTypeOK
    <3> QED BY <2>7, <3>1 DEF SmartTypeOK
  <2>9. ReserveIsKept'
    <3>1. CASE squeezed
      BY <2>1, <3>1 DEF ReserveIsKept
    <3>2. CASE ~squeezed
      <4>1. Base = Capacity /\ free_space >= reserved_space(subscriptions)
        BY <3>2 DEF SmartInv, Base, ReserveIsKept
      <4>2. free_space' >= reserved_space(subscriptions)
        BY <1>7, <1>11, <2>1, <4>1
      <4>3. reserved_space(subscriptions)' = reserved_space(subscriptions)
        BY <2>1 DEF reserved_space
      <4> QED BY <4>2, <4>3 DEF ReserveIsKept
    <3> QED BY <3>1, <3>2
  <2>10. /\ m_counter' \in [Readers -> 0 .. Word - 1]
         /\ m_message_desc' = [g \in Readers |-> m_message_desc'[g]]
         /\ \A g \in Readers : m_message_desc'[g].ok => stage'[g] \in {"open", "leaving"}
         /\ child' \in BOOLEAN /\ squeezed' \in BOOLEAN /\ (child' => squeezed')
         /\ NoSpinner'
    BY <1>1, <2>1 DEF SmartInv, NoSpinner
  <2>11. ASSUME NEW g \in Readers, stage'[g] = "booked"
         PROVE  count(g)' >= Cardinality(Booked) + 1
    <3>1. g \in Subscribers /\ stage[g] = "booked"
      BY <1>1, <2>11 DEF Subscribers
    <3>2. count(g) >= Cardinality(Booked) + 1 /\ count(g) \in Nat
      BY <3>1, SmartFacts DEF SmartInv
    <3>3. Cardinality(Booked) \in Nat
      <4>1. Booked \subseteq Readers
        BY SmartAssumption
      <4> QED BY <4>1, ReadersFinite
    <3> QED BY <2>2, <3>1, <3>2, <3>3
  <2> QED BY <2>3, <2>6, <2>8, <2>9, <2>10, <2>11 DEF SmartInv
<1>12. pushed.ok \/ ~pushed.ok
  OBVIOUS
<1> QED BY <1>10, <1>11, <1>12
-----------------------------------------------------------------------------
(* The DISCONNECT just pushed is the last message, and ends at the tail.   *)
LEMMA OwnIsLast ==
    ASSUME NEW V, NEW pushed, pushed.q \in Queues(V), NEW descs, NEW off,
           Layout(pushed.q, descs, off), NEW n, n = pushed.q.count, n > 0,
           descs[n].chunks = pushed.chunks
    PROVE  SamePlace(OwnDisconnect(pushed), descs[n])
<1>1. PICK s, d : s = pushed.q /\ d = descs[n]
  OBVIOUS
<1>2. s \in Queues(V) /\ Layout(s, descs, off) /\ n \in 1 .. s.count /\ n = s.count
  BY <1>1 DEF Queues
<1>3. d.ok = TRUE
  <2>1. Occupies(Byte(s.head, off[n - 1]), off[n] - off[n - 1], d)
    BY <1>1, <1>2 DEF Layout
  <2> QED BY <2>1 DEF Occupies, Whole, Skipping, Split, OneChunk, TwoChunks
<1>4. After(d) = s.tail
  <2>1. After(descs[n]) = Byte(s.head, off[n])
    <3>1. PICK k \in 1 .. s.count : k = n
      BY <1>2
    <3>2. s \in Queues(V) /\ Layout(s, descs, off) /\ k \in 1 .. s.count
      BY <1>2
    <3>3. /\ Byte(s.head, off[k - 1]) \in Positions
          /\ get_message(s.mem, Byte(s.head, off[k - 1]), s.tail, FALSE) = descs[k]
          /\ descs[k].ok
          /\ After(descs[k]) = Byte(s.head, off[k])
          /\ off[k - 1] < off[k] /\ off[k] <= UsedBytes(s)
          /\ off[k - 1] \in 0 .. Capacity /\ off[k] \in 0 .. Capacity
      BY ONLY <3>2, LayoutReads
    <3> QED BY <3>1, <3>3
  <2>2. off[n] = UsedBytes(s) /\ Byte(s.head, UsedBytes(s)) = s.tail
    BY <1>2, LayoutTail DEF Layout
  <2> QED BY <1>1, <2>1, <2>2
<1>5. s.tail % Capacity = s.tail
  BY <1>2, ModCapacity DEF Queues
<1> DEFINE o == OwnDisconnect(pushed)
<1>6. /\ o.ok = TRUE /\ o.next = s.tail /\ o.chunks = d.chunks
  BY <1>1 DEF OwnDisconnect
<1>7. After(o) = s.tail
  BY <1>5, <1>6 DEF After
<1> HIDE DEF o
<1>8. SamePlace(o, d)
  BY <1>3, <1>4, <1>6, <1>7 DEF SamePlace
<1> QED BY <1>1, <1>8 DEF o

(* So the messages that the destructor pops are those which its handle has *)
(* to read, with the one it has pushed.                                    *)
LEMMA LeftInPlace ==
    ASSUME NEW own, NEW lag \in Nat, DOMAIN own = 1 .. lag, Len(own) = lag,
           NEW d, NEW all, all = Append(own, d), NEW n \in Nat, NEW descs,
           InPlace(own, n, lag + 1, descs), SamePlace(d, descs[n]),
           own = [k \in 1 .. lag |-> own[k]]
    PROVE  /\ InPlace(all, n, lag + 1, descs)
           /\ Firsts(all, lag + 1, all)
<1>1. own \in Seq({own[k] : k \in 1 .. lag})
  OBVIOUS
<1>2. /\ DOMAIN all = 1 .. lag + 1 /\ all[lag + 1] = d
      /\ \A i \in 1 .. lag : all[i] = own[i]
      /\ all = [i \in 1 .. lag + 1 |-> all[i]]
  <2>1. all = [i \in 1 .. lag + 1 |-> IF i = lag + 1 THEN d ELSE own[i]]
    BY <1>1
  <2> QED BY <2>1
<1>3. ASSUME NEW i \in 1 .. lag + 1 PROVE SamePlace(all[i], descs[n - (lag + 1) + i])
  <2>1. CASE i = lag + 1
    <3>1. n - (lag + 1) + i = n
      BY <2>1
    <3> QED BY <1>2, <2>1, <3>1
  <2>2. CASE i # lag + 1
    <3>1. i \in 1 .. lag
      BY <2>2
    <3> QED BY <1>2, <3>1 DEF InPlace
  <2> QED BY <2>1, <2>2
<1> QED BY <1>2, <1>3 DEF InPlace, Firsts

(* The destructor keeps the invariant: the leaving handle pops all it has  *)
(* not read, its own service message included.                             *)
LEMMA LeaveStep ==
    ASSUME SmartInv, NEW h \in Readers, Leave(h)
    PROVE  SmartInv'
<1>1. PICK pushed : /\ pushed = LeavePush(h) /\ pushed.ok /\ Stored(pushed)
                    /\ q' = [pushed.q EXCEPT !.mem = dec_counters(@, Left(h, pushed))]
                    /\ subscriptions' = subscriptions - 1
                    /\ stage' = [stage EXCEPT ![h] = "closed"]
                    /\ m_head' = [m_head EXCEPT ![h] = NoPos]
                    /\ m_counter' = [m_counter EXCEPT ![h] = 0]
                    /\ m_message_desc' = [m_message_desc EXCEPT ![h] = NoMessage]
                    /\ UNCHANGED <<child, squeezed>>
                    /\ stage[h] \in {"open", "leaving"}
  BY DEF Leave, Enter
<1>2. free_space' = pushed.space /\ counter' = (counter + 1) % Word
  BY <1>1 DEF Stored
<1>3. PICK S : S = Subscribers
  OBVIOUS
<1>4. /\ h \in S /\ S \subseteq Readers /\ subscriptions = Cardinality(S)
      /\ subscriptions \in Nat /\ IsFiniteSet(S) /\ Base \in {0, Capacity}
      /\ count(h) \in Nat /\ \A g \in S : Counts[g] = count(g)
  BY <1>1, <1>3, SmartFacts DEF Subscribers
<1>5. /\ counter \in 0 .. Word - 1 /\ m_counter \in [Readers -> 0 .. Word - 1]
      /\ m_head \in [Readers -> Positions \cup {NoPos}]
      /\ stage \in [Readers -> {"closed", "joining", "booked", "open", "leaving"}]
      /\ m_message_desc = [g \in Readers |-> m_message_desc[g]]
  BY DEF SmartInv, SmartTypeOK
<1>6. Subscribers' = S \ {h}
  BY <1>1, <1>3, <1>4, <1>5 DEF Subscribers
<1>7. PICK held : held = [g \in Readers |-> IF g = h THEN Unread(h) ELSE Holding[g]]
  OBVIOUS
<1>8. /\ Sound(Vals, q, free_space, Base, Subscribers, Counts, m_head, held)
      /\ \A g \in S \ {h} : held[g] = Holding[g]
      /\ DOMAIN held[h] = 1 .. count(h) /\ Len(held[h]) = count(h)
      /\ held[h] = Unread(h) /\ Unread(h) = [k \in 1 .. count(h) |-> Unread(h)[k]]
  <2>1. Reads(h, Subscribers, Holding, held)
    BY <1>7 DEF Reads, Subscribers
  <2> QED BY <1>3, <1>4, <2>1, UnreadHeld
<1>9. PICK lags2 : lags2 = [g \in Readers |-> Counts[g] + 1]
  OBVIOUS
<1>10. /\ Lands(pushed, lags2, held, Val(h, "DISCONNECT"), 1)
       /\ Base = Capacity => pushed.space >= free_space - static_size(1)
  <2>1. PICK code \in Codes : code = "DISCONNECT"
    BY DEF Codes
  <2>2. pushed = do_push(FALSE, TRUE, Val(h, code), 1)
    BY <1>1, <1>3, <1>4, <2>1, NeverEmpty DEF LeavePush
  <2>3. /\ Sound(Vals, q, free_space, Base, Subscribers, Counts, m_head, held)
        /\ subscriptions = Cardinality(Subscribers)
        /\ \A g \in Subscribers : lags2[g] = Counts[g] + 1
        /\ h \in Readers /\ code \in Codes
    BY <1>3, <1>4, <1>8, <1>9
  <2>4. pushed.ok => /\ Lands(pushed, lags2, held, Val(h, code), 1)
                     /\ Base = Capacity => pushed.space >= free_space - static_size(1)
    BY ONLY <2>2, <2>3, ServicePush
  <2> QED BY <1>1, <2>1, <2>4
<1>11. PICK descs, off, J, s :
          /\ s = pushed.q
          /\ Kept(s, descs, off, J, S, lags2, m_head, held)
          /\ pushed.space = FreeOf(Base, J[s.count])
          /\ s \in Queues(Vals) /\ InRing(s.mem)
          /\ descs[s.count].chunks = pushed.chunks
  BY <1>3, <1>10 DEF Lands
<1>12. PICK lag \in Nat : lag = count(h)
  BY <1>4
<1>13. PICK all, own, d : /\ all = Left(h, pushed) /\ own = Unread(h) /\ d = OwnDisconnect(pushed)
                          /\ all = Append(own, d)
  BY DEF Left
<1>14. /\ Layout(s, descs, off) /\ s.count \in Nat /\ lags2[h] = lag + 1
       /\ lag + 1 <= s.count /\ InPlace(own, s.count, lag + 1, descs)
  <2>1. Layout(s, descs, off) /\ Tracked(s, descs, off, lags2[h], m_head[h], held[h])
    BY <1>4, <1>11 DEF Kept
  <2>2. lags2[h] = lag + 1
    BY <1>4, <1>9, <1>12
  <2>3. s.count \in Nat
    BY <1>11 DEF Queues
  <2> QED BY <1>8, <1>13, <2>1, <2>2, <2>3 DEF Tracked
<1>15. InPlace(all, s.count, lag + 1, descs) /\ Firsts(all, lag + 1, all)
  <2>1. PICK n \in Nat : n = s.count
    BY <1>14
  <2>2. SamePlace(d, descs[n])
    <3>1. SamePlace(OwnDisconnect(pushed), descs[n])
      <4>1. n > 0
        BY <1>14, <2>1
      <4> QED BY <1>11, <1>14, <2>1, <4>1, OwnIsLast
    <3> QED BY <1>13, <3>1
  <2>3. /\ DOMAIN own = 1 .. lag /\ Len(own) = lag /\ own = [k \in 1 .. lag |-> own[k]]
        /\ all = Append(own, d) /\ InPlace(own, n, lag + 1, descs)
        /\ lag \in Nat /\ n \in Nat
    BY <1>8, <1>12, <1>13, <1>14, <2>1
  <2>4. InPlace(all, n, lag + 1, descs) /\ Firsts(all, lag + 1, all)
    BY ONLY <2>2, <2>3, LeftInPlace
  <2> QED BY <2>1, <2>4
<1>16. PICK held3 : held3 = [g \in Readers |-> IF g = h THEN all ELSE held[g]]
  OBVIOUS
<1>17. held3[h] = all /\ \A g \in S \ {h} : held3[g] = held[g]
  BY <1>4, <1>16
<1>18. Kept(s, descs, off, J, S, lags2, m_head, held3)
  <2>1. ASSUME NEW g \in S PROVE Tracked(s, descs, off, lags2[g], m_head[g], held3[g])
    <3>1. Tracked(s, descs, off, lags2[g], m_head[g], held[g])
      BY <1>11 DEF Kept
    <3>2. CASE g = h
      BY <1>14, <1>15, <1>17, <3>1, <3>2 DEF Tracked
    <3>3. CASE g # h
      BY <1>17, <3>1, <3>3
    <3> QED BY <3>2, <3>3
  <2> QED BY <1>11, <2>1 DEF Kept
<1>19. PICK j \in Nat : j = lag + 1
  OBVIOUS
<1>20. PICK lags3, heads3, held4 :
          /\ lags3 = [g \in Readers |-> IF g = h THEN 0 ELSE lags2[g]]
          /\ heads3 = [g \in Readers |-> IF g = h THEN After(all[j]) ELSE m_head[g]]
          /\ held4 = [g \in Readers |-> IF g = h THEN <<>> ELSE held[g]]
  OBVIOUS
<1>21. Pops(h, j, S, lags2, m_head, held3, lags3, heads3, held4)
  <2>1. /\ lags3[h] = lags2[h] - j
        /\ heads3[h] = IF j = 0 THEN m_head[h] ELSE After(held3[h][j])
    BY <1>14, <1>17, <1>19, <1>20
  <2>2. DOMAIN held4[h] = {}
    BY <1>20
  <2>3. \A g \in S \ {h} : /\ lags3[g] = lags2[g] /\ heads3[g] = m_head[g]
                           /\ held4[g] = held3[g]
    BY <1>4, <1>17, <1>20
  <2> QED BY <2>1, <2>2, <2>3 DEF Pops
<1>22. PICK t : t = q' /\ Lowers(s, PoppedAt(held3[h], j), t)
  <2>1. \A mem : dec_counters(mem, all) = LoweredAt(mem, PoppedAt(all, j))
    BY <1>15, <1>19, FirstsAre
  <2>2. q' = [s EXCEPT !.mem = dec_counters(@, all)]
    BY <1>1, <1>11, <1>13
  <2> QED BY <1>17, <2>1, <2>2 DEF Lowers
<1>23. PICK low : /\ t \in Queues(Vals) /\ InRing(t.mem) /\ t.count = s.count
                  /\ Kept(t, low, off, J, S, lags3, heads3, held4)
  <2>1. PICK heads : heads = m_head
    OBVIOUS
  <2>2. /\ S \subseteq Readers /\ h \in S /\ j \in 0 .. lags2[h]
        /\ Kept(s, descs, off, J, S, lags2, heads, held3)
        /\ Pops(h, j, S, lags2, heads, held3, lags3, heads3, held4)
        /\ s \in Queues(Vals) /\ InRing(s.mem)
        /\ Lowers(s, PoppedAt(held3[h], j), t)
    BY <1>4, <1>11, <1>14, <1>18, <1>19, <1>21, <1>22, <2>1
  <2>3. \A i \in 1 .. j : i \in DOMAIN held3[h]
    BY <1>15, <1>17, <1>19 DEF Firsts
  <2>4. /\ t \in Queues(Vals) /\ InRing(t.mem)
        /\ t.head = s.head /\ t.tail = s.tail /\ t.count = s.count
        /\ Kept(t, LowOnes(s, descs, PoppedOnes(s, lags2[h], j)), off, J,
                S, lags3, heads3, held4)
    BY ONLY <2>2, <2>3, PopKept
  <2> QED BY <2>4
<1>24. \A g \in Readers \ {h} : m_counter'[g] = m_counter[g] /\ m_head'[g] = m_head[g]
                                /\ Holding'[g] = Holding[g]
  BY <1>1, <1>5 DEF Holding
<1>25. \A g \in S \ {h} : count(g)' = count(g) + 1
  BY <1>2, <1>3, <1>4, <1>24, OneMoreToRead
<1>26. counter' \in 0 .. Word - 1
  <2>1. counter + 1 \in Int /\ Word \in Nat \ {0}
    BY <1>5, SharedQueueAssumption
  <2> QED BY <1>2, <2>1
<1>27. Kept(t, low, off, J, Subscribers', Counts', m_head', Holding')
  <2>1. PICK members, lags, heads, held5 :
           /\ members = Subscribers' /\ lags = Counts' /\ heads = m_head' /\ held5 = Holding'
    OBVIOUS
  <2>2. Fewer(S, lags3, heads3, held4, members, lags, heads, held5)
    <3>1. \A g \in S \ members : lags3[g] = 0
      BY <1>4, <1>6, <1>20, <2>1
    <3>2. ASSUME NEW g \in members
          PROVE  lags[g] = lags3[g] /\ heads[g] = heads3[g] /\ held5[g] = held4[g]
      <4>1. g \in S \ {h} /\ g \in Readers
        BY <1>4, <1>6, <2>1
      <4>2. Counts'[g] = count(g)'
        BY <4>1 DEF Counts
      <4>3. lags[g] = lags3[g]
        BY <1>4, <1>9, <1>20, <1>25, <2>1, <4>1, <4>2
      <4>4. heads[g] = heads3[g]
        BY <1>20, <1>24, <2>1, <4>1
      <4>5. held5[g] = held4[g]
        BY <1>8, <1>20, <1>24, <2>1, <4>1
      <4> QED BY <4>3, <4>4, <4>5
    <3>3. members \subseteq S
      BY <1>6, <2>1
    <3> QED BY <3>1, <3>2, <3>3 DEF Fewer
  <2>3. t \in Queues(Vals) /\ Kept(t, low, off, J, S, lags3, heads3, held4)
    BY <1>23
  <2>4. Kept(t, low, off, J, members, lags, heads, held5)
    BY ONLY <2>2, <2>3, LeaveKept
  <2> QED BY <2>1, <2>4
<1>28. Sound(Vals, q', free_space', Base', Subscribers', Counts', m_head', Holding')
  <2>1. Base' = Base
    BY <1>1 DEF Base
  <2>2. /\ Kept(q', low, off, J, Subscribers', Counts', m_head', Holding')
        /\ free_space' = FreeOf(Base', J[q'.count])
        /\ q' \in Queues(Vals) /\ InRing(q'.mem)
    BY <1>2, <1>11, <1>22, <1>23, <1>27, <2>1
  <2> QED BY ONLY <2>2 DEF Sound
<1>29. /\ q'.head \in Positions /\ q'.tail \in Positions
       /\ free_space' \in 0 .. Space - 1 /\ free_space' \in Int
  <2>1. PICK held5 : held5 = Holding'
    OBVIOUS
  <2>2. Sound(Vals, q', free_space', Base', Subscribers', Counts', m_head', held5)
    BY <1>28, <2>1
  <2> QED BY <2>2, NextFacts
<1>30. SmartTypeOK'
  <2>1. subscriptions' = Cardinality(Subscribers')
    <3>1. Cardinality(S \ {h}) = Cardinality(S) - 1
      BY <1>4, FS_RemoveElement
    <3> QED BY <1>1, <1>4, <1>6, <3>1
  <2>2. /\ m_head' \in [Readers -> Positions \cup {NoPos}]
        /\ stage' \in [Readers -> {"closed", "joining", "booked", "open", "leaving"}]
    BY <1>1, <1>5
  <2> QED BY <1>29, <2>1, <2>2 DEF SmartTypeOK
<1>31. ReserveIsKept'
  <2>1. CASE squeezed
    BY <1>1, <2>1 DEF ReserveIsKept
  <2>2. CASE ~squeezed
    <3>1. Base = Capacity /\ free_space >= reserved_space(subscriptions)
      BY <2>2 DEF SmartInv, Base, ReserveIsKept
    <3>2. PICK z, n, f, f2 : /\ z = static_size(1) /\ n = subscriptions /\ f = free_space
                             /\ f2 = free_space'
      OBVIOUS
    <3>3. z \in Nat /\ n \in Nat /\ f \in Nat /\ f2 \in Int
      BY <1>4, <1>29, <3>2, SmartFacts, RingAssumption DEF static_size
    <3>4. f >= 2 * z * n /\ f2 >= f - z
      BY <1>2, <1>10, <3>1, <3>2 DEF reserved_space
    <3>5. f2 >= 2 * z * (n - 1)
      <4>1. 2 * z * (n - 1) = 2 * z * n - 2 * z
        BY <3>3
      <4>2. PICK a \in Int : a = 2 * z * n
        BY <3>3
      <4> QED BY <3>3, <3>4, <4>1, <4>2
    <3>6. reserved_space(subscriptions') = 2 * z * (n - 1)
      BY <1>1, <3>2 DEF reserved_space
    <3> QED BY <3>2, <3>5, <3>6 DEF ReserveIsKept
  <2> QED BY <2>1, <2>2
<1>32. /\ m_counter' \in [Readers -> 0 .. Word - 1]
       /\ m_message_desc' = [g \in Readers |-> m_message_desc'[g]]
       /\ \A g \in Readers : m_message_desc'[g].ok => stage'[g] \in {"open", "leaving"}
       /\ child' \in BOOLEAN /\ squeezed' \in BOOLEAN /\ (child' => squeezed')
       /\ NoSpinner'
  <2>1. 0 \in 0 .. Word - 1
    BY SharedQueueAssumption
  <2> QED BY <1>1, <1>5, <2>1 DEF SmartInv, NoSpinner, NoMessage
<1>33. ASSUME NEW g \in Readers, stage'[g] = "booked"
       PROVE  count(g)' >= Cardinality(Booked) + 1
  <2>1. g \in S \ {h} /\ stage[g] = "booked"
    BY <1>1, <1>3, <1>5, <1>33 DEF Subscribers
  <2>2. count(g) >= Cardinality(Booked) + 1 /\ count(g) \in Nat
    BY <1>3, <2>1, SmartFacts DEF SmartInv
  <2>3. Cardinality(Booked) \in Nat
    <3>1. Booked \subseteq Readers
      BY SmartAssumption
    <3> QED BY <3>1, ReadersFinite
  <2> QED BY <1>25, <2>1, <2>2, <2>3
<1> QED BY <1>26, <1>28, <1>30, <1>31, <1>32, <1>33 DEF SmartInv

-----------------------------------------------------------------------------

(* Multiples of a number.                                                  *)
LEMMA Multiples ==
    ASSUME NEW z \in Nat \ {0}
    PROVE  /\ \A k \in Nat : k * z \in Nat /\ (k + 1) * z = k * z + z
           /\ \A j, k \in Nat : j <= k => j * z <= k * z
           /\ \A j, k \in Nat : j < k => j * z + z <= k * z
<1>1. \A k \in Nat : k * z \in Nat /\ (k + 1) * z = k * z + z
  OBVIOUS
<1>2. ASSUME NEW j \in Nat, NEW k \in Nat, j <= k PROVE j * z <= k * z
  <2>1. PICK i \in Nat : k = j + i
    <3>1. k - j \in Nat /\ k = j + (k - j)
      BY <1>2
    <3> QED BY <3>1
  <2>2. k * z = j * z + i * z /\ i * z \in Nat /\ j * z \in Nat
    BY <2>1
  <2> QED BY <2>2
<1>3. ASSUME NEW j \in Nat, NEW k \in Nat, j < k PROVE j * z + z <= k * z
  <2>1. (j + 1) * z <= k * z /\ (j + 1) * z = j * z + z
    BY <1>1, <1>2, <1>3
  <2> QED BY <2>1
<1> QED BY <1>1, <1>2, <1>3

(* The messages in a new queue lie one behind the other, and each is       *)
(* counted for all that are booked.                                        *)
BookedChunks(chunks, n, z) ==
    \A k \in 1 .. n + 1 :
       \E val \in Vals : chunks[k] = [pos |-> (k - 1) * z, cap |-> 1, head |-> TRUE,
                                      tail |-> TRUE, val |-> val, off |-> 0,
                                      ts |-> 0, counter |-> n]

(* The queue that create() makes: n + 1 service messages of one chunk each, *)
(* one behind the other; with their descriptors and ends.                  *)
NewRing(chunks, n, z, s) ==
    s = [head |-> 0, tail |-> ((n + 1) * z) % Capacity, count |-> n + 1,
         mem |-> {chunks[i] : i \in 1 .. n + 1}]

NewDescs(chunks, n, descs) == descs = [k \in 1 .. n + 1 |-> OneChunk(chunks[k])]

NewEnds(n, z, off) == off = [k \in 0 .. n + 1 |-> k * z]

(* The messages that create() books for the handles to come.               *)
LEMMA BookingChunks ==
    ASSUME NEW booked, NEW n \in Nat, n = Cardinality(booked),
           NEW chunks, chunks = Bookings(booked), NEW z, z = static_size(1)
    PROVE  /\ DOMAIN chunks = 1 .. n + 1 /\ Len(chunks) = n + 1
           /\ BookedChunks(chunks, n, z)
<1> DEFINE v(k) == Val(Creator, IF k <= n THEN "BOOK" ELSE "CONNECT")
           c(k) == MessageChunks(<<[pos |-> (k - 1) * z, cap |-> 1]>>, v(k), 0, n)[1]
<1>1. chunks = [k \in 1 .. n + 1 |-> c(k)]
  BY DEF Bookings
<1>2. ASSUME NEW k \in 1 .. n + 1
      PROVE  v(k) \in Vals /\ c(k) = [pos |-> (k - 1) * z, cap |-> 1, head |-> TRUE,
                                      tail |-> TRUE, val |-> v(k), off |-> 0,
                                      ts |-> 0, counter |-> n]
  <2>1. Creator \in Readers
    BY SharedQueueAssumption, SmartAssumption DEF Handles
  <2>2. v(k) \in Vals
    BY <2>1 DEF Vals, Val, Codes
  <2> HIDE DEF v
  <2>3. PICK part : part = [pos |-> (k - 1) * z, cap |-> 1]
    OBVIOUS
  <2>4. Len(<<part>>) = 1 /\ DOMAIN <<part>> = {1} /\ <<part>>[1] = part
    OBVIOUS
  <2>5. c(k) = [pos |-> part.pos, cap |-> part.cap, head |-> TRUE, tail |-> TRUE,
                val |-> v(k), off |-> 0, ts |-> 0, counter |-> n]
    BY <2>3, <2>4 DEF MessageChunks
  <2> QED BY <2>2, <2>3, <2>5
<1> HIDE DEF v, c
<1>3. DOMAIN chunks = 1 .. n + 1 /\ Len(chunks) = n + 1
  BY <1>1
<1> QED BY <1>1, <1>2, <1>3 DEF BookedChunks

(* The new queue is in order: each service message is counted for every    *)
(* booked handle.                                                          *)
LEMMA NewQueue ==
    ASSUME NEW n \in Nat, NEW chunks, DOMAIN chunks = 1 .. n + 1,
           NEW z, z = static_size(1), (n + 1) * z <= Capacity,
           BookedChunks(chunks, n, z),
           NEW s, NewRing(chunks, n, z, s), NEW descs, NewDescs(chunks, n, descs),
           NEW off, NewEnds(n, z, off)
    PROVE  /\ s \in Queues(Vals) /\ InRing(s.mem) /\ s.count = n + 1
           /\ Layout(s, descs, off) /\ Weighs(descs, n + 1, off)
           /\ \A k \in 1 .. n + 1 : RefCount(descs[k]) = n
           /\ total_size(chunks) = (n + 1) * z
<1> USE DEF BookedChunks, NewRing, NewDescs, NewEnds
<1>1. z \in Nat \ {0} /\ Capacity \in Nat \ {0} /\ HeaderSize \in Nat
  BY RingAssumption DEF static_size
<1>0. /\ \A k \in Nat : k * z \in Nat /\ (k + 1) * z = k * z + z
      /\ \A j, k \in Nat : j <= k => j * z <= k * z
      /\ \A j, k \in Nat : j < k => j * z + z <= k * z
  <2>1. z \in Nat \ {0}
    BY <1>1
  <2> QED BY ONLY <2>1, Multiples
<1>2. PICK N \in Nat \ {0} : N = n + 1
  OBVIOUS
<1>3. /\ s.head = 0 /\ s.tail = (N * z) % Capacity /\ s.count = N
      /\ s.mem = {chunks[i] : i \in 1 .. N}
  BY <1>2
<1>4. /\ \A k \in 0 .. N : k * z \in 0 .. Capacity
      /\ \A k \in 1 .. N : (k - 1) * z \in Positions /\ (k - 1) * z + z = k * z
                           /\ (k - 1) * z + z <= Capacity
      /\ \A j, k \in 0 .. N : j <= k => j * z <= k * z
  <2>1. PICK m \in Nat : m = N * z
    BY <1>1, <1>2
  <2>2. m <= Capacity
    BY <1>2, <2>1
  <2>3. ASSUME NEW k \in 0 .. N PROVE k * z \in 0 .. Capacity
    <3>1. k \in Nat /\ N \in Nat /\ k <= N
      OBVIOUS
    <3>2. k * z \in Nat /\ k * z <= m
      BY <1>0, <2>1, <3>1
    <3> QED BY <1>1, <2>2, <3>2
  <2>4. ASSUME NEW k \in 1 .. N
        PROVE  (k - 1) * z \in Positions /\ (k - 1) * z + z = k * z
               /\ (k - 1) * z + z <= Capacity
    <3>1. k - 1 \in Nat /\ (k - 1) + 1 = k
      OBVIOUS
    <3>2. (k - 1) * z \in Nat /\ (k - 1) * z + z = k * z
      BY <1>0, <3>1
    <3>3. k * z \in 0 .. Capacity
      BY <2>3
    <3>4. PICK a, b : a = (k - 1) * z /\ b = k * z
      OBVIOUS
    <3>5. a \in Nat /\ a + z = b /\ b <= Capacity
      BY <3>2, <3>3, <3>4
    <3>6. a \in Positions /\ a + z = b /\ a + z <= Capacity
      BY <1>1, <3>5 DEF Positions
    <3> QED BY <3>4, <3>6
  <2>5. ASSUME NEW j \in 0 .. N, NEW k \in 0 .. N, j <= k PROVE j * z <= k * z
    <3>1. j \in Nat /\ k \in Nat
      OBVIOUS
    <3> QED BY <1>0, <2>5, <3>1
  <2> QED BY <2>3, <2>4, <2>5
<1>5. ASSUME NEW k \in 1 .. N
      PROVE  /\ chunks[k] \in Chunks(Vals) /\ chunks[k].pos = (k - 1) * z
             /\ chunks[k].cap = 1 /\ chunks[k].head /\ chunks[k].tail
             /\ chunks[k].counter = n /\ static_size(chunks[k].cap) = z
  <2>1. PICK val \in Vals : chunks[k] = [pos |-> (k - 1) * z, cap |-> 1, head |-> TRUE,
                                         tail |-> TRUE, val |-> val, off |-> 0,
                                         ts |-> 0, counter |-> n]
    BY <1>2
  <2>2. (k - 1) * z \in Positions
    BY <1>4
  <2> QED BY <2>1, <2>2 DEF Chunks
<1>6. s \in Queues(Vals)
  <2>1. (N * z) % Capacity \in Positions
    <3>1. N * z \in Int
      BY <1>1
    <3> QED BY <3>1, ModCapacity
  <2>2. 0 \in Positions
    BY <1>1 DEF Positions
  <2>3. {chunks[i] : i \in 1 .. N} \subseteq Chunks(Vals)
    BY <1>5
  <2>4. s = [head |-> 0, tail |-> (N * z) % Capacity, count |-> N,
             mem |-> {chunks[i] : i \in 1 .. N}]
    BY <1>2
  <2> QED BY <2>1, <2>2, <2>3, <2>4 DEF Queues
<1>7. InRing(s.mem)
  <2> SUFFICES ASSUME NEW k \in 1 .. N
               PROVE  chunks[k].pos + static_size(chunks[k].cap) <= Capacity
    BY <1>3 DEF InRing
  <2> QED BY <1>4, <1>5
<1>8. UsedBytes(s) = N * z
  <2>1. PICK m \in Nat : m = N * z /\ m <= Capacity /\ m > 0
    <3>1. N \in Nat /\ 0 < N /\ 0 \in Nat /\ 0 * z = 0
      BY <1>1
    <3>2. N * z \in Nat /\ 0 * z + z <= N * z
      BY <1>0, <3>1
    <3>3. PICK m : m = N * z
      OBVIOUS
    <3>4. m \in Nat /\ m <= Capacity /\ m > 0
      BY <1>1, <1>2, <3>1, <3>2, <3>3
    <3> QED BY <3>3, <3>4
  <2>2. m % Capacity = IF m < Capacity THEN m ELSE 0
    <3>1. CASE m < Capacity
      <4>1. m \in Positions
        BY <1>1, <2>1, <3>1 DEF Positions
      <4> QED BY <3>1, <4>1, ModCapacity
    <3>2. CASE ~(m < Capacity)
      <4>1. m = Capacity
        BY <1>1, <2>1, <3>2
      <4> QED BY <3>2, <4>1, ModCapacity
    <3> QED BY <3>1, <3>2
  <2>3. s.head = 0 /\ s.tail = (IF m < Capacity THEN m ELSE 0) /\ s.count # 0
    BY <1>3, <2>1, <2>2
  <2>4. Dist(s.head, s.tail) = m
    <3>1. m \in Nat /\ m <= Capacity /\ m > 0 /\ Capacity \in Nat \ {0}
      BY <1>1, <2>1
    <3>2. s.head = 0 /\ s.tail = (IF m < Capacity THEN m ELSE 0)
      BY <2>3
    <3> QED BY ONLY <3>1, <3>2 DEF Dist
  <2> QED BY <2>1, <2>3, <2>4 DEF UsedBytes
<1>9. ASSUME NEW k \in 1 .. N
      PROVE  Occupies(Byte(s.head, off[k - 1]), off[k] - off[k - 1], descs[k])
  <2>1. PICK p : p = (k - 1) * z /\ p \in Positions /\ k * z = p + z /\ p + z <= Capacity
    BY <1>4
  <2>2. off[k - 1] = p /\ off[k] = p + z /\ p \in Nat
    BY <1>2, <2>1 DEF Positions
  <2>3. Byte(s.head, off[k - 1]) = p /\ off[k] - off[k - 1] = z
    <3>1. Byte(0, p) = p
      BY SMTT(60), <1>1, <2>1 DEF Byte, Positions
    <3>2. (p + z) - p = z
      BY <1>1, <2>2
    <3> QED BY <1>3, <2>2, <3>1, <3>2
  <2>4. Whole(p, z, OneChunk(chunks[k]))
    <3>1. PICK c : c = chunks[k] /\ c.head /\ c.tail /\ c.cap = 1 /\ c.pos = p
                   /\ z = static_size(c.cap)
      BY <1>5, <2>1
    <3>2. c.cap \in Nat \ {0} /\ p + z <= Capacity /\ OneChunk(chunks[k]) = OneChunk(c)
      BY <2>1, <3>1
    <3> QED BY ONLY <3>1, <3>2 DEF Whole
  <2> QED BY <1>2, <2>3, <2>4 DEF Occupies
<1>10. ASSUME NEW k \in 1 .. N PROVE Holds(s.mem, descs[k])
  <2>1. \A j \in 1 .. N : chunks[j].pos = chunks[k].pos => j = k
    <3> SUFFICES ASSUME NEW j \in 1 .. N, j # k PROVE (j - 1) * z # (k - 1) * z
      BY <1>5
    <3>1. j - 1 \in Nat /\ k - 1 \in Nat /\ (j - 1 < k - 1 \/ k - 1 < j - 1)
      OBVIOUS
    <3>2. (j - 1) * z \in Nat /\ (k - 1) * z \in Nat
      BY <1>0, <3>1
    <3>3. \/ (j - 1) * z + z <= (k - 1) * z
          \/ (k - 1) * z + z <= (j - 1) * z
      BY <1>0, <3>1
    <3>4. PICK a, b : a = (j - 1) * z /\ b = (k - 1) * z
      OBVIOUS
    <3>5. a # b
      BY <1>1, <3>2, <3>3, <3>4
    <3> QED BY <3>4, <3>5
  <2>2. ChunksAt(s.mem, chunks[k].pos) = {chunks[k]}
    BY <1>3, <2>1 DEF ChunksAt
  <2>3. descs[k].chunks = <<chunks[k]>>
    BY <1>2 DEF OneChunk
  <2>4. DOMAIN <<chunks[k]>> = {1} /\ <<chunks[k]>>[1] = chunks[k]
    OBVIOUS
  <2> QED BY <2>2, <2>3, <2>4 DEF Holds
<1>11. Layout(s, descs, off)
  <2>1. descs = [k \in 1 .. s.count |-> descs[k]]
    BY <1>2, <1>3
  <2>2. /\ off \in [0 .. s.count -> 0 .. Capacity] /\ off[0] = 0
        /\ off[s.count] = UsedBytes(s)
        /\ \A j, k \in 0 .. s.count : j <= k => off[j] <= off[k]
    <3>1. off = [k \in 0 .. N |-> k * z] /\ 0 * z = 0
      BY <1>1, <1>2
    <3> QED BY <1>3, <1>4, <1>8, <3>1
  <2>3. s.count # 0
    BY <1>3
  <2> QED BY <1>3, <1>9, <1>10, <2>1, <2>2, <2>3 DEF Layout
<1>12. ASSUME NEW k \in 1 .. N
       PROVE  /\ total_size(descs[k].chunks) = z /\ RefCount(descs[k]) = n
              /\ off[k] = off[k - 1] + z
  <2>1. descs[k].chunks = <<chunks[k]>>
    BY <1>2 DEF OneChunk
  <2>2. PICK c : c = chunks[k] /\ c.cap = 1 /\ static_size(c.cap) = z /\ c.counter = n
    BY <1>5
  <2>3. total_size(<<c>>) = z
    BY <2>2, ChunkTotals
  <2>4. <<c>>[1] = c
    OBVIOUS
  <2>5. off[k] = off[k - 1] + z
    BY <1>2, <1>4
  <2> QED BY <2>1, <2>2, <2>3, <2>4, <2>5 DEF RefCount
<1>13. off \in [0 .. N -> Nat] /\ off[0] = 0 /\ off[N] = N * z
  <2>1. off = [k \in 0 .. N |-> k * z] /\ 0 * z = 0
    BY <1>1, <1>2
  <2> QED BY <1>4, <2>1
<1>14. Weighs(descs, N, off)
  <2>1. ASSUME NEW k \in 1 .. N
        PROVE  off[k] = off[k - 1] + [i \in 1 .. N |-> total_size(descs[i].chunks)][k]
    BY <1>12
  <2> QED BY <1>13, <2>1 DEF Weighs, Sums
<1>15. total_size(chunks) = N * z
  <2>1. ASSUME NEW k \in 1 .. N
        PROVE  off[k] = off[k - 1] + [i \in 1 .. N |-> static_size(chunks[i].cap)][k]
    BY <1>5, <1>12
  <2>2. Sums(off, N, [i \in 1 .. N |-> static_size(chunks[i].cap)])
    BY <1>13, <2>1 DEF Sums
  <2>3. total_size(chunks) = off[N]
    BY <1>2, <2>2, TotalSums
  <2> QED BY <1>13, <2>3
<1> QED BY <1>2, <1>3, <1>6, <1>7, <1>11, <1>12, <1>14, <1>15

(* The constructor leaves the queue in order.                              *)
LEMMA CreatedInOrder ==
    ASSUME NEW booked, booked \subseteq Booked, Created(booked), child \in BOOLEAN,
           m_message_desc = [h \in Readers |-> NoMessage]
    PROVE  /\ Sound(Vals, q, free_space, Base, Subscribers, Counts, m_head, Holding)
           /\ SmartTypeOK
           /\ counter \in 0 .. Word - 1 /\ m_counter \in [Readers -> 0 .. Word - 1]
           /\ subscriptions = Cardinality(booked) + 1
           /\ \A h \in Readers : stage[h] = "booked" => count(h) = Cardinality(booked) + 1
           /\ \A h \in Readers : stage[h] \in {"closed", "booked", "open"}
<1>1. /\ IsFiniteSet(booked) /\ Cardinality(booked) \in Nat
      /\ Cardinality(booked) <= Cardinality(Booked) /\ Cardinality(Booked) \in Nat
      /\ booked \subseteq Readers \ {Creator}
  <2>1. Booked \subseteq Readers \ {Creator}
    BY SmartAssumption
  <2>2. IsFiniteSet(Booked)
    BY <2>1, ReadersFinite
  <2> QED BY <2>1, <2>2, FS_Subset, FS_CardinalityType
<1>2. PICK n \in Nat : n = Cardinality(booked)
  BY <1>1
<1>3. PICK z \in Nat \ {0} : z = static_size(1)
  BY RingAssumption DEF static_size
<1>4. PICK N \in Nat \ {0} : N = n + 1
  OBVIOUS
<1>5. N * z <= Capacity /\ Capacity \in Nat \ {0}
  <2>1. PICK M \in Nat : M = Cardinality(Booked) + 1
    BY <1>1
  <2>2. z * M <= Capacity /\ N <= M
    BY <1>1, <1>2, <1>3, <1>4, <2>1, SmartAssumption
  <2>3. N * z <= M * z /\ M * z = z * M
    BY <2>2, Multiples
  <2>4. N * z \in Int /\ M * z \in Int /\ Capacity \in Int
    BY RingAssumption
  <2> QED BY <2>2, <2>3, <2>4, RingAssumption
<1>6. N + 1 < Word /\ Word \in Nat \ {0}
  <2>1. Capacity < (Word - 1) * z /\ Word \in Nat \ {0}
    BY <1>3, SmartAssumption, SharedQueueAssumption
  <2>2. SUFFICES ASSUME Word - 1 <= N PROVE FALSE
    BY <2>1
  <2>3. Word - 1 \in Nat
    BY <2>1
  <2>4. (Word - 1) * z <= N * z
    BY <2>2, <2>3, Multiples
  <2>5. (Word - 1) * z \in Int /\ N * z \in Int
    BY <2>3
  <2> QED BY <1>5, <2>1, <2>4, <2>5
<1>7. PICK chunks : chunks = Bookings(booked)
  OBVIOUS
<1>8. /\ DOMAIN chunks = 1 .. n + 1 /\ Len(chunks) = n + 1
      /\ BookedChunks(chunks, n, z)
  <2>1. /\ n \in Nat /\ n = Cardinality(booked) /\ chunks = Bookings(booked)
        /\ z = static_size(1)
    BY <1>2, <1>3, <1>7
  <2> QED BY ONLY <2>1, BookingChunks
<1>9. PICK s, descs, off :
          NewRing(chunks, n, z, s) /\ NewDescs(chunks, n, descs) /\ NewEnds(n, z, off)
  BY DEF NewRing, NewDescs, NewEnds
<1>10. /\ s \in Queues(Vals) /\ InRing(s.mem) /\ s.count = n + 1
       /\ Layout(s, descs, off) /\ Weighs(descs, n + 1, off)
       /\ \A k \in 1 .. n + 1 : RefCount(descs[k]) = n
       /\ total_size(chunks) = (n + 1) * z
  <2>1. n \in Nat /\ z = static_size(1) /\ (n + 1) * z <= Capacity
    BY <1>3, <1>4, <1>5
  <2> QED BY ONLY <2>1, <1>8, <1>9, NewQueue
<1>11. /\ q = s /\ counter = N % Word /\ subscriptions = N
       /\ free_space = (Base - N * z) % Space
       /\ stage = [h \in Readers |-> CASE h = Creator -> "open"
                                       [] h \in booked -> "booked"
                                       [] OTHER -> "closed"]
       /\ m_head = [h \in Readers |-> IF h = Creator THEN q.tail ELSE NoPos]
       /\ m_counter = [h \in Readers |-> IF h = Creator THEN counter ELSE 0]
  BY <1>4, <1>7, <1>8, <1>9, <1>10 DEF Created, Base, NewRing
<1>12. counter = N
  BY <1>6, <1>11, ModWord
<1>13. Creator \in Readers /\ Creator \notin booked
  BY <1>1, SharedQueueAssumption, SmartAssumption DEF Handles
<1>14. \A h \in Readers : stage[h] = IF h = Creator THEN "open"
                                     ELSE IF h \in booked THEN "booked" ELSE "closed"
  BY <1>11, <1>13
<1>15. Subscribers = booked \cup {Creator}
  BY <1>1, <1>13, <1>14 DEF Subscribers
<1>16. /\ count(Creator) = 0
       /\ \A h \in booked : count(h) = N
  <2>1. /\ N - N = 0 /\ N - 0 = N /\ 0 % Word = 0 /\ N % Word = N
    BY <1>6, ModWord
  <2>2. m_counter[Creator] = N /\ \A h \in booked : m_counter[h] = 0
    BY <1>1, <1>11, <1>12, <1>13
  <2> QED BY <1>12, <2>1, <2>2 DEF count
<1>17. Tallied(s.count, descs, Subscribers, Counts)
  <2> SUFFICES ASSUME NEW k \in 1 .. s.count
               PROVE  RefCount(descs[k])
                        = Cardinality(Behind(s.count, Subscribers, Counts, k))
    BY DEF Tallied
  <2>1. s.count = N /\ k \in 1 .. N
    BY <1>4, <1>10
  <2>2. N > N - k /\ ~(0 > N - k)
    BY <2>1
  <2>3. \A h \in Subscribers : Counts[h] = IF h = Creator THEN 0 ELSE N
    BY <1>1, <1>13, <1>15, <1>16 DEF Counts
  <2>4. Behind(s.count, Subscribers, Counts, k) = booked
    BY <1>1, <1>13, <1>15, <2>1, <2>2, <2>3 DEF Behind
  <2> QED BY <1>2, <1>10, <2>4
<1>18. ASSUME NEW h \in Subscribers
       PROVE  Tracked(s, descs, off, Counts[h], m_head[h], Holding[h])
  <2>1. DOMAIN Holding[h] = {}
    <3>1. Holding[h] = <<>>
      BY <1>1, <1>13, <1>15 DEF Holding, NoMessage
    <3>2. DOMAIN <<>> = {}
      OBVIOUS
    <3> QED BY <3>1, <3>2
  <2>2. InPlace(Holding[h], s.count, Counts[h], descs)
    BY <2>1 DEF InPlace
  <2>3. s.count = N /\ s.tail \in Positions /\ s.tail # NoPos
    BY <1>4, <1>10 DEF Queues, Positions, NoPos
  <2>4. CASE h = Creator
    <3>1. Counts[h] = 0 /\ m_head[h] = s.tail
      BY <1>11, <1>13, <1>16, <2>4 DEF Counts
    <3>2. off[s.count] = UsedBytes(s) /\ Byte(s.head, UsedBytes(s)) = s.tail
      BY <1>10, LayoutTail DEF Layout
    <3>3. s.count - 0 = s.count /\ 0 \in 0 .. s.count
      BY <2>3
    <3> QED BY <2>2, <2>3, <3>1, <3>2, <3>3 DEF Tracked
  <2>5. CASE h # Creator
    <3>1. Counts[h] = N /\ m_head[h] = NoPos
      BY <1>1, <1>11, <1>15, <1>16, <2>5 DEF Counts
    <3> QED BY <2>2, <2>3, <3>1 DEF Tracked
  <2> QED BY <2>4, <2>5
<1>19. Sound(Vals, q, free_space, Base, Subscribers, Counts, m_head, Holding)
  <2>1. off[s.count] = N * z
    BY <1>4, <1>9, <1>10 DEF NewEnds
  <2>2. free_space = FreeOf(Base, off[s.count])
    BY <1>11, <2>1 DEF FreeOf
  <2>3. Kept(q, descs, off, off, Subscribers, Counts, m_head, Holding)
    BY <1>10, <1>11, <1>17, <1>18 DEF Kept
  <2>4. /\ Kept(q, descs, off, off, Subscribers, Counts, m_head, Holding)
        /\ free_space = FreeOf(Base, off[q.count])
        /\ q \in Queues(Vals) /\ InRing(q.mem)
    BY <1>10, <1>11, <2>2, <2>3
  <2> QED BY ONLY <2>4 DEF Sound
<1>20. SmartTypeOK
  <2>1. q.head \in Positions /\ q.tail \in Positions
    BY <1>10, <1>11 DEF Queues
  <2>2. subscriptions = Cardinality(Subscribers)
    <3>1. Cardinality(booked \cup {Creator}) = Cardinality(booked) + 1
      BY <1>1, <1>13, FS_AddElement
    <3> QED BY <1>2, <1>4, <1>11, <1>15, <3>1
  <2>3. free_space \in 0 .. Space - 1
    <3>1. Base - N * z \in Int
      BY RingAssumption DEF Base
    <3> QED BY <1>11, <3>1, ModSpace
  <2>4. /\ stage \in [Readers -> {"closed", "joining", "booked", "open", "leaving"}]
        /\ m_head \in [Readers -> Positions \cup {NoPos}]
    BY <1>11, <1>14, <2>1
  <2> QED BY <2>1, <2>2, <2>3, <2>4 DEF SmartTypeOK
<1>21. counter \in 0 .. Word - 1 /\ m_counter \in [Readers -> 0 .. Word - 1]
  <2>1. N \in 0 .. Word - 1 /\ 0 \in 0 .. Word - 1
    BY <1>6
  <2> QED BY <1>11, <1>12, <2>1
<1>22. \A h \in Readers : stage[h] = "booked" => count(h) = Cardinality(booked) + 1
  BY <1>2, <1>4, <1>14, <1>16
<1>23. \A h \in Readers : stage[h] \in {"closed", "booked", "open"}
  BY <1>14
<1> QED BY <1>2, <1>4, <1>11, <1>19, <1>20, <1>21, <1>22, <1>23

(* A new queue satisfies the invariant.                                    *)
LEMMA SmartInitInOrder ==
    ASSUME SmartInit
    PROVE  SmartInv
<1>1. /\ m_message_desc = [h \in Readers |-> NoMessage] /\ child \in BOOLEAN
      /\ squeezed = (child \/ free_space < reserved_space(1))
  BY DEF SmartInit
<1>2. PICK booked : /\ Created(booked) /\ booked \in {{}, Booked}
                    /\ ~child => booked = {}
                    /\ child => booked = Booked
  BY DEF SmartInit
<1>3. booked \subseteq Booked
  BY <1>2
<1>4. /\ Sound(Vals, q, free_space, Base, Subscribers, Counts, m_head, Holding)
      /\ SmartTypeOK
      /\ counter \in 0 .. Word - 1 /\ m_counter \in [Readers -> 0 .. Word - 1]
      /\ subscriptions = Cardinality(booked) + 1
      /\ \A h \in Readers : stage[h] = "booked" => count(h) = Cardinality(booked) + 1
      /\ \A h \in Readers : stage[h] \in {"closed", "booked", "open"}
  BY <1>1, <1>2, <1>3, CreatedInOrder
<1>5. \A h \in Readers : stage[h] = "booked" => count(h) >= Cardinality(Booked) + 1
  <2> SUFFICES ASSUME NEW h \in Readers, stage[h] = "booked"
               PROVE  count(h) >= Cardinality(Booked) + 1
    OBVIOUS
  <2>1. count(h) = Cardinality(booked) + 1
    BY <1>4
  <2>2. Cardinality(Booked) \in Nat
    <3>1. Booked \subseteq Readers
      BY SmartAssumption
    <3> QED BY <3>1, ReadersFinite
  <2>3. CASE booked = Booked
    BY <2>1, <2>2, <2>3
  <2>4. CASE booked = {} /\ booked # Booked
    <3>1. ~child
      BY <1>2, <2>4
    <3>3. FALSE
      <4>1. stage = [g \in Readers |-> CASE g = Creator -> "open"
                                          [] g \in booked -> "booked"
                                          [] OTHER -> "closed"]
        BY <1>2 DEF Created
      <4>2. stage[h] # "booked"
        BY <2>4, <4>1
      <4> QED BY <4>2
    <3> QED BY <3>3
  <2> QED BY <1>2, <2>3, <2>4
<1>6. squeezed \in BOOLEAN /\ (child => squeezed)
  <2> DEFINE Less == free_space < reserved_space(1)
  <2>1. squeezed = (child \/ Less)
    BY <1>1
  <2> HIDE DEF Less
  <2>2. child => squeezed
    BY <2>1, Zenon
  <2>3. squeezed \in BOOLEAN
    BY <1>1, <2>1, Zenon
  <2> QED BY <2>2, <2>3
<1>7. ReserveIsKept
  <2>1. CASE child
    BY <1>6, <2>1 DEF ReserveIsKept
  <2>2. CASE ~child
    <3>1. subscriptions = 1
      BY <1>2, <1>4, <2>2, FS_EmptySet
    <3>2. PICK a, b : a = free_space /\ b = reserved_space(1)
      OBVIOUS
    <3>3. a \in Int /\ b \in Int
      <4>1. static_size(1) \in Nat
        BY RingAssumption DEF static_size
      <4>2. free_space \in 0 .. Space - 1
        BY <1>4 DEF SmartTypeOK
      <4> QED BY <3>2, <4>1, <4>2, SmartAssumption DEF reserved_space
    <3>4. squeezed = (child \/ a < b)
      BY <1>1, <3>2
    <3>5. a < b \/ a >= b
      BY <3>3
    <3>6. squeezed \/ a >= b
      BY <3>4, <3>5, Zenon
    <3> QED BY <3>1, <3>2, <3>6 DEF ReserveIsKept
  <2> QED BY <2>1, <2>2
<1>8. NoSpinner
  BY <1>4 DEF NoSpinner
<1>9. /\ m_message_desc = [h \in Readers |-> m_message_desc[h]]
      /\ \A h \in Readers : m_message_desc[h].ok => stage[h] \in {"open", "leaving"}
  BY <1>1 DEF NoMessage
<1> QED BY <1>1, <1>4, <1>5, <1>6, <1>7, <1>8, <1>9 DEF SmartInv
-----------------------------------------------------------------------------
(* Every step keeps the invariant, as long as no torn message is pushed.   *)
LEMMA SmartStepInOrder ==
    ASSUME SmartInv, [SmartNext]_smartVars, ~torn'
    PROVE  SmartInv'
<1>1. CASE UNCHANGED smartVars
  <2>1. UNCHANGED <<q, counter, subscriptions, stage, m_head, m_counter, m_message_desc,
                    free_space, child, squeezed>>
    BY <1>1 DEF smartVars, sharedVars
  <2>2. Counts' = Counts /\ Base' = Base /\ Subscribers' = Subscribers /\ Holding' = Holding
    BY <2>1 DEF Counts, count, Base, Subscribers, Holding
  <2>3. SmartTypeOK' /\ ReserveIsKept' /\ NoSpinner'
    BY <2>1, <2>2 DEF SmartInv, SmartTypeOK, ReserveIsKept, NoSpinner
  <2>4. Sound(Vals, q', free_space', Base', Subscribers', Counts', m_head', Holding')
    BY <2>1, <2>2 DEF SmartInv
  <2>5. /\ counter' \in 0 .. Word - 1 /\ m_counter' \in [Readers -> 0 .. Word - 1]
        /\ m_message_desc' = [h \in Readers |-> m_message_desc'[h]]
        /\ \A h \in Readers : m_message_desc'[h].ok => stage'[h] \in {"open", "leaving"}
        /\ child' \in BOOLEAN /\ squeezed' \in BOOLEAN /\ (child' => squeezed')
    BY <2>1 DEF SmartInv
  <2>6. \A h \in Readers : stage'[h] = "booked" => count(h)' >= Cardinality(Booked) + 1
    BY <2>1 DEF SmartInv, count
  <2> QED BY <2>3, <2>4, <2>5, <2>6 DEF SmartInv
<1>2. ASSUME SmartNext PROVE SmartInv'
  <2>1. PICK h \in Readers :
           \/ Join(h) \/ JoinSpins(h) \/ OpenBooked(h)
           \/ Leave(h) \/ LeaveSpins(h)
           \/ \E size \in Sizes : SmartPush(h, size)
           \/ SmartGet(h) \/ SmartPop(h)
    BY <1>2 DEF SmartNext
  <2>2. CASE Join(h)
    BY <2>2, JoinStep
  <2>3. CASE JoinSpins(h)
    BY <2>3, JoinSpinsStep
  <2>4. CASE OpenBooked(h)
    BY <2>4, OpenBookedStep
  <2>5. CASE Leave(h)
    BY <2>5, LeaveStep
  <2>6. CASE LeaveSpins(h)
    BY <2>6, LeaveSpinsStep
  <2>7. CASE \E size \in Sizes : SmartPush(h, size)
    BY <2>7, SmartPushStep
  <2>8. CASE SmartGet(h)
    BY <2>8, SmartGetStep
  <2>9. CASE SmartPop(h)
    BY <2>9, SmartPopStep
  <2> QED BY <2>1, <2>2, <2>3, <2>4, <2>5, <2>6, <2>7, <2>8, <2>9
<1> QED BY <1>1, <1>2

(* The inductive invariant holds until a torn message is pushed.           *)
THEOREM SmartInvariant == SmartSpec => [](torn \/ SmartInv)
<1>1. SmartInit => torn \/ SmartInv
  BY SmartInitInOrder
<1>2. (torn \/ SmartInv) /\ [SmartNext]_smartVars => (torn \/ SmartInv)'
  <2> SUFFICES ASSUME torn \/ SmartInv, [SmartNext]_smartVars, ~torn' PROVE SmartInv'
    OBVIOUS
  <2>1. ~torn
    BY DEF SmartNext, smartVars
  <2> QED BY <2>1, SmartStepInOrder
<1> QED BY <1>1, <1>2, PTL DEF SmartSpec

(* What is read from the head of the queue.                                *)
LEMMA AllContents ==
    ASSUME SmartInv
    PROVE  \E descs, off, J :
              /\ Kept(q, descs, off, J, Subscribers, Counts, m_head, Holding)
              /\ free_space = FreeOf(Base, J[q.count])
              /\ Contents(q.head, q.count) = descs
              /\ DOMAIN descs = 1 .. q.count
              /\ \A k \in 1 .. q.count : descs[k].ok
<1>1. PICK s, space, base, members, lags, heads, V, held :
         /\ s = q /\ space = free_space /\ base = Base /\ members = Subscribers
         /\ lags = Counts /\ heads = m_head /\ V = Vals /\ held = Holding
  OBVIOUS
<1>2. Sound(V, s, space, base, members, lags, heads, held)
  BY <1>1 DEF SmartInv
<1>3. PICK descs, off, J : /\ Kept(s, descs, off, J, members, lags, heads, held)
                           /\ space = FreeOf(base, J[s.count])
                           /\ s \in Queues(V) /\ InRing(s.mem)
  BY ONLY <1>2 DEF Sound
<1>4. Layout(q, descs, off) /\ q \in Queues(V) /\ q.count \in Nat
      /\ q.head \in Positions
  BY <1>1, <1>3 DEF Kept, Queues
<1>5. \A k \in 1 .. q.count : descs[k].ok
  <2> SUFFICES ASSUME NEW k \in 1 .. q.count PROVE descs[k].ok
    OBVIOUS
  <2> QED BY <1>4, LayoutReads
<1>6. descs = [k \in 1 .. q.count |-> descs[k]]
  BY <1>4 DEF Layout
<1>7. Contents(q.head, q.count) = descs
  <2>1. PICK b, n, hd : b = 0 /\ n = q.count /\ hd = q.head
    OBVIOUS
  <2>2. hd = Byte(q.head, off[b])
    BY <1>4, <2>1, RingAssumption DEF Layout, Byte, Positions
  <2>3. b \in 0 .. q.count /\ n \in Nat /\ b + n <= q.count
    BY <1>4, <2>1
  <2>4. Contents(hd, n) = [k \in 1 .. n |-> descs[b + k]]
    BY <1>4, <2>2, <2>3, ContentsFrom
  <2>5. [k \in 1 .. n |-> descs[b + k]] = [k \in 1 .. q.count |-> descs[k]]
    BY <1>4, <2>1
  <2> QED BY <1>6, <2>1, <2>4, <2>5
<1> QED BY <1>1, <1>3, <1>5, <1>6, <1>7

(* free_space is always exactly the room that no message holds: no push,   *)
(* refused or stored, no clean_messages and no pop loses or gains a byte,  *)
(* until a torn message is pushed.                                         *)
THEOREM SpaceHolds == SmartSpec => []SpaceIsExact
<1>1. ASSUME SmartInv PROVE SpaceIsExact
  <2>1. PICK descs, off, J :
              /\ Kept(q, descs, off, J, Subscribers, Counts, m_head, Holding)
              /\ free_space = FreeOf(Base, J[q.count])
              /\ Contents(q.head, q.count) = descs
              /\ DOMAIN descs = 1 .. q.count
    BY <1>1, AllContents
  <2>2. PICK n \in Nat : n = q.count
    BY <1>1, SmartFacts
  <2>3. Sums(J, n, [k \in 1 .. n |-> total_size(descs[k].chunks)])
    BY <2>1, <2>2 DEF Kept, Weighs
  <2>4. SizeOf(descs) = J[n]
    BY <2>1, <2>2, <2>3, SizeSums
  <2> QED BY <2>1, <2>2, <2>4 DEF SpaceIsExact, FreeOf, Base
<1>2. SmartInv => SpaceIsExact
  BY <1>1
<1>3. torn => SpaceIsExact
  BY DEF SpaceIsExact
<1> QED BY <1>2, <1>3, SmartInvariant, PTL

(* The reference counter of each message in the ring is always the number of *)
(* subscribers that have not read it, so none is decremented below zero and *)
(* clean_messages frees a message when the last of them has read it.       *)
THEOREM CountersHold == SmartSpec => []CountersAreExact
<1>1. ASSUME SmartInv PROVE CountersAreExact
  <2>1. PICK descs, off, J :
              /\ Kept(q, descs, off, J, Subscribers, Counts, m_head, Holding)
              /\ Contents(q.head, q.count) = descs
              /\ \A k \in 1 .. q.count : descs[k].ok
    BY <1>1, AllContents
  <2>2. ASSUME NEW k \in 1 .. q.count
        PROVE  descs[k].chunks[1].counter =
                   Cardinality({h \in Subscribers : count(h) > q.count - k})
    <3>1. RefCount(descs[k]) = Cardinality(Behind(q.count, Subscribers, Counts, k))
      BY <2>1 DEF Kept, Tallied
    <3>2. Behind(q.count, Subscribers, Counts, k)
             = {h \in Subscribers : count(h) > q.count - k}
      BY <1>1, SmartFacts DEF Behind
    <3> QED BY <3>1, <3>2 DEF RefCount
  <2> QED BY <1>1, <2>1, <2>2 DEF CountersAreExact, SmartInv
<1>2. SmartInv => CountersAreExact
  BY <1>1
<1>3. torn => CountersAreExact
  BY DEF CountersAreExact
<1> QED BY <1>2, <1>3, SmartInvariant, PTL

(* As long as the reserve is there, joining and leaving never spin: the    *)
(* service message they push is accepted.                                  *)
THEOREM NoSpinHolds == SmartSpec => []NobodySpins
<1>1. SmartInv => NobodySpins
  BY DEF SmartInv, NoSpinner, NobodySpins
<1>2. torn => NobodySpins
  BY DEF NobodySpins
<1> QED BY <1>1, <1>2, SmartInvariant, PTL
=============================================================================
