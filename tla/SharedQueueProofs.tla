-------------------------- MODULE SharedQueueProofs -------------------------
(***************************************************************************)
(* The shared queue for every capacity, header size and set of handles:    *)
(* every reader, from its private place in the ring, reads exactly what    *)
(* was pushed for it; no message is collected or overwritten that somebody *)
(* has still to pop; and what everybody has popped is collected.           *)
(***************************************************************************)
EXTENDS SharedQueue, RingProofs, FiniteSetTheorems

USE DEF sharedVars

(* The reference counter of a message.                                     *)
RefCount(d) == d.chunks[1].counter

(* How many messages at the head nobody has to pop: the collector stops    *)
(* behind them.                                                            *)
Garbage(s, descs, m) ==
    /\ m \in 0 .. s.count
    /\ \A k \in 1 .. m : RefCount(descs[k]) = 0
    /\ m < s.count => RefCount(descs[m + 1]) # 0

(* There is a longest run of unreferenced messages at the head.            *)
LEMMA GarbageExists ==
    ASSUME NEW V, NEW s \in Queues(V), NEW descs
    PROVE  \E m : Garbage(s, descs, m)
<1> DEFINE n == s.count
           S == {k \in Nat : k <= n => \A i \in 1 .. k : RefCount(descs[i]) = 0}
<1> SUFFICES ASSUME ~ \E m : Garbage(s, descs, m) PROVE FALSE
  OBVIOUS
<1>1. n \in Nat
  BY DEF Queues
<1>2. 0 \in S
  OBVIOUS
<1>3. ASSUME NEW k \in Nat, k \in S PROVE k + 1 \in S
  <2> SUFFICES ASSUME k + 1 <= n, NEW i \in 1 .. k + 1 PROVE RefCount(descs[i]) = 0
    OBVIOUS
  <2>1. k <= n /\ k < n /\ k \in 0 .. n /\ (i \in 1 .. k \/ i = k + 1)
    BY <1>1
  <2>2. \A j \in 1 .. k : RefCount(descs[j]) = 0
    BY <1>3, <2>1
  <2>3. RefCount(descs[k + 1]) = 0
    BY <2>1, <2>2 DEF Garbage
  <2> QED BY <2>1, <2>2, <2>3
<1>4. n \in S
  <2> HIDE DEF S
  <2> QED BY <1>1, <1>2, <1>3, SetInduction
<1>5. \A i \in 1 .. n : RefCount(descs[i]) = 0
  BY <1>1, <1>4
<1>6. Garbage(s, descs, n)
  BY <1>1, <1>5 DEF Garbage
<1> QED BY <1>6

(* The loop of clean_messages removes exactly these.                       *)
LEMMA SweepCollects ==
    ASSUME NEW V, NEW s \in Queues(V), NEW descs, NEW off, Layout(s, descs, off),
           NEW m, Garbage(s, descs, m)
    PROVE  Sweep(s, FALSE) = [head |-> Byte(s.head, off[m]), tail |-> s.tail,
                              count |-> s.count - m, mem |-> s.mem]
<1> DEFINE n == s.count
           From(k) == [head |-> Byte(s.head, off[k]), tail |-> s.tail,
                       count |-> n - k, mem |-> s.mem]
           Desc(r) == get_message(r.mem, r.head, r.tail, FALSE)
           Body(f, k) ==
               IF k = 0 THEN [s |-> s, stop |-> FALSE]
               ELSE IF f[k - 1].stop \/ ~Releases(Desc(f[k - 1].s))
                    THEN [s |-> f[k - 1].s, stop |-> TRUE]
                    ELSE [s |-> Collect(f[k - 1].s, Desc(f[k - 1].s)), stop |-> FALSE]
           walk == [k \in 0 .. n |-> IF k <= m THEN [s |-> From(k), stop |-> FALSE]
                                               ELSE [s |-> From(m), stop |-> TRUE]]
           swept == CHOOSE f : f = [k \in 0 .. n |-> Body(f, k)]
<1>1. /\ n \in Nat /\ s.head \in Positions /\ Capacity \in Nat \ {0}
      /\ s = [head |-> s.head, tail |-> s.tail, count |-> n, mem |-> s.mem]
      /\ m \in Nat /\ m <= n
  BY RingAssumption DEF Queues, Garbage
<1>2. Sweep(s, FALSE) = swept[n].s
  BY DEF Sweep
<1>3. From(0) = s
  <2>1. off[0] = 0
    BY DEF Layout
  <2>2. Byte(s.head, 0) = s.head /\ n - 0 = n
    BY <1>1 DEF Byte, Positions
  <2> QED BY <1>1, <2>1, <2>2
<1>4. walk[0] = Body(walk, 0)
  <2>1. 0 \in 0 .. n /\ 0 <= m
    BY <1>1
  <2>2. walk[0] = [s |-> From(0), stop |-> FALSE]
    BY <2>1
  <2> HIDE DEF From, walk
  <2> QED BY <1>3, <2>2
<1>5. ASSUME NEW k \in 1 .. n
      PROVE  /\ Desc(From(k - 1)) = descs[k] /\ descs[k].ok
             /\ Collect(From(k - 1), descs[k]) = From(k)
  <2> DEFINE before == From(k - 1)
  <2>1. Finds(s, before.head, descs[k])
    BY LayoutGets
  <2>2. before.mem = s.mem /\ before.tail = s.tail /\ before.count - 1 = n - k
    BY <1>1
  <2>3. After(descs[k]) = Byte(s.head, off[k])
    BY LayoutNext
  <2>4. descs[k].ok
    BY LayoutReads
  <2>5. Desc(before) = descs[k]
    <3> HIDE DEF before
    <3> QED BY <2>1, <2>2 DEF Finds
  <2>6. Collect(before, descs[k]) = From(k)
    <3> HIDE DEF before
    <3> QED BY <2>2, <2>3 DEF Collect, After
  <2> QED BY <2>4, <2>5, <2>6
<1> HIDE DEF From, Desc
<1>6. ASSUME NEW k \in 1 .. n PROVE walk[k] = Body(walk, k)
  <2>1. k - 1 \in 0 .. n /\ k \in 0 .. n /\ k # 0 /\ k \in Nat
    BY <1>1
  <2>2. CASE k <= m
    <3>1. k - 1 <= m /\ k \in 1 .. m
      BY <1>1, <2>1, <2>2
    <3>2. walk[k - 1] = [s |-> From(k - 1), stop |-> FALSE]
          /\ walk[k] = [s |-> From(k), stop |-> FALSE]
      BY <2>1, <2>2, <3>1
    <3>3. Releases(descs[k])
      BY <1>5, <3>1 DEF Releases, Garbage, RefCount
    <3> HIDE DEF walk
    <3>4. walk[k - 1].s = From(k - 1) /\ ~walk[k - 1].stop
      BY <3>2
    <3>5. Body(walk, k) = [s |-> Collect(From(k - 1), descs[k]), stop |-> FALSE]
      BY <1>5, <2>1, <3>3, <3>4
    <3> HIDE DEF Body
    <3> QED BY <1>5, <3>2, <3>5
  <2>3. CASE k = m + 1
    <3>1. k - 1 = m /\ ~(k <= m) /\ m < n
      BY <1>1, <2>1, <2>3
    <3>2. walk[k - 1] = [s |-> From(k - 1), stop |-> FALSE]
          /\ walk[k] = [s |-> From(k - 1), stop |-> TRUE]
      <4>1. walk[k] = [s |-> From(m), stop |-> TRUE]
        BY <2>1, <3>1
      <4>2. k - 1 <= m
        BY <1>1, <3>1
      <4>3. walk[k - 1] = [s |-> From(k - 1), stop |-> FALSE]
        BY <2>1, <4>2
      <4> QED BY <3>1, <4>1, <4>3
    <3>3. ~Releases(descs[k])
      BY <2>3, <3>1 DEF Releases, Garbage, RefCount
    <3> HIDE DEF walk
    <3>4. walk[k - 1].s = From(k - 1)
      BY <3>2
    <3>5. Body(walk, k) = [s |-> From(k - 1), stop |-> TRUE]
      BY <1>5, <2>1, <3>3, <3>4
    <3> HIDE DEF Body
    <3> QED BY <3>2, <3>5
  <2>4. CASE k > m + 1
    <3>1. ~(k - 1 <= m) /\ ~(k <= m)
      BY <1>1, <2>1, <2>4
    <3>2. walk[k - 1] = [s |-> From(m), stop |-> TRUE]
          /\ walk[k] = [s |-> From(m), stop |-> TRUE]
      BY <2>1, <3>1
    <3> HIDE DEF walk
    <3> QED BY <2>1, <3>2
  <2> QED BY <1>1, <2>1, <2>2, <2>3, <2>4
<1>7. \A k \in 0 .. n : k = 0 \/ k \in 1 .. n
  BY <1>1
<1>8. walk = [k \in 0 .. n |-> Body(walk, k)]
  <2>1. \A k \in 0 .. n : walk[k] = Body(walk, k)
    BY <1>4, <1>6, <1>7
  <2>2. walk = [k \in 0 .. n |-> walk[k]]
    OBVIOUS
  <2> HIDE DEF walk, Body
  <2> QED BY <2>1, <2>2
<1>9. walk[n].s = From(m)
  <2>1. n \in 0 .. n /\ (n <= m => n = m)
    BY <1>1
  <2> QED BY <2>1
<1> HIDE DEF walk
<1>10. swept = [k \in 0 .. n |-> Body(swept, k)]
  BY <1>8
<1> HIDE DEF swept
<1>11. Nat \subseteq {k \in Nat : k <= n => swept[k] = walk[k]}
  <2> DEFINE S == {k \in Nat : k <= n => swept[k] = walk[k]}
  <2>1. \A k \in 0 .. n : swept[k] = Body(swept, k) /\ walk[k] = Body(walk, k)
    <3> HIDE DEF Body
    <3>1. \A k \in 0 .. n : swept[k] = Body(swept, k)
      BY <1>10
    <3> QED BY <1>4, <1>6, <1>7, <3>1
  <2>2. 0 \in S
    <3>1. 0 \in 0 .. n
      BY <1>1
    <3> QED BY <2>1, <3>1
  <2>3. ASSUME NEW k \in Nat, k \in S PROVE k + 1 \in S
    <3>1. SUFFICES ASSUME k + 1 <= n PROVE swept[k + 1] = walk[k + 1]
      BY <2>3
    <3>2. k <= n /\ k + 1 \in 0 .. n /\ k + 1 # 0 /\ (k + 1) - 1 = k
      BY <1>1, <3>1
    <3>3. swept[k] = walk[k]
      BY <2>3, <3>2
    <3>4. Body(swept, k + 1) = Body(walk, k + 1)
      BY <3>2, <3>3
    <3> QED BY <2>1, <3>2, <3>4
  <2> HIDE DEF S
  <2> QED BY <2>2, <2>3, SetInduction DEF S
<1>12. swept[n] = walk[n]
  BY <1>1, <1>11
<1> QED BY <1>2, <1>9, <1>12 DEF From
-----------------------------------------------------------------------------
(* A number below Word is its own remainder.                               *)
LEMMA ModWord == \A a \in 0 .. Word - 1 : a % Word = a
<1>1. Word \in Nat /\ Word > 0
  BY SharedQueueAssumption
<1> QED BY <1>1

(* The atomic decrement of a reference counter.                            *)
Lower(c) == [c EXCEPT !.counter = (@ - 1) % Word]

Lowered(d) ==
    [ok |-> d.ok,
     chunks |-> [i \in DOMAIN d.chunks |-> IF i = 1 THEN Lower(d.chunks[1])
                                                    ELSE d.chunks[i]],
     next |-> d.next]

(* ... of the messages whose first chunks are at places.                   *)
LoweredAt(mem, places) == {IF c.pos \in places THEN Lower(c) ELSE c : c \in mem}

(* It changes nothing but the counter.                                     *)
LEMMA LowerKeeps ==
    ASSUME NEW V, NEW c \in Chunks(V)
    PROVE  /\ Lower(c) \in Chunks(V)
           /\ Lower(c) = [pos |-> c.pos, cap |-> c.cap, head |-> c.head,
                          tail |-> c.tail, val |-> c.val, off |-> c.off,
                          ts |-> c.ts, counter |-> (c.counter - 1) % Word]
<1>1. c.counter - 1 \in Int /\ Word \in Nat \ {0}
  BY SharedQueueAssumption DEF Chunks
<1>2. \A a \in Int : a % Word \in Nat
  BY <1>1
<1>3. (c.counter - 1) % Word \in Nat
  BY <1>1, <1>2
<1> DEFINE n == (c.counter - 1) % Word
<1>4. Lower(c) = [c EXCEPT !.counter = n]
  BY DEF Lower
<1> HIDE DEF n
<1>5. Lower(c) = [pos |-> c.pos, cap |-> c.cap, head |-> c.head, tail |-> c.tail,
                  val |-> c.val, off |-> c.off, ts |-> c.ts, counter |-> n]
  BY <1>4 DEF Chunks
<1> QED BY <1>3, <1>5 DEF Chunks, n

(* The message lies where it lay.                                          *)
LEMMA LoweredOccupies ==
    ASSUME NEW V, NEW p, NEW w, NEW d, Occupies(p, w, d),
           \A i \in DOMAIN d.chunks : d.chunks[i] \in Chunks(V)
    PROVE  Occupies(p, w, Lowered(d))
<1>0. ASSUME NEW c \in Chunks(V)
      PROVE  /\ Lower(c).pos = c.pos /\ Lower(c).cap = c.cap
             /\ Lower(c).head = c.head /\ Lower(c).tail = c.tail
  <2> DEFINE n == (c.counter - 1) % Word
  <2>1. Lower(c) = [pos |-> c.pos, cap |-> c.cap, head |-> c.head, tail |-> c.tail,
                    val |-> c.val, off |-> c.off, ts |-> c.ts, counter |-> n]
    BY <1>0, LowerKeeps
  <2> HIDE DEF n
  <2> QED BY <2>1
<1>1. ASSUME NEW c, d = OneChunk(c)
      PROVE  c \in Chunks(V) /\ Lowered(d) = OneChunk(Lower(c))
  <2>1. d.chunks = <<c>> /\ d.ok = TRUE /\ d.next = c.pos + static_size(c.cap)
    BY <1>1 DEF OneChunk
  <2>2. c \in Chunks(V)
    BY <2>1
  <2>3. [i \in DOMAIN d.chunks |-> IF i = 1 THEN Lower(d.chunks[1]) ELSE d.chunks[i]]
            = <<Lower(c)>>
    BY <2>1
  <2>4. OneChunk(Lower(c)) = [ok |-> TRUE, chunks |-> <<Lower(c)>>, next |-> d.next]
    BY <1>0, <2>1, <2>2 DEF OneChunk
  <2> QED BY <2>1, <2>2, <2>3, <2>4 DEF Lowered
<1>2. ASSUME NEW c, NEW t, d = TwoChunks(c, t)
      PROVE  c \in Chunks(V) /\ Lowered(d) = TwoChunks(Lower(c), t)
  <2>1. d.chunks = <<c, t>> /\ d.ok = TRUE /\ d.next = t.pos + static_size(t.cap)
    BY <1>2 DEF TwoChunks
  <2>2. c \in Chunks(V)
    BY <2>1
  <2>3. [i \in DOMAIN d.chunks |-> IF i = 1 THEN Lower(d.chunks[1]) ELSE d.chunks[i]]
            = <<Lower(c), t>>
    BY <2>1
  <2>4. TwoChunks(Lower(c), t) = [ok |-> TRUE, chunks |-> <<Lower(c), t>>, next |-> d.next]
    BY <2>1 DEF TwoChunks
  <2> QED BY <2>1, <2>2, <2>3, <2>4 DEF Lowered
<1>3. CASE Whole(p, w, d)
  <2>1. PICK c : /\ d = OneChunk(c) /\ c.head /\ c.tail /\ c.cap \in Nat \ {0}
                 /\ c.pos = p /\ w = static_size(c.cap) /\ p + w <= Capacity
    BY <1>3 DEF Whole
  <2> QED BY <1>0, <1>1, <2>1 DEF Occupies, Whole
<1>4. CASE Skipping(p, w, d)
  <2>1. PICK c : /\ d = OneChunk(c) /\ c.head /\ c.tail /\ c.cap \in Nat \ {0}
                 /\ c.pos = 0 /\ Capacity - p <= HeaderSize
                 /\ w = Capacity - p + static_size(c.cap)
    BY <1>4 DEF Skipping
  <2> QED BY <1>0, <1>1, <2>1 DEF Occupies, Skipping
<1>5. CASE Split(p, w, d)
  <2>1. PICK c, t : /\ d = TwoChunks(c, t) /\ c.head /\ ~c.tail /\ t.tail
                    /\ c.cap \in Nat \ {0} /\ t.cap \in Nat \ {0}
                    /\ c.pos = p /\ p + static_size(c.cap) = Capacity
                    /\ t.pos = 0 /\ w = Capacity - p + static_size(t.cap)
    BY <1>5 DEF Split
  <2>2. c \in Chunks(V) /\ Lowered(d) = TwoChunks(Lower(c), t)
    BY <1>2, <2>1
  <2>3. /\ Lower(c).head /\ ~Lower(c).tail
        /\ Lower(c).cap \in Nat \ {0} /\ Lower(c).pos = p
        /\ p + static_size(Lower(c).cap) = Capacity
    BY ONLY <1>0, <2>1, <2>2
  <2>4. Split(p, w, Lowered(d))
    BY ONLY <2>1, <2>2, <2>3 DEF Split
  <2> QED BY <2>4 DEF Occupies
<1> QED BY <1>3, <1>4, <1>5 DEF Occupies

(* The memory stays one of a queue.                                        *)
LEMMA DecInRing ==
    ASSUME NEW V, NEW s \in Queues(V), InRing(s.mem), NEW places, NEW t,
           t = [s EXCEPT !.mem = LoweredAt(@, places)]
    PROVE  t \in Queues(V) /\ InRing(t.mem)
<1> DEFINE mem == LoweredAt(s.mem, places)
           New(c) == IF c.pos \in places THEN Lower(c) ELSE c
<1>0. /\ s.mem \subseteq Chunks(V) /\ s.count \in Nat
      /\ s.head \in Positions /\ s.tail \in Positions
      /\ s = [head |-> s.head, tail |-> s.tail, count |-> s.count, mem |-> s.mem]
  BY DEF Queues
<1>1. mem = {New(c) : c \in s.mem}
  BY DEF LoweredAt
<1>2. ASSUME NEW c \in Chunks(V)
      PROVE  New(c) \in Chunks(V) /\ New(c).pos = c.pos /\ New(c).cap = c.cap
  <2>1. Lower(c) \in Chunks(V)
    BY <1>2, LowerKeeps
  <2> DEFINE n == (c.counter - 1) % Word
  <2>2. Lower(c) = [pos |-> c.pos, cap |-> c.cap, head |-> c.head, tail |-> c.tail,
                    val |-> c.val, off |-> c.off, ts |-> c.ts, counter |-> n]
    BY <1>2, LowerKeeps
  <2> HIDE DEF n
  <2> QED BY <1>2, <2>1, <2>2
<1>3. t = [head |-> s.head, tail |-> s.tail, count |-> s.count, mem |-> mem]
  BY <1>0
<1> HIDE DEF New, mem
<1>4. mem \subseteq Chunks(V) /\ InRing(mem)
  BY <1>0, <1>1, <1>2 DEF InRing
<1>5. t.mem = mem
  BY <1>3
<1> QED BY <1>0, <1>3, <1>4, <1>5 DEF Queues

(* What the decrement makes of the memory: the messages whose first chunks *)
(* are at places are lowered, the others stay.                             *)
LEMMA LoweredLayout ==
    ASSUME NEW V, NEW s \in Queues(V), NEW descs, NEW off,
           Layout(s, descs, off), NEW K, K \subseteq 1 .. s.count,
           NEW places, places = {descs[k].chunks[1].pos : k \in K}, NEW t,
           t = [s EXCEPT !.mem = LoweredAt(@, places)]
    PROVE  Layout(t, [j \in 1 .. s.count |-> IF j \in K THEN Lowered(descs[j])
                                                        ELSE descs[j]], off)
<1> DEFINE mem == LoweredAt(s.mem, places)
           low == [j \in 1 .. s.count |-> IF j \in K THEN Lowered(descs[j]) ELSE descs[j]]
           New(c) == IF c.pos \in places THEN Lower(c) ELSE c
<1>0. /\ s.mem \subseteq Chunks(V) /\ s.count \in Nat
      /\ s.head \in Positions /\ s.tail \in Positions
      /\ s = [head |-> s.head, tail |-> s.tail, count |-> s.count, mem |-> s.mem]
  BY DEF Queues
<1>1. mem = {New(c) : c \in s.mem}
  BY DEF LoweredAt
<1>2. ASSUME NEW c \in Chunks(V)
      PROVE  New(c) \in Chunks(V) /\ New(c).pos = c.pos /\ New(c).cap = c.cap
  <2>1. Lower(c) \in Chunks(V)
    BY <1>2, LowerKeeps
  <2> DEFINE n == (c.counter - 1) % Word
  <2>2. Lower(c) = [pos |-> c.pos, cap |-> c.cap, head |-> c.head, tail |-> c.tail,
                    val |-> c.val, off |-> c.off, ts |-> c.ts, counter |-> n]
    BY <1>2, LowerKeeps
  <2> HIDE DEF n
  <2> QED BY <1>2, <2>1, <2>2
<1>3. t = [head |-> s.head, tail |-> s.tail, count |-> s.count, mem |-> mem]
  BY <1>0
<1> HIDE DEF New, mem
<1>5. /\ t.head = s.head /\ t.tail = s.tail /\ t.count = s.count /\ t.mem = mem
  BY <1>3
<1>7. ASSUME NEW x, NEW c, ChunksAt(s.mem, x) = {c}
      PROVE  ChunksAt(mem, x) = {New(c)}
  <2>1. c \in s.mem /\ c \in Chunks(V) /\ c.pos = x
    BY <1>0, <1>7 DEF ChunksAt
  <2>2. New(c) \in ChunksAt(mem, x)
    BY <1>1, <1>2, <2>1 DEF ChunksAt
  <2>3. ASSUME NEW y \in ChunksAt(mem, x) PROVE y = New(c)
    <3>1. PICK z \in s.mem : y = New(z)
      BY <1>1, <2>3 DEF ChunksAt
    <3>2. z.pos = x
      BY <1>0, <1>2, <3>1, <2>3 DEF ChunksAt
    <3>3. z = c
      BY <1>7, <3>2 DEF ChunksAt
    <3> QED BY <3>1, <3>3
  <2> QED BY <2>2, <2>3
<1>8. ASSUME NEW j \in 1 .. s.count
      PROVE  /\ Occupies(Byte(s.head, off[j - 1]), off[j] - off[j - 1], low[j])
             /\ Holds(mem, low[j])
  <2>1. /\ Occupies(Byte(s.head, off[j - 1]), off[j] - off[j - 1], descs[j])
        /\ Holds(s.mem, descs[j])
    BY DEF Layout
  <2>2. /\ 1 \in DOMAIN descs[j].chunks
        /\ \A i \in DOMAIN descs[j].chunks :
              /\ descs[j].chunks[i] \in Chunks(V)
              /\ i # 1 => descs[j].chunks[i].pos # descs[j].chunks[1].pos
    BY LayoutChunks
  <2>3. ASSUME NEW i \in DOMAIN descs[j].chunks
        PROVE  descs[j].chunks[i].pos \in places <=> (j \in K /\ i = 1)
    <3>1. ASSUME NEW k \in K, descs[j].chunks[i].pos = descs[k].chunks[1].pos
          PROVE  j = k /\ i = 1
      <4>1. k \in 1 .. s.count /\ 1 \in DOMAIN descs[k].chunks
        BY LayoutChunks
      <4>2. j = k
        BY <3>1, <4>1, LayoutApart
      <4> QED BY <2>2, <3>1, <4>2
    <3> QED BY <3>1
  <2>4. CASE j \in K
    <3> DEFINE e == Lowered(descs[j])
    <3>1. Occupies(Byte(s.head, off[j - 1]), off[j] - off[j - 1], e)
      BY <2>1, <2>2, LoweredOccupies
    <3>2. /\ DOMAIN e.chunks = DOMAIN descs[j].chunks
          /\ \A i \in DOMAIN e.chunks :
                e.chunks[i] = IF i = 1 THEN Lower(descs[j].chunks[1])
                                       ELSE descs[j].chunks[i]
      BY DEF Lowered
    <3>3. \A i \in DOMAIN e.chunks : e.chunks[i] = New(descs[j].chunks[i])
      BY <2>3, <2>4, <3>2 DEF New
    <3> HIDE DEF e
    <3>4. ASSUME NEW i \in DOMAIN e.chunks
          PROVE  ChunksAt(mem, e.chunks[i].pos) = {e.chunks[i]}
      <4>1. ChunksAt(s.mem, descs[j].chunks[i].pos) = {descs[j].chunks[i]}
        BY <2>1, <3>2 DEF Holds
      <4>2. e.chunks[i].pos = descs[j].chunks[i].pos
        BY <1>2, <2>2, <3>2, <3>3
      <4> QED BY <1>7, <3>3, <4>1, <4>2
    <3>5. low[j] = e
      BY <2>4 DEF e
    <3> QED BY <3>1, <3>4, <3>5 DEF Holds
  <2>5. CASE j \notin K
    <3>1. low[j] = descs[j]
      BY <2>5
    <3>2. ASSUME NEW i \in DOMAIN descs[j].chunks
          PROVE  ChunksAt(mem, descs[j].chunks[i].pos) = {descs[j].chunks[i]}
      <4>1. New(descs[j].chunks[i]) = descs[j].chunks[i]
        BY <2>3, <2>5 DEF New
      <4>2. ChunksAt(s.mem, descs[j].chunks[i].pos) = {descs[j].chunks[i]}
        BY <2>1 DEF Holds
      <4> QED BY <1>7, <4>1, <4>2
    <3> QED BY <2>1, <3>1, <3>2 DEF Holds
  <2> QED BY <2>4, <2>5
<1>9. low = [j \in 1 .. s.count |-> low[j]]
  OBVIOUS
<1>10. UsedBytes(t) = UsedBytes(s)
  BY <1>5 DEF UsedBytes
<1> HIDE DEF low
<1>11. Layout(t, low, off)
  BY <1>5, <1>8, <1>9, <1>10 DEF Layout
<1> QED BY <1>11 DEF low
-----------------------------------------------------------------------------
(* What the queue s, whose messages are descs, is to the readers members:  *)
(* boxes are what they have still to pop, heads their places in the ring   *)
(* and held what they have got and not popped; gone tells whether somebody *)
(* has left with messages not popped.                                      *)
Pushed == [val : Values, size : Sizes, ts : {0}]

(* Two descriptors of one message, read at different times.                *)
SameChunk(c, e) ==
    /\ c \in Chunks(Values) /\ e \in Chunks(Values)
    /\ c.pos = e.pos /\ c.cap = e.cap /\ c.head = e.head /\ c.tail = e.tail
    /\ c.val = e.val /\ c.off = e.off /\ c.ts = e.ts

Alike(d, e) ==
    /\ d.ok = e.ok /\ d.next = e.next
    /\ Len(d.chunks) = Len(e.chunks) /\ DOMAIN d.chunks = DOMAIN e.chunks
    /\ \A i \in DOMAIN e.chunks : SameChunk(d.chunks[i], e.chunks[i])

(* The last messages of the ring are those of the reader's box, and its    *)
(* place is where they begin.  A reader without a place reads at the       *)
(* queue's own head: either its messages begin there, or it has none and   *)
(* all that is in the ring is garbage.                                     *)
Reading(s, descs, off, box, hd, held) ==
    LET n == Len(box)
        b == s.count - n
    IN  /\ n <= s.count
        /\ \A k \in 1 .. n : Unpack(descs[b + k].chunks) = box[k]
        /\ hd # NoPos => hd = Byte(s.head, off[b])
        /\ hd = NoPos => \/ b = 0
                         \/ n = 0 /\ \A k \in 1 .. s.count : RefCount(descs[k]) = 0
        /\ held.ok => n > 0 /\ Alike(held, descs[b + 1])

Owes(s, boxes, k) == {r \in Readers : Len(boxes[r]) > s.count - k}

Counted(s, descs, boxes, gone) ==
    \A k \in 1 .. s.count :
        /\ RefCount(descs[k]) \in Nat /\ RefCount(descs[k]) <= Cardinality(Readers)
        /\ Cardinality(Owes(s, boxes, k)) <= RefCount(descs[k])
        /\ ~gone => RefCount(descs[k]) = Cardinality(Owes(s, boxes, k))

Served(s, descs, off, members, boxes, heads, held, gone) ==
    /\ Layout(s, descs, off)
    /\ Counted(s, descs, boxes, gone)
    /\ \A r \in members : Reading(s, descs, off, boxes[r], heads[r], held[r])

Serves(s, members, boxes, heads, held, gone) ==
    \E descs, off : Served(s, descs, off, members, boxes, heads, held, gone)

(* The sets of readers are finite.                                         *)
LEMMA ReadersFinite ==
    ASSUME NEW T, T \subseteq Readers
    PROVE  /\ IsFiniteSet(T) /\ Cardinality(T) \in Nat /\ Cardinality(Readers) \in Nat
           /\ Cardinality(T) <= Cardinality(Readers)
           /\ Cardinality(T) = 0 <=> T = {}
<1>1. IsFiniteSet(Readers)
  BY SharedQueueAssumption
<1>2. IsFiniteSet(T) /\ Cardinality(T) <= Cardinality(Readers)
  BY <1>1, FS_Subset
<1> QED BY <1>1, <1>2, FS_CardinalityType, FS_EmptySet

(* A message that a reader has still to pop is not garbage.                *)
LEMMA OwedIsKept ==
    ASSUME NEW s \in Queues(Values), NEW descs, NEW off, NEW members, NEW heads, NEW held,
           NEW gone, NEW boxes \in [Readers -> Seq(Pushed)],
           Served(s, descs, off, members, boxes, heads, held, gone),
           NEW r \in Readers, NEW k \in 1 .. s.count, s.count - Len(boxes[r]) < k
    PROVE  RefCount(descs[k]) # 0
<1>1. s.count \in Nat /\ Len(boxes[r]) \in Nat
  BY DEF Queues
<1>2. r \in Owes(s, boxes, k)
  BY <1>1 DEF Owes
<1>3. Owes(s, boxes, k) \subseteq Readers
  BY DEF Owes
<1>4. Cardinality(Owes(s, boxes, k)) \in Nat /\ Cardinality(Owes(s, boxes, k)) # 0
  BY <1>2, <1>3, ReadersFinite
<1>5. RefCount(descs[k]) \in Nat /\ Cardinality(Owes(s, boxes, k)) <= RefCount(descs[k])
  BY DEF Served, Counted
<1> QED BY <1>4, <1>5

(* The collection of garbage takes nothing from a reader; and afterwards a *)
(* reader without a place finds its messages at the head.                  *)
LEMMA CleanServes ==
    ASSUME NEW s \in Queues(Values), NEW descs, NEW off, NEW members, NEW heads, NEW held,
           NEW gone, NEW boxes \in [Readers -> Seq(Pushed)], members \subseteq Readers,
           Served(s, descs, off, members, boxes, heads, held, gone),
           NEW m, Garbage(s, descs, m), NEW rest,
           rest = [head |-> Byte(s.head, off[m]), tail |-> s.tail,
                   count |-> s.count - m, mem |-> s.mem]
    PROVE  /\ \E left, ends : Served(rest, left, ends, members, boxes, heads, held, gone)
           /\ \A r \in members : heads[r] = NoPos => Len(boxes[r]) = rest.count
<1> DEFINE n == s.count - m
           left == [k \in 1 .. n |-> descs[k + m]]
           ends == [k \in 0 .. n |-> off[k + m] - off[m]]
<1>1. /\ s.count \in Nat /\ m \in Nat /\ m <= s.count /\ n \in Nat /\ n + m = s.count
      /\ m \in 0 .. s.count /\ s.head \in Positions /\ Capacity \in Nat
      /\ \A k \in 1 .. n : k + m \in 1 .. s.count /\ n - k = s.count - (k + m)
  BY RingAssumption DEF Queues, Garbage
<1>2. rest.count = n /\ rest.head = Byte(s.head, off[m])
  OBVIOUS
<1>3. Layout(s, descs, off)
  BY DEF Served
<1>4. Layout(rest, left, ends)
  <2>1. Layout(Remaining(s, off, m), DescsFrom(descs, s.count - m, m),
                                     EndsFrom(off, s.count - m, m))
    BY <1>1, <1>3, LayoutDrop
  <2> QED BY <2>1 DEF Remaining, DescsFrom, EndsFrom
<1>5. Counted(rest, left, boxes, gone)
  <2> SUFFICES ASSUME NEW k \in 1 .. n
               PROVE  /\ RefCount(left[k]) \in Nat
                      /\ RefCount(left[k]) <= Cardinality(Readers)
                      /\ Cardinality(Owes(rest, boxes, k)) <= RefCount(left[k])
                      /\ ~gone => RefCount(left[k]) = Cardinality(Owes(rest, boxes, k))
    BY <1>2 DEF Counted
  <2>1. left[k] = descs[k + m] /\ k + m \in 1 .. s.count
    BY <1>1
  <2>2. Owes(rest, boxes, k) = Owes(s, boxes, k + m)
    BY <1>1, <1>2 DEF Owes
  <2> QED BY <2>1, <2>2 DEF Served, Counted
<1>6. ASSUME NEW r \in members
      PROVE  /\ Reading(rest, left, ends, boxes[r], heads[r], held[r])
             /\ heads[r] = NoPos => Len(boxes[r]) = rest.count
  <2> DEFINE l == Len(boxes[r])
             b == s.count - l
             c == n - l
  <2>1. Reading(s, descs, off, boxes[r], heads[r], held[r]) /\ r \in Readers
    BY DEF Served
  <2>2. l \in Nat /\ l <= s.count /\ b \in Nat
    <3>1. l <= s.count
      BY <2>1 DEF Reading
    <3>2. boxes[r] \in Seq(Pushed)
      BY <2>1
    <3>3. l \in Nat
      BY <3>2
    <3> QED BY <1>1, <3>1, <3>3
  <2>3. m <= b
    <3> SUFFICES ASSUME b < m PROVE FALSE
      BY <1>1, <2>2
    <3>1. PICK k \in 1 .. s.count : k = b + 1
      BY <1>1, <2>2
    <3>2. k \in 1 .. m /\ s.count - Len(boxes[r]) < k
      BY <1>1, <2>2, <3>1
    <3>3. RefCount(descs[k]) # 0
      BY <2>1, <3>2, OwedIsKept
    <3> QED BY <3>2, <3>3 DEF Garbage
  <2>4. c \in Nat /\ l <= n /\ c + m = b /\ c <= n /\ c \in 0 .. n
    BY <1>1, <2>2, <2>3
  <2>5. ASSUME NEW k \in 1 .. l PROVE Unpack(left[c + k].chunks) = boxes[r][k]
    <3>1. c + k \in 1 .. n /\ (c + k) + m = b + k
      <4>1. l \in Nat /\ c \in Nat /\ c + m = b /\ n \in Nat /\ m \in Nat
        BY <1>1, <2>2, <2>4
      <4>2. c + l = n
        <5> HIDE DEF l, n
        <5> QED BY <4>1
      <4> HIDE DEF l, c, b, n
      <4> QED BY <4>1, <4>2
    <3>2. left[c + k] = descs[b + k]
      BY <3>1
    <3> QED BY <2>1, <3>2 DEF Reading
  <2>6. heads[r] # NoPos => heads[r] = Byte(rest.head, ends[c])
    <3> DEFINE o == off[m]
               w == off[b] - off[m]
    <3>1. ends[c] = w
      BY <2>4
    <3>2. off[m] \in 0 .. Capacity /\ off[b] \in 0 .. Capacity /\ off[m] <= off[b]
      <4>1. b \in 0 .. s.count
        BY <1>1, <2>2
      <4> QED BY <1>1, <1>3, <2>3, <4>1 DEF Layout
    <3>3. o \in Nat /\ w \in Nat /\ o + w = off[b] /\ o + w <= Capacity
      BY <1>1, <3>2
    <3> HIDE DEF o, w
    <3>4. Byte(Byte(s.head, o), w) = Byte(s.head, o + w)
      BY <1>1, <3>3, BytesAdd
    <3>5. Byte(rest.head, ends[c]) = Byte(s.head, off[b])
      BY <1>2, <3>1, <3>3, <3>4 DEF o
    <3> HIDE DEF ends
    <3> QED BY <2>1, <3>5 DEF Reading
  <2>7. heads[r] = NoPos => l = n
    <3> SUFFICES ASSUME heads[r] = NoPos PROVE l = n
      OBVIOUS
    <3>1. CASE b = 0
      BY <1>1, <2>2, <2>3, <3>1
    <3>2. CASE l = 0 /\ \A k \in 1 .. s.count : RefCount(descs[k]) = 0
      <4>1. m = s.count
        <5> SUFFICES ASSUME m < s.count PROVE FALSE
          BY <1>1
        <5>1. m + 1 \in 1 .. s.count
          BY <1>1
        <5> QED BY <3>2, <5>1 DEF Garbage
      <4> QED BY <1>1, <3>2, <4>1
    <3> QED BY <2>1, <3>1, <3>2 DEF Reading
  <2>8. held[r].ok => l > 0 /\ Alike(held[r], left[c + 1])
    <3> SUFFICES ASSUME held[r].ok PROVE l > 0 /\ Alike(held[r], left[c + 1])
      OBVIOUS
    <3>1. l > 0 /\ Alike(held[r], descs[b + 1])
      BY <2>1 DEF Reading
    <3>2. c + 1 \in 1 .. n /\ (c + 1) + m = b + 1
      <4>1. l \in Nat /\ c \in Nat /\ c + m = b /\ l > 0 /\ n \in Nat /\ m \in Nat
        BY <1>1, <2>2, <2>4, <3>1
      <4>2. c + l = n
        <5> HIDE DEF l, n
        <5> QED BY <4>1
      <4> HIDE DEF l, c, b, n
      <4> QED BY <4>1, <4>2
    <3>3. left[c + 1] = descs[b + 1]
      BY <3>2
    <3> QED BY <3>1, <3>3
  <2> HIDE DEF left, ends
  <2>9. heads[r] = NoPos => c = 0
    BY <2>2, <2>4, <2>7
  <2> QED BY <1>2, <2>4, <2>5, <2>6, <2>7, <2>8, <2>9 DEF Reading
<1> HIDE DEF left, ends
<1>7. Served(rest, left, ends, members, boxes, heads, held, gone)
  BY <1>4, <1>5, <1>6 DEF Served
<1> QED BY <1>2, <1>6, <1>7

(* Its messages are the same to a reader when the memory changes elsewhere. *)
LEMMA RefusedServes ==
    ASSUME NEW s \in Queues(Values), NEW descs, NEW off, NEW members, NEW heads, NEW held,
           NEW gone, NEW boxes, Served(s, descs, off, members, boxes, heads, held, gone),
           NEW mem, Keeps(s, mem), NEW full, full.head = s.head, full.tail = s.tail,
           full.count = s.count, full.mem = mem
    PROVE  Served(full, descs, off, members, boxes, heads, held, gone)
<1>1. Layout(s, descs, off)
  BY DEF Served
<1>2. \A k \in 1 .. s.count : Holds(mem, descs[k])
  BY <1>1, LayoutKept
<1>3. UsedBytes(full) = UsedBytes(s)
  BY DEF UsedBytes
<1>4. Layout(full, descs, off)
  BY <1>1, <1>2, <1>3 DEF Layout
<1>5. Counted(full, descs, boxes, gone)
  BY DEF Served, Counted, Owes
<1>6. ASSUME NEW r \in members
      PROVE  Reading(full, descs, off, boxes[r], heads[r], held[r])
  <2>1. Reading(s, descs, off, boxes[r], heads[r], held[r])
    BY DEF Served
  <2> QED BY <2>1 DEF Reading
<1> QED BY <1>4, <1>5, <1>6 DEF Served

(* The message d is stored in the w bytes behind the tail; and msg is the  *)
(* last one in the boxes of the members.                                   *)
Added(s, d, w, mem) ==
    /\ w \in Nat /\ w > 0 /\ UsedBytes(s) + w <= Capacity
    /\ Occupies(s.tail, w, d) /\ Holds(mem, d) /\ Keeps(s, mem)

Sent(members, boxes, msg, boxes2) ==
    /\ boxes2 \in [Readers -> Seq(Pushed)] /\ msg \in Pushed
    /\ \A r \in members : boxes2[r] = Append(boxes[r], msg)
    /\ \A r \in Readers \ members : boxes[r] = <<>> /\ boxes2[r] = <<>>

(* A message that is stored is counted for every member and reaches every  *)
(* member as its last one.                                                 *)
LEMMA StoreServes ==
    ASSUME NEW s \in Queues(Values), NEW descs, NEW off, NEW members, NEW heads, NEW held,
           NEW gone, NEW boxes \in [Readers -> Seq(Pushed)], members \subseteq Readers,
           Served(s, descs, off, members, boxes, heads, held, gone),
           \A r \in members : heads[r] = NoPos => Len(boxes[r]) = s.count,
           NEW d, NEW w, NEW mem, Added(s, d, w, mem), RefCount(d) = Cardinality(members),
           NEW msg, NEW boxes2, Unpack(d.chunks) = msg, Sent(members, boxes, msg, boxes2),
           NEW more, more = [head |-> s.head, tail |-> After(d),
                             count |-> s.count + 1, mem |-> mem]
    PROVE  Serves(more, members, boxes2, heads, held, gone)
<1>0. /\ w \in Nat /\ w > 0 /\ UsedBytes(s) + w <= Capacity
      /\ Occupies(s.tail, w, d) /\ Holds(mem, d) /\ Keeps(s, mem)
      /\ boxes2 \in [Readers -> Seq(Pushed)] /\ msg \in Pushed
      /\ \A r \in members : boxes2[r] = Append(boxes[r], msg)
      /\ \A r \in Readers \ members : boxes[r] = <<>> /\ boxes2[r] = <<>>
  BY DEF Added, Sent
<1> DEFINE n == s.count + 1
           all == [k \in 1 .. n |-> IF k <= s.count THEN descs[k] ELSE d]
           ends == [k \in 0 .. n |-> IF k <= s.count THEN off[k] ELSE UsedBytes(s) + w]
<1>1. /\ s.count \in Nat /\ n \in Nat /\ more.count = n /\ more.head = s.head
      /\ \A k \in 1 .. n : k <= s.count => k \in 1 .. s.count
      /\ \A k \in 1 .. n : ~(k <= s.count) => k = n
  BY DEF Queues
<1>2. Layout(s, descs, off)
  BY DEF Served
<1>3. Layout(more, all, ends)
  <2>1. Layout(more,
               [k \in 1 .. more.count |-> IF k <= s.count THEN descs[k] ELSE d],
               [k \in 0 .. more.count |-> IF k <= s.count THEN off[k]
                                                          ELSE UsedBytes(s) + w])
    BY <1>0, <1>2, LayoutPush
  <2> QED BY <1>1, <2>1
<1>4. ASSUME NEW r \in Readers
      PROVE  /\ boxes[r] \in Seq(Pushed) /\ Len(boxes[r]) \in Nat
             /\ r \in members => /\ boxes2[r] = Append(boxes[r], msg)
                                 /\ Len(boxes2[r]) = Len(boxes[r]) + 1
             /\ r \notin members => Len(boxes2[r]) = 0 /\ Len(boxes[r]) = 0
  <2>1. boxes[r] \in Seq(Pushed) /\ Len(boxes[r]) \in Nat
    OBVIOUS
  <2>2. r \in members => /\ boxes2[r] = Append(boxes[r], msg)
                         /\ Len(boxes2[r]) = Len(boxes[r]) + 1
    BY <1>0, <2>1
  <2>3. r \notin members => boxes2[r] = boxes[r] /\ boxes[r] = <<>>
    BY <1>0
  <2> QED BY <2>1, <2>2, <2>3
<1>5. Counted(more, all, boxes2, gone)
  <2> SUFFICES ASSUME NEW k \in 1 .. n
               PROVE  /\ RefCount(all[k]) \in Nat
                      /\ RefCount(all[k]) <= Cardinality(Readers)
                      /\ Cardinality(Owes(more, boxes2, k)) <= RefCount(all[k])
                      /\ ~gone => RefCount(all[k]) = Cardinality(Owes(more, boxes2, k))
    BY <1>1 DEF Counted
  <2>1. CASE k <= s.count
    <3>1. k \in 1 .. s.count /\ all[k] = descs[k]
      BY <1>1, <2>1
    <3>2. ASSUME NEW r \in Readers
          PROVE  Len(boxes2[r]) > more.count - k <=> Len(boxes[r]) > s.count - k
      <4>1. CASE r \in members
        <5> DEFINE l == Len(boxes[r])
        <5>1. Len(boxes2[r]) = l + 1 /\ l \in Nat
          BY <1>4, <4>1
        <5> HIDE DEF l
        <5>2. l + 1 > n - k <=> l > s.count - k
          BY <1>1, <3>1, <5>1
        <5> QED BY <1>1, <5>1, <5>2 DEF l
      <4>2. CASE r \notin members
        <5>1. ~(0 > n - k) /\ ~(0 > s.count - k)
          BY <1>1, <2>1, <3>1
        <5> QED BY <1>1, <1>4, <4>2, <5>1
      <4> QED BY <4>1, <4>2
    <3>3. Owes(more, boxes2, k) = Owes(s, boxes, k)
      BY <3>2 DEF Owes
    <3> HIDE DEF all
    <3> QED BY <3>1, <3>3 DEF Served, Counted
  <2>2. CASE ~(k <= s.count)
    <3>1. k = n /\ all[k] = d
      BY <1>1, <2>2
    <3>2. more.count - k = 0
      BY <1>1, <3>1
    <3>3. Owes(more, boxes2, k) = members
      <4>1. ASSUME NEW r \in Readers PROVE Len(boxes2[r]) > 0 <=> r \in members
        BY <1>4
      <4> QED BY <3>2, <4>1 DEF Owes
    <3>4. Cardinality(members) \in Nat /\ Cardinality(members) <= Cardinality(Readers)
      BY ReadersFinite
    <3> HIDE DEF all
    <3> QED BY <3>1, <3>3, <3>4
  <2> QED BY <2>1, <2>2
<1>6. ASSUME NEW r \in members
      PROVE  Reading(more, all, ends, boxes2[r], heads[r], held[r])
  <2> DEFINE l == Len(boxes[r])
             b == s.count - l
  <2>1. Reading(s, descs, off, boxes[r], heads[r], held[r]) /\ r \in Readers
    BY DEF Served
  <2>2. /\ l \in Nat /\ boxes2[r] = Append(boxes[r], msg) /\ Len(boxes2[r]) = l + 1
        /\ boxes[r] \in Seq(Pushed)
    BY <1>4, <2>1
  <2>3. l <= s.count
    BY <2>1 DEF Reading
  <2>4. /\ b \in Nat /\ b + l = s.count /\ n - (l + 1) = b /\ l + 1 <= n /\ b <= s.count
        /\ b \in 0 .. n
    <3>1. n = s.count + 1 /\ s.count \in Nat /\ l \in Nat /\ l <= s.count
      BY <1>1, <2>2, <2>3
    <3> DEFINE x == s.count
    <3>2. b = x - l /\ x \in Nat /\ n = x + 1 /\ l \in Nat /\ l <= x
      BY <3>1
    <3> HIDE DEF l, n, b, x
    <3>3. b \in Nat /\ b + l = x /\ b <= x
      BY <3>2
    <3>4. n - (l + 1) = b /\ l + 1 <= n /\ b \in 0 .. n
      BY <3>2, <3>3
    <3> QED BY <3>3, <3>4 DEF x
  <2> HIDE DEF b
  <2>5. ASSUME NEW k \in 1 .. l + 1 PROVE Unpack(all[b + k].chunks) = boxes2[r][k]
    <3>1. CASE k <= l
      <4>1. k \in 1 .. l /\ b + k \in 1 .. n /\ b + k <= s.count
        BY <1>1, <2>2, <2>4, <3>1
      <4>2. all[b + k] = descs[b + k]
        BY <4>1
      <4>3. boxes2[r][k] = boxes[r][k]
        BY <2>2, <4>1
      <4>4. Unpack(descs[b + k].chunks) = boxes[r][k]
        BY <2>1, <4>1 DEF Reading, b
      <4> QED BY <4>2, <4>3, <4>4
    <3>2. CASE ~(k <= l)
      <4>1. k = l + 1 /\ b + k = n /\ n \in 1 .. n /\ ~(n <= s.count)
        <5>1. /\ n = s.count + 1 /\ s.count \in Nat /\ l \in Nat /\ b \in Nat
              /\ b + l = s.count
          BY <1>1, <2>2, <2>4
        <5> HIDE DEF n, l, b
        <5>2. k = l + 1 /\ n \in 1 .. n /\ ~(n <= s.count)
          BY <3>2, <5>1
        <5>3. b + k = n
          BY <5>1, <5>2
        <5> QED BY <5>2, <5>3
      <4>2. all[b + k] = d
        BY <4>1
      <4>3. boxes2[r][k] = msg
        BY <2>2, <4>1
      <4> QED BY <4>2, <4>3
    <3> QED BY <3>1, <3>2
  <2>6. heads[r] # NoPos => heads[r] = Byte(s.head, ends[b])
    <3>1. ends[b] = off[b]
      BY <2>4
    <3> HIDE DEF ends
    <3> QED BY <2>1, <3>1 DEF Reading, b
  <2>7. heads[r] = NoPos => b = 0
    <3>1. heads[r] = NoPos => l = s.count
      OBVIOUS
    <3> HIDE DEF l
    <3> QED BY <1>1, <2>2, <2>4, <3>1
  <2>8. held[r].ok => Alike(held[r], all[b + 1])
    <3> SUFFICES ASSUME held[r].ok PROVE Alike(held[r], all[b + 1])
      OBVIOUS
    <3>1. l > 0 /\ Alike(held[r], descs[b + 1])
      BY <2>1 DEF Reading, b
    <3>2. b + 1 <= s.count /\ b + 1 \in 1 .. n
      BY <1>1, <2>2, <2>4, <3>1
    <3>3. all[b + 1] = descs[b + 1]
      BY <3>2
    <3> HIDE DEF all
    <3> QED BY <3>1, <3>3
  <2>9. l + 1 > 0
    BY <2>2
  <2> HIDE DEF all, ends, l, n
  <2> QED BY <1>1, <2>2, <2>4, <2>5, <2>6, <2>7, <2>8, <2>9 DEF Reading
<1> HIDE DEF all, ends
<1>7. Served(more, all, ends, members, boxes2, heads, held, gone)
  BY <1>3, <1>5, <1>6 DEF Served
<1> QED BY <1>7 DEF Serves

(* The decrement changes nothing a reader looks at.                        *)
LEMMA AlikeUnpacked ==
    ASSUME NEW d, NEW e, Alike(d, e), 1 \in DOMAIN e.chunks,
           Len(e.chunks) # 1 => 2 \in DOMAIN e.chunks
    PROVE  Unpack(d.chunks) = Unpack(e.chunks)
<1> DEFINE Whole1(s) ==
        \A i \in DOMAIN s : /\ s[i].val = s[1].val
                            /\ s[i].off = IF s[i].head THEN 0 ELSE s[1].cap
<1>1. Whole1(d.chunks) <=> Whole1(e.chunks)
  BY DEF Alike, SameChunk
<1>2. ASSUME NEW s
      PROVE  (\A c \in {s[i] : i \in DOMAIN s} :
                    /\ c.val = s[1].val
                    /\ c.off = IF c.head THEN 0 ELSE s[1].cap) <=> Whole1(s)
  OBVIOUS
<1> HIDE DEF Whole1
<1>3. ASSUME NEW s
      PROVE  Unpack(s) = [val  |-> IF Whole1(s) THEN s[1].val ELSE "garbled",
                          size |-> IF Len(s) = 1 THEN s[1].cap ELSE s[1].cap + s[2].cap,
                          ts   |-> s[1].ts]
  BY <1>2 DEF Unpack
<1>4. /\ d.chunks[1].val = e.chunks[1].val /\ d.chunks[1].cap = e.chunks[1].cap
      /\ d.chunks[1].ts = e.chunks[1].ts
      /\ Len(d.chunks) = Len(e.chunks)
      /\ Len(e.chunks) # 1 => d.chunks[2].cap = e.chunks[2].cap
  BY DEF Alike, SameChunk
<1> QED BY <1>1, <1>3, <1>4

(* A message has one chunk or two.                                         *)
LEMMA ShapeOfChunks ==
    ASSUME NEW p, NEW w, NEW d, Occupies(p, w, d)
    PROVE  (\E c : d.chunks = <<c>>) \/ (\E c, t : d.chunks = <<c, t>>)
<1>1. (\E c : d = OneChunk(c)) \/ (\E c, t : d = TwoChunks(c, t))
  BY DEF Occupies, Whole, Skipping, Split
<1>2. ASSUME NEW c, d = OneChunk(c) PROVE d.chunks = <<c>>
  BY <1>2 DEF OneChunk
<1>3. ASSUME NEW c, NEW t, d = TwoChunks(c, t) PROVE d.chunks = <<c, t>>
  BY <1>3 DEF TwoChunks
<1> QED BY <1>1, <1>2, <1>3

(* Lowering a message's counter changes nothing that a reader sees.        *)
LEMMA LoweredAlike ==
    ASSUME NEW p, NEW w, NEW e, Occupies(p, w, e),
           \A i \in DOMAIN e.chunks : e.chunks[i] \in Chunks(Values)
    PROVE  /\ Alike(Lowered(e), e) /\ Alike(e, e) /\ Lowered(e).ok = e.ok
           /\ Unpack(Lowered(e).chunks) = Unpack(e.chunks)
           /\ RefCount(Lowered(e)) = (RefCount(e) - 1) % Word
           /\ \A d : Alike(d, e) => /\ Alike(d, Lowered(e))
                                    /\ Unpack(d.chunks) = Unpack(e.chunks)
                                    /\ d.chunks[1].pos = e.chunks[1].pos
<1> DEFINE l == Lowered(e)
<1>1. /\ Len(l.chunks) = Len(e.chunks) /\ DOMAIN l.chunks = DOMAIN e.chunks
      /\ 1 \in DOMAIN e.chunks /\ (Len(e.chunks) # 1 => 2 \in DOMAIN e.chunks)
      /\ l.chunks[1] = Lower(e.chunks[1])
      /\ \A i \in DOMAIN e.chunks : i # 1 => l.chunks[i] = e.chunks[i]
  <2>1. l.chunks = [i \in DOMAIN e.chunks |-> IF i = 1 THEN Lower(e.chunks[1])
                                                       ELSE e.chunks[i]]
    BY DEF Lowered
  <2>2. CASE \E c : e.chunks = <<c>>
    <3>1. PICK c : e.chunks = <<c>>
      BY <2>2
    <3>2. l.chunks = <<Lower(c)>>
      BY <2>1, <3>1
    <3> QED BY <3>1, <3>2
  <2>3. CASE \E c, t : e.chunks = <<c, t>>
    <3>1. PICK c, t : e.chunks = <<c, t>>
      BY <2>3
    <3>2. l.chunks = <<Lower(c), t>>
      BY <2>1, <3>1
    <3> HIDE DEF l
    <3>3. DOMAIN e.chunks = {1, 2} /\ DOMAIN l.chunks = {1, 2}
      BY <3>1, <3>2
    <3>4. Len(l.chunks) = 2 /\ Len(e.chunks) = 2
      BY <3>1, <3>2
    <3>5. l.chunks[1] = Lower(e.chunks[1]) /\ l.chunks[2] = e.chunks[2]
      BY <3>1, <3>2
    <3> QED BY <3>3, <3>4, <3>5
  <2> QED BY <2>2, <2>3, ShapeOfChunks
<1>2. l.ok = e.ok /\ l.next = e.next
  BY DEF Lowered
<1> HIDE DEF l
<1>3. \A i \in DOMAIN e.chunks : SameChunk(l.chunks[i], e.chunks[i])
  <2>1. ASSUME NEW c \in Chunks(Values) PROVE SameChunk(Lower(c), c)
    <3> DEFINE n == (c.counter - 1) % Word
    <3>1. /\ Lower(c) \in Chunks(Values)
          /\ Lower(c) = [pos |-> c.pos, cap |-> c.cap, head |-> c.head,
                         tail |-> c.tail, val |-> c.val, off |-> c.off,
                         ts |-> c.ts, counter |-> n]
      BY <2>1, LowerKeeps
    <3> HIDE DEF n
    <3>2. /\ Lower(c).pos = c.pos /\ Lower(c).cap = c.cap /\ Lower(c).head = c.head
          /\ Lower(c).tail = c.tail /\ Lower(c).val = c.val /\ Lower(c).off = c.off
          /\ Lower(c).ts = c.ts
      BY <3>1
    <3> QED BY <2>1, <3>1, <3>2 DEF SameChunk
  <2>2. ASSUME NEW c \in Chunks(Values) PROVE SameChunk(c, c)
    BY <2>2 DEF SameChunk
  <2> QED BY <1>1, <2>1, <2>2
<1>4. Alike(l, e) /\ Alike(e, e)
  <2>1. \A i \in DOMAIN e.chunks : SameChunk(e.chunks[i], e.chunks[i])
    BY DEF SameChunk
  <2> QED BY <1>1, <1>2, <1>3, <2>1 DEF Alike
<1>5. Unpack(l.chunks) = Unpack(e.chunks)
  BY <1>1, <1>4, AlikeUnpacked
<1>6. RefCount(l) = (RefCount(e) - 1) % Word
  <2> DEFINE c == e.chunks[1]
             n == (c.counter - 1) % Word
  <2>1. c \in Chunks(Values)
    BY <1>1
  <2>2. Lower(c) = [pos |-> c.pos, cap |-> c.cap, head |-> c.head, tail |-> c.tail,
                    val |-> c.val, off |-> c.off, ts |-> c.ts, counter |-> n]
    BY <2>1, LowerKeeps
  <2> HIDE DEF n
  <2>3. Lower(c).counter = n
    BY <2>2
  <2> QED BY <1>1, <2>3 DEF RefCount, n
<1>7. ASSUME NEW d, Alike(d, e)
      PROVE  /\ Alike(d, l) /\ Unpack(d.chunks) = Unpack(e.chunks)
             /\ d.chunks[1].pos = e.chunks[1].pos
  <2>1. \A i \in DOMAIN l.chunks : SameChunk(d.chunks[i], l.chunks[i])
    <3>1. ASSUME NEW a, NEW b, NEW c, SameChunk(a, b), SameChunk(c, b)
          PROVE  SameChunk(a, c)
      BY <3>1 DEF SameChunk
    <3>2. \A i \in DOMAIN e.chunks : SameChunk(d.chunks[i], e.chunks[i])
      BY <1>7 DEF Alike
    <3> QED BY <1>1, <1>3, <3>1, <3>2
  <2>2. Alike(d, l)
    BY <1>1, <1>2, <1>7, <2>1 DEF Alike
  <2>3. d.chunks[1].pos = e.chunks[1].pos
    BY <1>1, <1>7 DEF Alike, SameChunk
  <2> QED BY <1>1, <1>7, <2>2, <2>3, AlikeUnpacked
<1> QED BY <1>2, <1>4, <1>5, <1>6, <1>7 DEF l

(* A reader pops the message d, the first in its box, and the others do    *)
(* nothing.                                                                *)
Takes(s, descs, box, d) ==
    Len(box) > 0 /\ Alike(d, descs[s.count - Len(box) + 1])

Released(s, d, t) == t = [s EXCEPT !.mem = dec_counter(@, d)]

Popped(r, d, boxes, heads, held, boxes2, heads2, held2) ==
    /\ boxes2[r] = Tail(boxes[r]) /\ heads2[r] = d.next % Capacity /\ ~held2[r].ok
    /\ \A x \in Readers \ {r} : /\ boxes2[x] = boxes[x] /\ heads2[x] = heads[x]
                                 /\ held2[x] = held[x]

(* A reader that pops its first message releases that one only, and finds  *)
(* the next one at its new place; nothing changes for the others.          *)
LEMMA PopServes ==
    ASSUME NEW s \in Queues(Values), InRing(s.mem), NEW descs, NEW off, NEW members,
           NEW heads, NEW held, NEW gone, NEW boxes \in [Readers -> Seq(Pushed)],
           members \subseteq Readers,
           Served(s, descs, off, members, boxes, heads, held, gone),
           NEW r \in members, NEW d, Takes(s, descs, boxes[r], d), NEW t, Released(s, d, t),
           NEW boxes2, NEW heads2, NEW held2,
           Popped(r, d, boxes, heads, held, boxes2, heads2, held2)
    PROVE  /\ t \in Queues(Values) /\ InRing(t.mem)
           /\ Serves(t, members, boxes2, heads2, held2, gone)
<1>0. /\ boxes2[r] = Tail(boxes[r]) /\ heads2[r] = d.next % Capacity /\ ~held2[r].ok
      /\ \A x \in Readers \ {r} : /\ boxes2[x] = boxes[x] /\ heads2[x] = heads[x]
                                   /\ held2[x] = held[x]
      /\ t = [s EXCEPT !.mem = dec_counter(@, d)]
  BY DEF Popped, Released
<1> DEFINE l == Len(boxes[r])
           b == s.count - l
           f == b + 1
           low == [j \in 1 .. s.count |-> IF j = f THEN Lowered(descs[f]) ELSE descs[j]]
<1>1. Layout(s, descs, off) /\ s.count \in Nat /\ s.head \in Positions
      /\ Reading(s, descs, off, boxes[r], heads[r], held[r]) /\ r \in Readers
      /\ boxes[r] \in Seq(Pushed)
  BY DEF Served, Queues
<1>2. /\ l \in Nat /\ l <= s.count /\ l > 0 /\ b \in Nat /\ b + l = s.count
      /\ f \in 1 .. s.count /\ f \in Nat /\ s.count - f = l - 1
  <2>1. l \in Nat /\ l <= s.count /\ l > 0
    BY <1>1 DEF Reading, Takes
  <2> HIDE DEF l
  <2> QED BY <1>1, <2>1
<1>3. Len(boxes2[r]) = l - 1 /\ \A k \in 1 .. l - 1 : boxes2[r][k] = boxes[r][k + 1]
  BY <1>0, <1>1, <1>2
<1>4. Alike(d, descs[f])
  BY DEF Takes
<1> HIDE DEF f, b, l
<1>5. ASSUME NEW j \in 1 .. s.count
      PROVE  /\ Occupies(Byte(s.head, off[j - 1]), off[j] - off[j - 1], descs[j])
             /\ \A i \in DOMAIN descs[j].chunks : descs[j].chunks[i] \in Chunks(Values)
             /\ RefCount(descs[j]) \in Nat /\ RefCount(descs[j]) <= Cardinality(Readers)
             /\ Cardinality(Owes(s, boxes, j)) <= RefCount(descs[j])
             /\ ~gone => RefCount(descs[j]) = Cardinality(Owes(s, boxes, j))
  BY <1>1, LayoutChunks DEF Served, Counted, Layout
<1>6. /\ Unpack(Lowered(descs[f]).chunks) = Unpack(descs[f].chunks)
      /\ RefCount(Lowered(descs[f])) = (RefCount(descs[f]) - 1) % Word
      /\ \A e : Alike(e, descs[f]) => Alike(e, Lowered(descs[f]))
      /\ d.chunks[1].pos = descs[f].chunks[1].pos /\ d.next = descs[f].next
  <2> DEFINE p == Byte(s.head, off[f - 1])
             w == off[f] - off[f - 1]
  <2>1. Occupies(p, w, descs[f])
    BY <1>2, <1>5
  <2>2. \A i \in DOMAIN descs[f].chunks : descs[f].chunks[i] \in Chunks(Values)
    BY <1>2, <1>5
  <2>3. d.next = descs[f].next
    BY <1>4 DEF Alike
  <2> HIDE DEF p, w
  <2> QED BY <1>4, <2>1, <2>2, <2>3, LoweredAlike
<1>7. /\ t \in Queues(Values) /\ InRing(t.mem)
      /\ t.head = s.head /\ t.tail = s.tail /\ t.count = s.count
      /\ Layout(t, low, off)
  <2> DEFINE places == {d.chunks[1].pos}
  <2>0. t = [s EXCEPT !.mem = LoweredAt(@, places)]
    BY <1>0 DEF LoweredAt, dec_counter, Lower
  <2>1. places = {descs[k].chunks[1].pos : k \in {f}} /\ {f} \subseteq 1 .. s.count
    BY <1>2, <1>6
  <2> HIDE DEF places
  <2>2. t \in Queues(Values) /\ InRing(t.mem)
    BY <2>0, DecInRing
  <2>3. t.head = s.head /\ t.tail = s.tail /\ t.count = s.count
    BY <1>0 DEF Queues
  <2>4. Layout(t, low, off)
    <3> DEFINE low2 == [j \in 1 .. s.count |-> IF j \in {f} THEN Lowered(descs[j])
                                                            ELSE descs[j]]
    <3>1. low2 = low
      OBVIOUS
    <3> HIDE DEF low2, low
    <3> DEFINE K == {f}
    <3>2. places = {descs[k].chunks[1].pos : k \in K} /\ K \subseteq 1 .. s.count
      BY <2>1
    <3>3. low2 = [j \in 1 .. s.count |-> IF j \in K THEN Lowered(descs[j]) ELSE descs[j]]
      BY DEF low2
    <3> HIDE DEF K
    <3>4. Layout(t, [j \in 1 .. s.count |-> IF j \in K THEN Lowered(descs[j])
                                                        ELSE descs[j]], off)
      <4>1. Layout(s, descs, off) /\ s \in Queues(Values)
            /\ t = [s EXCEPT !.mem = LoweredAt(@, places)]
        BY <1>1, <2>0
      <4> QED BY ONLY <3>2, <4>1, LoweredLayout
    <3> QED BY <3>1, <3>3, <3>4
  <2> QED BY <2>2, <2>3, <2>4
<1>8. RefCount(descs[f]) > 0 /\ RefCount(Lowered(descs[f])) = RefCount(descs[f]) - 1
  <2>1. s.count - Len(boxes[r]) < f
    BY <1>1, <1>2 DEF l
  <2>2. RefCount(descs[f]) # 0
    BY <1>1, <1>2, <2>1, OwedIsKept
  <2> DEFINE n == RefCount(descs[f])
  <2>3. n \in Nat /\ n <= Cardinality(Readers) /\ n # 0
    BY <1>2, <1>5, <2>2
  <2> HIDE DEF n
  <2>4. Cardinality(Readers) \in Nat /\ Cardinality(Readers) < Word /\ Word \in Nat \ {0}
    BY ReadersFinite, SharedQueueAssumption
  <2>5. n - 1 \in 0 .. Word - 1
    BY <2>3, <2>4
  <2>6. \A a \in 0 .. Word - 1 : a % Word = a
    BY ModWord
  <2>7. (n - 1) % Word = n - 1 /\ n > 0
    BY <2>3, <2>5, <2>6
  <2> QED BY <1>6, <2>7 DEF n
<1>9. Counted(t, low, boxes2, gone)
  <2> SUFFICES ASSUME NEW k \in 1 .. s.count
               PROVE  /\ RefCount(low[k]) \in Nat
                      /\ RefCount(low[k]) <= Cardinality(Readers)
                      /\ Cardinality(Owes(t, boxes2, k)) <= RefCount(low[k])
                      /\ ~gone => RefCount(low[k]) = Cardinality(Owes(t, boxes2, k))
    BY <1>7 DEF Counted
  <2>1. Owes(s, boxes, k) \subseteq Readers /\ Cardinality(Readers) \in Nat
    BY ReadersFinite DEF Owes
  <2>2. CASE k = f
    <3>1. Owes(t, boxes2, k) = Owes(s, boxes, k) \ {r}
      <4>1. ASSUME NEW x \in Readers
            PROVE  x \in Owes(t, boxes2, k) <=> x \in Owes(s, boxes, k) /\ x # r
        <5>1. CASE x = r
          <6>1. ~(Len(boxes2[r]) > t.count - k)
            BY <1>2, <1>3, <1>7, <2>2
          <6> QED BY <5>1, <6>1 DEF Owes
        <5>2. CASE x # r
          BY <1>0, <1>7, <5>2 DEF Owes
        <5> QED BY <5>1, <5>2
      <4> QED BY <4>1 DEF Owes
    <3>2. r \in Owes(s, boxes, k)
      <4>1. Len(boxes[r]) > s.count - k
        BY <1>2, <2>2 DEF l
      <4> QED BY <1>1, <4>1 DEF Owes
    <3>3. /\ Cardinality(Owes(t, boxes2, k)) = Cardinality(Owes(s, boxes, k)) - 1
          /\ Cardinality(Owes(s, boxes, k)) \in Nat
      <4>1. IsFiniteSet(Owes(s, boxes, k)) /\ Cardinality(Owes(s, boxes, k)) \in Nat
        BY <2>1, ReadersFinite
      <4>2. Cardinality(Owes(s, boxes, k) \ {r}) = Cardinality(Owes(s, boxes, k)) - 1
        BY <3>2, <4>1, FS_RemoveElement
      <4> QED BY <3>1, <4>1, <4>2
    <3>4. low[k] = Lowered(descs[f])
      BY <2>2
    <3> DEFINE n == RefCount(descs[f])
               o == Cardinality(Owes(s, boxes, k))
    <3>5. /\ n \in Nat /\ n <= Cardinality(Readers) /\ o <= n /\ (~gone => n = o) /\ n > 0
          /\ o \in Nat
      BY <1>2, <1>5, <1>8, <2>2, <3>3
    <3>6. RefCount(low[k]) = n - 1 /\ Cardinality(Owes(t, boxes2, k)) = o - 1
      BY <1>8, <3>3, <3>4
    <3> HIDE DEF n, o, low
    <3> QED BY <2>1, <3>5, <3>6
  <2>3. CASE k # f
    <3>1. low[k] = descs[k]
      BY <2>3
    <3>2. Owes(t, boxes2, k) = Owes(s, boxes, k)
      <4>1. ASSUME NEW x \in Readers
            PROVE  Len(boxes2[x]) > t.count - k <=> Len(boxes[x]) > s.count - k
        <5>1. CASE x = r
          <6>1. l - 1 > s.count - k <=> l > s.count - k
            BY <1>1, <1>2, <2>3
          <6> QED BY <1>3, <1>7, <5>1, <6>1 DEF l
        <5>2. CASE x # r
          BY <1>0, <1>7, <5>2
        <5> QED BY <5>1, <5>2
      <4> QED BY <4>1 DEF Owes
    <3> HIDE DEF low
    <3> QED BY <1>5, <3>1, <3>2
  <2> QED BY <2>2, <2>3
<1>10. \A j \in 1 .. s.count : Unpack(low[j].chunks) = Unpack(descs[j].chunks)
  BY <1>6
<1>11. ASSUME NEW x \in members
       PROVE  Reading(t, low, off, boxes2[x], heads2[x], held2[x])
  <2>1. CASE x = r
    <3>1. ASSUME NEW k \in 1 .. l - 1 PROVE Unpack(low[f + k].chunks) = boxes2[x][k]
      <4>1. f + k \in 1 .. s.count /\ k + 1 \in 1 .. l /\ f + k = b + (k + 1)
        <5>1. f = b + 1 /\ b \in Nat /\ l \in Nat /\ b + l = s.count
          BY <1>2 DEF f
        <5>2. f + k = b + (k + 1)
          BY <5>1
        <5>3. k + 1 \in 1 .. l
          BY <5>1
        <5>4. f + k \in 1 .. s.count
          BY <5>1, <1>1
        <5> QED BY <5>2, <5>3, <5>4
      <4>2. Unpack(descs[b + (k + 1)].chunks) = boxes[r][k + 1]
        BY <1>1, <4>1 DEF Reading, b, l
      <4> QED BY <1>3, <1>10, <2>1, <4>1, <4>2
    <3>2. heads2[x] = Byte(t.head, off[f]) /\ heads2[x] \in Positions
      <4>1. After(descs[f]) = Byte(s.head, off[f])
        BY <1>1, <1>2, LayoutNext
      <4>2. off[f] \in 0 .. Capacity
        BY <1>1, <1>2, LayoutReads
      <4>3. Byte(s.head, off[f]) \in Positions
        BY <1>1, <4>2, ByteInRing
      <4> QED BY <1>0, <1>6, <1>7, <2>1, <4>1, <4>3 DEF After
    <3>3. heads2[x] # NoPos
      BY <3>2 DEF NoPos, Positions
    <3>4. t.count - (l - 1) = f /\ l - 1 <= t.count
      BY <1>1, <1>2, <1>7
    <3> HIDE DEF low
    <3> QED BY <1>0, <1>3, <2>1, <3>1, <3>2, <3>3, <3>4 DEF Reading
  <2>2. CASE x # r
    <3> DEFINE n == Len(boxes[x])
               c == s.count - n
    <3>1. /\ boxes2[x] = boxes[x] /\ heads2[x] = heads[x] /\ held2[x] = held[x]
          /\ Reading(s, descs, off, boxes[x], heads[x], held[x]) /\ boxes[x] \in Seq(Pushed)
      BY <1>0, <2>2 DEF Served
    <3>2. n \in Nat /\ n <= s.count
      BY <3>1 DEF Reading
    <3>3. c \in Nat /\ c + n = s.count
      BY <1>1, <3>2
    <3>4. ASSUME NEW k \in 1 .. n PROVE Unpack(low[c + k].chunks) = boxes[x][k]
      <4>1. c + k \in 1 .. s.count
        <5> HIDE DEF n, c
        <5> QED BY <1>1, <3>2, <3>3
      <4>2. Unpack(descs[c + k].chunks) = boxes[x][k]
        BY <3>1 DEF Reading
      <4> QED BY <1>10, <4>1, <4>2
    <3>5. heads[x] = NoPos => c = 0
      <4>1. ~ \A k \in 1 .. s.count : RefCount(descs[k]) = 0
        BY <1>2, <1>5, <1>8
      <4> QED BY <3>1, <4>1 DEF Reading
    <3>6. heads[x] # NoPos => heads[x] = Byte(s.head, off[c])
      BY <3>1 DEF Reading
    <3>7. held[x].ok => n > 0 /\ Alike(held[x], low[c + 1])
      <4> SUFFICES ASSUME held[x].ok PROVE n > 0 /\ Alike(held[x], low[c + 1])
        OBVIOUS
      <4>1. n > 0 /\ Alike(held[x], descs[c + 1])
        BY <3>1 DEF Reading
      <4>2. c + 1 \in 1 .. s.count
        <5> HIDE DEF n, c
        <5> QED BY <1>1, <3>2, <3>3, <4>1
      <4>3. CASE c + 1 = f
        BY <1>6, <4>1, <4>2, <4>3
      <4>4. CASE c + 1 # f
        BY <4>1, <4>2, <4>4
      <4> QED BY <4>3, <4>4
    <3> HIDE DEF low
    <3> QED BY <1>7, <3>1, <3>2, <3>4, <3>5, <3>6, <3>7 DEF Reading
  <2> QED BY <2>1, <2>2
<1> HIDE DEF low
<1>12. Served(t, low, off, members, boxes2, heads2, held2, gone)
  BY <1>7, <1>9, <1>11 DEF Served
<1> QED BY <1>7, <1>12 DEF Serves
-----------------------------------------------------------------------------
(* The counters are unsigned and wrap; their difference counts messages.   *)
LEMMA ModWrap ==
    \A a \in Int : /\ (0 <= a /\ a < Word) => a % Word = a
                   /\ (-Word <= a /\ a < 0) => a % Word = a + Word
                   /\ (Word <= a /\ a < 2 * Word) => a % Word = a - Word
<1>1. Word \in Nat /\ Word > 0
  BY SharedQueueAssumption
<1> QED BY <1>1

(* A push raises the distance of the counters, across their overflow.      *)
LEMMA CountUp ==
    ASSUME NEW a \in 0 .. Word - 1, NEW b \in 0 .. Word - 1, NEW n \in Nat,
           (a - b) % Word = n, n + 1 < Word
    PROVE  /\ (a + 1) % Word \in 0 .. Word - 1
           /\ (((a + 1) % Word) - b) % Word = n + 1
<1>1. Word \in Nat /\ Word > 0
  BY SharedQueueAssumption
<1>2. (a + 1) % Word = IF a + 1 < Word THEN a + 1 ELSE 0
  BY <1>1, ModWrap
<1>3. (a - b) % Word = IF b <= a THEN a - b ELSE a - b + Word
  BY <1>1, ModWrap
<1>4. CASE a + 1 < Word
  <2>1. (a + 1 - b) % Word = IF b <= a + 1 THEN a + 1 - b ELSE a + 1 - b + Word
    BY <1>1, <1>4, ModWrap
  <2> QED BY <1>1, <1>2, <1>3, <1>4, <2>1
<1>5. CASE ~(a + 1 < Word)
  <2>1. (0 - b) % Word = IF b = 0 THEN 0 ELSE Word - b
    BY <1>1, ModWrap
  <2> QED BY <1>1, <1>2, <1>3, <1>5, <2>1
<1> QED BY <1>4, <1>5

(* A pop lowers it.                                                        *)
LEMMA CountDown ==
    ASSUME NEW a \in 0 .. Word - 1, NEW b \in 0 .. Word - 1, NEW n \in Nat,
           (a - b) % Word = n, n > 0, NEW c, c = (b + 1) % Word
    PROVE  c \in 0 .. Word - 1 /\ (a - c) % Word = n - 1
<1>1. Word \in Nat /\ Word > 0
  BY SharedQueueAssumption
<1>2. c = IF b + 1 < Word THEN b + 1 ELSE 0
  BY <1>1, ModWrap
<1>3. (a - b) % Word = IF b <= a THEN a - b ELSE a - b + Word
  BY <1>1, ModWrap
<1>4. CASE b + 1 < Word
  <2>1. (a - (b + 1)) % Word = IF b + 1 <= a THEN a - (b + 1) ELSE a - (b + 1) + Word
    BY <1>1, <1>4, ModWrap
  <2> QED BY <1>1, <1>2, <1>3, <1>4, <2>1
<1>5. CASE ~(b + 1 < Word)
  <2>1. (a - 0) % Word = a
    BY <1>1, ModWrap
  <2> QED BY <1>1, <1>2, <1>3, <1>5, <2>1
<1> QED BY <1>4, <1>5

(* The members are the readers whose handles are open.                     *)
Members == {r \in Readers : stage[r] = "open"}

(* The inductive invariant.                                                *)
SharedInv ==
    /\ q \in Queues(Values) /\ InRing(q.mem)
    /\ SharedTypeOK
    /\ inbox \in [Readers -> Seq(Pushed)]
    /\ m_message_desc = [h \in Handles |-> m_message_desc[h]]
    /\ subscriptions = Cardinality(Members)
    /\ \A r \in Readers : m_message_desc[r].ok \/ m_message_desc[r] = NoMessage
    /\ \A r \in Readers \ Members :
          inbox[r] = <<>> /\ m_message_desc[r] = NoMessage
    /\ \A r \in Members : count(r) = Len(inbox[r])
    /\ \E descs, off :
          Served(q, descs, off, Members, inbox, m_head, m_message_desc, abandoned)

(* A new queue.                                                            *)
LEMMA SharedInitInv == SharedInit => SharedInv
<1> SUFFICES ASSUME SharedInit PROVE SharedInv
  OBVIOUS
<1>0. Word \in Nat \ {0} /\ Creator \in Handles /\ Capacity \in Nat \ {0}
  BY SharedQueueAssumption, RingAssumption
<1>1. /\ q = [head |-> 0, tail |-> 0, count |-> 0, mem |-> {}]
      /\ inbox = [r \in Readers |-> <<>>]
      /\ m_message_desc = [h \in Handles |-> NoMessage]
      /\ m_head = [h \in Handles |-> NoPos]
      /\ counter = 0 /\ m_counter = [h \in Handles |-> 0]
      /\ stage = [h \in Handles |-> IF h = Creator THEN "open" ELSE "closed"]
  BY DEF SharedInit
<1>2. q \in Queues(Values) /\ InRing(q.mem)
  BY <1>0, <1>1 DEF Queues, InRing, Positions
<1>3. Members = IF Creator \in Readers THEN {Creator} ELSE {}
  BY <1>1 DEF Members, Handles
<1>4. subscriptions = Cardinality(Members)
  BY <1>3, FS_EmptySet, FS_Singleton DEF SharedInit
<1>5. SharedTypeOK
  <2>1. subscriptions \in 0 .. Cardinality(Readers)
    <3>1. Cardinality(Members) \in Nat /\ Cardinality(Members) <= Cardinality(Readers)
          /\ Cardinality(Readers) \in Nat
      BY ReadersFinite DEF Members
    <3> QED BY <1>4, <3>1
  <2>2. 0 \in 0 .. Word - 1 /\ 0 \in Positions
    BY <1>0 DEF Positions
  <2> QED BY <1>1, <2>1, <2>2 DEF SharedTypeOK
<1> DEFINE descs == [k \in 1 .. 0 |-> k]
           off == [k \in 0 .. 0 |-> 0]
<1>6. Layout(q, descs, off)
  <2>1. off \in [0 .. 0 -> 0 .. Capacity] /\ off[0] = 0
    BY <1>0
  <2>2. descs = [k \in 1 .. 0 |-> descs[k]]
    OBVIOUS
  <2>3. \A j, k \in 0 .. 0 : off[j] <= off[k]
    OBVIOUS
  <2>4. \A k \in 1 .. 0 : FALSE
    OBVIOUS
  <2> HIDE DEF descs, off
  <2> QED BY <1>1, <2>1, <2>2, <2>3, <2>4 DEF Layout, UsedBytes
<1> HIDE DEF descs, off
<1>7. Counted(q, descs, inbox, abandoned)
  BY <1>1 DEF Counted
<1>8. ASSUME NEW r \in Members
      PROVE  Reading(q, descs, off, inbox[r], m_head[r], m_message_desc[r])
  <2>1. /\ inbox[r] = <<>> /\ m_head[r] = NoPos /\ m_message_desc[r] = NoMessage
        /\ q.count = 0
    BY <1>1 DEF Members, Handles
  <2>2. ~m_message_desc[r].ok
    BY <2>1 DEF NoMessage
  <2> QED BY <2>1, <2>2 DEF Reading
<1>9. Served(q, descs, off, Members, inbox, m_head, m_message_desc, abandoned)
  BY <1>6, <1>7, <1>8 DEF Served
<1>10. \A r \in Members : count(r) = Len(inbox[r])
  <2>1. (0 - 0) % Word = 0
    BY <1>0, ModWord
  <2> QED BY <1>1, <2>1 DEF Members, Handles, count
<1>11. /\ inbox \in [Readers -> Seq(Pushed)]
       /\ m_message_desc = [h \in Handles |-> m_message_desc[h]]
       /\ \A r \in Readers : inbox[r] = <<>> /\ m_message_desc[r] = NoMessage
  BY <1>1 DEF Handles
<1> QED BY <1>2, <1>4, <1>5, <1>9, <1>10, <1>11 DEF SharedInv
-----------------------------------------------------------------------------
(* The parts of the invariant that the operations ask for.                 *)
LEMMA SharedFacts ==
    ASSUME SharedInv
    PROVE  /\ q \in Queues(Values) /\ InRing(q.mem) /\ q.count \in Nat
           /\ Members \subseteq Readers /\ Readers \subseteq Handles
           /\ counter \in 0 .. Word - 1 /\ Word \in Nat \ {0}
           /\ inbox \in [Readers -> Seq(Pushed)]
           /\ \A h \in Handles : /\ m_counter[h] \in 0 .. Word - 1
                                 /\ count(h) \in 0 .. Word - 1
<1>1. /\ q \in Queues(Values) /\ InRing(q.mem) /\ q.count \in Nat
      /\ Members \subseteq Readers /\ Readers \subseteq Handles
      /\ counter \in 0 .. Word - 1 /\ Word \in Nat \ {0}
      /\ inbox \in [Readers -> Seq(Pushed)]
  BY SharedQueueAssumption DEF SharedInv, SharedTypeOK, Members, Handles
<1>2. ASSUME NEW h \in Handles
      PROVE  m_counter[h] \in 0 .. Word - 1 /\ count(h) \in 0 .. Word - 1
  <2>1. m_counter[h] \in 0 .. Word - 1
    BY DEF SharedInv, SharedTypeOK
  <2>2. counter - m_counter[h] \in Int
    BY <1>1, <2>1
  <2>3. \A a \in Int : a % Word \in 0 .. Word - 1
    BY <1>1
  <2> QED BY <2>1, <2>2, <2>3 DEF count
<1> QED BY <1>1, <1>2

(* empty() is false for a handle that cleans, so that it sees the garbage. *)
LEMMA CleanCollects ==
    ASSUME SharedInv, NEW h \in Handles, LagBounded(h),
           NEW descs, NEW off, Layout(q, descs, off), NEW m, Garbage(q, descs, m)
    PROVE  Clean(q, h) = [head |-> Byte(q.head, off[m]), tail |-> q.tail,
                          count |-> q.count - m, mem |-> q.mem]
<1> DEFINE c == Clean(q, h)
<1>1. /\ q \in Queues(Values) /\ Word \in Nat \ {0}
      /\ count(h) \in 0 .. Word - 1 /\ count(h) < Word - 1
  BY SharedFacts DEF LagBounded
<1>2. c = Sweep(q, FALSE)
  <2> DEFINE n == count(h) + 1
             e == n % Word = 0
  <2>1. n \in 0 .. Word - 1 /\ n # 0
    <3> DEFINE a == count(h)
    <3> HIDE DEF a
    <3> QED BY <1>1 DEF a
  <2>2. e = FALSE
    <3> HIDE DEF n
    <3> QED BY <2>1, ModWord
  <2>3. c = Sweep(q, e)
    BY DEF Clean
  <2> HIDE DEF e
  <2> QED BY <2>2, <2>3
<1> QED BY <1>1, <1>2, SweepCollects

(* The garbage collection with which clean and push begin.                 *)
LEMMA SweepServes ==
    ASSUME SharedInv, NEW h \in Handles, LagBounded(h), NEW c, c = Clean(q, h)
    PROVE  /\ c \in Queues(Values) /\ InRing(c.mem) /\ c.count <= q.count
           /\ \E descs, off :
                 /\ Served(c, descs, off, Members, inbox, m_head, m_message_desc,
                           abandoned)
                 /\ \A r \in Members : m_head[r] = NoPos => Len(inbox[r]) = c.count
<1>1. /\ q \in Queues(Values) /\ InRing(q.mem) /\ q.count \in Nat
      /\ Members \subseteq Readers /\ Word \in Nat \ {0} /\ q.head \in Positions
      /\ inbox \in [Readers -> Seq(Pushed)]
      /\ count(h) \in 0 .. Word - 1 /\ count(h) < Word - 1
  BY SharedFacts DEF LagBounded, Queues
<1>3. PICK descs, off : Served(q, descs, off, Members, inbox, m_head,
                               m_message_desc, abandoned)
  BY DEF SharedInv
<1>4. PICK m : Garbage(q, descs, m)
  BY <1>1, GarbageExists
<1>5. Layout(q, descs, off)
  BY <1>3 DEF Served
<1>6. c = [head |-> Byte(q.head, off[m]), tail |-> q.tail,
           count |-> q.count - m, mem |-> q.mem]
  BY <1>4, <1>5, CleanCollects
<1>7. c \in Queues(Values) /\ InRing(c.mem) /\ c.count <= q.count
  <2>1. m \in Nat /\ m <= q.count /\ q.count - m \in Nat /\ q.count - m <= q.count
        /\ m \in 0 .. q.count
    BY <1>1, <1>4 DEF Garbage
  <2>2. Byte(q.head, off[m]) \in Positions
    BY <1>1, <1>5, <2>1, ByteInRing DEF Layout
  <2> QED BY <1>1, <1>6, <2>1, <2>2 DEF Queues
<1>8. /\ \E left, ends : Served(c, left, ends, Members, inbox, m_head, m_message_desc,
                               abandoned)
      /\ \A r \in Members : m_head[r] = NoPos => Len(inbox[r]) = c.count
  BY <1>1, <1>3, <1>4, <1>6, CleanServes
<1> QED BY <1>7, <1>8

(* A cleaning handle moves its own counter, which no reader uses.          *)
LEMMA CleanedCounters ==
    ASSUME SharedInv, NEW h \in Handles, NEW n \in Nat,
           m_counter' = CountCleaned(h, n)
    PROVE  /\ m_counter' \in [Handles -> 0 .. Word - 1]
           /\ \A r \in Readers : m_counter'[r] = m_counter[r]
<1>1. /\ m_counter \in [Handles -> 0 .. Word - 1] /\ Word \in Nat \ {0}
      /\ Readers \subseteq Handles /\ Readers \cap Writers = {}
  BY SharedQueueAssumption DEF SharedInv, SharedTypeOK, Handles
<1>2. m_counter[h] + n \in Int
  BY <1>1
<1>3. \A a \in Int : a % Word \in 0 .. Word - 1
  BY <1>1
<1>4. (m_counter[h] + n) % Word \in 0 .. Word - 1
  BY <1>2, <1>3
<1> DEFINE v == (m_counter[h] + n) % Word
<1>5. m_counter' = [m_counter EXCEPT ![h] = IF h \in Writers THEN v ELSE m_counter[h]]
  BY <1>1 DEF CountCleaned
<1> HIDE DEF v
<1> QED BY <1>1, <1>4, <1>5 DEF v

(* clean_messages, called by any handle.                                   *)
LEMMA cleanStep ==
    ASSUME SharedInv, NEW h \in Handles, clean(h)
    PROVE  SharedInv'
<1>1. /\ q' = Clean(q, h) /\ m_counter' = CountCleaned(h, q.count - q'.count)
      /\ LagBounded(h)
      /\ UNCHANGED <<counter, subscriptions, stage, m_head, m_message_desc, inbox,
                     abandoned>>
  BY DEF clean
<1>2. /\ q' \in Queues(Values) /\ InRing(q'.mem) /\ q'.count <= q.count
      /\ \E descs, off : Served(q', descs, off, Members, inbox, m_head,
                                m_message_desc, abandoned)
  BY <1>1, SweepServes
<1>3. /\ m_counter' \in [Handles -> 0 .. Word - 1]
      /\ \A r \in Readers : m_counter'[r] = m_counter[r]
  <2>1. q.count - q'.count \in Nat
    BY <1>2, SharedFacts DEF Queues
  <2> QED BY <1>1, <2>1, CleanedCounters
<1>4. Members' = Members /\ Members \subseteq Readers
  BY <1>1 DEF Members
<1>5. \A r \in Members : count(r)' = count(r)
  BY <1>1, <1>3, <1>4 DEF count
<1>6. SharedTypeOK'
  BY <1>1, <1>2, <1>3 DEF SharedInv, SharedTypeOK, Queues
<1> QED BY <1>1, <1>2, <1>4, <1>5, <1>6 DEF SharedInv

(* The messages in the ring are fewer than the values of a counter.        *)
LEMMA FewMessages ==
    ASSUME NEW V, NEW s \in Queues(V), NEW descs, NEW off, Layout(s, descs, off)
    PROVE  s.count < Word
<1> DEFINE n == s.count
           z == static_size(1)
<1>1. n \in Nat /\ z \in Nat \ {0} /\ Word \in Nat /\ Capacity \in Nat
  BY RingAssumption, SharedQueueAssumption DEF Queues, static_size
<1>2. n * z <= Capacity /\ Capacity < Word * z
  BY LayoutCount, SharedQueueAssumption
<1> HIDE DEF n, z
<1> SUFFICES ASSUME n >= Word PROVE FALSE
  BY <1>1 DEF n
<1>3. PICK j \in Nat : n = Word + j
  <2>1. n - Word \in Nat /\ n = Word + (n - Word)
    BY <1>1
  <2> QED BY <2>1
<1>4. n * z = Word * z + j * z /\ j * z \in Nat /\ Word * z \in Nat
  BY <1>1, <1>3
<1> DEFINE x == n * z
           y == Word * z
           v == j * z
<1>5. x = y + v /\ v \in Nat /\ y \in Nat /\ x <= Capacity /\ Capacity < y
  BY <1>2, <1>4
<1> HIDE DEF x, y, v
<1> QED BY <1>1, <1>5

(* What a push makes of the collected queue.                               *)
LEMMA PushStep ==
    ASSUME SharedInv, NEW h \in Handles, NEW val \in Values, NEW size \in Sizes,
           Push(h, val, size)
    PROVE  SharedInv'
<1> DEFINE c    == Clean(q, h)
           made == make_message(c, size, val, 0, subscriptions)
           msg  == [val |-> val, size |-> size, ts |-> 0]
<1>1. /\ LagBounded(h) /\ m_counter' = CountCleaned(h, q.count - c.count)
      /\ q' = IF made.ok THEN [c EXCEPT !.mem = made.mem, !.tail = made.next % Capacity,
                                        !.count = @ + 1]
                         ELSE [c EXCEPT !.mem = made.mem]
      /\ counter' = IF made.ok THEN (counter + 1) % Word ELSE counter
      /\ inbox' = [r \in Readers |-> IF made.ok /\ stage[r] = "open"
                                     THEN Append(inbox[r], msg) ELSE inbox[r]]
      /\ UNCHANGED <<subscriptions, stage, m_head, m_message_desc, abandoned>>
  BY DEF Push
<1>2. /\ q.count \in Nat /\ Members \subseteq Readers
      /\ counter \in 0 .. Word - 1 /\ Word \in Nat \ {0} /\ size \in Nat \ {0}
      /\ inbox \in [Readers -> Seq(Pushed)] /\ Readers \subseteq Handles
      /\ subscriptions = Cardinality(Members) /\ subscriptions \in Nat
      /\ \A r \in Members : count(r) = Len(inbox[r]) /\ m_counter[r] \in 0 .. Word - 1
      /\ \A r \in Readers \ Members : inbox[r] = <<>>
  <2>1. subscriptions = Cardinality(Members)
    BY DEF SharedInv
  <2>2. Members \subseteq Readers
    BY DEF Members
  <2>3. Cardinality(Members) \in Nat
    BY <2>2, ReadersFinite
  <2> QED BY <2>1, <2>2, <2>3, SharedFacts, SharedQueueAssumption DEF SharedInv
<1>3. /\ c \in Queues(Values) /\ InRing(c.mem) /\ c.count <= q.count
      /\ \E descs, off :
            /\ Served(c, descs, off, Members, inbox, m_head, m_message_desc, abandoned)
            /\ \A r \in Members : m_head[r] = NoPos => Len(inbox[r]) = c.count
  BY <1>1, SweepServes
<1> HIDE DEF c
<1>4. /\ made.ok \in BOOLEAN /\ made.mem \in SUBSET Chunks(Values) /\ InRing(made.mem)
      /\ made.next \in 0 .. Capacity
  BY <1>2, <1>3, MakeMessageInRing
<1>5. PICK descs, off :
            /\ Served(c, descs, off, Members, inbox, m_head, m_message_desc, abandoned)
            /\ \A r \in Members : m_head[r] = NoPos => Len(inbox[r]) = c.count
  BY <1>3
<1>6. /\ Keeps(c, made.mem)
      /\ made.ok => \E d, w : w \in Nat /\ Stores(c, size, val, 0, subscriptions, d, w)
  <2>1. c.count = 0 => c.head = c.tail
    BY <1>5 DEF Served, Layout
  <2> QED BY <1>2, <1>3, <2>1, PushStores
<1>7. /\ m_counter' \in [Handles -> 0 .. Word - 1]
      /\ \A r \in Readers : m_counter'[r] = m_counter[r]
  <2>1. q.count - c.count \in Nat
    BY <1>2, <1>3 DEF Queues
  <2> QED BY <1>1, <2>1, CleanedCounters
<1>8. Members' = Members
  BY <1>1 DEF Members
<1>9. /\ c = [head |-> c.head, tail |-> c.tail, count |-> c.count, mem |-> c.mem]
      /\ c.head \in Positions /\ c.tail \in Positions /\ c.count \in Nat
  BY <1>3 DEF Queues
<1>10. /\ subscriptions' \in 0 .. Cardinality(Readers)
       /\ stage' \in [Handles -> {"closed", "open"}]
       /\ m_head' \in [Handles -> Positions \cup {NoPos}]
  BY <1>1 DEF SharedInv, SharedTypeOK
<1>11. /\ m_message_desc' = [x \in Handles |-> m_message_desc'[x]]
       /\ subscriptions' = Cardinality(Members')
       /\ \A r \in Readers : m_message_desc'[r].ok \/ m_message_desc'[r] = NoMessage
       /\ \A r \in Readers \ Members : m_message_desc'[r] = NoMessage
  BY <1>1, <1>8 DEF SharedInv
<1>12. CASE ~made.ok
  <2>1. /\ q' = [head |-> c.head, tail |-> c.tail, count |-> c.count, mem |-> made.mem]
        /\ counter' = counter
    BY <1>1, <1>9, <1>12
  <2>2. inbox' = inbox
    BY <1>1, <1>2, <1>12
  <2> HIDE DEF made
  <2>3. q' \in Queues(Values) /\ InRing(q'.mem)
    BY <1>4, <1>9, <2>1 DEF Queues
  <2>4. Served(q', descs, off, Members, inbox, m_head, m_message_desc, abandoned)
    BY <1>3, <1>5, <1>6, <2>1, RefusedServes
  <2>5. SharedTypeOK'
    BY <1>2, <1>7, <1>10, <2>1, <2>3 DEF SharedTypeOK, Queues
  <2>6. \A r \in Members : count(r)' = Len(inbox'[r])
    BY <1>2, <1>7, <2>1, <2>2 DEF count
  <2>7. \E all, ends : Served(q', all, ends, Members', inbox', m_head', m_message_desc',
                              abandoned')
    BY <1>1, <1>8, <2>2, <2>4
  <2>8. /\ inbox' \in [Readers -> Seq(Pushed)]
        /\ \A r \in Readers \ Members' : inbox'[r] = <<>> /\ m_message_desc'[r] = NoMessage
        /\ \A r \in Members' : count(r)' = Len(inbox'[r])
    BY <1>2, <1>8, <1>11, <2>2, <2>6
  <2> QED BY <1>11, <2>3, <2>5, <2>7, <2>8 DEF SharedInv
<1>13. CASE made.ok
  <2>1. PICK d, w : w \in Nat /\ Stores(c, size, val, 0, subscriptions, d, w)
    BY <1>6, <1>13
  <2>2. /\ d.next = made.next /\ w > 0 /\ UsedBytes(c) + w <= Capacity
        /\ Occupies(c.tail, w, d) /\ Holds(made.mem, d)
        /\ Unpack(d.chunks) = msg /\ d.chunks[1].counter = subscriptions
    BY <2>1 DEF Stores
  <2>3. /\ q' = [head |-> c.head, tail |-> After(d), count |-> c.count + 1,
                 mem |-> made.mem]
        /\ counter' = (counter + 1) % Word
    <3>1. q' = [c EXCEPT !.mem = made.mem, !.tail = made.next % Capacity, !.count = @ + 1]
      BY <1>1, <1>13
    <3> HIDE DEF made
    <3> QED BY <1>1, <1>9, <1>13, <2>2, <3>1 DEF After, made
  <2>4. inbox' = [r \in Readers |-> IF r \in Members THEN Append(inbox[r], msg)
                                                     ELSE inbox[r]]
    BY <1>1, <1>13 DEF Members
  <2>5. msg \in Pushed
    BY DEF Pushed
  <2> HIDE DEF made, msg
  <2>6. q' \in Queues(Values) /\ InRing(q'.mem)
    <3>1. After(d) \in Positions
      <4>1. made.next \in Int
        BY <1>4, RingAssumption
      <4> QED BY <2>2, <4>1, ModCapacity DEF After
    <3> QED BY <1>4, <1>9, <2>3, <3>1 DEF Queues
  <2>7. RefCount(d) = Cardinality(Members)
    BY <1>2, <2>2 DEF RefCount
  <2>8. \E all, ends : Served(q', all, ends, Members, inbox', m_head, m_message_desc,
                              abandoned)
    <3>1. /\ \A r \in Members : inbox'[r] = Append(inbox[r], msg)
          /\ \A r \in Readers \ Members : inbox'[r] = inbox[r]
      BY <1>2, <2>4
    <3>2. /\ \A r \in Readers \ Members : inbox[r] = <<>>
          /\ \A r \in Members : m_head[r] = NoPos => Len(inbox[r]) = c.count
          /\ Members \subseteq Readers /\ inbox \in [Readers -> Seq(Pushed)]
          /\ c \in Queues(Values)
          /\ Served(c, descs, off, Members, inbox, m_head, m_message_desc, abandoned)
      BY <1>2, <1>3, <1>5
    <3>3. /\ Occupies(c.tail, w, d) /\ Holds(made.mem, d) /\ Keeps(c, made.mem)
          /\ w \in Nat /\ w > 0 /\ UsedBytes(c) + w <= Capacity
          /\ Unpack(d.chunks) = msg /\ RefCount(d) = Cardinality(Members) /\ msg \in Pushed
      BY <1>6, <2>1, <2>2, <2>5, <2>7
    <3>4. q' = [head |-> c.head, tail |-> After(d), count |-> c.count + 1,
                mem |-> made.mem]
      BY <2>3
    <3>5. inbox' \in [Readers -> Seq(Pushed)]
      BY <1>2, <2>4, <2>5
    <3>6. Added(c, d, w, made.mem)
      BY <3>3 DEF Added
    <3>7. Sent(Members, inbox, msg, inbox')
      BY <3>1, <3>2, <3>3, <3>5 DEF Sent
    <3>8. Serves(q', Members, inbox', m_head, m_message_desc, abandoned)
      BY <3>2, <3>3, <3>4, <3>6, <3>7, StoreServes
    <3> QED BY <3>8 DEF Serves
  <2>9. inbox' \in [Readers -> Seq(Pushed)]
    BY <1>2, <2>4, <2>5
  <2>10. ASSUME NEW r \in Members
         PROVE  count(r)' = Len(inbox'[r]) /\ counter' \in 0 .. Word - 1
    <3>1. PICK all, ends : Served(q', all, ends, Members, inbox', m_head, m_message_desc,
                                  abandoned)
      BY <2>8
    <3>2. q'.count < Word
      BY <2>6, <3>1, FewMessages DEF Served
    <3>3. Len(inbox'[r]) <= q'.count
      BY <3>1 DEF Served, Reading
    <3>4. Len(inbox'[r]) = Len(inbox[r]) + 1 /\ Len(inbox[r]) \in Nat
      <4>1. r \in Readers /\ inbox[r] \in Seq(Pushed) /\ inbox'[r] = Append(inbox[r], msg)
        BY <1>2, <2>4
      <4> QED BY <2>5, <4>1
    <3>5. Len(inbox[r]) + 1 < Word
      BY <1>2, <2>6, <3>2, <3>3, <3>4 DEF Queues
    <3>6. (counter - m_counter[r]) % Word = Len(inbox[r])
      BY <1>2 DEF count
    <3>7. /\ (counter + 1) % Word \in 0 .. Word - 1
          /\ (((counter + 1) % Word) - m_counter[r]) % Word = Len(inbox[r]) + 1
      <4>1. counter \in 0 .. Word - 1 /\ m_counter[r] \in 0 .. Word - 1
        BY <1>2
      <4> QED BY ONLY <3>4, <3>5, <3>6, <4>1, CountUp
    <3>8. count(r)' = (counter' - m_counter'[r]) % Word /\ m_counter'[r] = m_counter[r]
      BY <1>2, <1>7 DEF count
    <3> QED BY <2>3, <3>4, <3>7, <3>8
  <2>11. counter' \in 0 .. Word - 1
    <3>1. \A a \in Int : a % Word \in 0 .. Word - 1
      BY <1>2
    <3>2. counter + 1 \in Int
      BY <1>2
    <3> QED BY <2>3, <3>1, <3>2
  <2>12. SharedTypeOK'
    BY <1>7, <1>10, <2>6, <2>11 DEF SharedTypeOK, Queues
  <2>13. \A r \in Readers \ Members : inbox'[r] = <<>>
    BY <1>2, <2>4
  <2> QED BY <1>1, <1>8, <1>11, <2>6, <2>8, <2>9, <2>10, <2>12, <2>13 DEF SharedInv
<1> QED BY <1>12, <1>13

(* A reader with messages gets the first of them.                          *)
LEMMA ReadsAtHead ==
    ASSUME NEW s \in Queues(Values), NEW descs, NEW off, Layout(s, descs, off),
           NEW box \in Seq(Pushed), NEW hd, NEW held,
           Reading(s, descs, off, box, hd, held), Len(box) > 0
    PROVE  /\ s.count - Len(box) + 1 \in 1 .. s.count
           /\ Finds(s, IF hd # NoPos THEN hd ELSE s.head, descs[s.count - Len(box) + 1])
<1> DEFINE n == Len(box)
           b == s.count - n
           f == b + 1
<1>1. s.count \in Nat /\ n \in Nat /\ n <= s.count /\ n > 0 /\ s.head \in Positions
  BY DEF Reading, Queues
<1>2. f \in 1 .. s.count /\ b \in Nat /\ f - 1 = b
  <2> HIDE DEF n
  <2> QED BY <1>1
<1>3. hd # NoPos => hd = Byte(s.head, off[b])
  BY DEF Reading
<1>4. hd = NoPos => b = 0
  BY <1>1 DEF Reading
<1>5. off[0] = 0 /\ Byte(s.head, 0) = s.head
  BY <1>1, RingAssumption DEF Layout, Byte, Positions
<1>6. (IF hd # NoPos THEN hd ELSE s.head) = Byte(s.head, off[f - 1])
  <2> HIDE DEF b, f
  <2> QED BY <1>2, <1>3, <1>4, <1>5
<1>7. Finds(s, IF hd # NoPos THEN hd ELSE s.head, descs[f])
  <2> HIDE DEF b, f
  <2> QED BY <1>2, <1>6, LayoutGets
<1> QED BY <1>2, <1>7

(* What a reader gets next is the oldest message of its inbox.             *)
LEMMA NextIsFirst ==
    ASSUME SharedInv, NEW r \in Members, count(r) > 0, NEW descs, NEW off,
           Served(q, descs, off, Members, inbox, m_head, m_message_desc, abandoned),
           NEW f, f = q.count - Len(inbox[r]) + 1
    PROVE  /\ Len(inbox[r]) > 0 /\ f \in 1 .. q.count
           /\ NextMessage(r) = descs[f]
           /\ descs[f].ok /\ Alike(descs[f], descs[f])
           /\ \A d : Alike(d, descs[f]) => Unpack(d.chunks) = inbox[r][1]
<1>1. /\ q \in Queues(Values) /\ r \in Readers /\ inbox[r] \in Seq(Pushed)
      /\ count(r) = Len(inbox[r]) /\ Layout(q, descs, off) /\ q.count \in Nat
      /\ Reading(q, descs, off, inbox[r], m_head[r], m_message_desc[r])
  BY SharedFacts DEF SharedInv, Served
<1>2. Len(inbox[r]) > 0 /\ Len(inbox[r]) \in Nat
  BY <1>1
<1>3. f \in 1 .. q.count /\ Finds(q, head(r), descs[f])
  BY <1>1, <1>2, ReadsAtHead DEF head
<1>4. NextMessage(r) = descs[f]
  <2>1. (count(r) = 0) = FALSE
    BY <1>1, <1>2
  <2> QED BY <1>3, <2>1 DEF NextMessage, Finds
<1>5. descs[f].ok
  BY <1>1, <1>3, LayoutReads
<1>6. /\ Alike(descs[f], descs[f])
      /\ \A d : Alike(d, descs[f]) => Unpack(d.chunks) = Unpack(descs[f].chunks)
  <2> DEFINE p == Byte(q.head, off[f - 1])
             w == off[f] - off[f - 1]
             e == descs[f]
  <2>1. Occupies(p, w, e)
    BY <1>1, <1>3 DEF Layout
  <2>2. \A i \in DOMAIN e.chunks : e.chunks[i] \in Chunks(Values)
    BY <1>1, <1>3, LayoutChunks
  <2> HIDE DEF p, w, e
  <2>3. /\ Alike(e, e)
        /\ \A d : Alike(d, e) => Unpack(d.chunks) = Unpack(e.chunks)
    BY <2>1, <2>2, LoweredAlike
  <2> QED BY <2>3 DEF e
<1>7. Unpack(descs[f].chunks) = inbox[r][1]
  <2> DEFINE b == q.count - Len(inbox[r])
  <2>1. PICK k \in 1 .. Len(inbox[r]) : k = 1
    BY <1>2
  <2>2. Unpack(descs[b + k].chunks) = inbox[r][k]
    BY <1>1 DEF Reading
  <2> QED BY <2>1, <2>2
<1> QED BY <1>2, <1>3, <1>4, <1>5, <1>6, <1>7

(* A get remembers the message and removes nothing.                        *)
LEMMA GetStep ==
    ASSUME SharedInv, NEW h \in Handles, Get(h)
    PROVE  SharedInv'
<1>1. /\ h \in Members /\ count(h) > 0
      /\ m_message_desc' = [m_message_desc EXCEPT ![h] = NextMessage(h)]
      /\ UNCHANGED <<q, counter, subscriptions, stage, m_head, m_counter, inbox,
                     abandoned>>
  BY DEF Get, Members
<1>2. PICK descs, off : Served(q, descs, off, Members, inbox, m_head,
                               m_message_desc, abandoned)
  BY DEF SharedInv
<1> DEFINE f == q.count - Len(inbox[h]) + 1
<1>3. /\ Len(inbox[h]) > 0 /\ NextMessage(h) = descs[f] /\ descs[f].ok
      /\ Alike(descs[f], descs[f])
  BY <1>1, <1>2, NextIsFirst
<1>4. Members' = Members /\ Members \subseteq Readers /\ Readers \subseteq Handles
  BY <1>1 DEF Members, Handles
<1>5. /\ m_message_desc' = [x \in Handles |-> m_message_desc'[x]]
      /\ m_message_desc'[h] = descs[f]
      /\ \A x \in Handles \ {h} : m_message_desc'[x] = m_message_desc[x]
  BY <1>1, <1>3 DEF SharedInv
<1>6. ASSUME NEW r \in Members
      PROVE  Reading(q, descs, off, inbox[r], m_head[r], m_message_desc'[r])
  <2>1. Reading(q, descs, off, inbox[r], m_head[r], m_message_desc[r])
    BY <1>2 DEF Served
  <2> QED BY <1>3, <1>4, <1>5, <2>1 DEF Reading
<1>7. Served(q', descs, off, Members', inbox', m_head', m_message_desc', abandoned')
  BY <1>1, <1>2, <1>4, <1>6 DEF Served
<1>8. /\ \A r \in Readers : m_message_desc'[r].ok \/ m_message_desc'[r] = NoMessage
      /\ \A r \in Readers \ Members' :
            inbox'[r] = <<>> /\ m_message_desc'[r] = NoMessage
  BY <1>1, <1>3, <1>4, <1>5 DEF SharedInv
<1>9. /\ \A r \in Members' : count(r)' = Len(inbox'[r])
      /\ SharedTypeOK' /\ subscriptions' = Cardinality(Members')
      /\ inbox' \in [Readers -> Seq(Pushed)] /\ q' \in Queues(Values) /\ InRing(q'.mem)
  BY <1>1, <1>4 DEF SharedInv, SharedTypeOK, count
<1> QED BY <1>5, <1>7, <1>8, <1>9 DEF SharedInv

(* A pop releases the message and counts.                                  *)
LEMMA PopStep ==
    ASSUME SharedInv, NEW h \in Handles, Pop(h)
    PROVE  SharedInv'
<1> DEFINE d == IF m_message_desc[h].ok THEN m_message_desc[h] ELSE NextMessage(h)
<1>1. /\ h \in Members /\ count(h) > 0
      /\ q' = [q EXCEPT !.mem = dec_counter(@, d)]
      /\ m_head' = [m_head EXCEPT ![h] = d.next % Capacity]
      /\ m_counter' = [m_counter EXCEPT ![h] = (@ + 1) % Word]
      /\ m_message_desc' = [m_message_desc EXCEPT ![h] = NoMessage]
      /\ inbox' = [inbox EXCEPT ![h] = IF @ = <<>> THEN @ ELSE Tail(@)]
      /\ UNCHANGED <<counter, subscriptions, stage, abandoned>>
  BY DEF Pop, Members
<1>2. PICK descs, off : Served(q, descs, off, Members, inbox, m_head,
                               m_message_desc, abandoned)
  BY DEF SharedInv
<1>3. /\ q \in Queues(Values) /\ InRing(q.mem) /\ inbox \in [Readers -> Seq(Pushed)]
      /\ Members \subseteq Readers /\ Readers \subseteq Handles
      /\ counter \in 0 .. Word - 1 /\ m_counter \in [Handles -> 0 .. Word - 1]
      /\ m_head \in [Handles -> Positions \cup {NoPos}]
      /\ m_message_desc = [x \in Handles |-> m_message_desc[x]]
      /\ \A r \in Members : count(r) = Len(inbox[r])
  BY SharedFacts DEF SharedInv, SharedTypeOK
<1> DEFINE f == q.count - Len(inbox[h]) + 1
<1>4. Len(inbox[h]) > 0 /\ f \in 1 .. q.count /\ Alike(d, descs[f])
  <2>1. /\ Len(inbox[h]) > 0 /\ f \in 1 .. q.count /\ NextMessage(h) = descs[f]
        /\ Alike(descs[f], descs[f])
    BY <1>1, <1>2, NextIsFirst
  <2>2. m_message_desc[h].ok => Alike(m_message_desc[h], descs[f])
    BY <1>1, <1>2 DEF Served, Reading
  <2> QED BY <2>1, <2>2
<1> HIDE DEF d
<1>5. /\ inbox[h] \in Seq(Pushed) /\ inbox[h] # <<>> /\ Len(inbox[h]) \in Nat
      /\ inbox'[h] = Tail(inbox[h]) /\ Tail(inbox[h]) \in Seq(Pushed)
      /\ Len(Tail(inbox[h])) = Len(inbox[h]) - 1
      /\ inbox' \in [Readers -> Seq(Pushed)]
      /\ \A r \in Readers \ {h} : inbox'[r] = inbox[r]
  <2>1. inbox[h] \in Seq(Pushed) /\ inbox[h] # <<>> /\ h \in Readers
    BY <1>1, <1>3, <1>4
  <2>2. /\ Tail(inbox[h]) \in Seq(Pushed) /\ Len(inbox[h]) \in Nat
        /\ Len(Tail(inbox[h])) = Len(inbox[h]) - 1
    BY <2>1
  <2>3. inbox' = [inbox EXCEPT ![h] = Tail(inbox[h])]
    BY <1>1, <2>1
  <2> QED BY <1>3, <2>1, <2>2, <2>3
<1>6. /\ d.next \in Int /\ m_head'[h] = d.next % Capacity /\ m_head'[h] \in Positions
      /\ m_head' \in [Handles -> Positions \cup {NoPos}]
      /\ \A r \in Readers \ {h} : m_head'[r] = m_head[r]
  <2>1. d.next \in Int
    <3>1. PICK w, p : Occupies(p, w, descs[f])
      BY <1>2, <1>4 DEF Served, Layout
    <3>2. \A i \in DOMAIN descs[f].chunks : descs[f].chunks[i] \in Chunks(Values)
      BY <1>2, <1>3, <1>4, LayoutChunks DEF Served
    <3>3. HeaderSize \in Nat
      BY RingAssumption
    <3>4. descs[f].next \in Int
      <4>1. \A c \in Chunks(Values) : c.pos + static_size(c.cap) \in Int
        BY <3>3 DEF Chunks, Positions, static_size
      <4> HIDE DEF f
      <4>2. CASE \E c : descs[f] = OneChunk(c)
        BY <3>2, <4>1, <4>2 DEF OneChunk
      <4>3. CASE \E c, t : descs[f] = TwoChunks(c, t)
        BY <3>2, <4>1, <4>3 DEF TwoChunks
      <4> QED BY <3>1, <4>2, <4>3 DEF Occupies, Whole, Skipping, Split
    <3> QED BY <1>4, <3>4 DEF Alike
  <2>2. d.next % Capacity \in Positions
    BY <2>1, ModCapacity
  <2> QED BY <1>1, <1>3, <2>1, <2>2
<1>7. /\ m_message_desc' = [x \in Handles |-> m_message_desc'[x]]
      /\ m_message_desc'[h] = NoMessage /\ ~m_message_desc'[h].ok
      /\ \A r \in Readers \ {h} : m_message_desc'[r] = m_message_desc[r]
  BY <1>1, <1>3 DEF NoMessage
<1>8. Members' = Members
  BY <1>1 DEF Members
<1>9. /\ q' \in Queues(Values) /\ InRing(q'.mem)
      /\ Serves(q', Members, inbox', m_head', m_message_desc', abandoned)
  <2>1. Popped(h, d, inbox, m_head, m_message_desc, inbox', m_head', m_message_desc')
    BY <1>5, <1>6, <1>7 DEF Popped
  <2>2. Takes(q, descs, inbox[h], d)
    BY <1>4 DEF Takes
  <2>3. Released(q, d, q')
    BY <1>1 DEF Released
  <2>4. /\ q \in Queues(Values) /\ InRing(q.mem) /\ inbox \in [Readers -> Seq(Pushed)]
        /\ Members \subseteq Readers /\ h \in Members
    BY <1>1, <1>3
  <2> QED BY <1>2, <2>1, <2>2, <2>3, <2>4, PopServes
<1>10. /\ m_counter' \in [Handles -> 0 .. Word - 1]
       /\ \A r \in Members : count(r)' = Len(inbox'[r])
  <2>1. (counter - m_counter[h]) % Word = Len(inbox[h]) /\ m_counter[h] \in 0 .. Word - 1
    BY <1>1, <1>3 DEF count
  <2> DEFINE v == (m_counter[h] + 1) % Word
             b == m_counter[h]
             n == Len(inbox[h])
  <2>2. m_counter' = [m_counter EXCEPT ![h] = v]
    BY <1>1, <1>3
  <2>3. /\ counter \in 0 .. Word - 1 /\ b \in 0 .. Word - 1 /\ n \in Nat /\ n > 0
        /\ (counter - b) % Word = n
    BY <1>3, <1>4, <1>5, <2>1
  <2>7. v = (b + 1) % Word
    OBVIOUS
  <2> HIDE DEF v, b
  <2>8. v \in 0 .. Word - 1 /\ (counter - v) % Word = n - 1
    <3> HIDE DEF n
    <3> QED BY <2>3, <2>7, CountDown
  <2>4. /\ m_counter' \in [Handles -> 0 .. Word - 1] /\ m_counter'[h] = v
        /\ \A r \in Handles \ {h} : m_counter'[r] = m_counter[r]
    BY <1>3, <2>2, <2>8
  <2>5. count(h)' = Len(inbox'[h])
    BY <1>1, <1>5, <2>8, <2>4 DEF count
  <2>6. \A r \in Members \ {h} : count(r)' = Len(inbox'[r])
    BY <1>1, <1>3, <1>5, <2>4 DEF count
  <2> QED BY <2>4, <2>5, <2>6
<1>11. SharedTypeOK'
  BY <1>1, <1>6, <1>9, <1>10 DEF SharedInv, SharedTypeOK, Queues
<1>12. /\ \A r \in Readers : m_message_desc'[r].ok \/ m_message_desc'[r] = NoMessage
       /\ \A r \in Readers \ Members' :
             inbox'[r] = <<>> /\ m_message_desc'[r] = NoMessage
  BY <1>1, <1>5, <1>7, <1>8 DEF SharedInv
<1>13. subscriptions' = Cardinality(Members') /\ abandoned' = abandoned
  BY <1>1, <1>8 DEF SharedInv
<1> QED BY <1>5, <1>7, <1>8, <1>9, <1>10, <1>11, <1>12, <1>13 DEF SharedInv, Serves

(* When nothing is pending, all that is in the ring is garbage.            *)
LEMMA NothingPending ==
    ASSUME NEW descs, NEW off, NEW boxes, NEW gone, q \in Queues(Values), ~Pending,
           Layout(q, descs, off), Counted(q, descs, boxes, gone), NEW k \in 1 .. q.count
    PROVE  RefCount(descs[k]) = 0
<1>1. RefCount(descs[k]) \in Nat
  BY DEF Counted
<1>2. 1 \in DOMAIN descs[k].chunks /\ descs[k].chunks[1] \in q.mem
  BY LayoutChunks
<1>3. descs[k].chunks[1].head
  <2>1. Occupies(Byte(q.head, off[k - 1]), off[k] - off[k - 1], descs[k])
    BY DEF Layout
  <2>2. CASE \E c : c.head /\ descs[k] = OneChunk(c)
    <3>1. PICK c : c.head /\ descs[k] = OneChunk(c)
      BY <2>2
    <3>2. descs[k].chunks[1] = c
      BY <3>1 DEF OneChunk
    <3> QED BY <3>1, <3>2
  <2>3. CASE \E c, t : c.head /\ descs[k] = TwoChunks(c, t)
    <3>1. PICK c, t : c.head /\ descs[k] = TwoChunks(c, t)
      BY <2>3
    <3>2. descs[k].chunks[1] = c
      BY <3>1 DEF TwoChunks
    <3> QED BY <3>1, <3>2
  <2> QED BY <2>1, <2>2, <2>3 DEF Occupies, Whole, Skipping, Split
<1>4. ~(descs[k].chunks[1].counter > 0)
  BY <1>2, <1>3 DEF Pending
<1> QED BY <1>1, <1>4 DEF RefCount

(* A handle is opened when everything pushed has been popped.              *)
LEMMA OpenStep ==
    ASSUME SharedInv, ~LateJoin, NEW h \in Handles, Open(h)
    PROVE  SharedInv'
<1>1. /\ stage[h] = "closed" /\ ~Pending
      /\ stage' = [stage EXCEPT ![h] = "open"]
      /\ m_head' = [m_head EXCEPT ![h] = NoPos]
      /\ m_counter' = [m_counter EXCEPT ![h] = counter]
      /\ subscriptions' = inc_subscriptions_count(h)
      /\ UNCHANGED <<q, counter, m_message_desc, inbox, abandoned>>
  BY DEF Open
<1>2. /\ q \in Queues(Values) /\ InRing(q.mem) /\ inbox \in [Readers -> Seq(Pushed)]
      /\ q.count \in Nat
      /\ Members \subseteq Readers /\ Readers \subseteq Handles
      /\ counter \in 0 .. Word - 1 /\ m_counter \in [Handles -> 0 .. Word - 1]
      /\ m_head \in [Handles -> Positions \cup {NoPos}] /\ Word \in Nat \ {0}
      /\ stage \in [Handles -> {"closed", "open"}]
      /\ \A r \in Members : count(r) = Len(inbox[r])
      /\ \A r \in Readers \ Members : inbox[r] = <<>> /\ m_message_desc[r] = NoMessage
      /\ subscriptions = Cardinality(Members)
  BY SharedFacts DEF SharedInv, SharedTypeOK
<1>3. PICK descs, off : Served(q, descs, off, Members, inbox, m_head,
                               m_message_desc, abandoned)
  BY DEF SharedInv
<1>4. Layout(q, descs, off) /\ Counted(q, descs, inbox, abandoned)
  BY <1>3 DEF Served
<1>5. /\ Members' = IF h \in Readers THEN Members \cup {h} ELSE Members
      /\ h \notin Members
  BY <1>1, <1>2 DEF Members
<1>6. subscriptions' = Cardinality(Members')
  <2>1. IsFiniteSet(Members)
    BY <1>2, ReadersFinite
  <2>2. Cardinality(Members \cup {h}) = Cardinality(Members) + 1
    BY <1>5, <2>1, FS_AddElement
  <2> QED BY <1>1, <1>2, <1>5, <2>2 DEF inc_subscriptions_count
<1>7. SharedTypeOK'
  <2>1. subscriptions' \in 0 .. Cardinality(Readers)
    <3>1. Members' \subseteq Readers
      BY <1>2, <1>5
    <3>2. /\ Cardinality(Members') \in Nat /\ Cardinality(Readers) \in Nat
          /\ Cardinality(Members') <= Cardinality(Readers)
      BY <3>1, ReadersFinite
    <3> QED BY <1>6, <3>2
  <2>2. /\ stage' \in [Handles -> {"closed", "open"}]
        /\ m_head' \in [Handles -> Positions \cup {NoPos}]
        /\ m_counter' \in [Handles -> 0 .. Word - 1]
    BY <1>1, <1>2
  <2> QED BY <1>1, <1>2, <2>1, <2>2 DEF SharedTypeOK, Queues
<1>8. ASSUME NEW r \in Members'
      PROVE  /\ Reading(q, descs, off, inbox[r], m_head'[r], m_message_desc[r])
             /\ count(r)' = Len(inbox[r])
  <2>1. CASE r = h
    <3>1. /\ inbox[r] = <<>> /\ m_message_desc[r] = NoMessage /\ m_head'[r] = NoPos
          /\ m_counter'[r] = counter
      BY <1>1, <1>2, <1>5, <2>1
    <3>2. \A k \in 1 .. q.count : RefCount(descs[k]) = 0
      BY <1>1, <1>2, <1>4, NothingPending
    <3>3. Len(inbox[r]) = 0 /\ ~m_message_desc[r].ok
      BY <3>1 DEF NoMessage
    <3>4. Reading(q, descs, off, inbox[r], m_head'[r], m_message_desc[r])
      BY <1>2, <3>1, <3>2, <3>3 DEF Reading
    <3>5. (counter - counter) % Word = 0
      <4>1. counter - counter = 0 /\ 0 \in 0 .. Word - 1
        BY <1>2
      <4> QED BY <4>1, ModWord
    <3>6. count(r)' = (counter' - m_counter'[r]) % Word
      BY DEF count
    <3> QED BY <1>1, <3>1, <3>3, <3>4, <3>5, <3>6
  <2>2. CASE r # h
    <3>1. r \in Members /\ r \in Handles
      BY <1>2, <1>5, <2>2
    <3>2. m_head'[r] = m_head[r] /\ m_counter'[r] = m_counter[r]
      BY <1>1, <1>2, <2>2, <3>1
    <3>3. count(r)' = count(r)
      BY <1>1, <3>2 DEF count
    <3> QED BY <1>2, <1>3, <3>1, <3>2, <3>3 DEF Served
  <2> QED BY <2>1, <2>2
<1>9. Served(q', descs, off, Members', inbox', m_head', m_message_desc', abandoned')
  BY <1>1, <1>4, <1>8 DEF Served
<1>10. /\ \A r \in Members' : count(r)' = Len(inbox'[r])
       /\ inbox' \in [Readers -> Seq(Pushed)] /\ q' \in Queues(Values) /\ InRing(q'.mem)
       /\ m_message_desc' = [x \in Handles |-> m_message_desc'[x]]
       /\ \A r \in Readers : m_message_desc'[r].ok \/ m_message_desc'[r] = NoMessage
       /\ \A r \in Readers \ Members' :
             inbox'[r] = <<>> /\ m_message_desc'[r] = NoMessage
  BY <1>1, <1>2, <1>5, <1>8 DEF SharedInv
<1> QED BY <1>6, <1>7, <1>9, <1>10 DEF SharedInv

(* A handle is closed; what it has not read stays referenced.              *)
LEMMA CloseStep ==
    ASSUME SharedInv, NEW h \in Handles, Close(h)
    PROVE  SharedInv'
<1>1. /\ stage[h] = "open"
      /\ stage' = [stage EXCEPT ![h] = "closed"]
      /\ subscriptions' = dec_subscriptions_count(h)
      /\ m_head' = [m_head EXCEPT ![h] = NoPos]
      /\ m_counter' = [m_counter EXCEPT ![h] = 0]
      /\ m_message_desc' = [m_message_desc EXCEPT ![h] = NoMessage]
      /\ inbox' = [r \in Readers |-> IF r = h THEN <<>> ELSE inbox[r]]
      /\ abandoned' = (abandoned \/ inbox' # inbox)
      /\ UNCHANGED <<q, counter>>
  BY DEF Close
<1>2. /\ q \in Queues(Values) /\ InRing(q.mem) /\ inbox \in [Readers -> Seq(Pushed)]
      /\ q.count \in Nat
      /\ Members \subseteq Readers /\ Readers \subseteq Handles
      /\ counter \in 0 .. Word - 1 /\ m_counter \in [Handles -> 0 .. Word - 1]
      /\ m_head \in [Handles -> Positions \cup {NoPos}] /\ Word \in Nat \ {0}
      /\ stage \in [Handles -> {"closed", "open"}]
      /\ m_message_desc = [x \in Handles |-> m_message_desc[x]]
      /\ \A r \in Members : count(r) = Len(inbox[r])
      /\ \A r \in Readers \ Members : inbox[r] = <<>> /\ m_message_desc[r] = NoMessage
      /\ subscriptions = Cardinality(Members)
  BY SharedFacts DEF SharedInv, SharedTypeOK
<1>3. PICK descs, off : Served(q, descs, off, Members, inbox, m_head,
                               m_message_desc, abandoned)
  BY DEF SharedInv
<1>4. Layout(q, descs, off) /\ Counted(q, descs, inbox, abandoned)
  BY <1>3 DEF Served
<1>5. Members' = Members \ {h} /\ (h \in Readers <=> h \in Members)
  BY <1>1, <1>2 DEF Members
<1>6. subscriptions' = Cardinality(Members')
  <2>1. IsFiniteSet(Members)
    BY <1>2, ReadersFinite
  <2>2. CASE h \in Readers
    <3>1. Cardinality(Members \ {h}) = Cardinality(Members) - 1
      BY <1>5, <2>1, <2>2, FS_RemoveElement
    <3> QED BY <1>1, <1>2, <1>5, <2>2, <3>1 DEF dec_subscriptions_count
  <2>3. CASE h \notin Readers
    <3>1. Members' = Members
      BY <1>5, <2>3
    <3> QED BY <1>1, <1>2, <2>3, <3>1 DEF dec_subscriptions_count
  <2> QED BY <2>2, <2>3
<1>7. SharedTypeOK'
  <2>1. subscriptions' \in 0 .. Cardinality(Readers)
    <3>1. Members' \subseteq Readers
      BY <1>2, <1>5
    <3>2. /\ Cardinality(Members') \in Nat /\ Cardinality(Readers) \in Nat
          /\ Cardinality(Members') <= Cardinality(Readers)
      BY <3>1, ReadersFinite
    <3> QED BY <1>6, <3>2
  <2>2. /\ stage' \in [Handles -> {"closed", "open"}]
        /\ m_head' \in [Handles -> Positions \cup {NoPos}]
        /\ m_counter' \in [Handles -> 0 .. Word - 1]
    BY <1>1, <1>2
  <2> QED BY <1>1, <1>2, <2>1, <2>2 DEF SharedTypeOK, Queues
<1>8. Counted(q, descs, inbox', abandoned')
  <2> SUFFICES ASSUME NEW k \in 1 .. q.count
               PROVE  /\ Cardinality(Owes(q, inbox', k)) <= RefCount(descs[k])
                      /\ ~abandoned' => RefCount(descs[k]) = Cardinality(Owes(q, inbox', k))
    BY <1>4 DEF Counted
  <2> DEFINE was == Cardinality(Owes(q, inbox, k))
             now == Cardinality(Owes(q, inbox', k))
             n   == RefCount(descs[k])
  <2>1. n \in Nat /\ was <= n /\ (~abandoned => n = was)
    BY <1>4 DEF Counted
  <2>2. Owes(q, inbox', k) \subseteq Owes(q, inbox, k)
    <3>1. ASSUME NEW r \in Readers, Len(inbox'[r]) > q.count - k
          PROVE  Len(inbox[r]) > q.count - k
      <4>1. r = h => Len(inbox'[r]) = 0
        BY <1>1
      <4>2. r # h
        BY <1>2, <3>1, <4>1
      <4> QED BY <1>1, <3>1, <4>2
    <3> QED BY <3>1 DEF Owes
  <2>3. now \in Nat /\ was \in Nat /\ now <= was
    <3>1. Owes(q, inbox, k) \subseteq Readers /\ Owes(q, inbox', k) \subseteq Readers
      BY DEF Owes
    <3>2. IsFiniteSet(Owes(q, inbox, k)) /\ was \in Nat /\ now \in Nat
      BY <3>1, ReadersFinite
    <3> QED BY <2>2, <3>2, FS_Subset
  <2>4. ~abandoned' => ~abandoned /\ inbox' = inbox
    BY <1>1
  <2>5. inbox' = inbox => now = was
    OBVIOUS
  <2> HIDE DEF now, was, n
  <2>6. now <= n /\ (~abandoned' => n = now)
    BY <2>1, <2>3, <2>4, <2>5
  <2> QED BY <2>6 DEF now, n
<1>9. ASSUME NEW r \in Members'
      PROVE  /\ Reading(q, descs, off, inbox'[r], m_head'[r], m_message_desc'[r])
             /\ count(r)' = Len(inbox'[r])
  <2>1. r \in Members /\ r \in Readers /\ r \in Handles /\ r # h
    BY <1>2, <1>5
  <2>2. /\ m_head'[r] = m_head[r] /\ m_counter'[r] = m_counter[r]
        /\ inbox'[r] = inbox[r] /\ m_message_desc'[r] = m_message_desc[r]
    BY <1>1, <1>2, <2>1
  <2>3. count(r)' = count(r)
    BY <1>1, <2>2 DEF count
  <2> QED BY <1>2, <1>3, <2>1, <2>2, <2>3 DEF Served
<1>10. Served(q', descs, off, Members', inbox', m_head', m_message_desc', abandoned')
  BY <1>1, <1>4, <1>8, <1>9 DEF Served
<1>11. /\ inbox' \in [Readers -> Seq(Pushed)] /\ q' \in Queues(Values) /\ InRing(q'.mem)
       /\ m_message_desc' = [x \in Handles |-> m_message_desc'[x]]
  <2>1. m_message_desc' = [x \in Handles |-> m_message_desc'[x]]
    BY <1>1, <1>2
  <2>2. inbox' \in [Readers -> Seq(Pushed)]
    <3>1. <<>> \in Seq(Pushed)
      OBVIOUS
    <3> QED BY <1>1, <1>2, <3>1
  <2> QED BY <1>1, <1>2, <2>1, <2>2
<1>12. /\ \A r \in Readers : m_message_desc'[r].ok \/ m_message_desc'[r] = NoMessage
       /\ \A r \in Readers \ Members' :
             inbox'[r] = <<>> /\ m_message_desc'[r] = NoMessage
  <2>1. \A r \in Readers : /\ r = h => inbox'[r] = <<>> /\ m_message_desc'[r] = NoMessage
                           /\ r # h => /\ inbox'[r] = inbox[r]
                                       /\ m_message_desc'[r] = m_message_desc[r]
    BY <1>1, <1>2
  <2> QED BY <1>2, <1>5, <2>1 DEF SharedInv
<1> QED BY <1>6, <1>7, <1>9, <1>10, <1>11, <1>12 DEF SharedInv

(* Under this invariant the shared queue runs, as long as nobody joins     *)
(* while messages are pending.                                             *)
THEOREM SharedInvariant ==
    ASSUME ~LateJoin
    PROVE  SharedSpec => []SharedInv
<1>1. SharedInv /\ [SharedNext]_sharedVars => SharedInv'
  <2> SUFFICES ASSUME SharedInv, [SharedNext]_sharedVars PROVE SharedInv'
    OBVIOUS
  <2>1. ASSUME NEW h \in Handles,
               \/ Open(h) \/ Close(h) \/ clean(h) \/ Get(h) \/ Pop(h)
               \/ \E val \in Values, size \in Sizes : Push(h, val, size)
        PROVE  SharedInv'
    BY <2>1, OpenStep, CloseStep, cleanStep, GetStep, PopStep, PushStep
  <2>2. CASE UNCHANGED sharedVars
    BY <2>2 DEF SharedInv, SharedTypeOK, Members, count
  <2> QED BY <2>1, <2>2 DEF SharedNext
<1> QED BY <1>1, SharedInitInv, PTL DEF SharedSpec
-----------------------------------------------------------------------------
(* n messages of the ring, read from where they begin.                     *)
LEMMA ContentsFrom ==
    ASSUME NEW V, q \in Queues(V), NEW descs, NEW off, Layout(q, descs, off),
           NEW b \in Nat, NEW n \in Nat, b + n <= q.count,
           NEW hd, n > 0 => hd = Byte(q.head, off[b])
    PROVE  /\ Contents(hd, n) = [k \in 1 .. n |-> descs[b + k]]
           /\ DOMAIN Contents(hd, n) = 1 .. n
           /\ \A k \in 1 .. n : Contents(hd, n)[k] = descs[b + k]
<1> DEFINE From(k) == IF k = 0 THEN hd ELSE Byte(q.head, off[b + k])
           First(k) == [j \in 1 .. k |-> descs[b + j]]
           Desc(x) == get_message(q.mem, x, q.tail, FALSE)
           Body(f, k) ==
               IF k = 0 THEN [hd |-> hd, msgs |-> <<>>]
               ELSE [hd   |-> Desc(f[k - 1].hd).next % Capacity,
                     msgs |-> Append(f[k - 1].msgs, Desc(f[k - 1].hd))]
           walk == [k \in 0 .. n |-> [hd |-> From(k), msgs |-> First(k)]]
           read == CHOOSE f : f = [k \in 0 .. n |-> Body(f, k)]
<1>1. q.count \in Nat
  BY DEF Queues
<1>2. Contents(hd, n) = read[n].msgs
  BY DEF Contents
<1>3. walk[0] = Body(walk, 0)
  <2>1. First(0) = <<>>
    OBVIOUS
  <2>2. walk[0] = [hd |-> hd, msgs |-> First(0)]
    OBVIOUS
  <2> HIDE DEF First, walk
  <2> QED BY <2>1, <2>2
<1>4. ASSUME NEW k \in 1 .. n PROVE walk[k] = Body(walk, k)
  <2>1. /\ k - 1 \in 0 .. n /\ k \in 0 .. n /\ k # 0 /\ k - 1 \in Nat /\ k \in Nat
        /\ (k - 1) + 1 = k /\ b + k \in 1 .. q.count /\ (b + k) - 1 = b + (k - 1)
    BY <1>1
  <2>2. From(k - 1) = Byte(q.head, off[(b + k) - 1])
    <3>1. CASE k - 1 = 0
      <4>1. n > 0 /\ (b + k) - 1 = b
        BY <2>1, <3>1
      <4> QED BY <3>1, <4>1
    <3>2. CASE k - 1 # 0
      BY <2>1, <3>2
    <3> QED BY <3>1, <3>2
  <2> DEFINE x == From(k - 1)
             f == b + k
  <2>3. Finds(q, x, descs[f])
    <3> HIDE DEF x, f
    <3>1. x = Byte(q.head, off[f - 1]) /\ f \in 1 .. q.count
      BY <2>1, <2>2 DEF x, f
    <3> QED BY <3>1, LayoutGets
  <2>4. Desc(x) = descs[f]
    <3> HIDE DEF x, f
    <3> QED BY <2>3 DEF Finds
  <2>5. descs[f].next % Capacity = From(k)
    <3>1. After(descs[f]) = Byte(q.head, off[f])
      BY <2>1, LayoutNext
    <3> QED BY <2>1, <3>1 DEF After
  <2>6. Append(First(k - 1), descs[f]) = First(k)
    <3>1. Len(First(k - 1)) = k - 1
      BY <2>1
    <3>2. Append(First(k - 1), descs[f])
             = [j \in 1 .. (k - 1) + 1 |-> IF j <= k - 1 THEN First(k - 1)[j] ELSE descs[f]]
      BY <2>1, <3>1
    <3> QED BY <2>1, <3>2
  <2>7. /\ walk[k - 1].hd = x /\ walk[k - 1].msgs = First(k - 1)
        /\ walk[k] = [hd |-> From(k), msgs |-> First(k)]
    BY <2>1
  <2> HIDE DEF From, First, walk, x, f, Desc
  <2> QED BY <2>1, <2>4, <2>5, <2>6, <2>7
<1>5. \A k \in 0 .. n : k = 0 \/ k \in 1 .. n
  OBVIOUS
<1>6. walk = [k \in 0 .. n |-> Body(walk, k)]
  <2>1. \A k \in 0 .. n : walk[k] = Body(walk, k)
    BY <1>3, <1>4, <1>5
  <2>2. walk = [k \in 0 .. n |-> walk[k]]
    OBVIOUS
  <2> HIDE DEF walk, Body
  <2> QED BY <2>1, <2>2
<1>7. walk[n].msgs = First(n)
  OBVIOUS
<1> HIDE DEF walk, Desc
<1>8. read = [k \in 0 .. n |-> Body(read, k)]
  BY <1>6
<1> HIDE DEF read
<1>9. Nat \subseteq {k \in Nat : k <= n => read[k] = walk[k]}
  <2> DEFINE S == {k \in Nat : k <= n => read[k] = walk[k]}
  <2>1. \A k \in 0 .. n : read[k] = Body(read, k) /\ walk[k] = Body(walk, k)
    <3> HIDE DEF Body
    <3>1. \A k \in 0 .. n : read[k] = Body(read, k)
      BY <1>8
    <3> QED BY <1>3, <1>4, <1>5, <3>1
  <2>2. 0 \in S
    <3>1. 0 \in 0 .. n
      OBVIOUS
    <3> QED BY <2>1, <3>1
  <2>3. ASSUME NEW k \in Nat, k \in S PROVE k + 1 \in S
    <3>1. SUFFICES ASSUME k + 1 <= n PROVE read[k + 1] = walk[k + 1]
      BY <2>3
    <3>2. k <= n /\ k + 1 \in 0 .. n /\ k + 1 # 0 /\ (k + 1) - 1 = k
      BY <3>1
    <3>3. read[k] = walk[k]
      BY <2>3, <3>2
    <3>4. Body(read, k + 1) = Body(walk, k + 1)
      BY <3>2, <3>3
    <3> QED BY <2>1, <3>2, <3>4
  <2> HIDE DEF S
  <2> QED BY <2>2, <2>3, SetInduction DEF S
<1>10. read[n] = walk[n]
  BY <1>9
<1> QED BY <1>2, <1>7, <1>10

(* Every reader's place is right and shows it its messages.                *)
THEOREM ReadersReadInbox ==
    ASSUME ~LateJoin
    PROVE  SharedSpec => []ReadersSeeInbox
<1>1. SharedInv => ReadersSeeInbox
  <2> SUFFICES ASSUME SharedInv, NEW r \in Readers, stage[r] = "open"
               PROVE  LET msgs == Contents(head(r), Len(inbox[r]))
                      IN  /\ count(r) = Len(inbox[r])
                          /\ \A k \in DOMAIN msgs :
                                /\ msgs[k].ok
                                /\ Unpack(msgs[k].chunks) = inbox[r][k]
    BY DEF ReadersSeeInbox
  <2> DEFINE n == Len(inbox[r])
             b == q.count - n
  <2>1. /\ q \in Queues(Values) /\ q.count \in Nat /\ r \in Members
        /\ inbox[r] \in Seq(Pushed) /\ count(r) = n /\ q.head \in Positions
    BY SharedFacts DEF SharedInv, Members, Queues
  <2>2. PICK descs, off : Served(q, descs, off, Members, inbox, m_head,
                                 m_message_desc, abandoned)
    BY DEF SharedInv
  <2>3. /\ Layout(q, descs, off)
        /\ Reading(q, descs, off, inbox[r], m_head[r], m_message_desc[r])
    BY <2>1, <2>2 DEF Served
  <2>4. n \in Nat /\ n <= q.count /\ \A k \in 1 .. n : Unpack(descs[b + k].chunks) = inbox[r][k]
    BY <2>1, <2>3 DEF Reading
  <2>5. n > 0 => head(r) = Byte(q.head, off[b])
    <3>1. off[0] = 0 /\ Byte(q.head, 0) = q.head
      BY <2>1, <2>3, RingAssumption DEF Layout, Byte, Positions
    <3>2. m_head[r] # NoPos => m_head[r] = Byte(q.head, off[b])
      BY <2>3 DEF Reading
    <3>3. n > 0 /\ m_head[r] = NoPos => b = 0
      BY <2>3 DEF Reading
    <3> HIDE DEF b, n
    <3> QED BY <3>1, <3>2, <3>3 DEF head
  <2> HIDE DEF n
  <2>6. b \in Nat /\ b + n = q.count
    BY <2>1, <2>4
  <2> HIDE DEF b
  <2>8. \A k \in 1 .. n : descs[b + k].ok
    <3> SUFFICES ASSUME NEW k \in 1 .. n PROVE descs[b + k].ok
      OBVIOUS
    <3> DEFINE f == b + k
    <3>1. f \in 1 .. q.count
      BY <2>1, <2>4, <2>6
    <3> HIDE DEF f
    <3>2. descs[f].ok
      BY <2>1, <2>3, <3>1, LayoutReads
    <3> QED BY <3>2 DEF f
  <2>9. /\ DOMAIN Contents(head(r), n) = 1 .. n
        /\ \A k \in 1 .. n : Contents(head(r), n)[k] = descs[b + k]
    <3> DEFINE hd == head(r)
    <3>1. n > 0 => hd = Byte(q.head, off[b])
      BY <2>5
    <3> HIDE DEF hd
    <3>2. b + n <= q.count
      BY <2>1, <2>4, <2>6
    <3>3. /\ DOMAIN Contents(hd, n) = 1 .. n
          /\ \A k \in 1 .. n : Contents(hd, n)[k] = descs[b + k]
      BY <2>1, <2>3, <2>4, <2>6, <3>1, <3>2, ContentsFrom
    <3> QED BY <3>3 DEF hd
  <2> QED BY <2>1, <2>4, <2>8, <2>9 DEF n
<1> QED BY <1>1, SharedInvariant, PTL

(* Every reference counter is exact, or too large when a reader has left.  *)
THEOREM RefCountsExact ==
    ASSUME ~LateJoin
    PROVE  SharedSpec => []RefCountExact
<1>1. SharedInv => RefCountExact
  <2> SUFFICES ASSUME SharedInv PROVE RefCountExact
    OBVIOUS
  <2> DEFINE n == q.count
  <2>1. q \in Queues(Values) /\ n \in Nat /\ q.head \in Positions /\ SharedTypeOK
        /\ inbox \in [Readers -> Seq(Pushed)]
    BY SharedFacts DEF SharedInv, Queues
  <2>2. PICK descs, off : Served(q, descs, off, Members, inbox, m_head,
                                 m_message_desc, abandoned)
    BY DEF SharedInv
  <2>3. Layout(q, descs, off) /\ Counted(q, descs, inbox, abandoned)
    BY <2>2 DEF Served
  <2>4. off[0] = 0 /\ Byte(q.head, 0) = q.head
    BY <2>1, <2>3, RingAssumption DEF Layout, Byte, Positions
  <2>5. \A k \in 1 .. n : Contents(q.head, n)[k] = descs[0 + k]
    <3>1. 0 + n = q.count /\ q.head = Byte(q.head, off[0]) /\ 0 \in Nat
      BY <2>1, <2>4
    <3> HIDE DEF n
    <3> QED BY <2>1, <2>3, <3>1, ContentsFrom
  <2>6. \A k \in 1 .. n : Contents(q.head, n)[k] = descs[k]
    <3>1. \A k \in 1 .. n : 0 + k = k
      OBVIOUS
    <3> QED BY <2>5, <3>1
  <2>7. ASSUME NEW k \in 1 .. n
        PROVE  /\ descs[k].ok
               /\ descs[k].chunks[1].counter >= Cardinality(Owing(k))
               /\ ~abandoned => descs[k].chunks[1].counter = Cardinality(Owing(k))
    <3>1. descs[k].ok
      BY <2>1, <2>3, LayoutReads
    <3>2. Owing(k) = Owes(q, inbox, k)
      BY DEF Owing, Owes
    <3>3. Cardinality(Owing(k)) \in Nat
      BY <3>2, ReadersFinite DEF Owes
    <3>4. /\ RefCount(descs[k]) \in Nat
          /\ Cardinality(Owing(k)) <= RefCount(descs[k])
          /\ ~abandoned => RefCount(descs[k]) = Cardinality(Owing(k))
      BY <2>3, <3>2 DEF Counted
    <3> QED BY <3>1, <3>3, <3>4 DEF RefCount
  <2> QED BY <2>1, <2>6, <2>7 DEF RefCountExact
<1> QED BY <1>1, SharedInvariant, PTL

(* What a reader holds stays in the ring.                                  *)
THEOREM HeldStaysIntact ==
    ASSUME ~LateJoin
    PROVE  SharedSpec => []HeldIntact
<1>1. SharedInv => HeldIntact
  <2> SUFFICES ASSUME SharedInv, NEW r \in Readers, NEW i \in DOMAIN m_message_desc[r].chunks
               PROVE  \E c \in q.mem : [c EXCEPT !.counter = 0]
                                     = [m_message_desc[r].chunks[i] EXCEPT !.counter = 0]
    BY DEF HeldIntact
  <2>1. m_message_desc[r].ok /\ r \in Members
    <3>1. m_message_desc[r] # NoMessage
      BY DEF NoMessage
    <3> QED BY <3>1 DEF SharedInv
  <2>2. PICK descs, off : Served(q, descs, off, Members, inbox, m_head,
                                 m_message_desc, abandoned)
    BY DEF SharedInv
  <2>3. /\ q \in Queues(Values) /\ q.count \in Nat /\ Layout(q, descs, off)
        /\ Reading(q, descs, off, inbox[r], m_head[r], m_message_desc[r])
        /\ inbox[r] \in Seq(Pushed)
    BY <2>1, <2>2, SharedFacts DEF Served
  <2> DEFINE f == q.count - Len(inbox[r]) + 1
  <2>4. f \in 1 .. q.count /\ Alike(m_message_desc[r], descs[f])
    <3>1. Len(inbox[r]) > 0 /\ Len(inbox[r]) <= q.count /\ Len(inbox[r]) \in Nat
          /\ Alike(m_message_desc[r], descs[f])
      BY <2>1, <2>3 DEF Reading
    <3> QED BY <2>3, <3>1
  <2> HIDE DEF f
  <2>5. i \in DOMAIN descs[f].chunks /\ SameChunk(m_message_desc[r].chunks[i], descs[f].chunks[i])
    BY <2>4 DEF Alike
  <2>6. descs[f].chunks[i] \in q.mem
    BY <2>3, <2>4, <2>5, LayoutChunks
  <2>7. ASSUME NEW c \in Chunks(Values), NEW e \in Chunks(Values), SameChunk(e, c)
        PROVE  [c EXCEPT !.counter = 0] = [e EXCEPT !.counter = 0]
    <3>1. ASSUME NEW x \in Chunks(Values)
          PROVE  [x EXCEPT !.counter = 0]
                    = [pos |-> x.pos, cap |-> x.cap, head |-> x.head, tail |-> x.tail,
                       val |-> x.val, off |-> x.off, ts |-> x.ts, counter |-> 0]
      BY DEF Chunks
    <3> QED BY <2>7, <3>1 DEF SameChunk
  <2>8. /\ m_message_desc[r].chunks[i] \in Chunks(Values)
        /\ descs[f].chunks[i] \in Chunks(Values)
    BY <2>5 DEF SameChunk
  <2> QED BY <2>5, <2>6, <2>7, <2>8
<1> QED BY <1>1, SharedInvariant, PTL

(* What everybody has popped is collected by the next push.                *)
THEOREM DrainedReclaimed ==
    ASSUME ~LateJoin
    PROVE  SharedSpec => []DrainedIsReclaimed
<1>1. SharedInv => DrainedIsReclaimed
  <2> SUFFICES ASSUME SharedInv, ~abandoned, \A r \in Readers : inbox[r] = <<>>,
                      NEW h \in Pushers, LagBounded(h)
               PROVE  Clean(q, h).count = 0
    BY DEF DrainedIsReclaimed
  <2>1. h \in Handles /\ q \in Queues(Values) /\ q.count \in Nat
    BY SharedFacts, SharedQueueAssumption
  <2>2. PICK descs, off : Served(q, descs, off, Members, inbox, m_head,
                                 m_message_desc, abandoned)
    BY DEF SharedInv
  <2>3. Layout(q, descs, off) /\ Counted(q, descs, inbox, abandoned)
    BY <2>2 DEF Served
  <2>4. ASSUME NEW k \in 1 .. q.count PROVE RefCount(descs[k]) = 0
    <3>1. Owes(q, inbox, k) = {}
      BY <2>1 DEF Owes
    <3> QED BY <2>3, <3>1, FS_EmptySet DEF Counted
  <2>5. Garbage(q, descs, q.count)
    BY <2>1, <2>4 DEF Garbage
  <2>6. Clean(q, h).count = q.count - q.count
    BY <2>1, <2>3, <2>5, CleanCollects
  <2> QED BY <2>1, <2>6
<1> QED BY <1>1, SharedInvariant, PTL
-----------------------------------------------------------------------------
(* Every step of the shared queue is a step of the broadcast or changes    *)
(* nothing in it.                                                          *)
LEMMA CastStep ==
    ASSUME SharedInv, [SharedNext]_sharedVars
    PROVE  [B!CastNext]_(B!castVars)
<1> DEFINE Shown == {r \in Readers : stage[r] = "open"}
           View == [r \in Readers |->
                        IF m_message_desc[r].ok
                        THEN <<Unpack(m_message_desc[r].chunks)>> ELSE <<>>]
<1>0. /\ inbox \in [Readers -> Seq(Pushed)] /\ Readers \subseteq Handles
      /\ m_message_desc = [x \in Handles |-> m_message_desc[x]]
      /\ stage \in [Handles -> {"closed", "open"}] /\ Shown = Members
      /\ \A r \in Readers \ Members : m_message_desc[r] = NoMessage
      /\ ~NoMessage.ok
  BY SharedFacts DEF SharedInv, SharedTypeOK, Members, NoMessage
<1>1. ASSUME NEW h \in Handles, Open(h) PROVE [B!CastNext]_(B!castVars)
  <2>1. /\ stage[h] = "closed" /\ stage' = [stage EXCEPT ![h] = "open"]
        /\ UNCHANGED <<inbox, m_message_desc>>
    BY <1>1 DEF Open
  <2>2. View' = View
    BY <2>1
  <2>3. CASE h \in Readers
    <3>1. h \notin Shown /\ Shown' = Shown \cup {h}
      BY <1>0, <2>1, <2>3
    <3>2. B!CastJoin(h)
      BY <2>1, <2>2, <3>1 DEF B!CastJoin
    <3> QED BY <2>3, <3>2 DEF B!CastNext
  <2>4. CASE h \notin Readers
    <3>1. Shown' = Shown
      BY <1>0, <2>1, <2>4
    <3> QED BY <2>1, <2>2, <3>1 DEF B!castVars
  <2> QED BY <2>3, <2>4
<1>2. ASSUME NEW h \in Handles, Close(h) PROVE [B!CastNext]_(B!castVars)
  <2>1. /\ stage[h] = "open" /\ stage' = [stage EXCEPT ![h] = "closed"]
        /\ inbox' = [r \in Readers |-> IF r = h THEN <<>> ELSE inbox[r]]
        /\ m_message_desc' = [m_message_desc EXCEPT ![h] = NoMessage]
    BY <1>2 DEF Close
  <2>2. \A r \in Readers : m_message_desc'[r] = IF r = h THEN NoMessage
                                                         ELSE m_message_desc[r]
    BY <1>0, <2>1
  <2>3. CASE h \in Readers
    <3>1. h \in Shown /\ Shown' = Shown \ {h}
      BY <1>0, <2>1, <2>3
    <3>2. inbox' = [inbox EXCEPT ![h] = <<>>]
      BY <1>0, <2>1, <2>3
    <3>3. View' = [View EXCEPT ![h] = <<>>]
      BY <1>0, <2>2, <2>3
    <3>4. B!CastLeave(h)
      BY <3>1, <3>2, <3>3 DEF B!CastLeave
    <3> QED BY <2>3, <3>4 DEF B!CastNext
  <2>4. CASE h \notin Readers
    <3>1. Shown' = Shown
      BY <1>0, <2>1, <2>4
    <3>2. inbox' = inbox
      BY <1>0, <2>1, <2>4
    <3>3. View' = View
      BY <2>2, <2>4
    <3> QED BY <3>1, <3>2, <3>3 DEF B!castVars
  <2> QED BY <2>3, <2>4
<1>3. ASSUME NEW h \in Handles, clean(h) PROVE [B!CastNext]_(B!castVars)
  <2>1. UNCHANGED <<stage, inbox, m_message_desc>>
    BY <1>3 DEF clean
  <2> QED BY <2>1 DEF B!castVars
<1>4. ASSUME NEW h \in Handles, NEW val \in Values, NEW size \in Sizes, Push(h, val, size)
      PROVE  [B!CastNext]_(B!castVars)
  <2> DEFINE msg == [val |-> val, size |-> size, ts |-> 0]
  <2>1. UNCHANGED <<stage, m_message_desc>>
    BY <1>4 DEF Push
  <2>2. \/ inbox' = [r \in Readers |-> inbox[r]]
        \/ inbox' = [r \in Readers |-> IF stage[r] = "open" THEN Append(inbox[r], msg)
                                                            ELSE inbox[r]]
    <3> DEFINE ok == make_message(Clean(q, h), size, val, 0, subscriptions).ok
    <3>1. inbox' = [r \in Readers |-> IF ok /\ stage[r] = "open"
                                      THEN Append(inbox[r], msg) ELSE inbox[r]]
      BY <1>4 DEF Push
    <3> HIDE DEF ok, msg
    <3> QED BY <3>1
  <2>3. msg \in [val : Values, size : Sizes, ts : {0}]
    OBVIOUS
  <2> HIDE DEF msg
  <2>4. View' = View /\ Shown' = Shown
    BY <2>1
  <2>5. CASE inbox' = [r \in Readers |-> inbox[r]]
    <3>1. inbox' = inbox
      BY <1>0, <2>5
    <3> QED BY <2>4, <3>1 DEF B!castVars
  <2>6. CASE inbox' = [r \in Readers |-> IF stage[r] = "open" THEN Append(inbox[r], msg)
                                                             ELSE inbox[r]]
    <3>1. inbox' = [r \in Readers |-> IF r \in Shown THEN Append(inbox[r], msg)
                                                     ELSE inbox[r]]
      BY <2>6
    <3>2. B!CastPush(msg)
      BY <2>4, <3>1 DEF B!CastPush
    <3> QED BY <2>3, <3>2 DEF B!CastNext
  <2> QED BY <2>2, <2>5, <2>6
<1>5. ASSUME NEW r \in Members, count(r) > 0
      PROVE  /\ inbox[r] # <<>> /\ NextMessage(r).ok
             /\ Unpack(NextMessage(r).chunks) = Head(inbox[r])
             /\ View[r] \in {<<>>, <<Head(inbox[r])>>}
  <2>1. PICK descs, off : Served(q, descs, off, Members, inbox, m_head,
                                 m_message_desc, abandoned)
    BY DEF SharedInv
  <2> DEFINE f == q.count - Len(inbox[r]) + 1
  <2>2. /\ Len(inbox[r]) > 0 /\ NextMessage(r) = descs[f] /\ descs[f].ok
        /\ Alike(descs[f], descs[f])
        /\ \A d : Alike(d, descs[f]) => Unpack(d.chunks) = inbox[r][1]
    BY <1>5, <2>1, NextIsFirst
  <2>3. r \in Readers /\ inbox[r] \in Seq(Pushed)
    BY <1>0 DEF Members
  <2>4. inbox[r] # <<>> /\ Head(inbox[r]) = inbox[r][1]
    BY <2>2, <2>3
  <2>5. m_message_desc[r].ok => Alike(m_message_desc[r], descs[f])
    BY <2>1 DEF Served, Reading
  <2> HIDE DEF f
  <2>6. m_message_desc[r].ok => Unpack(m_message_desc[r].chunks) = Head(inbox[r])
    BY <2>2, <2>4, <2>5
  <2> QED BY <2>2, <2>3, <2>4, <2>6
<1>6. ASSUME NEW h \in Handles, Get(h) PROVE [B!CastNext]_(B!castVars)
  <2>1. /\ h \in Members /\ h \in Readers /\ count(h) > 0
        /\ m_message_desc' = [m_message_desc EXCEPT ![h] = NextMessage(h)]
        /\ UNCHANGED <<stage, inbox>>
    BY <1>6 DEF Get, Members
  <2>2. /\ inbox[h] # <<>> /\ NextMessage(h).ok
        /\ Unpack(NextMessage(h).chunks) = Head(inbox[h])
    BY <1>5, <2>1
  <2>3. View' = [View EXCEPT ![h] = <<Head(inbox[h])>>]
    BY <1>0, <2>1, <2>2
  <2>4. Shown' = Shown
    BY <2>1
  <2>5. B!CastGet(h)
    BY <2>1, <2>2, <2>3, <2>4 DEF B!CastGet
  <2> QED BY <2>1, <2>5 DEF B!CastNext
<1>7. ASSUME NEW h \in Handles, Pop(h) PROVE [B!CastNext]_(B!castVars)
  <2>1. /\ h \in Members /\ h \in Readers /\ count(h) > 0
        /\ m_message_desc' = [m_message_desc EXCEPT ![h] = NoMessage]
        /\ inbox' = [inbox EXCEPT ![h] = IF @ = <<>> THEN @ ELSE Tail(@)]
        /\ UNCHANGED stage
    BY <1>7 DEF Pop, Members
  <2>2. inbox[h] # <<>> /\ View[h] \in {<<>>, <<Head(inbox[h])>>}
    BY <1>5, <2>1
  <2>3. inbox' = [inbox EXCEPT ![h] = Tail(inbox[h])]
    BY <1>0, <2>1, <2>2
  <2>4. View' = [View EXCEPT ![h] = <<>>]
    BY <1>0, <2>1
  <2>5. Shown' = Shown
    BY <2>1
  <2>6. B!CastPop(h)
    BY <2>2, <2>3, <2>4, <2>5 DEF B!CastPop
  <2> QED BY <2>1, <2>6 DEF B!CastNext
<1>8. CASE UNCHANGED sharedVars
  BY <1>8 DEF B!castVars
<1> QED BY <1>1, <1>2, <1>3, <1>4, <1>6, <1>7, <1>8 DEF SharedNext

(* Every message reaches every reader that is subscribed when it is        *)
(* pushed, once, in the order of the pushes and unchanged.                 *)
THEOREM QueueIsBroadcast ==
    ASSUME ~LateJoin
    PROVE  SharedSpec => ImplementsBroadcast
<1>1. SharedInit => B!CastInit
  BY DEF SharedInit, B!CastInit, NoMessage, Handles
<1>2. SharedInv /\ [SharedNext]_sharedVars => [B!CastNext]_(B!castVars)
  BY CastStep
<1> QED BY <1>1, <1>2, SharedInvariant, PTL
           DEF SharedSpec, ImplementsBroadcast, B!CastSpec
=============================================================================
