----------------------------- MODULE RingProofs -----------------------------
(***************************************************************************)
(* Facts about the byte ring for every capacity and header size.           *)
(***************************************************************************)
EXTENDS Ring, WellFoundedInduction, TLAPS

(* What the region and memory operators need to know of a queue.           *)
Queues(V) == [head : Positions, tail : Positions, count : Nat,
              mem : SUBSET Chunks(V)]

InRing(mem) == \A c \in mem : c.pos + static_size(c.cap) <= Capacity

(* A set of numbers that is not empty has a least one.                     *)
LEMMA LeastNumber ==
    ASSUME NEW T, T \subseteq Nat, T # {}
    PROVE  \E x \in T : \A y \in T : x <= y
<1> DEFINE R == {ss \in Nat \X Nat : ss[1] < ss[2]}
<1>1. IsWellFoundedOn(R, Nat)
  BY NatLessThanWellFounded DEF OpToRel
<1> HIDE DEF R
<1>2. PICK x \in T : \A y \in T : <<y, x>> \notin R
  BY <1>1, WFMin
<1>3. ASSUME NEW y \in T PROVE x <= y
  <2>1. x \in Nat /\ y \in Nat /\ ~(y < x)
    BY <1>2 DEF R
  <2> QED BY <2>1
<1> QED BY <1>3

(* Induction over the numbers, with the set of those for which the claim   *)
(* holds in place of a predicate.                                          *)
LEMMA SetInduction ==
    ASSUME NEW S, 0 \in S, \A n \in Nat : n \in S => n + 1 \in S
    PROVE  Nat \subseteq S
<1> DEFINE T == Nat \ S
<1>1. SUFFICES ASSUME T # {} PROVE FALSE
  OBVIOUS
<1>2. PICK x \in T : \A y \in T : x <= y
  <2>1. T \subseteq Nat
    OBVIOUS
  <2> HIDE DEF T
  <2> QED BY <1>1, <2>1, LeastNumber
<1>3. x \in Nat /\ x # 0 /\ x \notin S
  OBVIOUS
<1>4. x - 1 \in Nat /\ (x - 1) + 1 = x /\ ~(x <= x - 1)
  BY <1>3
<1>5. x - 1 \notin T
  BY <1>2, <1>4
<1> QED BY <1>3, <1>4, <1>5

(* A remainder by Capacity: a position is its own, and the end of the ring *)
(* is position 0.                                                          *)
LEMMA ModCapacity ==
    /\ \A a \in Positions : a % Capacity = a
    /\ Capacity % Capacity = 0
    /\ \A a \in Int : a % Capacity \in Positions
BY RingAssumption DEF Positions

(* The remainder of a small negative number, which the distance from the   *)
(* tail to a head in front of it is.                                       *)
LEMMA ModNegative ==
    \A a \in Int : (-Capacity < a /\ a < 0) => a % Capacity = a + Capacity
BY RingAssumption

(* The first two free regions, in the terms of head and tail.              *)
LEMMA FreeRegions ==
    ASSUME NEW V, NEW q \in Queues(V),
           NEW r1, r1 = first_free_region(q),
           NEW r2, r2 = next_free_region(q, r1)
    PROVE  /\ r1.first = q.tail
           /\ \/ /\ q.count = 0 \/ q.head < q.tail
                 /\ r1.second = Capacity - q.tail
                 /\ r2.first = 0 /\ r2.second = q.head
              \/ /\ q.count # 0 /\ q.head >= q.tail
                 /\ r1.second = q.head - q.tail
                 /\ r2.first = q.head /\ r2.second = 0
<1>1. q.head \in Positions /\ q.tail \in Positions /\ q.count \in Nat
  BY DEF Queues
<1>2. CASE q.count = 0 \/ q.head < q.tail
  <2>1. r1.first = q.tail /\ r1.second = Capacity - q.tail
    BY <1>2 DEF first_free_region, Region
  <2>2. r1.first + r1.second = Capacity
    BY <1>1, <2>1, RingAssumption DEF Positions
  <2>3. (r1.first + r1.second) % Capacity = 0
    BY <2>2, ModCapacity
  <2>4. r2 = IF q.head < 0 THEN Region(0, Capacity - 0)
                           ELSE Region(0, q.head - 0)
    BY <2>3, Zenon DEF next_free_region
  <2>5. r2.first = 0 /\ r2.second = q.head
    BY <1>1, <2>4, RingAssumption DEF Region, Positions
  <2> QED BY <1>2, <2>1, <2>5
<1>3. CASE ~(q.count = 0 \/ q.head < q.tail)
  <2>1. r1.first = q.tail /\ r1.second = q.head - q.tail
    BY <1>3 DEF first_free_region, Region
  <2>2. r1.first + r1.second = q.head
    BY <1>1, <2>1, RingAssumption DEF Positions
  <2>3. (r1.first + r1.second) % Capacity = q.head
    BY <1>1, <2>2, ModCapacity
  <2>4. r2 = IF q.head < q.head THEN Region(q.head, Capacity - q.head)
                                ELSE Region(q.head, q.head - q.head)
    BY <2>3, Zenon DEF next_free_region
  <2>5. r2.first = q.head /\ r2.second = 0
    BY <1>1, <2>4, RingAssumption DEF Region, Positions
  <2> QED BY <1>1, <1>3, <2>1, <2>5 DEF Positions
<1> QED BY <1>2, <1>3

(* The region loop of static_make_message sees at most two non-empty       *)
(* regions: the third is always empty, so it terminates.                   *)
THEOREM ThirdRegionEmpty ==
    ASSUME NEW V, NEW q \in Queues(V)
    PROVE  LET r1 == first_free_region(q)
               r2 == next_free_region(q, r1)
           IN  next_free_region(q, r2).second = 0
<1> DEFINE r1 == first_free_region(q)
           r2 == next_free_region(q, r1)
<1>1. r2.first + r2.second = q.head
  BY FreeRegions DEF Queues, Positions
<1>2. q.head \in Positions
  BY DEF Queues
<1> HIDE DEF r2
<1>3. (r2.first + r2.second) % Capacity = q.head
  BY <1>1, <1>2, ModCapacity
<1>4. next_free_region(q, r2) =
        IF q.head < q.head THEN Region(q.head, Capacity - q.head)
                           ELSE Region(q.head, q.head - q.head)
  BY <1>3, Zenon DEF next_free_region
<1>5. next_free_region(q, r2).second = 0
  BY <1>2, <1>4, RingAssumption DEF Region, Positions
<1> QED BY <1>5 DEF r2

(* A chunk no larger than what a region can hold stays in the region.      *)
LEMMA ChunkFits ==
    ASSUME NEW first \in Nat, NEW second \in Nat, first + second <= Capacity
    PROVE  /\ static_capacity(second) \in Nat
           /\ \A n \in Nat \ {0} : n <= static_capacity(second)
                 => first + static_size(n) <= Capacity
<1>1. CASE second > HeaderSize
  BY <1>1, RingAssumption DEF static_capacity, static_size
<1>2. CASE ~(second > HeaderSize)
  BY <1>2, RingAssumption DEF static_capacity, static_size
<1> QED BY <1>1, <1>2

(* Every part into which a message is divided lies in the ring.            *)
LEMMA PartsInRing ==
    ASSUME NEW V, NEW q \in Queues(V), NEW size \in Nat \ {0},
           NEW parts, parts = MessageParts(q, size), parts # <<>>
    PROVE  /\ \/ \E a : parts = <<a>>
              \/ \E a, b : parts = <<a, b>>
           /\ \A i \in DOMAIN parts :
                 /\ parts[i].pos \in Positions /\ parts[i].cap \in Nat
                 /\ parts[i].pos + static_size(parts[i].cap) <= Capacity
<1> DEFINE r1 == first_free_region(q)
           r2 == next_free_region(q, r1)
           c1 == static_capacity(r1.second)
           c2 == static_capacity(r2.second)
           Part(r, n) == [pos |-> r.first, cap |-> n]
<1>1. /\ q.head \in Positions /\ q.tail \in Positions
      /\ Capacity \in Nat /\ HeaderSize \in Nat
  BY RingAssumption DEF Queues
<1>2. /\ r1.first \in Positions /\ r2.first \in Positions
      /\ r1.second \in Nat /\ r2.second \in Nat
      /\ r1.first + r1.second <= Capacity
      /\ r2.first + r2.second <= Capacity
  BY <1>1, FreeRegions, RingAssumption DEF Positions
<1>3. parts = IF size <= c1 THEN <<Part(r1, size)>>
              ELSE IF size > c1 + c2 THEN <<>>
              ELSE IF c1 = 0 THEN <<Part(r2, size)>>
              ELSE <<Part(r1, c1), Part(r2, size - c1)>>
  BY DEF MessageParts
<1> HIDE DEF r1, r2
<1>4. /\ c1 \in Nat /\ c2 \in Nat
      /\ \A n \in Nat \ {0} : n <= c1 => r1.first + static_size(n) <= Capacity
      /\ \A n \in Nat \ {0} : n <= c2 => r2.first + static_size(n) <= Capacity
  <2>1. r1.first \in Nat /\ r2.first \in Nat
    BY <1>1, <1>2 DEF Positions
  <2> QED BY <1>2, <2>1, ChunkFits
<1> HIDE DEF c1, c2
<1>5. CASE size <= c1
  BY <1>2, <1>3, <1>4, <1>5
<1>6. CASE size > c1 /\ c1 = 0
  BY <1>2, <1>3, <1>4, <1>6
<1>7. CASE size > c1 /\ c1 # 0
  <2>1. parts = <<Part(r1, c1), Part(r2, size - c1)>>
    BY <1>3, <1>4, <1>7
  <2>2. size - c1 \in Nat \ {0} /\ size - c1 <= c2
    BY <1>3, <1>4, <1>7
  <2> QED BY <1>2, <1>4, <1>7, <2>1, <2>2
<1> QED BY <1>4, <1>5, <1>6, <1>7

(* Erasing chunks keeps the rest of the memory.                            *)
LEMMA EraseInRing ==
    ASSUME NEW V, NEW mem \in SUBSET Chunks(V), InRing(mem),
           NEW first, NEW size, NEW firsts
    PROVE  /\ Erase(mem, first, size) \in SUBSET Chunks(V)
           /\ InRing(Erase(mem, first, size))
           /\ EraseHeaders(mem, firsts) \in SUBSET Chunks(V)
           /\ InRing(EraseHeaders(mem, firsts))
BY DEF Erase, EraseHeaders, InRing

(* Writing a chunk that lies in the ring keeps the memory in the ring.     *)
LEMMA WriteChunkInRing ==
    ASSUME NEW V, NEW mem \in SUBSET Chunks(V), InRing(mem),
           NEW c \in Chunks(V), c.pos + static_size(c.cap) <= Capacity
    PROVE  WriteChunk(mem, c) \in SUBSET Chunks(V) /\ InRing(WriteChunk(mem, c))
BY EraseInRing DEF WriteChunk, InRing

(* static_make_message writes in the ring only, and the tail it returns is *)
(* a position or the end of the ring.                                      *)
THEOREM MakeMessageInRing ==
    ASSUME NEW V, NEW q \in Queues(V), InRing(q.mem), NEW size \in Nat \ {0},
           NEW val \in V, NEW ts \in Nat, NEW counter \in Nat
    PROVE  LET made == make_message(q, size, val, ts, counter)
           IN  /\ made.ok \in BOOLEAN
               /\ made.mem \in SUBSET Chunks(V) /\ InRing(made.mem)
               /\ made.next \in 0 .. Capacity
<1> DEFINE parts  == MessageParts(q, size)
           chunks == MessageChunks(parts, val, ts, counter)
           last   == chunks[Len(chunks)]
           made   == make_message(q, size, val, ts, counter)
<1>0. q.mem \in SUBSET Chunks(V) /\ Capacity \in Nat /\ HeaderSize \in Nat
  BY RingAssumption DEF Queues
<1>1. CASE parts = <<>>
  <2>1. made = [ok |-> FALSE, mem |-> EraseHeaders(q.mem, WastedHeaders(q)),
                next |-> 0]
    BY <1>1 DEF make_message
  <2> QED BY <1>0, <2>1, EraseInRing
<1>2. CASE parts # <<>>
  <2>1. made = [ok |-> TRUE, mem |-> WriteMessage(q.mem, chunks),
                next |-> last.pos + static_size(last.cap)]
    BY <1>2 DEF make_message
  <2>2. /\ (\E a : parts = <<a>>) \/ (\E a, b : parts = <<a, b>>)
        /\ \A i \in DOMAIN parts :
              /\ parts[i].pos \in Positions /\ parts[i].cap \in Nat
              /\ parts[i].pos + static_size(parts[i].cap) <= Capacity
    BY <1>2, PartsInRing
  <2> HIDE DEF parts
  <2>3. /\ DOMAIN chunks = DOMAIN parts
        /\ \A i \in DOMAIN parts :
              /\ chunks[i] \in Chunks(V)
              /\ chunks[i].pos + static_size(chunks[i].cap) <= Capacity
    BY <2>2 DEF MessageChunks, Chunks
  <2>4. CASE \E a : parts = <<a>>
    <3>1. DOMAIN parts = {1} /\ Len(chunks) = 1
      BY <2>4 DEF MessageChunks
    <3>2. WriteMessage(q.mem, chunks) = WriteChunk(q.mem, chunks[1])
      BY <3>1 DEF WriteMessage
    <3>3. chunks[1] \in Chunks(V) /\ chunks[1].pos + static_size(chunks[1].cap) <= Capacity
      BY <2>3, <3>1
    <3>4. last = chunks[1]
      BY <3>1
    <3> HIDE DEF chunks, last
    <3>5. last.pos + static_size(last.cap) \in 0 .. Capacity
      BY <1>0, <3>3, <3>4 DEF Chunks, Positions, static_size
    <3> QED BY <1>0, <2>1, <3>2, <3>3, <3>5, WriteChunkInRing
  <2>5. CASE \E a, b : parts = <<a, b>>
    <3>1. DOMAIN parts = {1, 2} /\ Len(chunks) = 2
      BY <2>5 DEF MessageChunks
    <3>2. WriteMessage(q.mem, chunks)
              = WriteChunk(WriteChunk(q.mem, chunks[1]), chunks[2])
      BY <3>1 DEF WriteMessage
    <3>3. /\ chunks[1] \in Chunks(V) /\ chunks[1].pos + static_size(chunks[1].cap) <= Capacity
          /\ chunks[2] \in Chunks(V) /\ chunks[2].pos + static_size(chunks[2].cap) <= Capacity
      BY <2>3, <3>1
    <3>4. last = chunks[2]
      BY <3>1
    <3> HIDE DEF chunks, last
    <3>5. last.pos + static_size(last.cap) \in 0 .. Capacity
      BY <1>0, <3>3, <3>4 DEF Chunks, Positions, static_size
    <3>6. /\ WriteChunk(q.mem, chunks[1]) \in SUBSET Chunks(V)
          /\ InRing(WriteChunk(q.mem, chunks[1]))
      BY <1>0, <3>3, WriteChunkInRing
    <3> QED BY <2>1, <3>2, <3>3, <3>5, <3>6, WriteChunkInRing
  <2> QED BY <2>2, <2>4, <2>5
<1> QED BY <1>1, <1>2

(* static_get_message returns chunks of the memory, and the head that its  *)
(* removal sets is a position or the end of the ring.                      *)
THEOREM GetMessageInRing ==
    ASSUME NEW V, NEW mem \in SUBSET Chunks(V), InRing(mem),
           NEW hd, NEW tl, NEW e
    PROVE  LET desc == get_message(mem, hd, tl, e)
           IN  /\ desc \in [ok : BOOLEAN, chunks : Seq(Chunks(V)),
                            next : 0 .. Capacity]
               /\ desc.ok => /\ Len(desc.chunks) \in {1, 2}
                             /\ \A i \in DOMAIN desc.chunks : desc.chunks[i] \in mem
<1> DEFINE r0 == first_busy_region(hd, tl, e)
           r1 == SkipSmall(tl, r0)
           r2 == SkipSmall(tl, next_busy_region(tl, r1))
           At(r) == ChunksAt(mem, r.first)
           c1 == CHOOSE c \in At(r1) : TRUE
           c2 == CHOOSE c \in At(r2) : TRUE
           End(r, c) == r.first + static_size(c.cap)
           desc == get_message(mem, hd, tl, e)
           Sound(d) == /\ d \in [ok : BOOLEAN, chunks : Seq(Chunks(V)),
                                 next : 0 .. Capacity]
                       /\ d.ok => /\ Len(d.chunks) \in {1, 2}
                                  /\ \A i \in DOMAIN d.chunks : d.chunks[i] \in mem
<1> SUFFICES Sound(desc)
  OBVIOUS
<1>0. Capacity \in Nat /\ HeaderSize \in Nat
  BY RingAssumption
<1>1. desc = IF r0.second # 0 /\ \E c \in At(r1) : c.head
             THEN IF c1.tail
                  THEN [ok |-> TRUE, chunks |-> <<c1>>, next |-> End(r1, c1)]
                  ELSE IF \E c \in At(r2) : c.tail
                  THEN [ok |-> TRUE, chunks |-> <<c1, c2>>, next |-> End(r2, c2)]
                  ELSE NoMessage
             ELSE NoMessage
  BY DEF get_message
<1> HIDE DEF r0, r1, r2, desc
<1>2. ASSUME NEW r, NEW c \in At(r)
      PROVE  c \in mem /\ c \in Chunks(V) /\ End(r, c) \in 0 .. Capacity
  BY <1>0, <1>2 DEF ChunksAt, InRing, Chunks, Positions, static_size
<1>3. (\E c \in At(r1) : c.head) => c1 \in At(r1)
  OBVIOUS
<1>4. (\E c \in At(r2) : c.tail) => c2 \in At(r2)
  OBVIOUS
<1> HIDE DEF c1, c2, At, End
<1>5. Sound(NoMessage)
  BY <1>0 DEF NoMessage
<1>6. ASSUME \E c \in At(r1) : c.head
      PROVE  Sound([ok |-> TRUE, chunks |-> <<c1>>, next |-> End(r1, c1)])
  BY <1>2, <1>3, <1>6
<1>7. ASSUME \E c \in At(r1) : c.head, \E c \in At(r2) : c.tail
      PROVE  Sound([ok |-> TRUE, chunks |-> <<c1, c2>>, next |-> End(r2, c2)])
  BY <1>2, <1>3, <1>4, <1>7
<1> HIDE DEF Sound
<1> QED BY <1>1, <1>5, <1>6, <1>7
-----------------------------------------------------------------------------
(* Where messages lie.  Positions are counted in bytes from a head, round  *)
(* the end of the ring.                                                    *)
Byte(hd, o) == IF hd + o < Capacity THEN hd + o ELSE hd + o - Capacity

(* The bytes from one position to the next time the other is met; a whole  *)
(* turn when they are the same.                                            *)
Dist(from, to) == IF from < to THEN to - from ELSE to + Capacity - from

UsedBytes(s) == IF s.count = 0 THEN 0 ELSE Dist(s.head, s.tail)

(* The descriptors of a message of one and of two chunks.                  *)
OneChunk(c) == [ok |-> TRUE, chunks |-> <<c>>,
                next |-> c.pos + static_size(c.cap)]
TwoChunks(c, t) == [ok |-> TRUE, chunks |-> <<c, t>>,
                    next |-> t.pos + static_size(t.cap)]

(* The message d takes the w bytes from position p on: as one chunk there, *)
(* as one chunk at the begin of the ring when the bytes before the end are *)
(* too few, or as a chunk that ends at the end and one at the begin.       *)
Whole(p, w, d) ==
    \E c : /\ d = OneChunk(c) /\ c.head /\ c.tail /\ c.cap \in Nat \ {0}
           /\ c.pos = p /\ w = static_size(c.cap) /\ p + w <= Capacity

Skipping(p, w, d) ==
    \E c : /\ d = OneChunk(c) /\ c.head /\ c.tail /\ c.cap \in Nat \ {0}
           /\ c.pos = 0 /\ Capacity - p <= HeaderSize
           /\ w = Capacity - p + static_size(c.cap)

Split(p, w, d) ==
    \E c, t : /\ d = TwoChunks(c, t) /\ c.head /\ ~c.tail /\ t.tail
              /\ c.cap \in Nat \ {0} /\ t.cap \in Nat \ {0}
              /\ c.pos = p /\ p + static_size(c.cap) = Capacity
              /\ t.pos = 0 /\ w = Capacity - p + static_size(t.cap)

Occupies(p, w, d) == Whole(p, w, d) \/ Skipping(p, w, d) \/ Split(p, w, d)

(* Its chunks are in the memory, and no others are where they are.         *)
Holds(mem, d) ==
    \A i \in DOMAIN d.chunks : ChunksAt(mem, d.chunks[i].pos) = {d.chunks[i]}

(* A message that lies between the reader's head and the tail is read.     *)
LEMMA ReadsStored ==
    ASSUME NEW mem, NEW p \in Positions, NEW tl \in Positions, NEW d, NEW w \in Nat,
           Occupies(p, w, d), Holds(mem, d), w <= Dist(p, tl)
    PROVE  /\ get_message(mem, p, tl, FALSE) = d /\ d.ok
           /\ d.next % Capacity = Byte(p, w)
           /\ w > 0
<1> DEFINE r0 == first_busy_region(p, tl, FALSE)
           r1 == SkipSmall(tl, r0)
           r2 == SkipSmall(tl, next_busy_region(tl, r1))
           c1 == CHOOSE c \in ChunksAt(mem, r1.first) : TRUE
           c2 == CHOOSE c \in ChunksAt(mem, r2.first) : TRUE
           End(r, c) == r.first + static_size(c.cap)
           g == get_message(mem, p, tl, FALSE)
<1> SUFFICES g = d /\ d.ok /\ d.next % Capacity = Byte(p, w) /\ w > 0
  OBVIOUS
<1>0. Capacity \in Nat \ {0} /\ HeaderSize \in Nat \ {0} /\ p \in Nat /\ tl \in Nat
      /\ p < Capacity /\ tl < Capacity
  BY RingAssumption DEF Positions
<1>1. g = IF r0.second # 0 /\ \E c \in ChunksAt(mem, r1.first) : c.head
          THEN IF c1.tail
               THEN [ok |-> TRUE, chunks |-> <<c1>>, next |-> End(r1, c1)]
               ELSE IF \E c \in ChunksAt(mem, r2.first) : c.tail
               THEN [ok |-> TRUE, chunks |-> <<c1, c2>>, next |-> End(r2, c2)]
               ELSE NoMessage
          ELSE NoMessage
  BY DEF get_message
<1>2. r0 = IF p < tl THEN Region(p, tl - p) ELSE Region(p, Capacity - p)
  BY DEF first_busy_region
<1> HIDE DEF r0, g
<1>3. r0.second > 0 /\ r0.first = p
  BY <1>0, <1>2 DEF Region
<1>4. ASSUME p >= tl, 0 < tl
      PROVE  /\ next_busy_region(tl, r0) = Region(0, tl)
             /\ r0 = Region(p, Capacity - p)
  <2>1. r0 = Region(p, Capacity - p)
    BY <1>0, <1>2, <1>4
  <2>2. r0.first + r0.second = Capacity
    BY <1>0, <2>1 DEF Region
  <2>3. (r0.first + r0.second) % Capacity = 0
    BY <2>2, ModCapacity
  <2>4. next_busy_region(tl, r0) = IF 0 < tl THEN Region(0, tl - 0)
                                   ELSE Region(0, Capacity - 0)
    BY <2>3, Zenon DEF next_busy_region
  <2>5. tl - 0 = tl
    BY <1>0
  <2> QED BY <1>4, <2>1, <2>4, <2>5
<1>5. CASE Whole(p, w, d)
  <2>1. PICK c : /\ d = OneChunk(c) /\ c.head /\ c.tail /\ c.cap \in Nat \ {0}
                 /\ c.pos = p /\ w = static_size(c.cap) /\ p + w <= Capacity
    BY <1>5 DEF Whole
  <2>2. w = HeaderSize + c.cap /\ w > HeaderSize
    BY <1>0, <2>1 DEF static_size
  <2>3. r0.second > HeaderSize
    BY <1>0, <1>2, <2>1, <2>2 DEF Dist, Region
  <2>4. r1 = r0
    BY <2>3 DEF SkipSmall
  <2>5. ChunksAt(mem, p) = {c}
    BY <2>1 DEF Holds, OneChunk
  <2>6. c1 = c /\ \E x \in ChunksAt(mem, r1.first) : x.head
    BY <1>3, <2>1, <2>4, <2>5
  <2>7. g = d /\ d.ok /\ d.next = p + w
    <3>1. End(r1, c1) = p + w /\ d = [ok |-> TRUE, chunks |-> <<c>>, next |-> p + w]
      BY <1>3, <2>1, <2>4, <2>6 DEF OneChunk
    <3> HIDE DEF r1, c1, End
    <3> QED BY <1>1, <1>3, <2>1, <2>6, <3>1
  <2>8. (p + w) % Capacity = Byte(p, w)
    <3>1. CASE p + w < Capacity
      BY <1>0, <2>1, <3>1, ModCapacity DEF Byte, Positions
    <3>2. CASE p + w = Capacity
      BY <1>0, <2>1, <3>2, ModCapacity DEF Byte, Positions
    <3> QED BY <1>0, <2>1, <3>1, <3>2
  <2>9. w > 0
    BY <1>0, <2>1, <2>2
  <2> QED BY <2>7, <2>8, <2>9
<1>6. CASE Skipping(p, w, d)
  <2>1. PICK c : /\ d = OneChunk(c) /\ c.head /\ c.tail /\ c.cap \in Nat \ {0}
                 /\ c.pos = 0 /\ Capacity - p <= HeaderSize
                 /\ w = Capacity - p + static_size(c.cap)
    BY <1>6 DEF Skipping
  <2>2. static_size(c.cap) \in Nat /\ static_size(c.cap) > HeaderSize
    BY <1>0, <2>1 DEF static_size
  <2>3. p >= tl /\ 0 < tl /\ static_size(c.cap) <= tl
    BY <1>0, <2>1, <2>2 DEF Dist
  <2>4. r1 = Region(0, tl)
    BY <1>0, <1>4, <2>1, <2>3 DEF SkipSmall, Region
  <2>5. ChunksAt(mem, 0) = {c} /\ r1.first = 0
    BY <2>1, <2>4 DEF Holds, OneChunk, Region
  <2>6. c1 = c /\ \E x \in ChunksAt(mem, r1.first) : x.head
    BY <2>1, <2>5
  <2>7. g = d /\ d.ok /\ d.next = 0 + static_size(c.cap)
    <3>1. /\ End(r1, c1) = 0 + static_size(c.cap)
          /\ d = [ok |-> TRUE, chunks |-> <<c>>, next |-> 0 + static_size(c.cap)]
      BY <2>1, <2>5, <2>6 DEF OneChunk
    <3> HIDE DEF r1, c1, End
    <3> QED BY <1>1, <1>3, <2>1, <2>6, <3>1
  <2>8. (0 + static_size(c.cap)) % Capacity = Byte(p, w)
    <3>1. static_size(c.cap) \in Positions /\ 0 + static_size(c.cap) = static_size(c.cap)
      BY <1>0, <2>2, <2>3 DEF Positions
    <3>2. Byte(p, w) = static_size(c.cap)
      BY <1>0, <2>1, <2>2 DEF Byte
    <3> QED BY <3>1, <3>2, ModCapacity
  <2>9. w > 0
    BY <1>0, <2>1, <2>2
  <2> QED BY <2>7, <2>8, <2>9
<1>7. CASE Split(p, w, d)
  <2>1. PICK c, t : /\ d = TwoChunks(c, t) /\ c.head /\ ~c.tail /\ t.tail
                    /\ c.cap \in Nat \ {0} /\ t.cap \in Nat \ {0}
                    /\ c.pos = p /\ p + static_size(c.cap) = Capacity
                    /\ t.pos = 0 /\ w = Capacity - p + static_size(t.cap)
    BY <1>7 DEF Split
  <2>2. /\ static_size(c.cap) \in Nat /\ static_size(c.cap) > HeaderSize
        /\ static_size(t.cap) \in Nat /\ static_size(t.cap) > HeaderSize
    BY <1>0, <2>1 DEF static_size
  <2>3. p >= tl /\ 0 < tl /\ static_size(t.cap) <= tl
    BY <1>0, <2>1, <2>2 DEF Dist
  <2>4. r1 = r0 /\ r2 = Region(0, tl)
    BY <1>0, <1>4, <2>1, <2>2, <2>3 DEF SkipSmall, Region
  <2>5. ChunksAt(mem, p) = {c} /\ ChunksAt(mem, 0) = {t}
    BY <2>1 DEF Holds, TwoChunks
  <2>6. /\ c1 = c /\ \E x \in ChunksAt(mem, r1.first) : x.head
        /\ c2 = t /\ \E x \in ChunksAt(mem, r2.first) : x.tail
        /\ r2.first = 0
    BY <1>3, <2>1, <2>4, <2>5 DEF Region
  <2>7. g = d /\ d.ok /\ d.next = 0 + static_size(t.cap)
    <3>1. /\ End(r2, c2) = 0 + static_size(t.cap)
          /\ d = [ok |-> TRUE, chunks |-> <<c, t>>, next |-> 0 + static_size(t.cap)]
      BY <2>1, <2>6 DEF TwoChunks
    <3> HIDE DEF r1, r2, c1, c2, End
    <3> QED BY <1>1, <1>3, <2>1, <2>6, <3>1
  <2>8. (0 + static_size(t.cap)) % Capacity = Byte(p, w)
    <3>1. static_size(t.cap) \in Positions /\ 0 + static_size(t.cap) = static_size(t.cap)
      BY <1>0, <2>2, <2>3 DEF Positions
    <3>2. Byte(p, w) = static_size(t.cap)
      BY <1>0, <2>1, <2>2 DEF Byte
    <3> QED BY <3>1, <3>2, ModCapacity
  <2>9. w > 0
    BY <1>0, <2>1, <2>2
  <2> QED BY <2>7, <2>8, <2>9
<1> QED BY <1>5, <1>6, <1>7 DEF Occupies

(* The bytes of a message among the used ones are in no free region.       *)
LEMMA ApartFromFree ==
    ASSUME NEW V, NEW s \in Queues(V), NEW o \in Nat, NEW w \in Nat, NEW d,
           o + w <= UsedBytes(s), Occupies(Byte(s.head, o), w, d),
           NEW r1, r1 = first_free_region(s),
           NEW r \in {r1, next_free_region(s, r1)},
           NEW first \in Int, NEW last \in Int,
           r.first <= first, first <= last, last < r.first + r.second,
           NEW i \in DOMAIN d.chunks
    PROVE  ~Touches(d.chunks[i], first, last)
<1> DEFINE p == Byte(s.head, o)
           x == d.chunks[i]
           used == UsedBytes(s)
<1>0. /\ Capacity \in Nat \ {0} /\ HeaderSize \in Nat \ {0}
      /\ s.head \in Nat /\ s.tail \in Nat /\ s.head < Capacity /\ s.tail < Capacity
      /\ s.count \in Nat
  BY RingAssumption DEF Queues, Positions
<1>1. /\ p = IF s.head + o < Capacity THEN s.head + o ELSE s.head + o - Capacity
      /\ used = IF s.count = 0 THEN 0
                ELSE IF s.head < s.tail THEN s.tail - s.head
                ELSE s.tail + Capacity - s.head
  BY DEF Byte, UsedBytes, Dist
<1>2. /\ x.pos \in Nat /\ static_size(x.cap) \in Nat /\ static_size(x.cap) > 0
      /\ w > 0
      /\ \/ x.pos = p /\ static_size(x.cap) <= w /\ p + static_size(x.cap) <= Capacity
         \/ x.pos = 0 /\ w = Capacity - p + static_size(x.cap)
  <2>1. p \in Nat /\ p < Capacity
    BY <1>0, <1>1
  <2> HIDE DEF p
  <2>2. CASE Whole(p, w, d)
    BY <1>0, <2>1, <2>2 DEF Whole, OneChunk, static_size
  <2>3. CASE Skipping(p, w, d)
    BY <1>0, <2>1, <2>3 DEF Skipping, OneChunk, static_size
  <2>4. CASE Split(p, w, d)
    BY <1>0, <2>1, <2>4 DEF Split, TwoChunks, static_size
  <2> QED BY <2>2, <2>3, <2>4 DEF Occupies, p
<1>3. \/ /\ s.count = 0 \/ s.head < s.tail
         /\ \/ r.first = s.tail /\ r.second = Capacity - s.tail
            \/ r.first = 0 /\ r.second = s.head
      \/ /\ s.count # 0 /\ s.head >= s.tail
         /\ \/ r.first = s.tail /\ r.second = s.head - s.tail
            \/ r.first = s.head /\ r.second = 0
  BY FreeRegions
<1> DEFINE n == static_size(x.cap)
           pos == x.pos
<1>4. pos + n <= first \/ last < pos
  <2>1. n \in Nat /\ n > 0 /\ pos \in Nat /\ w > 0 /\ o + w <= used
        /\ (\/ pos = p /\ n <= w /\ p + n <= Capacity
            \/ pos = 0 /\ w = Capacity - p + n)
    BY <1>2
  <2> HIDE DEF n, pos, p, used, x
  <2>2. CASE s.count = 0
    BY <1>0, <1>1, <2>1, <2>2
  <2>3. CASE s.count # 0 /\ s.head < s.tail
    BY <1>0, <1>1, <1>3, <2>1, <2>3
  <2>4. CASE s.count # 0 /\ s.head >= s.tail
    BY <1>0, <1>1, <1>3, <2>1, <2>4
  <2> QED BY <1>0, <2>2, <2>3, <2>4
<1>5. n \in Nat /\ pos \in Nat
  BY <1>2
<1> HIDE DEF n, pos
<1>6. ~(pos <= last /\ first < pos + n)
  BY <1>4, <1>5
<1> QED BY <1>6 DEF Touches, n, pos

(* What is not touched stays.                                              *)
LEMMA WriteKeeps ==
    ASSUME NEW mem, NEW d, Holds(mem, d), NEW c,
           c.pos \in Int, static_size(c.cap) \in Nat \ {0},
           \A i \in DOMAIN d.chunks :
              /\ ~Touches(d.chunks[i], c.pos, c.pos + static_size(c.cap) - 1)
              /\ d.chunks[i].pos \in Int /\ static_size(d.chunks[i].cap) \in Nat \ {0}
    PROVE  Holds(WriteChunk(mem, c), d)
<1> SUFFICES ASSUME NEW i \in DOMAIN d.chunks
             PROVE  ChunksAt(WriteChunk(mem, c), d.chunks[i].pos) = {d.chunks[i]}
  BY DEF Holds
<1> DEFINE x == d.chunks[i]
<1>1. ChunksAt(mem, x.pos) = {x}
  BY DEF Holds
<1>2. /\ ~Touches(x, c.pos, c.pos + static_size(c.cap) - 1)
      /\ x.pos \in Int /\ static_size(x.cap) \in Nat \ {0}
  OBVIOUS
<1> HIDE DEF x
<1>3. c.pos # x.pos
  BY <1>2 DEF Touches
<1> QED BY <1>1, <1>2, <1>3 DEF ChunksAt, WriteChunk, Erase, x

(* A message stays where its headers are not erased.                       *)
LEMMA EraseKeeps ==
    ASSUME NEW mem, NEW d, Holds(mem, d), NEW firsts,
           \A i \in DOMAIN d.chunks : \A f \in firsts :
              ~Touches(d.chunks[i], f, f + HeaderSize - 1)
    PROVE  Holds(EraseHeaders(mem, firsts), d)
BY DEF Holds, ChunksAt, EraseHeaders

(* The three ways in which a message is divided.                           *)
LEMMA PartsShape ==
    ASSUME NEW V, NEW s \in Queues(V), NEW size \in Nat \ {0},
           NEW parts, parts = MessageParts(s, size), parts # <<>>
    PROVE  \/ /\ parts = <<[pos |-> s.tail, cap |-> size]>>
              /\ static_size(size) <= first_free_region(s).second
           \/ /\ parts = <<[pos |-> 0, cap |-> size]>>
              /\ s.count = 0 \/ s.head < s.tail
              /\ Capacity - s.tail <= HeaderSize /\ static_size(size) <= s.head
           \/ /\ s.count = 0 \/ s.head < s.tail
              /\ \E n \in 1 .. size - 1 :
                   /\ parts = <<[pos |-> s.tail, cap |-> n],
                                [pos |-> 0, cap |-> size - n]>>
                   /\ s.tail + static_size(n) = Capacity
                   /\ static_size(size - n) <= s.head
<1> DEFINE r1 == first_free_region(s)
           r2 == next_free_region(s, r1)
           c1 == static_capacity(r1.second)
           c2 == static_capacity(r2.second)
           Part(r, n) == [pos |-> r.first, cap |-> n]
<1>1. /\ s.head \in Nat /\ s.tail \in Nat /\ s.head < Capacity /\ s.tail < Capacity
      /\ Capacity \in Nat \ {0} /\ HeaderSize \in Nat \ {0}
  BY RingAssumption DEF Queues, Positions
<1>2. /\ r1.first = s.tail
      /\ \/ /\ s.count = 0 \/ s.head < s.tail
            /\ r1.second = Capacity - s.tail
            /\ r2.first = 0 /\ r2.second = s.head
         \/ /\ r1.second = s.head - s.tail /\ s.head >= s.tail
            /\ r2.first = s.head /\ r2.second = 0
  BY FreeRegions
<1>3. parts = IF size <= c1 THEN <<Part(r1, size)>>
              ELSE IF size > c1 + c2 THEN <<>>
              ELSE IF c1 = 0 THEN <<Part(r2, size)>>
              ELSE <<Part(r1, c1), Part(r2, size - c1)>>
  BY DEF MessageParts
<1> HIDE DEF r1, r2
<1>4. r1.second \in Nat /\ r2.second \in Nat
  BY <1>1, <1>2
<1>5. /\ c1 \in Nat /\ c2 \in Nat
      /\ c1 = 0 => r1.second <= HeaderSize
      /\ c1 > 0 => r1.second = HeaderSize + c1
      /\ c2 > 0 => r2.second = HeaderSize + c2
  BY <1>1, <1>4 DEF static_capacity
<1> HIDE DEF c1, c2
<1>6. CASE size <= c1
  <2>1. static_size(size) <= r1.second
    BY <1>1, <1>5, <1>6 DEF static_size
  <2> QED BY <1>2, <1>3, <1>6, <2>1 DEF r1
<1>7. CASE size > c1 /\ c1 = 0
  <2>1. parts = <<Part(r2, size)>> /\ size <= c2
    BY <1>3, <1>5, <1>7
  <2>2. r2.second > 0 /\ static_size(size) <= r2.second
    BY <1>1, <1>5, <1>7, <2>1 DEF static_size
  <2> QED BY <1>1, <1>2, <1>5, <1>7, <2>1, <2>2
<1>8. CASE size > c1 /\ c1 # 0
  <2>1. parts = <<Part(r1, c1), Part(r2, size - c1)>> /\ size - c1 <= c2
    BY <1>3, <1>5, <1>8
  <2>2. c1 \in 1 .. size - 1 /\ c2 > 0
    BY <1>5, <1>8, <2>1
  <2>3. r2.second > 0 /\ static_size(size - c1) <= r2.second
    BY <1>1, <1>5, <2>1, <2>2 DEF static_size
  <2>4. s.count = 0 \/ s.head < s.tail
    BY <1>2, <2>3
  <2>5. r1.second = Capacity - s.tail /\ r2.first = 0 /\ r2.second = s.head
    BY <1>1, <1>2, <2>3
  <2>6. s.tail + static_size(c1) = Capacity
    BY <1>1, <1>5, <2>2, <2>5 DEF static_size
  <2>7. parts = <<[pos |-> s.tail, cap |-> c1], [pos |-> 0, cap |-> size - c1]>>
    BY <1>2, <2>1, <2>5
  <2>8. static_size(size - c1) <= s.head
    BY <2>3, <2>5
  <2> QED BY <2>2, <2>4, <2>6, <2>7, <2>8
<1> QED BY <1>5, <1>6, <1>7, <1>8

(* A chunk that has been written is there, and it alone.                   *)
LEMMA WriteStores ==
    ASSUME NEW V, NEW mem \in SUBSET Chunks(V), NEW c,
           c.pos \in Int, static_size(c.cap) \in Nat \ {0}
    PROVE  ChunksAt(WriteChunk(mem, c), c.pos) = {c}
<1>1. ASSUME NEW x \in mem, x.pos = c.pos
      PROVE  Touches(x, c.pos, c.pos + static_size(c.cap) - 1)
  <2>1. static_size(x.cap) \in Nat \ {0}
    BY RingAssumption DEF Chunks, static_size
  <2> QED BY <1>1, <2>1 DEF Touches
<1> QED BY <1>1 DEF ChunksAt, WriteChunk, Erase

(* make_message stores the message d, as it was pushed, in the w free bytes *)
(* at the tail.                                                            *)
Stores(s, size, val, ts, counter, d, w) ==
    LET made == make_message(s, size, val, ts, counter)
    IN  /\ made.ok /\ d.next = made.next
        /\ w > 0 /\ UsedBytes(s) + w <= Capacity
        /\ Occupies(s.tail, w, d) /\ Holds(made.mem, d)
        /\ Unpack(d.chunks) = [val |-> val, size |-> size, ts |-> ts]
        /\ d.chunks[1].counter = counter
        /\ d.chunks = MessageChunks(MessageParts(s, size), val, ts, counter)

(* The messages among the used bytes of s are in mem as well.              *)
Keeps(s, mem) ==
    \A o, w \in Nat : \A d :
        (/\ o + w <= UsedBytes(s) /\ Occupies(Byte(s.head, o), w, d)
         /\ Holds(s.mem, d)) => Holds(mem, d)

(* The chunks of a message have a size.                                    *)
LEMMA ChunkSizes ==
    ASSUME NEW p \in Positions, NEW w, NEW d, Occupies(p, w, d),
           NEW i \in DOMAIN d.chunks
    PROVE  d.chunks[i].pos \in Int /\ static_size(d.chunks[i].cap) \in Nat \ {0}
<1>1. HeaderSize \in Nat \ {0} /\ p \in Int
  BY RingAssumption DEF Positions
<1> QED BY <1>1 DEF Occupies, Whole, Skipping, Split, OneChunk, TwoChunks, static_size

(* A byte counted from a position is a position.                           *)
LEMMA ByteInRing ==
    ASSUME NEW hd \in Positions, NEW o \in 0 .. Capacity
    PROVE  Byte(hd, o) \in Positions
BY RingAssumption DEF Byte, Positions

(* A chunk written into a free region leaves the messages alone.           *)
LEMMA WriteInFreeKeeps ==
    ASSUME NEW V, NEW s \in Queues(V), NEW mem, Keeps(s, mem),
           NEW r1, r1 = first_free_region(s),
           NEW r \in {r1, next_free_region(s, r1)},
           NEW c, c.pos \in Int, static_size(c.cap) \in Nat \ {0},
           c.pos = r.first, static_size(c.cap) <= r.second, r.second \in Nat
    PROVE  Keeps(s, WriteChunk(mem, c))
<1> SUFFICES ASSUME NEW o \in Nat, NEW w \in Nat, NEW d,
                    o + w <= UsedBytes(s), Occupies(Byte(s.head, o), w, d),
                    Holds(s.mem, d)
             PROVE  Holds(WriteChunk(mem, c), d)
  BY DEF Keeps
<1>1. Holds(mem, d)
  BY DEF Keeps
<1> DEFINE last == c.pos + static_size(c.cap) - 1
<1>2. /\ c.pos \in Int /\ last \in Int /\ r.first <= c.pos /\ c.pos <= last
      /\ last < r.first + r.second
  OBVIOUS
<1>3. \A i \in DOMAIN d.chunks : ~Touches(d.chunks[i], c.pos, last)
  <2> HIDE DEF last
  <2> QED BY <1>2, ApartFromFree
<1>4. Byte(s.head, o) \in Positions
  <2>1. /\ s.head \in Positions /\ s.tail \in Positions /\ s.count \in Nat
        /\ Capacity \in Nat \ {0}
    BY RingAssumption DEF Queues
  <2>2. UsedBytes(s) \in 0 .. Capacity
    BY <2>1 DEF UsedBytes, Dist, Positions
  <2>3. o \in 0 .. Capacity
    BY <2>1, <2>2
  <2> QED BY <2>1, <2>3, ByteInRing
<1>5. \A i \in DOMAIN d.chunks :
         d.chunks[i].pos \in Int /\ static_size(d.chunks[i].cap) \in Nat \ {0}
  BY <1>4, ChunkSizes
<1> QED BY <1>1, <1>3, <1>5, WriteKeeps

(* A refused push leaves the messages alone.                               *)
LEMMA RefusedKeeps ==
    ASSUME NEW V, NEW s \in Queues(V)
    PROVE  Keeps(s, EraseHeaders(s.mem, WastedHeaders(s)))
<1> SUFFICES ASSUME NEW o \in Nat, NEW w \in Nat, NEW d,
                    o + w <= UsedBytes(s), Occupies(Byte(s.head, o), w, d),
                    Holds(s.mem, d)
             PROVE  Holds(EraseHeaders(s.mem, WastedHeaders(s)), d)
  BY DEF Keeps
<1> DEFINE r1 == first_free_region(s)
           r2 == next_free_region(s, r1)
<1>0. HeaderSize \in Nat \ {0} /\ s.tail \in Nat /\ s.head \in Nat /\ Capacity \in Nat
  BY RingAssumption DEF Queues, Positions
<1>1. ASSUME NEW i \in DOMAIN d.chunks, NEW f \in WastedHeaders(s)
      PROVE  ~Touches(d.chunks[i], f, f + HeaderSize - 1)
  <2>1. PICK r \in {r1, r2} : f = r.first /\ r.second > HeaderSize
    BY <1>1 DEF WastedHeaders
  <2>2. r.first \in Int /\ r.second \in Int
    BY <1>0, <2>1, FreeRegions
  <2> DEFINE last == f + HeaderSize - 1
  <2>3. /\ f \in Int /\ last \in Int /\ r.first <= f /\ f <= last
        /\ last < r.first + r.second
    BY <1>0, <2>1, <2>2
  <2> HIDE DEF last, r1, r2
  <2>4. r1 = first_free_region(s) /\ r \in {r1, next_free_region(s, r1)}
    BY <2>1 DEF r1, r2
  <2>5. ~Touches(d.chunks[i], f, last)
    BY <1>1, <2>3, <2>4, ApartFromFree
  <2> QED BY <2>5 DEF last
<1> QED BY <1>1, EraseKeeps

(* static_make_message (message.h:133-171): what it stores lies at the     *)
(* tail, within the free bytes, and is as it was pushed; and whether it    *)
(* stores the message or refuses it, the messages in the ring stay.        *)
THEOREM PushStores ==
    ASSUME NEW V, NEW s \in Queues(V), s.count = 0 => s.head = s.tail,
           NEW size \in Nat \ {0}, NEW val, NEW ts, NEW counter
    PROVE  LET made == make_message(s, size, val, ts, counter)
           IN  /\ Keeps(s, made.mem)
               /\ made.ok => \E d, w : w \in Nat /\ Stores(s, size, val, ts, counter, d, w)
<1> DEFINE made   == make_message(s, size, val, ts, counter)
           parts  == MessageParts(s, size)
           chunks == MessageChunks(parts, val, ts, counter)
           last   == chunks[Len(chunks)]
           r1     == first_free_region(s)
           r2     == next_free_region(s, r1)
           Msg == [val |-> val, size |-> size, ts |-> ts]
<1>0. /\ s.head \in Nat /\ s.tail \in Nat /\ s.head < Capacity /\ s.tail < Capacity
      /\ Capacity \in Nat \ {0} /\ HeaderSize \in Nat \ {0} /\ s.count \in Nat
      /\ s.mem \in SUBSET Chunks(V)
  BY RingAssumption DEF Queues, Positions
<1>1. Keeps(s, s.mem)
  BY DEF Keeps
<1>2. CASE parts = <<>>
  <2>1. made = [ok |-> FALSE, mem |-> EraseHeaders(s.mem, WastedHeaders(s)),
                next |-> 0]
    BY <1>2 DEF make_message
  <2> QED BY <2>1, RefusedKeeps
<1>3. CASE parts # <<>>
  <2>1. made = [ok |-> TRUE, mem |-> WriteMessage(s.mem, chunks),
                next |-> last.pos + static_size(last.cap)]
    BY <1>3 DEF make_message
  <2>2. /\ r1.first = s.tail /\ r1.second \in Nat /\ r2.second \in Nat
        /\ \/ /\ s.count = 0 \/ s.head < s.tail
              /\ r1.second = Capacity - s.tail
              /\ r2.first = 0 /\ r2.second = s.head
           \/ s.count # 0 /\ r1.second = s.head - s.tail /\ s.head >= s.tail
    BY <1>0, FreeRegions
  <2>3. \A n \in Nat \ {0} : static_size(n) \in Nat \ {0} /\ static_size(n) = HeaderSize + n
    BY <1>0 DEF static_size
  <2>4. UsedBytes(s) = IF s.count = 0 THEN 0
                       ELSE IF s.head < s.tail THEN s.tail - s.head
                       ELSE s.tail + Capacity - s.head
    BY DEF UsedBytes, Dist
  <2> HIDE DEF parts, made, r1, r2
  <2> DEFINE c == chunks[1]
             t == chunks[2]
  <2>5. ASSUME NEW p, parts = <<[pos |-> p, cap |-> size]>>, p \in Nat
        PROVE  /\ c.pos = p /\ c.cap = size /\ c.head /\ c.tail /\ c.counter = counter
               /\ chunks = <<c>> /\ made.ok /\ made.next = OneChunk(c).next
               /\ made.mem = WriteChunk(s.mem, c)
               /\ Holds(made.mem, OneChunk(c))
               /\ Unpack(OneChunk(c).chunks) = Msg
               /\ OneChunk(c).chunks = MessageChunks(parts, val, ts, counter)
    <3>1. DOMAIN parts = {1} /\ Len(parts) = 1 /\ parts[1] = [pos |-> p, cap |-> size]
      BY <2>5
    <3>2. /\ c.pos = p /\ c.cap = size /\ c.head /\ c.tail /\ c.counter = counter
          /\ c.val = val /\ c.off = 0 /\ c.ts = ts
      <4>1. c = [pos |-> parts[1].pos, cap |-> parts[1].cap,
                 head |-> 1 = 1, tail |-> 1 = Len(parts),
                 val |-> val, off |-> IF 1 = 1 THEN 0 ELSE parts[1].cap,
                 ts |-> ts, counter |-> IF 1 = 1 THEN counter ELSE 0]
        BY <3>1, Zenon DEF MessageChunks
      <4> HIDE DEF c
      <4>2. c.head /\ c.tail
        BY <3>1, <4>1, Zenon
      <4>3. /\ c.pos = p /\ c.cap = size /\ c.counter = counter
            /\ c.val = val /\ c.off = 0 /\ c.ts = ts
        BY <3>1, <4>1
      <4> QED BY <4>2, <4>3
    <3>3. chunks = <<c>>
      <4>1. DOMAIN chunks = {1} /\ chunks = [i \in {1} |-> chunks[i]]
        BY <3>1 DEF MessageChunks
      <4> HIDE DEF chunks
      <4> QED BY <4>1
    <3> HIDE DEF chunks, c
    <3>4. Len(chunks) = 1 /\ last = c /\ chunks[1] = c
      BY <3>3
    <3>5. WriteMessage(s.mem, chunks) = WriteChunk(s.mem, c)
      BY <3>4 DEF WriteMessage
    <3>6. ChunksAt(WriteChunk(s.mem, c), c.pos) = {c}
      <4>1. c.pos \in Int /\ static_size(c.cap) \in Nat \ {0}
        BY <2>3, <2>5, <3>2
      <4> QED BY <1>0, <4>1, WriteStores
    <3>7. Unpack(<<c>>) = Msg
      BY <3>2 DEF Unpack
    <3> HIDE DEF last
    <3>8. made.ok /\ made.mem = WriteChunk(s.mem, c) /\ made.next = c.pos + static_size(c.cap)
      BY <2>1, <3>4, <3>5
    <3>9. OneChunk(c).chunks = <<c>> /\ OneChunk(c).next = c.pos + static_size(c.cap)
      BY DEF OneChunk
    <3>10. Holds(made.mem, OneChunk(c))
      BY <3>6, <3>8, <3>9 DEF Holds
    <3>11. OneChunk(c).chunks = MessageChunks(parts, val, ts, counter)
      BY <3>3, <3>9 DEF chunks
    <3> QED BY <3>2, <3>3, <3>7, <3>8, <3>9, <3>10, <3>11
  <2>6. CASE /\ parts = <<[pos |-> s.tail, cap |-> size]>>
             /\ static_size(size) <= r1.second
    <3> DEFINE w == static_size(size)
    <3>1. /\ c.pos = s.tail /\ c.cap = size /\ c.head /\ c.tail /\ c.counter = counter
          /\ made.ok /\ made.next = OneChunk(c).next
          /\ made.mem = WriteChunk(s.mem, c)
          /\ Holds(made.mem, OneChunk(c))
          /\ Unpack(OneChunk(c).chunks) = Msg
          /\ OneChunk(c).chunks = MessageChunks(parts, val, ts, counter)
      BY <1>0, <2>5, <2>6
    <3> HIDE DEF c, chunks
    <3>2. w \in Nat /\ w > 0 /\ UsedBytes(s) + w <= Capacity /\ s.tail + w <= Capacity
      BY <1>0, <2>2, <2>3, <2>4, <2>6
    <3>3. Occupies(s.tail, w, OneChunk(c))
      BY <3>1, <3>2 DEF Occupies, Whole
    <3>4. OneChunk(c).chunks[1] = c
      BY DEF OneChunk
    <3>5. Stores(s, size, val, ts, counter, OneChunk(c), w)
      BY <3>1, <3>2, <3>3, <3>4 DEF Stores, made, parts
    <3>6. Keeps(s, WriteChunk(s.mem, c))
      <4>1. c.pos \in Int /\ static_size(c.cap) \in Nat \ {0}
        BY <1>0, <2>3, <3>1
      <4> QED BY <1>1, <2>2, <2>6, <3>1, <4>1, WriteInFreeKeeps DEF r1
    <3> QED BY <3>1, <3>2, <3>5, <3>6 DEF made
  <2>7. CASE /\ parts = <<[pos |-> 0, cap |-> size]>>
             /\ s.count = 0 \/ s.head < s.tail
             /\ Capacity - s.tail <= HeaderSize /\ static_size(size) <= s.head
    <3> DEFINE w == Capacity - s.tail + static_size(size)
    <3>1. /\ c.pos = 0 /\ c.cap = size /\ c.head /\ c.tail /\ c.counter = counter
          /\ made.ok /\ made.next = OneChunk(c).next
          /\ made.mem = WriteChunk(s.mem, c)
          /\ Holds(made.mem, OneChunk(c))
          /\ Unpack(OneChunk(c).chunks) = Msg
          /\ OneChunk(c).chunks = MessageChunks(parts, val, ts, counter)
      BY <2>5, <2>7
    <3> HIDE DEF c, chunks
    <3>2. w \in Nat /\ w > 0 /\ UsedBytes(s) + w <= Capacity
      BY <1>0, <2>3, <2>4, <2>7
    <3>3. Occupies(s.tail, w, OneChunk(c))
      BY <2>7, <3>1, <3>2 DEF Occupies, Skipping
    <3>4. OneChunk(c).chunks[1] = c
      BY DEF OneChunk
    <3>5. Stores(s, size, val, ts, counter, OneChunk(c), w)
      BY <3>1, <3>2, <3>3, <3>4 DEF Stores, made, parts
    <3>6. Keeps(s, WriteChunk(s.mem, c))
      <4>1. c.pos \in Int /\ static_size(c.cap) \in Nat \ {0}
        BY <1>0, <2>3, <3>1
      <4>2. r2.first = 0 /\ r2.second = s.head
        BY <1>0, <2>2, <2>7
      <4>3. r1 = first_free_region(s) /\ r2 \in {r1, next_free_region(s, r1)}
        BY DEF r1, r2
      <4> QED BY <1>0, <1>1, <2>7, <3>1, <4>1, <4>2, <4>3, WriteInFreeKeeps
    <3> QED BY <3>1, <3>2, <3>5, <3>6 DEF made
  <2>8. ASSUME s.count = 0 \/ s.head < s.tail,
               NEW n \in 1 .. size - 1,
               parts = <<[pos |-> s.tail, cap |-> n], [pos |-> 0, cap |-> size - n]>>,
               s.tail + static_size(n) = Capacity, static_size(size - n) <= s.head
        PROVE  Keeps(s, made.mem) /\ \E d, w : w \in Nat /\ Stores(s, size, val, ts, counter, d, w)
    <3> DEFINE w == Capacity - s.tail + static_size(size - n)
               d == TwoChunks(c, t)
    <3>1. /\ DOMAIN parts = {1, 2} /\ Len(parts) = 2
          /\ parts[1] = [pos |-> s.tail, cap |-> n]
          /\ parts[2] = [pos |-> 0, cap |-> size - n]
      BY <2>8
    <3>2. /\ c.pos = s.tail /\ c.cap = n /\ c.head /\ ~c.tail /\ c.counter = counter
          /\ c.val = val /\ c.off = 0 /\ c.ts = ts
      <4>1. c = [pos |-> parts[1].pos, cap |-> parts[1].cap,
                 head |-> 1 = 1, tail |-> 1 = Len(parts),
                 val |-> val, off |-> IF 1 = 1 THEN 0 ELSE parts[1].cap,
                 ts |-> ts, counter |-> IF 1 = 1 THEN counter ELSE 0]
        BY <3>1, Zenon DEF MessageChunks
      <4>2. 1 # Len(parts)
        BY <3>1
      <4> HIDE DEF c
      <4>3. c.head /\ ~c.tail
        BY <4>1, <4>2, Zenon
      <4>4. /\ c.pos = s.tail /\ c.cap = n /\ c.counter = counter
            /\ c.val = val /\ c.off = 0 /\ c.ts = ts
        BY <3>1, <4>1
      <4> QED BY <4>3, <4>4
    <3>3. /\ t.pos = 0 /\ t.cap = size - n /\ ~t.head /\ t.tail
          /\ t.val = val /\ t.off = n
      <4>1. t = [pos |-> parts[2].pos, cap |-> parts[2].cap,
                 head |-> 2 = 1, tail |-> 2 = Len(parts),
                 val |-> val, off |-> IF 2 = 1 THEN 0 ELSE parts[1].cap,
                 ts |-> ts, counter |-> IF 2 = 1 THEN counter ELSE 0]
        BY <3>1, Zenon DEF MessageChunks
      <4>2. 2 = Len(parts) /\ 2 # 1
        BY <3>1
      <4> HIDE DEF t
      <4>3. ~t.head /\ t.tail
        BY <4>1, <4>2, Zenon
      <4>4. t.pos = 0 /\ t.cap = size - n /\ t.val = val /\ t.off = n
        BY <3>1, <4>1
      <4> QED BY <4>3, <4>4
    <3>4. chunks = <<c, t>>
      <4>1. DOMAIN chunks = {1, 2} /\ chunks = [i \in {1, 2} |-> chunks[i]]
        BY <3>1 DEF MessageChunks
      <4> HIDE DEF chunks
      <4> QED BY <4>1
    <3> HIDE DEF chunks, c, t
    <3>5. Len(chunks) = 2 /\ last = t /\ chunks[1] = c /\ chunks[2] = t
      BY <3>4
    <3>6. WriteMessage(s.mem, chunks) = WriteChunk(WriteChunk(s.mem, c), t)
      BY <3>5 DEF WriteMessage
    <3> HIDE DEF last
    <3>7. /\ made.ok /\ made.mem = WriteChunk(WriteChunk(s.mem, c), t)
          /\ made.next = t.pos + static_size(t.cap)
      BY <2>1, <3>5, <3>6
    <3>8. d.chunks = <<c, t>> /\ d.next = t.pos + static_size(t.cap)
      BY DEF TwoChunks
    <3>9. /\ n \in Nat \ {0} /\ size - n \in Nat \ {0}
          /\ c.pos \in Int /\ static_size(c.cap) \in Nat \ {0}
          /\ t.pos \in Int /\ static_size(t.cap) \in Nat \ {0}
      BY <1>0, <2>3, <3>2, <3>3
    <3>10. w \in Nat /\ w > 0 /\ UsedBytes(s) + w <= Capacity
      BY <1>0, <2>3, <2>4, <2>8, <3>9
    <3>11. Occupies(s.tail, w, d)
      BY <2>8, <3>2, <3>3, <3>9 DEF Occupies, Split
    <3>12. Unpack(<<c, t>>) = Msg
      <4>1. <<c, t>>[1] = c /\ <<c, t>>[2] = t /\ Len(<<c, t>>) = 2
            /\ {<<c, t>>[i] : i \in DOMAIN <<c, t>>} = {c, t}
        OBVIOUS
      <4>2. n + (size - n) = size
        BY <3>9
      <4>3. \A x \in {c, t} : x.val = c.val /\ x.off = IF x.head THEN 0 ELSE c.cap
        BY <3>2, <3>3
      <4> QED BY <3>2, <3>3, <4>1, <4>2, <4>3 DEF Unpack
    <3>13. Keeps(s, WriteChunk(s.mem, c))
      <4>1. r1 = first_free_region(s) /\ r1 \in {r1, next_free_region(s, r1)}
        BY DEF r1
      <4>2. r1.first = s.tail /\ static_size(n) <= r1.second
        BY <1>0, <2>2, <2>3, <2>8, <3>9
      <4> QED BY <1>1, <2>2, <3>2, <3>9, <4>1, <4>2, WriteInFreeKeeps
    <3>14. Keeps(s, WriteChunk(WriteChunk(s.mem, c), t))
      <4>1. r1 = first_free_region(s) /\ r2 \in {r1, next_free_region(s, r1)}
        BY DEF r1, r2
      <4>2. r2.first = 0 /\ static_size(size - n) <= r2.second /\ r2.second \in Nat
        BY <1>0, <2>2, <2>8
      <4> QED BY <3>3, <3>9, <3>13, <4>1, <4>2, WriteInFreeKeeps
    <3>15. Holds(made.mem, d)
      <4>1. ChunksAt(WriteChunk(s.mem, c), c.pos) = {c}
        BY <1>0, <3>9, WriteStores
      <4> DEFINE e == OneChunk(c)
      <4>3. e.chunks = <<c>> /\ Holds(WriteChunk(s.mem, c), e)
        BY <4>1 DEF Holds, OneChunk
      <4>4. ~Touches(c, t.pos, t.pos + static_size(t.cap) - 1)
        BY <1>0, <2>3, <2>8, <3>2, <3>3, <3>9 DEF Touches
      <4>5. Holds(made.mem, e)
        <5> HIDE DEF e
        <5>1. \A i \in DOMAIN e.chunks : e.chunks[i] = c
          BY <4>3
        <5> QED BY <3>7, <3>9, <4>3, <4>4, <5>1, WriteKeeps
      <4>6. ChunksAt(made.mem, c.pos) = {c}
        BY <4>3, <4>5 DEF Holds
      <4>7. ChunksAt(made.mem, t.pos) = {t}
        <5>1. ASSUME NEW x \in WriteChunk(s.mem, c), x.pos = t.pos, x # c
              PROVE  Touches(x, t.pos, t.pos + static_size(t.cap) - 1)
          <6>1. x \in Chunks(V)
            BY <1>0, <5>1 DEF WriteChunk, Erase
          <6>2. static_size(x.cap) \in Nat \ {0}
            BY <1>0, <6>1 DEF Chunks, static_size
          <6> QED BY <3>9, <5>1, <6>2 DEF Touches
        <5>2. c.pos # t.pos
          BY <1>0, <2>3, <2>8, <3>2, <3>3, <3>9
        <5> QED BY <3>7, <5>1, <5>2 DEF ChunksAt, WriteChunk, Erase
      <4> QED BY <3>8, <4>6, <4>7 DEF Holds
    <3>16. d.chunks[1].counter = counter /\ d.next = made.next
      BY <3>2, <3>7, <3>8
    <3>17. d.chunks = MessageChunks(parts, val, ts, counter)
      BY <3>4, <3>8 DEF chunks
    <3> HIDE DEF d, w
    <3>18. Stores(s, size, val, ts, counter, d, w)
      BY <3>7, <3>8, <3>10, <3>11, <3>12, <3>15, <3>16, <3>17 DEF Stores, made, parts
    <3> QED BY <3>7, <3>10, <3>14, <3>18
  <2> QED
    <3>1. \/ /\ parts = <<[pos |-> s.tail, cap |-> size]>>
             /\ static_size(size) <= r1.second
          \/ /\ parts = <<[pos |-> 0, cap |-> size]>>
             /\ s.count = 0 \/ s.head < s.tail
             /\ Capacity - s.tail <= HeaderSize /\ static_size(size) <= s.head
          \/ /\ s.count = 0 \/ s.head < s.tail
             /\ \E n \in 1 .. size - 1 :
                  /\ parts = <<[pos |-> s.tail, cap |-> n],
                               [pos |-> 0, cap |-> size - n]>>
                  /\ s.tail + static_size(n) = Capacity
                  /\ static_size(size - n) <= s.head
      BY <1>3, PartsShape DEF parts, r1
    <3> QED BY <2>6, <2>7, <2>8, <3>1 DEF made
<1> QED BY <1>2, <1>3
-----------------------------------------------------------------------------
(* Counting bytes round the ring.                                          *)
LEMMA BytesAdd ==
    ASSUME NEW hd \in Positions, NEW o \in Nat, NEW w \in Nat, o + w <= Capacity
    PROVE  Byte(Byte(hd, o), w) = Byte(hd, o + w)
BY RingAssumption DEF Byte, Positions

(* Dist counts the bytes from head to tail, and is the only count that     *)
(* does.                                                                   *)
LEMMA BytesDist ==
    ASSUME NEW hd \in Positions, NEW tl \in Positions
    PROVE  /\ Dist(hd, tl) \in 1 .. Capacity
           /\ Byte(hd, Dist(hd, tl)) = tl
           /\ \A u \in 1 .. Capacity : Byte(hd, u) = tl => Dist(hd, tl) = u
BY RingAssumption DEF Byte, Dist, Positions

(* The position behind a message.                                          *)
After(d) == d.next % Capacity

(* A message that occupies w bytes ends w bytes after its start.           *)
LEMMA OccupiesBytes ==
    ASSUME NEW p \in Positions, NEW w \in Nat, NEW d, Occupies(p, w, d), w <= Capacity
    PROVE  w > 0 /\ d.ok /\ After(d) = Byte(p, w)
<1> DEFINE mem == {d.chunks[i] : i \in DOMAIN d.chunks}
<1>1. Holds(mem, d)
  <2>0. p \in Nat /\ Capacity \in Nat /\ HeaderSize \in Nat \ {0}
    BY RingAssumption DEF Positions
  <2>1. CASE Whole(p, w, d) \/ Skipping(p, w, d)
    <3>1. PICK c : d = OneChunk(c)
      BY <2>1 DEF Whole, Skipping
    <3>2. d.chunks = <<c>>
      BY <3>1 DEF OneChunk
    <3> QED BY <3>2 DEF Holds, ChunksAt
  <2>2. CASE Split(p, w, d)
    <3>1. PICK c, t : d = TwoChunks(c, t) /\ c.pos = p /\ t.pos = 0 /\ t.cap \in Nat \ {0}
                      /\ w = Capacity - p + static_size(t.cap)
      BY <2>2 DEF Split
    <3>2. c.pos # t.pos
      BY <2>0, <3>1 DEF static_size
    <3>3. d.chunks = <<c, t>>
      BY <3>1 DEF TwoChunks
    <3> QED BY <3>2, <3>3 DEF Holds, ChunksAt
  <2> QED BY <2>1, <2>2 DEF Occupies
<1>2. w <= Dist(p, p)
  BY RingAssumption DEF Dist, Positions
<1> HIDE DEF mem
<1>3. d.ok /\ d.next % Capacity = Byte(p, w) /\ w > 0
  BY <1>1, <1>2, ReadsStored
<1> QED BY <1>3 DEF After

(* The messages in the ring: descs are their descriptors and off the bytes *)
(* from the head on at which each of them ends and the next one begins.    *)
Layout(s, descs, off) ==
    /\ descs = [k \in 1 .. s.count |-> descs[k]]
    /\ off \in [0 .. s.count -> 0 .. Capacity]
    /\ off[0] = 0 /\ off[s.count] = UsedBytes(s)
    /\ \A j, k \in 0 .. s.count : j <= k => off[j] <= off[k]
    /\ s.count = 0 => s.head = s.tail
    /\ \A k \in 1 .. s.count :
          /\ Occupies(Byte(s.head, off[k - 1]), off[k] - off[k - 1], descs[k])
          /\ Holds(s.mem, descs[k])

(* The bytes in use end at the tail, and none are in use only when the     *)
(* ring holds no message.                                                  *)
LEMMA LayoutTail ==
    ASSUME NEW V, NEW s \in Queues(V), NEW descs, NEW off, Layout(s, descs, off)
    PROVE  /\ UsedBytes(s) \in 0 .. Capacity /\ Byte(s.head, UsedBytes(s)) = s.tail
           /\ UsedBytes(s) = 0 => s.count = 0
<1>1. s.head \in Positions /\ s.tail \in Positions /\ Capacity \in Nat \ {0}
  BY RingAssumption DEF Queues
<1>2. CASE s.count = 0
  BY <1>1, <1>2 DEF Layout, UsedBytes, Byte, Positions
<1>3. CASE s.count # 0
  <2>1. Dist(s.head, s.tail) \in 1 .. Capacity
    BY <1>1, BytesDist
  <2> QED BY <1>1, <1>3, <2>1, BytesDist DEF UsedBytes
<1> QED BY <1>2, <1>3

(* Each of them is what static_get_message finds where the one before it   *)
(* ends.                                                                   *)
LEMMA LayoutReads ==
    ASSUME NEW V, NEW s \in Queues(V), NEW descs, NEW off, Layout(s, descs, off),
           NEW k \in 1 .. s.count
    PROVE  /\ Byte(s.head, off[k - 1]) \in Positions
           /\ get_message(s.mem, Byte(s.head, off[k - 1]), s.tail, FALSE) = descs[k]
           /\ descs[k].ok
           /\ After(descs[k]) = Byte(s.head, off[k])
           /\ off[k - 1] < off[k] /\ off[k] <= UsedBytes(s)
           /\ off[k - 1] \in 0 .. Capacity /\ off[k] \in 0 .. Capacity
<1> DEFINE o == off[k - 1]
           w == off[k] - o
           p == Byte(s.head, o)
           u == UsedBytes(s)
<1>1. /\ s.head \in Positions /\ s.tail \in Positions /\ Capacity \in Nat \ {0}
      /\ s.count \in Nat /\ s.count # 0
  BY RingAssumption DEF Queues
<1>2. /\ k \in Nat /\ k - 1 \in 0 .. s.count /\ k \in 0 .. s.count
      /\ s.count \in 0 .. s.count
  BY <1>1
<1>3. /\ o \in 0 .. Capacity /\ off[k] \in 0 .. Capacity /\ o <= off[k] /\ off[k] <= u
      /\ u \in 1 .. Capacity /\ Byte(s.head, u) = s.tail
      /\ Occupies(p, w, descs[k]) /\ Holds(s.mem, descs[k])
  <2>1. off[k - 1] <= off[k] /\ off[k] <= off[s.count] /\ off[s.count] = UsedBytes(s)
    BY <1>1, <1>2 DEF Layout
  <2>2. off[k - 1] \in 0 .. Capacity /\ off[k] \in 0 .. Capacity
    BY <1>2 DEF Layout
  <2>3. UsedBytes(s) \in 1 .. Capacity /\ Byte(s.head, UsedBytes(s)) = s.tail
    BY <1>1, LayoutTail
  <2> QED BY <2>1, <2>2, <2>3 DEF Layout
<1>4. p \in Positions
  BY <1>1, <1>3, ByteInRing
<1>5. w \in Nat /\ w <= Capacity /\ off[k] = o + w /\ o + w <= Capacity
  BY <1>1, <1>3
<1> HIDE DEF w, p, u, o
<1>6. w > 0 /\ descs[k].ok /\ After(descs[k]) = Byte(p, w)
  BY <1>3, <1>4, <1>5, OccupiesBytes
<1>7. Byte(p, w) = Byte(s.head, off[k])
  <2>1. o \in Nat
    BY <1>1, <1>3
  <2>2. Byte(Byte(s.head, o), w) = Byte(s.head, o + w)
    BY <1>1, <1>5, <2>1, BytesAdd
  <2> QED BY <1>5, <2>2 DEF p
<1>8. w <= Dist(p, s.tail)
  <2>1. u - o \in 1 .. Capacity /\ o \in Nat /\ u - o \in Nat /\ o + (u - o) = u
    BY <1>1, <1>3, <1>5, <1>6
  <2>2. o + (u - o) <= Capacity
    BY <1>1, <1>3, <2>1
  <2>3. Byte(p, u - o) = s.tail
    <3>1. Byte(Byte(s.head, o), u - o) = Byte(s.head, o + (u - o))
      BY <1>1, <2>1, <2>2, BytesAdd
    <3> QED BY <1>3, <2>1, <3>1 DEF p
  <2>4. Dist(p, s.tail) = u - o
    BY <1>1, <1>4, <2>1, <2>3, BytesDist
  <2> QED BY <1>1, <1>3, <1>5, <2>4
<1>9. get_message(s.mem, p, s.tail, FALSE) = descs[k]
  <2>1. s.tail \in Positions /\ w \in Nat
    BY <1>1, <1>5
  <2>2. Occupies(p, w, descs[k]) /\ Holds(s.mem, descs[k])
    BY <1>3
  <2> QED BY <1>4, <1>8, <2>1, <2>2, ReadsStored
<1>10. o < off[k]
  BY <1>3, <1>5, <1>6
<1> QED BY <1>3, <1>4, <1>6, <1>7, <1>9, <1>10 DEF p, o, u

(* In particular, a message ends where the next one begins ...             *)
LEMMA LayoutNext ==
    ASSUME NEW V, NEW s \in Queues(V), NEW descs, NEW off, Layout(s, descs, off),
           NEW k \in 1 .. s.count
    PROVE  After(descs[k]) = Byte(s.head, off[k])
<1> DEFINE o == off[k - 1]
           w == off[k] - o
           p == Byte(s.head, o)
<1>1. /\ o \in 0 .. Capacity /\ off[k] \in 0 .. Capacity /\ o < off[k]
      /\ p \in Positions
  BY LayoutReads
<1>2. Occupies(p, w, descs[k])
  BY DEF Layout
<1>3. s.head \in Positions
  BY DEF Queues
<1>4. o \in Nat /\ w \in Nat /\ w <= Capacity /\ o + w = off[k] /\ o + w <= Capacity
  BY <1>1, RingAssumption
<1> HIDE DEF o, w, p
<1>5. After(descs[k]) = Byte(p, w)
  BY <1>1, <1>2, <1>4, OccupiesBytes
<1>6. Byte(Byte(s.head, o), w) = Byte(s.head, o + w)
  BY <1>3, <1>4, BytesAdd
<1> QED BY <1>4, <1>5, <1>6 DEF p

(* ... and a reader whose head is there finds it.                          *)
Finds(s, hd, d) == get_message(s.mem, hd, s.tail, FALSE) = d

(* Reading at the start of a message of the layout finds that message.     *)
LEMMA LayoutGets ==
    ASSUME NEW V, NEW s \in Queues(V), NEW descs, NEW off, Layout(s, descs, off),
           NEW k \in 1 .. s.count, NEW hd, hd = Byte(s.head, off[k - 1])
    PROVE  Finds(s, hd, descs[k])
<1> DEFINE o == off[k - 1]
           w == off[k] - o
           u == UsedBytes(s)
<1>1. /\ s.head \in Positions /\ s.tail \in Positions /\ Capacity \in Nat \ {0}
      /\ s.count \in Nat /\ s.count # 0
  BY RingAssumption DEF Queues
<1>2. /\ o \in 0 .. Capacity /\ off[k] \in 0 .. Capacity /\ o < off[k] /\ off[k] <= u
      /\ hd \in Positions
  BY LayoutReads
<1>3. Occupies(hd, w, descs[k]) /\ Holds(s.mem, descs[k])
  BY DEF Layout
<1>4. u \in 1 .. Capacity /\ Byte(s.head, u) = s.tail
  BY <1>1, LayoutTail
<1> HIDE DEF u, o
<1>5. w \in Nat /\ o \in Nat /\ u - o \in Nat /\ u - o \in 1 .. Capacity
      /\ o + (u - o) = u /\ o + (u - o) <= Capacity /\ w <= u - o
  BY <1>1, <1>2, <1>4
<1> HIDE DEF w
<1>6. Byte(Byte(s.head, o), u - o) = Byte(s.head, o + (u - o))
  BY <1>1, <1>5, BytesAdd
<1>7. Byte(hd, u - o) = s.tail
  BY <1>4, <1>5, <1>6 DEF o
<1>8. Dist(hd, s.tail) = u - o
  BY <1>1, <1>2, <1>5, <1>7, BytesDist
<1>9. hd \in Positions /\ s.tail \in Positions /\ w \in Nat /\ w <= Dist(hd, s.tail)
  BY <1>1, <1>2, <1>5, <1>8
<1>10. \A p \in Positions, tl \in Positions :
         (Occupies(p, w, descs[k]) /\ w <= Dist(p, tl))
             => get_message(s.mem, p, tl, FALSE) = descs[k]
  BY <1>3, <1>9, ReadsStored
<1> QED BY <1>3, <1>9, <1>10 DEF Finds

(* Memory may change where no message lies.                                *)
LEMMA LayoutKept ==
    ASSUME NEW V, NEW s \in Queues(V), NEW descs, NEW off, Layout(s, descs, off),
           NEW mem, Keeps(s, mem)
    PROVE  \A k \in 1 .. s.count : Holds(mem, descs[k])
<1> SUFFICES ASSUME NEW k \in 1 .. s.count PROVE Holds(mem, descs[k])
  OBVIOUS
<1> DEFINE o == off[k - 1]
           w == off[k] - o
<1>1. /\ o \in 0 .. Capacity /\ off[k] \in 0 .. Capacity /\ o < off[k]
      /\ off[k] <= UsedBytes(s)
  BY LayoutReads
<1>2. o \in Nat /\ w \in Nat /\ o + w = off[k]
  BY <1>1, RingAssumption
<1>3. Occupies(Byte(s.head, o), w, descs[k]) /\ Holds(s.mem, descs[k])
  BY DEF Layout
<1>4. o + w <= UsedBytes(s)
  BY <1>1, <1>2
<1> HIDE DEF o, w
<1> QED BY <1>2, <1>3, <1>4 DEF Keeps

(* What is left of a layout when its first m messages are removed.         *)
Remaining(s, off, m) ==
    [head |-> Byte(s.head, off[m]), tail |-> s.tail, count |-> s.count - m, mem |-> s.mem]
DescsFrom(descs, n, m) == [k \in 1 .. n |-> descs[k + m]]
EndsFrom(off, n, m)    == [k \in 0 .. n |-> off[k + m] - off[m]]

(* When the first m messages are removed, the others are laid out from     *)
(* where the m-th ended.                                                   *)
LEMMA LayoutDrop ==
    ASSUME NEW V, NEW s \in Queues(V), NEW descs, NEW off, Layout(s, descs, off),
           NEW m \in 0 .. s.count
    PROVE  Layout(Remaining(s, off, m), DescsFrom(descs, s.count - m, m),
                                        EndsFrom(off, s.count - m, m))
<1> DEFINE rest == Remaining(s, off, m)
           n == s.count - m
           left == [k \in 1 .. n |-> descs[k + m]]
           ends == [k \in 0 .. n |-> off[k + m] - off[m]]
<1>1. /\ s.head \in Positions /\ s.tail \in Positions /\ Capacity \in Nat \ {0}
      /\ s.count \in Nat /\ n \in Nat /\ m \in Nat /\ n + m = s.count
      /\ \A k \in 0 .. n : k + m \in 0 .. s.count /\ m <= k + m
      /\ \A k \in 1 .. n : k + m \in 1 .. s.count
  BY RingAssumption DEF Queues
<1>2. /\ rest.head = Byte(s.head, off[m]) /\ rest.tail = s.tail /\ rest.count = n
      /\ rest.mem = s.mem
  BY DEF Remaining
<1> HIDE DEF rest
<1>3. /\ \A k \in 0 .. n : off[k + m] \in 0 .. Capacity /\ off[m] <= off[k + m]
      /\ off[m] \in 0 .. Capacity
  BY <1>1 DEF Layout
<1>4. ends \in [0 .. n -> 0 .. Capacity] /\ ends[0] = 0
  <2>1. ASSUME NEW k \in 0 .. n PROVE off[k + m] - off[m] \in 0 .. Capacity
    BY <1>1, <1>3
  <2>2. 0 \in 0 .. n /\ 0 + m = m /\ off[m] - off[m] = 0
    BY <1>1, <1>3
  <2> QED BY <2>1, <2>2
<1>5. \A j, k \in 0 .. n : j <= k => ends[j] <= ends[k]
  <2> SUFFICES ASSUME NEW j \in 0 .. n, NEW k \in 0 .. n, j <= k
               PROVE  off[j + m] - off[m] <= off[k + m] - off[m]
    OBVIOUS
  <2>1. off[j + m] <= off[k + m]
    <3>1. j + m \in 0 .. s.count /\ k + m \in 0 .. s.count /\ j + m <= k + m
      BY <1>1
    <3> QED BY <3>1 DEF Layout
  <2> QED BY <1>1, <1>3, <2>1
<1>6. UsedBytes(s) \in 0 .. Capacity /\ Byte(s.head, UsedBytes(s)) = s.tail
      /\ off[n + m] = UsedBytes(s) /\ off[m] <= UsedBytes(s)
  <2>1. off[n + m] = UsedBytes(s)
    BY <1>1 DEF Layout
  <2>2. n \in 0 .. n
    BY <1>1
  <2> QED BY <1>3, <2>1, <2>2, LayoutTail
<1>7. Byte(rest.head, UsedBytes(s) - off[m]) = rest.tail /\ rest.head \in Positions
  <2> DEFINE u == UsedBytes(s)
             o == off[m]
  <2>1. o \in Nat /\ u - o \in Nat /\ o + (u - o) = u /\ o + (u - o) <= Capacity
    BY <1>1, <1>3, <1>6
  <2> HIDE DEF u, o
  <2>2. Byte(Byte(s.head, o), u - o) = Byte(s.head, o + (u - o))
    BY <1>1, <2>1, BytesAdd
  <2>3. rest.head \in Positions
    BY <1>1, <1>2, <1>3, ByteInRing
  <2> QED BY <1>2, <1>6, <2>1, <2>2, <2>3 DEF u, o
<1>8. CASE n = 0
  <2>1. UsedBytes(s) - off[m] = 0
    <3>1. n + m = m
      BY <1>1, <1>8
    <3> QED BY <1>3, <1>6, <3>1
  <2>2. Byte(rest.head, 0) = rest.head
    BY <1>1, <1>7 DEF Byte, Positions
  <2>3. rest.head = rest.tail /\ UsedBytes(rest) = 0
    BY <1>2, <1>7, <1>8, <2>1, <2>2 DEF UsedBytes
  <2>4. ends[n] = UsedBytes(rest)
    BY <1>4, <1>8, <2>3
  <2> HIDE DEF ends, left
  <2>5. left = [k \in 1 .. n |-> left[k]] /\ 1 .. n = {}
    BY <1>8 DEF left
  <2>6. Layout(rest, left, ends)
    BY <1>2, <1>4, <1>5, <2>3, <2>4, <2>5 DEF Layout
  <2> QED BY <2>6 DEF ends, left, rest, DescsFrom, EndsFrom
<1>9. CASE n # 0
  <2>1. UsedBytes(s) - off[m] \in 1 .. Capacity
    <3>1. PICK k \in 1 .. s.count : k - 1 = m
      <4>1. m + 1 \in 1 .. s.count /\ (m + 1) - 1 = m
        BY <1>1, <1>9
      <4> QED BY <4>1
    <3>2. off[k - 1] < off[k] /\ off[k] <= UsedBytes(s) /\ off[k] \in 0 .. Capacity
      BY LayoutReads
    <3> QED BY <1>1, <1>3, <1>6, <3>1, <3>2
  <2>2. Dist(rest.head, rest.tail) = UsedBytes(s) - off[m]
    BY <1>1, <1>2, <1>7, <2>1, BytesDist
  <2>3. ends[n] = UsedBytes(rest)
    BY <1>1, <1>2, <1>6, <1>9, <2>2 DEF UsedBytes
  <2>4. ASSUME NEW k \in 1 .. n
        PROVE  /\ Occupies(Byte(rest.head, ends[k - 1]), ends[k] - ends[k - 1], left[k])
               /\ Holds(rest.mem, left[k])
    <3>1. /\ k + m \in 1 .. s.count /\ (k + m) - 1 = (k - 1) + m /\ k \in 0 .. n
          /\ k - 1 \in 0 .. n
      BY <1>1
    <3> DEFINE a == off[(k - 1) + m]
               b == off[k + m]
    <3>2. Occupies(Byte(s.head, a), b - a, descs[k + m]) /\ Holds(s.mem, descs[k + m])
      BY <3>1 DEF Layout
    <3>3. ends[k - 1] = a - off[m] /\ ends[k] = b - off[m]
      BY <3>1
    <3>4. a \in 0 .. Capacity /\ b \in 0 .. Capacity /\ off[m] <= a
      BY <1>3, <3>1
    <3> HIDE DEF a, b, ends
    <3>5. ends[k] - ends[k - 1] = b - a
      BY <1>1, <1>3, <3>3, <3>4
    <3>6. Byte(rest.head, ends[k - 1]) = Byte(s.head, a)
      <4> DEFINE o == off[m]
                 w == a - off[m]
      <4>1. o \in Nat /\ w \in Nat /\ o + w <= Capacity /\ o + w = a
        BY <1>1, <1>3, <3>4
      <4> HIDE DEF o, w
      <4>2. Byte(Byte(s.head, o), w) = Byte(s.head, o + w)
        BY <1>1, <4>1, BytesAdd
      <4> QED BY <1>2, <3>3, <4>1, <4>2 DEF o, w
    <3> QED BY <1>2, <3>2, <3>5, <3>6
  <2> HIDE DEF ends, left
  <2>5. left = [k \in 1 .. n |-> left[k]]
    BY DEF left
  <2>6. Layout(rest, left, ends)
    BY <1>2, <1>4, <1>5, <1>9, <2>3, <2>4, <2>5 DEF Layout
  <2> QED BY <2>6 DEF ends, left, rest, DescsFrom, EndsFrom
<1> QED BY <1>8, <1>9

(* In particular, when the first one is removed.                           *)
LEMMA LayoutPop ==
    ASSUME NEW V, NEW s \in Queues(V), NEW descs, NEW off, Layout(s, descs, off),
           s.count > 0, NEW rest,
           rest = [head |-> After(descs[1]), tail |-> s.tail,
                   count |-> s.count - 1, mem |-> s.mem]
    PROVE  Layout(rest, [k \in 1 .. rest.count |-> descs[k + 1]],
                        [k \in 0 .. rest.count |-> off[k + 1] - off[1]])
<1>1. s.count \in Nat
  BY DEF Queues
<1>2. PICK m \in 1 .. s.count : m = 1
  BY <1>1
<1>3. After(descs[m]) = Byte(s.head, off[m])
  BY LayoutNext
<1>4. m \in 0 .. s.count
  BY <1>1
<1>5. rest = Remaining(s, off, m) /\ rest.count = s.count - m
  BY <1>2, <1>3 DEF Remaining
<1>6. Layout(rest, DescsFrom(descs, rest.count, m), EndsFrom(off, rest.count, m))
  BY <1>4, <1>5, LayoutDrop
<1> QED BY <1>2, <1>6 DEF DescsFrom, EndsFrom

(* A message that is stored is laid out behind the others.                 *)
LEMMA LayoutPush ==
    ASSUME NEW V, NEW s \in Queues(V), NEW descs, NEW off, Layout(s, descs, off),
           NEW d, NEW w \in Nat, w > 0, UsedBytes(s) + w <= Capacity,
           Occupies(s.tail, w, d), NEW mem, Holds(mem, d), Keeps(s, mem), NEW more,
           more = [head |-> s.head, tail |-> After(d),
                   count |-> s.count + 1, mem |-> mem]
    PROVE  Layout(more,
               [k \in 1 .. more.count |-> IF k <= s.count THEN descs[k] ELSE d],
               [k \in 0 .. more.count |-> IF k <= s.count THEN off[k]
                                                          ELSE UsedBytes(s) + w])
<1> DEFINE n == s.count + 1
           u == UsedBytes(s)
           all == [k \in 1 .. n |-> IF k <= s.count THEN descs[k] ELSE d]
           ends == [k \in 0 .. n |-> IF k <= s.count THEN off[k] ELSE u + w]
<1>1. /\ s.head \in Positions /\ s.tail \in Positions /\ Capacity \in Nat \ {0}
      /\ s.count \in Nat /\ n \in Nat \ {0}
  BY RingAssumption DEF Queues
<1>2. /\ u \in 0 .. Capacity /\ Byte(s.head, u) = s.tail /\ u = off[s.count]
      /\ u + w \in 1 .. Capacity
  <2>1. u \in 0 .. Capacity /\ Byte(s.head, u) = s.tail
    BY LayoutTail
  <2>2. u + w \in 1 .. Capacity
    BY <1>1, <2>1
  <2> QED BY <2>1, <2>2 DEF Layout
<1>3. \A k \in 0 .. s.count : off[k] \in 0 .. Capacity /\ off[k] <= u
  <2>1. \A k \in 0 .. s.count : k <= s.count /\ s.count \in 0 .. s.count
    BY <1>1
  <2> QED BY <1>2, <2>1 DEF Layout
<1>4. Dist(s.head, more.tail) = u + w
  <2>1. u \in Nat /\ u + w <= Capacity /\ w <= Capacity
    BY <1>1, <1>2
  <2>2. more.tail = Byte(s.tail, w)
    BY <1>1, <2>1, OccupiesBytes
  <2> HIDE DEF u
  <2>3. Byte(s.tail, w) = Byte(s.head, u + w)
    BY <1>1, <1>2, <2>1, BytesAdd
  <2>4. more.tail \in Positions
    BY <1>1, <1>2, <2>2, <2>3, ByteInRing
  <2> QED BY <1>1, <1>2, <2>2, <2>3, <2>4, BytesDist
<1>5. more.head = s.head /\ more.count = n /\ more.mem = mem /\ UsedBytes(more) = u + w
  BY <1>1, <1>4 DEF UsedBytes
<1> HIDE DEF u
<1>6. ends \in [0 .. n -> 0 .. Capacity] /\ ends[0] = 0 /\ ends[n] = u + w
  <2>1. \A k \in 0 .. n : k <= s.count => k \in 0 .. s.count
    BY <1>1
  <2>2. off[0] = 0 /\ 0 <= s.count /\ 0 \in 0 .. n /\ n \in 0 .. n /\ ~(n <= s.count)
    BY <1>1 DEF Layout
  <2>3. u + w \in 0 .. Capacity
    BY <1>1, <1>2
  <2> QED BY <1>3, <2>1, <2>2, <2>3
<1>7. \A j, k \in 0 .. n : j <= k => ends[j] <= ends[k]
  <2> SUFFICES ASSUME NEW j \in 0 .. n, NEW k \in 0 .. n, j <= k
               PROVE  ends[j] <= ends[k]
    OBVIOUS
  <2>1. CASE k <= s.count
    <3>1. j \in 0 .. s.count /\ k \in 0 .. s.count /\ j <= s.count
      BY <1>1, <2>1
    <3>2. off[j] <= off[k]
      BY <3>1 DEF Layout
    <3> QED BY <2>1, <3>1, <3>2
  <2>2. CASE ~(k <= s.count) /\ j <= s.count
    <3>1. j \in 0 .. s.count
      BY <1>1, <2>2
    <3>2. off[j] <= u + w
      BY <1>1, <1>2, <1>3, <3>1
    <3> QED BY <2>2, <3>2
  <2>3. CASE ~(k <= s.count) /\ ~(j <= s.count)
    BY <1>1, <1>2, <2>3
  <2> QED BY <2>1, <2>2, <2>3
<1>8. ASSUME NEW k \in 1 .. n
      PROVE  /\ Occupies(Byte(s.head, ends[k - 1]), ends[k] - ends[k - 1], all[k])
             /\ Holds(mem, all[k])
  <2>1. k - 1 <= s.count /\ k - 1 \in 0 .. n /\ k \in 0 .. n /\ k - 1 \in 0 .. s.count
    BY <1>1
  <2>2. CASE k <= s.count
    <3>1. k \in 1 .. s.count
      BY <1>1, <2>2
    <3>2. ends[k - 1] = off[k - 1] /\ ends[k] = off[k] /\ all[k] = descs[k]
      BY <2>1, <2>2
    <3>3. /\ Occupies(Byte(s.head, off[k - 1]), off[k] - off[k - 1], descs[k])
          /\ Holds(mem, descs[k])
      BY <3>1, LayoutKept DEF Layout
    <3> QED BY <3>2, <3>3
  <2>3. CASE ~(k <= s.count)
    <3>1. k - 1 = s.count
      BY <1>1, <2>3
    <3>2. ends[k - 1] = u /\ ends[k] = u + w /\ all[k] = d
      BY <1>2, <2>1, <2>3, <3>1
    <3>3. (u + w) - u = w
      BY <1>1, <1>2
    <3> QED BY <1>2, <3>2, <3>3
  <2> QED BY <2>2, <2>3
<1> HIDE DEF ends, all
<1>9. all = [k \in 1 .. n |-> all[k]]
  BY DEF all
<1>10. Layout(more, all, ends)
  BY <1>1, <1>5, <1>6, <1>7, <1>8, <1>9 DEF Layout
<1> QED BY <1>5, <1>10 DEF all, ends, u

-----------------------------------------------------------------------------
(* What a memory shared by several readers needs: no chunk of a message is *)
(* where a chunk of another one is, and the messages are not more than     *)
(* their headers and a byte of data each leave room for.                   *)
LEMMA ChunkPlaces ==
    ASSUME NEW p \in Positions, NEW w \in Nat, w <= Capacity, NEW d, Occupies(p, w, d),
           NEW i \in DOMAIN d.chunks
    PROVE  \E x \in 0 .. w - 1 : d.chunks[i].pos = Byte(p, x)
<1>0. /\ p \in Nat /\ p < Capacity /\ Capacity \in Nat /\ HeaderSize \in Nat \ {0}
      /\ Byte(p, 0) = p /\ Byte(p, Capacity - p) = 0
  BY RingAssumption DEF Positions, Byte
<1>1. CASE Whole(p, w, d)
  <2>1. PICK c : d = OneChunk(c) /\ c.cap \in Nat \ {0} /\ c.pos = p
                 /\ w = static_size(c.cap)
    BY <1>1 DEF Whole
  <2>2. d.chunks[i].pos = p
    BY <2>1 DEF OneChunk
  <2>3. 0 \in 0 .. w - 1
    BY <1>0, <2>1 DEF static_size
  <2> QED BY <1>0, <2>2, <2>3
<1>2. CASE Skipping(p, w, d)
  <2>1. PICK c : d = OneChunk(c) /\ c.cap \in Nat \ {0} /\ c.pos = 0
                 /\ w = Capacity - p + static_size(c.cap)
    BY <1>2 DEF Skipping
  <2>2. d.chunks[i].pos = 0
    BY <2>1 DEF OneChunk
  <2>3. Capacity - p \in 0 .. w - 1
    BY <1>0, <2>1 DEF static_size
  <2> QED BY <1>0, <2>2, <2>3
<1>3. CASE Split(p, w, d)
  <2>1. PICK c, t : d = TwoChunks(c, t) /\ t.cap \in Nat \ {0} /\ c.pos = p /\ t.pos = 0
                    /\ w = Capacity - p + static_size(t.cap)
    BY <1>3 DEF Split
  <2>2. d.chunks[i].pos = p \/ d.chunks[i].pos = 0
    BY <2>1 DEF TwoChunks
  <2>3. Capacity - p \in 0 .. w - 1 /\ 0 \in 0 .. w - 1
    BY <1>0, <2>1 DEF static_size
  <2> QED BY <1>0, <2>2, <2>3
<1> QED BY <1>1, <1>2, <1>3 DEF Occupies

(* Within one turn round the ring every byte has a position of its own.    *)
LEMMA BytesDiffer ==
    ASSUME NEW hd \in Positions, NEW a \in Nat, NEW b \in Nat, a < b, b < Capacity
    PROVE  Byte(hd, a) # Byte(hd, b)
BY RingAssumption DEF Byte, Positions

(* A chunk lies among the bytes of its message.                            *)
LEMMA LayoutPlaces ==
    ASSUME NEW V, NEW s \in Queues(V), NEW descs, NEW off, Layout(s, descs, off),
           NEW k \in 1 .. s.count, NEW i \in DOMAIN descs[k].chunks
    PROVE  \E x \in Nat : /\ off[k - 1] <= x /\ x < off[k]
                          /\ descs[k].chunks[i].pos = Byte(s.head, x)
<1> DEFINE o == off[k - 1]
           w == off[k] - o
           p == Byte(s.head, o)
<1>1. /\ o \in 0 .. Capacity /\ off[k] \in 0 .. Capacity /\ o < off[k]
      /\ p \in Positions
  BY LayoutReads
<1>2. Occupies(p, w, descs[k])
  BY DEF Layout
<1>3. s.head \in Positions
  BY DEF Queues
<1>4. o \in Nat /\ w \in Nat /\ w <= Capacity /\ o + w = off[k] /\ o + w <= Capacity
  BY <1>1, RingAssumption
<1> HIDE DEF o, w, p
<1>5. PICK x \in 0 .. w - 1 : descs[k].chunks[i].pos = Byte(p, x)
  BY <1>1, <1>2, <1>4, ChunkPlaces
<1>6. x \in Nat /\ o + x \in Nat /\ o <= o + x /\ o + x < off[k] /\ o + x <= Capacity
  BY <1>4, RingAssumption
<1>7. Byte(Byte(s.head, o), x) = Byte(s.head, o + x)
  BY <1>3, <1>4, <1>6, BytesAdd
<1>8. descs[k].chunks[i].pos = Byte(s.head, o + x)
  BY <1>5, <1>7 DEF p
<1> QED BY <1>6, <1>8 DEF o

(* Chunks of different messages start at different positions.              *)
LEMMA LayoutApart ==
    ASSUME NEW V, NEW s \in Queues(V), NEW descs, NEW off, Layout(s, descs, off),
           NEW j \in 1 .. s.count, NEW k \in 1 .. s.count, j # k,
           NEW a \in DOMAIN descs[j].chunks, NEW b \in DOMAIN descs[k].chunks
    PROVE  descs[j].chunks[a].pos # descs[k].chunks[b].pos
<1>1. s.count \in Nat /\ s.head \in Positions
  BY DEF Queues
<1>2. PICK x \in Nat : /\ off[j - 1] <= x /\ x < off[j]
                       /\ descs[j].chunks[a].pos = Byte(s.head, x)
  BY LayoutPlaces
<1>3. PICK y \in Nat : /\ off[k - 1] <= y /\ y < off[k]
                       /\ descs[k].chunks[b].pos = Byte(s.head, y)
  BY LayoutPlaces
<1>4. /\ j - 1 \in 0 .. s.count /\ k - 1 \in 0 .. s.count
      /\ j \in 0 .. s.count /\ k \in 0 .. s.count /\ (j <= k - 1 \/ k <= j - 1)
  BY <1>1
<1>5. off[j] <= off[k - 1] \/ off[k] <= off[j - 1]
  BY <1>4 DEF Layout
<1>6. /\ off[j] \in 0 .. Capacity /\ off[k] \in 0 .. Capacity
      /\ off[j - 1] \in 0 .. Capacity /\ off[k - 1] \in 0 .. Capacity
  BY <1>4 DEF Layout
<1>7. (x < y \/ y < x) /\ x < Capacity /\ y < Capacity
  BY <1>2, <1>3, <1>5, <1>6, RingAssumption
<1> QED BY <1>1, <1>2, <1>3, <1>7, BytesDiffer

(* No message is smaller than one byte and its header.                     *)
LEMMA OccupiesSize ==
    ASSUME NEW p \in Positions, NEW w \in Nat, NEW d, Occupies(p, w, d)
    PROVE  static_size(1) <= w
<1>0. p \in Nat /\ p < Capacity /\ Capacity \in Nat /\ HeaderSize \in Nat
  BY RingAssumption DEF Positions
<1>1. PICK cap \in Nat \ {0} : w = static_size(cap) \/ w = Capacity - p + static_size(cap)
  BY DEF Occupies, Whole, Skipping, Split
<1> QED BY <1>0, <1>1 DEF static_size

(* The ring bounds the number of messages.                                 *)
LEMMA LayoutCount ==
    ASSUME NEW V, NEW s \in Queues(V), NEW descs, NEW off, Layout(s, descs, off)
    PROVE  s.count * static_size(1) <= Capacity
<1> DEFINE z == static_size(1)
           S == {k \in Nat : k <= s.count => k * z <= off[k]}
<1>1. s.count \in Nat /\ z \in Nat /\ s.head \in Positions
  BY RingAssumption DEF Queues, static_size
<1> HIDE DEF z
<1>2. 0 \in S
  BY <1>1 DEF Layout
<1>3. ASSUME NEW k \in Nat, k \in S PROVE k + 1 \in S
  <2> SUFFICES ASSUME k + 1 <= s.count PROVE (k + 1) * z <= off[k + 1]
    OBVIOUS
  <2>1. PICK n \in 1 .. s.count : n = k + 1
    BY <1>1
  <2>2. /\ off[n - 1] < off[n] /\ off[n - 1] \in 0 .. Capacity /\ off[n] \in 0 .. Capacity
        /\ Byte(s.head, off[n - 1]) \in Positions
    BY LayoutReads
  <2>3. Occupies(Byte(s.head, off[n - 1]), off[n] - off[n - 1], descs[n])
    BY DEF Layout
  <2>4. off[n] - off[n - 1] \in Nat
    BY <2>2, RingAssumption
  <2>5. z <= off[n] - off[n - 1]
    BY <2>2, <2>3, <2>4, OccupiesSize DEF z
  <2>6. n - 1 = k /\ k * z <= off[k]
    BY <1>1, <1>3, <2>1
  <2>7. k * z \in Nat /\ (k + 1) * z = k * z + z
    BY <1>1
  <2> QED BY <1>1, <2>1, <2>2, <2>5, <2>6, <2>7
<1>4. s.count \in S
  <2> HIDE DEF S
  <2> QED BY <1>1, <1>2, <1>3, SetInduction
<1>5. s.count * z <= off[s.count] /\ off[s.count] \in 0 .. Capacity
  BY <1>1, <1>4 DEF Layout
<1>6. s.count * z \in Nat
  BY <1>1
<1> QED BY <1>5, <1>6, RingAssumption DEF z

(* Nor is the second chunk of a message where its first one is.            *)
LEMMA ChunksDiffer ==
    ASSUME NEW p \in Positions, NEW w \in Nat, w <= Capacity, NEW d, Occupies(p, w, d)
    PROVE  /\ 1 \in DOMAIN d.chunks
           /\ \A i \in DOMAIN d.chunks : i # 1 => d.chunks[i].pos # d.chunks[1].pos
<1>0. /\ p \in Nat /\ p < Capacity /\ Capacity \in Nat /\ HeaderSize \in Nat \ {0}
  BY RingAssumption DEF Positions
<1>1. CASE Whole(p, w, d) \/ Skipping(p, w, d)
  BY <1>1 DEF Whole, Skipping, OneChunk
<1>2. CASE Split(p, w, d)
  <2>1. PICK c, t : d = TwoChunks(c, t) /\ t.cap \in Nat \ {0} /\ c.pos = p /\ t.pos = 0
                    /\ w = Capacity - p + static_size(t.cap)
    BY <1>2 DEF Split
  <2>2. c.pos # t.pos
    BY <1>0, <2>1 DEF static_size
  <2> QED BY <2>1, <2>2 DEF TwoChunks
<1> QED BY <1>1, <1>2 DEF Occupies

(* The chunks of a laid-out message are in memory, and its first one is    *)
(* where no other one is.                                                  *)
LEMMA LayoutChunks ==
    ASSUME NEW V, NEW s \in Queues(V), NEW descs, NEW off, Layout(s, descs, off),
           NEW k \in 1 .. s.count
    PROVE  /\ 1 \in DOMAIN descs[k].chunks
           /\ \A i \in DOMAIN descs[k].chunks :
                 /\ descs[k].chunks[i] \in s.mem /\ descs[k].chunks[i] \in Chunks(V)
                 /\ i # 1 => descs[k].chunks[i].pos # descs[k].chunks[1].pos
<1> DEFINE o == off[k - 1]
           w == off[k] - o
           p == Byte(s.head, o)
<1>1. /\ o \in 0 .. Capacity /\ off[k] \in 0 .. Capacity /\ o < off[k]
      /\ p \in Positions
  BY LayoutReads
<1>2. Occupies(p, w, descs[k]) /\ Holds(s.mem, descs[k])
  BY DEF Layout
<1>3. w \in Nat /\ w <= Capacity
  BY <1>1, RingAssumption
<1>4. \A i \in DOMAIN descs[k].chunks :
         descs[k].chunks[i] \in s.mem /\ descs[k].chunks[i] \in Chunks(V)
  BY <1>2 DEF Holds, ChunksAt, Queues
<1> HIDE DEF w, p
<1> QED BY <1>1, <1>2, <1>3, <1>4, ChunksDiffer
=============================================================================
