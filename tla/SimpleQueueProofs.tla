-------------------------- MODULE SimpleQueueProofs -------------------------
(***************************************************************************)
(* The simple queue for every capacity, header size, set of consumers,     *)
(* timeout and clock: its fields keep their types, no byte is written      *)
(* outside the ring, a push discards old messages only and finds the room  *)
(* there is, and the bytes of the ring are the messages of a FIFO.         *)
(***************************************************************************)
EXTENDS SimpleQueue, RingProofs

(* Type correctness is inductive only together with the bounds of the      *)
(* chunks: the head that a pop sets is computed from the size field of a   *)
(* chunk that has been read back from memory.                              *)
RingInv == QueueTypeOK /\ WritesStayInRing

USE DEF queueVars

(* A state of the queue as the lemmas about the ring know it.              *)
LEMMA QueueIsRing ==
    RingInv => q \in Queues(Values) /\ InRing(q.mem)
BY DEF RingInv, QueueTypeOK, WritesStayInRing, Queues, InRing

(* do_push leads from a queue in the ring to a queue in the ring.          *)
LEMMA DoPushInRing ==
    ASSUME NEW s \in Queues(Values), InRing(s.mem), NEW val \in Values,
           NEW size \in Sizes, NEW ts \in Nat
    PROVE  LET result == do_push(s, val, size, ts)
           IN  /\ result.ok \in BOOLEAN
               /\ result.q \in Queues(Values) /\ InRing(result.q.mem)
<1> DEFINE made == make_message(s, size, val, ts, 0)
<1>1. size \in Nat \ {0}
  BY SimpleQueueAssumption
<1>2. /\ made.ok \in BOOLEAN /\ made.next \in 0 .. Capacity
      /\ made.mem \in SUBSET Chunks(Values) /\ InRing(made.mem)
  BY <1>1, MakeMessageInRing
<1>3. made.next % Capacity \in Positions
  BY <1>2, ModCapacity
<1> HIDE DEF made
<1> DEFINE full == [s EXCEPT !.mem = made.mem]
           next == [head |-> s.head, tail |-> made.next % Capacity,
                    count |-> s.count + 1, mem |-> made.mem]
<1>4. /\ full \in Queues(Values) /\ full.mem = made.mem
      /\ next \in Queues(Values) /\ next.mem = made.mem
  <2>1. s.head \in Positions /\ s.tail \in Positions /\ s.count \in Nat
    BY DEF Queues
  <2>2. s.count + 1 \in Nat
    BY <2>1
  <2> QED BY <1>2, <1>3, <2>1, <2>2 DEF Queues
<1>5. do_push(s, val, size, ts)
          = [ok |-> made.ok, q |-> IF made.ok THEN next ELSE full]
  BY DEF do_push, made
<1> HIDE DEF full, next
<1> QED BY <1>2, <1>4, <1>5

(* Removing a message moves the head to a position of the ring.            *)
LEMMA PopMessageInRing ==
    ASSUME NEW s \in Queues(Values), InRing(s.mem), s.count > 0,
           NEW desc, desc.next \in 0 .. Capacity
    PROVE  pop_message(s, desc) \in Queues(Values)
           /\ InRing(pop_message(s, desc).mem)
<1>1. desc.next % Capacity \in Positions
  BY ModCapacity
<1>2. /\ s.tail \in Positions /\ s.count \in Nat
      /\ s.mem \in SUBSET Chunks(Values)
  BY DEF Queues
<1>3. pop_message(s, desc) = [head |-> desc.next % Capacity, tail |-> s.tail,
                              count |-> s.count - 1, mem |-> s.mem]
  BY DEF pop_message
<1>4. s.count - 1 \in Nat
  BY <1>2
<1> QED BY <1>1, <1>2, <1>3, <1>4 DEF Queues

(* What NextMessage finds is a descriptor.                                 *)
LEMMA NextMessageTyped ==
    ASSUME NEW s \in Queues(Values), InRing(s.mem)
    PROVE  /\ NextMessage(s) \in Descriptors
           /\ NextMessage(s).ok =>
                /\ 1 \in DOMAIN NextMessage(s).chunks
                /\ NextMessage(s).chunks[1] \in Chunks(Values)
<1>1. s.mem \in SUBSET Chunks(Values)
  BY DEF Queues
<1> DEFINE d == get_message(s.mem, s.head, s.tail, empty(s))
<1>2. /\ d \in Descriptors
      /\ d.ok => /\ Len(d.chunks) \in {1, 2}
                 /\ \A i \in DOMAIN d.chunks : d.chunks[i] \in s.mem
  BY <1>1, GetMessageInRing DEF Descriptors
<1>3. NextMessage(s) = d
  BY DEF NextMessage
<1> HIDE DEF d
<1> QED BY <1>1, <1>2, <1>3 DEF Descriptors

(* The initial state.                                                      *)
LEMMA RingInvInit == QueueInit => RingInv
<1> SUFFICES ASSUME QueueInit PROVE RingInv
  OBVIOUS
<1>1. NoMessage \in Descriptors
  BY RingAssumption DEF NoMessage, Descriptors
<1>2. 0 \in Positions
  BY RingAssumption DEF Positions
<1> QED BY <1>1, <1>2, SimpleQueueAssumption
           DEF QueueInit, RingInv, QueueTypeOK, WritesStayInRing

(* The limit is an unsigned number; it does not wrap once the clock has    *)
(* passed the timeout.                                                     *)
LEMMA LimitRange ==
    ASSUME NEW clock \in StartClock .. MaxClock
    PROVE  /\ Limit(clock) \in 0 .. Word - 1
           /\ Timeout <= clock => Limit(clock) = clock - Timeout
<1>1. clock - Timeout \in Int /\ clock - Timeout < Word /\ Word > 0 /\ Word \in Nat
  BY SimpleQueueAssumption
<1>2. \A a \in Int : a % Word \in 0 .. Word - 1
  BY <1>1
<1>3. \A a \in 0 .. Word - 1 : a % Word = a
  BY <1>1
<1> QED BY <1>1, <1>2, <1>3, SimpleQueueAssumption DEF Limit

(* The part of the invariant about q, stated for the next state.           *)
LEMMA RingInvNext ==
    ASSUME q' \in Queues(Values), InRing(q'.mem),
           (pushing \in Seq([val : Values, size : Sizes, limit : 0 .. Word - 1]))',
           (m_message_desc \in [Consumers -> Descriptors])',
           (now \in StartClock .. MaxClock)'
    PROVE  RingInv'
BY DEF RingInv, QueueTypeOK, WritesStayInRing, Queues, InRing

(* The push in the keepalive loop has the parts of a push and a limit.     *)
LEMMA LoopTyped ==
    ASSUME pushing \in Seq([val : Values, size : Sizes, limit : 0 .. Word - 1]),
           pushing # <<>>
    PROVE  /\ pushing[1].val \in Values /\ pushing[1].size \in Sizes
           /\ pushing[1].limit \in 0 .. Word - 1
<1> DEFINE Loops == [val : Values, size : Sizes, limit : 0 .. Word - 1]
<1>1. pushing \in Seq(Loops)
  OBVIOUS
<1> HIDE DEF Loops
<1>2. pushing[1] \in Loops
  BY <1>1
<1> QED BY <1>2 DEF Loops

(* Every step keeps the invariant.                                         *)
LEMMA RingInvStep == RingInv /\ [QueueNext]_queueVars => RingInv'
<1> SUFFICES ASSUME RingInv, [QueueNext]_queueVars PROVE RingInv'
  OBVIOUS
<1>0. /\ q \in Queues(Values) /\ InRing(q.mem)
      /\ now \in StartClock .. MaxClock /\ now \in Nat
      /\ pushing \in Seq([val : Values, size : Sizes, limit : 0 .. Word - 1])
      /\ m_message_desc \in [Consumers -> Descriptors]
  BY QueueIsRing, SimpleQueueAssumption DEF RingInv, QueueTypeOK
<1>1. ASSUME NEW val \in Values, NEW size \in Sizes, Push(val, size)
      PROVE  RingInv'
  <2>1. q' \in Queues(Values) /\ InRing(q'.mem)
    BY <1>0, <1>1, DoPushInRing DEF Push
  <2>2. (pushing \in Seq([val : Values, size : Sizes, limit : 0 .. Word - 1]))'
    <3> DEFINE loop == [val |-> val, size |-> size, limit |-> Limit(now)]
               Loops == [val : Values, size : Sizes, limit : 0 .. Word - 1]
    <3>1. loop \in Loops
      BY <1>0, LimitRange
    <3>2. pushing' = <<>> \/ pushing' = <<loop>>
      BY <1>1 DEF Push
    <3> HIDE DEF loop, Loops
    <3>3. <<>> \in Seq(Loops) /\ <<loop>> \in Seq(Loops)
      BY <3>1
    <3> QED BY <3>2, <3>3 DEF Loops
  <2> QED BY <1>0, <1>1, <2>1, <2>2, RingInvNext DEF Push
<1>2. CASE PushGivesUp
  BY <1>0, <1>2, RingInvNext DEF PushGivesUp
<1>3. CASE PushDiscards
  <2> DEFINE desc == NextMessage(q)
             m == pushing[1]
             rest == pop_message(q, desc)
             result == do_push(rest, m.val, m.size, now)
  <2>1. q.count > 0
    BY <1>0, <1>3 DEF PushDiscards, Expired, empty, Queues
  <2>2. m.val \in Values /\ m.size \in Sizes
    BY <1>0, <1>3, LoopTyped DEF PushDiscards
  <2>3. desc.next \in 0 .. Capacity
    BY <1>0, NextMessageTyped DEF Descriptors
  <2>4. rest \in Queues(Values) /\ InRing(rest.mem)
    BY <1>0, <2>1, <2>3, PopMessageInRing
  <2>5. result.q \in Queues(Values) /\ InRing(result.q.mem)
    BY <1>0, <2>2, <2>4, DoPushInRing
  <2>6. q' = result.q /\ pushing' \in {<<>>, pushing}
    BY <1>3 DEF PushDiscards
  <2> HIDE DEF result
  <2> QED BY <1>0, <1>3, <2>5, <2>6, RingInvNext DEF PushDiscards
<1>4. ASSUME NEW c \in Consumers, Get(c) PROVE RingInv'
  BY <1>0, <1>4, NextMessageTyped, RingInvNext DEF Get
<1>5. ASSUME NEW c \in Consumers, Pop(c) PROVE RingInv'
  <2> DEFINE desc == IF m_message_desc[c].ok THEN m_message_desc[c]
                                             ELSE NextMessage(q)
  <2>1. desc.next \in 0 .. Capacity
    BY <1>0, NextMessageTyped DEF Descriptors
  <2>2. q' = pop_message(q, desc) /\ q.count > 0
    BY <1>5 DEF Pop
  <2>3. NoMessage \in Descriptors
    BY RingAssumption DEF NoMessage, Descriptors
  <2> HIDE DEF desc
  <2>4. q' \in Queues(Values) /\ InRing(q'.mem)
    BY <1>0, <2>1, <2>2, PopMessageInRing
  <2> QED BY <1>0, <1>5, <2>3, <2>4, RingInvNext DEF Pop
<1>6. CASE Tick
  BY <1>0, <1>6, SimpleQueueAssumption, RingInvNext DEF Tick
<1>7. CASE UNCHANGED queueVars
  BY <1>0, <1>7, RingInvNext
<1> QED BY <1>1, <1>2, <1>3, <1>4, <1>5, <1>6, <1>7 DEF QueueNext

(* The invariant holds in every reachable state.                           *)
THEOREM RingInvariant == QueueSpec => []RingInv
BY RingInvInit, RingInvStep, PTL DEF QueueSpec

(* The fields of the queue and the cached descriptors keep their types,    *)
(* with or without keepalive, however gets, pops and pushes interleave.    *)
THEOREM QueueTypeCorrect == QueueSpec => []QueueTypeOK
<1>1. RingInv => QueueTypeOK
  BY DEF RingInv
<1> QED BY <1>1, RingInvariant, PTL

(* No push ever writes a byte outside the data of the queue.               *)
THEOREM QueueWritesInRing == QueueSpec => []WritesStayInRing
<1>1. RingInv => WritesStayInRing
  BY DEF RingInv
<1> QED BY <1>1, RingInvariant, PTL
-----------------------------------------------------------------------------
(* A loop's limit lies a timeout in the past, and so does the time stamp of *)
(* whatever the loop discards; the clock only makes both older.            *)
AgeInv ==
    /\ RingInv
    /\ pushing # <<>> => pushing[1].limit + Timeout <= now
    /\ DiscardsOnlyOld

(* A step that discards nothing and does not start a loop keeps it.        *)
LEMMA AgeInvQuiet ==
    ASSUME AgeInv, RingInv', pushing' = pushing \/ pushing' = <<>>,
           discards' = <<>>, now' >= now
    PROVE  AgeInv'
<1>1. now \in Nat /\ now' \in Nat /\ Timeout \in Nat /\ Word \in Nat
  BY SimpleQueueAssumption DEF AgeInv, RingInv, QueueTypeOK
<1>2. (pushing # <<>> => pushing[1].limit + Timeout <= now)'
  <2>1. ASSUME pushing' # <<>> PROVE pushing'[1].limit + Timeout <= now'
    <3>1. pushing' = pushing /\ pushing # <<>>
      BY <2>1
    <3>2. pushing[1].limit \in 0 .. Word - 1
      BY <3>1, LoopTyped DEF AgeInv, RingInv, QueueTypeOK
    <3>3. pushing[1].limit + Timeout <= now
      BY <3>1 DEF AgeInv
    <3> QED BY <1>1, <3>1, <3>2, <3>3
  <2> QED BY <2>1
<1>3. DiscardsOnlyOld'
  BY DEF DiscardsOnlyOld
<1> QED BY <1>2, <1>3 DEF AgeInv

(* A push discards a message only when that has been in the queue for the  *)
(* keepalive timeout, provided the machine had been up for the timeout     *)
(* when the queue was made: queue.cpp:254 subtracts unsigned numbers.      *)
THEOREM KeepaliveAge ==
    ASSUME Timeout <= StartClock
    PROVE  QueueSpec => []DiscardsOnlyOld
<1>0. Timeout \in Nat /\ StartClock \in Nat /\ MaxClock \in Nat /\ Word \in Nat
  BY SimpleQueueAssumption
<1>1. QueueInit => AgeInv
  BY RingInvInit DEF QueueInit, AgeInv, DiscardsOnlyOld
<1>2. AgeInv /\ [QueueNext]_queueVars => AgeInv'
  <2> SUFFICES ASSUME AgeInv, [QueueNext]_queueVars PROVE AgeInv'
    OBVIOUS
  <2>1. RingInv'
    BY RingInvStep DEF AgeInv
  <2>2. /\ q \in Queues(Values) /\ InRing(q.mem)
        /\ now \in StartClock .. MaxClock /\ now \in Nat
        /\ pushing \in Seq([val : Values, size : Sizes, limit : 0 .. Word - 1])
    BY <1>0, QueueIsRing DEF AgeInv, RingInv, QueueTypeOK
  <2>3. ASSUME NEW val \in Values, NEW size \in Sizes, Push(val, size)
        PROVE  AgeInv'
    <3> DEFINE loop == [val |-> val, size |-> size, limit |-> Limit(now)]
    <3>1. pushing' = <<>> \/ pushing' = <<loop>>
      BY <2>3 DEF Push
    <3>2. Limit(now) = now - Timeout
      BY <1>0, <2>2, LimitRange
    <3>3. loop.limit + Timeout <= now
      BY <1>0, <2>2, <3>2
    <3> HIDE DEF loop
    <3>4. (pushing # <<>> => pushing[1].limit + Timeout <= now)'
      BY <2>3, <3>1, <3>3 DEF Push
    <3>5. DiscardsOnlyOld'
      BY <2>3 DEF Push, DiscardsOnlyOld
    <3> QED BY <2>1, <3>4, <3>5 DEF AgeInv
  <2>4. CASE PushGivesUp
    BY <2>1, <2>2, <2>4, AgeInvQuiet DEF PushGivesUp
  <2>5. CASE PushDiscards
    <3> DEFINE first == NextMessage(q).chunks[1]
    <3>1. /\ pushing # <<>> /\ pushing[1].limit + Timeout <= now
          /\ pushing[1].limit \in 0 .. Word - 1
      BY <2>2, <2>5, LoopTyped DEF PushDiscards, AgeInv
    <3>2. first.ts \in Nat /\ first.ts <= pushing[1].limit
      BY <2>2, <2>5, NextMessageTyped DEF PushDiscards, Expired, Chunks
    <3>3. first.ts + Timeout <= now
      <4> DEFINE ts == first.ts
                 limit == pushing[1].limit
      <4>1. ts \in Nat /\ limit \in Nat /\ now \in Nat
        BY <1>0, <2>2, <3>1, <3>2
      <4>2. ts <= limit /\ limit + Timeout <= now
        BY <3>1, <3>2
      <4> HIDE DEF ts, limit
      <4>3. ts + Timeout <= now
        BY <1>0, <4>1, <4>2
      <4> QED BY <4>3 DEF ts
    <3>4. /\ discards' = <<Unpack(NextMessage(q).chunks)>> /\ now' = now
          /\ pushing' \in {<<>>, pushing}
      BY <2>5 DEF PushDiscards
    <3>5. Unpack(NextMessage(q).chunks).ts = first.ts
      BY DEF Unpack
    <3>6. DiscardsOnlyOld'
      BY <3>3, <3>4, <3>5 DEF DiscardsOnlyOld
    <3>7. (pushing # <<>> => pushing[1].limit + Timeout <= now)'
      BY <3>1, <3>4
    <3> QED BY <2>1, <3>6, <3>7 DEF AgeInv
  <2>6. ASSUME NEW c \in Consumers, Get(c) \/ Pop(c) PROVE AgeInv'
    BY <2>1, <2>2, <2>6, AgeInvQuiet DEF Get, Pop
  <2>7. CASE Tick
    BY <2>1, <2>2, <2>7, AgeInvQuiet DEF Tick
  <2>8. CASE UNCHANGED queueVars
    BY <2>1, <2>8 DEF AgeInv, DiscardsOnlyOld
  <2> QED BY <2>3, <2>4, <2>5, <2>6, <2>7, <2>8 DEF QueueNext
<1>3. AgeInv => DiscardsOnlyOld
  BY DEF AgeInv
<1> QED BY <1>1, <1>2, <1>3, PTL DEF QueueSpec
-----------------------------------------------------------------------------
(* Two headers of overhead are always enough, in every sound state of the  *)
(* queue: the free bytes are at most two regions, and each of them loses   *)
(* no more than a header.                                                  *)
THEOREM RoomSuffices == QueueTypeOK /\ EmptyIsDrained => AcceptsWhenRoom
<1> SUFFICES ASSUME QueueTypeOK, EmptyIsDrained, NEW size \in Sizes,
                    FreeBytes(q) >= size + 2 * HeaderSize
             PROVE  MessageParts(q, size) # <<>>
  BY DEF AcceptsWhenRoom
<1> DEFINE r1 == first_free_region(q)
           r2 == next_free_region(q, r1)
           c1 == static_capacity(r1.second)
           c2 == static_capacity(r2.second)
<1>1. /\ q \in Queues(Values) /\ q.head \in Positions /\ q.tail \in Positions
      /\ Capacity \in Nat \ {0} /\ HeaderSize \in Nat \ {0} /\ size \in Nat \ {0}
  BY RingAssumption, SimpleQueueAssumption DEF QueueTypeOK, Queues
<1>2. /\ r1.second \in Nat /\ r2.second \in Nat
      /\ r1.second + r2.second >= size + 2 * HeaderSize
  <2>1. CASE q.count = 0
    <3>1. r1.second = Capacity - q.tail /\ r2.second = q.head /\ q.head = q.tail
      BY <1>1, <2>1, FreeRegions DEF EmptyIsDrained
    <3>2. FreeBytes(q) = Capacity
      BY <2>1 DEF FreeBytes
    <3> QED BY <1>1, <3>1, <3>2 DEF Positions
  <2>2. CASE q.count # 0 /\ q.head < q.tail
    <3>1. r1.second = Capacity - q.tail /\ r2.second = q.head
      BY <1>1, <2>2, FreeRegions DEF Positions
    <3>2. FreeBytes(q) = (q.head - q.tail) + Capacity
      BY <1>1, <2>2, ModNegative DEF FreeBytes, Positions
    <3> QED BY <1>1, <3>1, <3>2 DEF Positions
  <2>3. CASE q.count # 0 /\ q.head >= q.tail
    <3>1. r1.second = q.head - q.tail /\ r2.second = 0
      BY <1>1, <2>3, FreeRegions DEF Positions
    <3>2. FreeBytes(q) = q.head - q.tail
      <4>1. q.head - q.tail \in Positions
        BY <1>1, <2>3 DEF Positions
      <4> QED BY <2>3, <4>1, ModCapacity DEF FreeBytes
    <3> QED BY <1>1, <2>3, <3>1, <3>2 DEF Positions
  <2> QED BY <1>1, <2>1, <2>2, <2>3 DEF Positions
<1> HIDE DEF r1, r2
<1>3. c1 \in Nat /\ c2 \in Nat /\ c1 + c2 >= size
  BY <1>1, <1>2 DEF static_capacity
<1>4. MessageParts(q, size)
          = IF size <= c1 THEN <<[pos |-> r1.first, cap |-> size]>>
            ELSE IF size > c1 + c2 THEN <<>>
            ELSE IF c1 = 0 THEN <<[pos |-> r2.first, cap |-> size]>>
            ELSE <<[pos |-> r1.first, cap |-> c1],
                   [pos |-> r2.first, cap |-> size - c1]>>
  BY DEF MessageParts, r1, r2
<1> HIDE DEF c1, c2
<1> QED BY <1>1, <1>3, <1>4
-----------------------------------------------------------------------------
(* The contents of the queue.  What holds for every message needs a        *)
(* reading of the whole ring: the messages msgs lie one behind the other   *)
(* from the head to the tail, and each unpacks to what was pushed.         *)
Pushed == [val : Values, size : Sizes, ts : StartClock .. MaxClock]

Fits(s, msgs, descs, off) ==
    /\ Layout(s, descs, off)
    /\ Len(msgs) = s.count
    /\ \A k \in 1 .. s.count : Unpack(descs[k].chunks) = msgs[k]

Stored(s, msgs) == \E descs, off : Fits(s, msgs, descs, off)

(* get() at the head finds the first of them.                              *)
LEMMA StoredFirst ==
    ASSUME NEW s \in Queues(Values), NEW msgs \in Seq(Pushed), s.count > 0,
           NEW descs, NEW off, Fits(s, msgs, descs, off)
    PROVE  /\ NextMessage(s) = descs[1] /\ descs[1].ok
           /\ Unpack(descs[1].chunks) = Head(msgs) /\ msgs # <<>>
<1>1. s.head \in Positions /\ s.count \in Nat
  BY DEF Queues
<1>2. PICK k \in 1 .. s.count : k = 1
  BY <1>1
<1>3. Layout(s, descs, off)
  BY DEF Fits
<1>4. off[k - 1] = 0
  BY <1>2, <1>3 DEF Layout
<1>5. s.head = Byte(s.head, off[k - 1])
  BY <1>1, <1>4, RingAssumption DEF Byte, Positions
<1>6. Finds(s, s.head, descs[k])
  BY <1>3, <1>5, LayoutGets
<1>7. descs[k].ok
  BY <1>3, LayoutReads
<1>8. NextMessage(s) = descs[k]
  <2>1. empty(s) = FALSE
    BY <1>1 DEF empty
  <2> QED BY <1>6, <2>1 DEF NextMessage, Finds
<1>9. Unpack(descs[k].chunks) = msgs[k] /\ Len(msgs) = s.count
  BY DEF Fits
<1>10. msgs[1] = Head(msgs) /\ msgs # <<>>
  BY <1>1, <1>9
<1> QED BY <1>2, <1>7, <1>8, <1>9, <1>10

(* Removing the first leaves the others.                                   *)
LEMMA StoredPop ==
    ASSUME NEW s \in Queues(Values), NEW msgs \in Seq(Pushed), s.count > 0,
           Stored(s, msgs)
    PROVE  Stored(pop_message(s, NextMessage(s)), Tail(msgs))
<1>1. PICK descs, off : Fits(s, msgs, descs, off)
  BY DEF Stored
<1>2. NextMessage(s) = descs[1] /\ msgs # <<>>
  BY <1>1, StoredFirst
<1> DEFINE rest == pop_message(s, descs[1])
           left == [k \in 1 .. rest.count |-> descs[k + 1]]
           ends == [k \in 0 .. rest.count |-> off[k + 1] - off[1]]
<1>3. rest = [head |-> After(descs[1]), tail |-> s.tail, count |-> s.count - 1,
              mem |-> s.mem]
  BY DEF pop_message, After
<1>4. Layout(rest, left, ends)
  BY <1>1, <1>3, LayoutPop DEF Fits
<1>5. rest.count = s.count - 1 /\ s.count \in Nat
  BY <1>3 DEF Queues
<1>6. Len(msgs) = s.count /\ \A k \in 1 .. s.count : Unpack(descs[k].chunks) = msgs[k]
  BY <1>1 DEF Fits
<1>7. Len(Tail(msgs)) = rest.count
  BY <1>2, <1>5, <1>6
<1>8. ASSUME NEW k \in 1 .. rest.count
      PROVE  Unpack(left[k].chunks) = Tail(msgs)[k]
  <2>1. k + 1 \in 1 .. s.count
    BY <1>5
  <2>2. Tail(msgs)[k] = msgs[k + 1]
    BY <1>2, <1>7
  <2> QED BY <1>6, <2>1, <2>2
<1> HIDE DEF rest, left, ends
<1>9. Fits(rest, Tail(msgs), left, ends)
  BY <1>4, <1>7, <1>8 DEF Fits
<1> QED BY <1>2, <1>9 DEF Stored, rest

(* A push that is accepted stores its message behind the others; one that  *)
(* is refused, and has written headers into the free bytes, leaves them.   *)
LEMMA StoredPush ==
    ASSUME NEW s \in Queues(Values), InRing(s.mem), NEW msgs \in Seq(Pushed),
           Stored(s, msgs),
           NEW val \in Values, NEW size \in Sizes, NEW ts \in StartClock .. MaxClock
    PROVE  LET result == do_push(s, val, size, ts)
           IN  /\ Stored(result.q,
                         IF result.ok
                         THEN Append(msgs, [val |-> val, size |-> size, ts |-> ts])
                         ELSE msgs)
               /\ s.count > 0 => /\ result.q.count > 0
                                 /\ NextMessage(result.q) = NextMessage(s)
<1> DEFINE made == make_message(s, size, val, ts, 0)
           result == do_push(s, val, size, ts)
           msg == [val |-> val, size |-> size, ts |-> ts]
           full == [s EXCEPT !.mem = made.mem]
           more == [head |-> s.head, tail |-> made.next % Capacity,
                    count |-> s.count + 1, mem |-> made.mem]
<1>0. /\ size \in Nat \ {0} /\ ts \in Nat /\ s.count \in Nat /\ msg \in Pushed
      /\ s = [head |-> s.head, tail |-> s.tail, count |-> s.count, mem |-> s.mem]
  BY SimpleQueueAssumption DEF Queues, Pushed
<1>1. PICK descs, off : Fits(s, msgs, descs, off)
  BY DEF Stored
<1>2. /\ Layout(s, descs, off) /\ Len(msgs) = s.count
      /\ \A k \in 1 .. s.count : Unpack(descs[k].chunks) = msgs[k]
  BY <1>1 DEF Fits
<1>3. s.count = 0 => s.head = s.tail
  BY <1>2 DEF Layout
<1>4. Keeps(s, made.mem)
  BY <1>0, <1>3, PushStores
<1>5. made.ok => \E d, w : w \in Nat /\ Stores(s, size, val, ts, 0, d, w)
  BY <1>0, <1>3, PushStores
<1>6. result = [ok |-> made.ok, q |-> IF made.ok THEN more ELSE full]
  BY DEF do_push
<1>7. result.q \in Queues(Values)
  BY <1>0, DoPushInRing
<1> HIDE DEF made, result, msg
<1>8. CASE ~made.ok
  <2>1. /\ result.q = full /\ ~result.ok
    BY <1>6, <1>8
  <2>2. full.head = s.head /\ full.tail = s.tail /\ full.count = s.count
        /\ full.mem = made.mem
    BY <1>0
  <2> HIDE DEF full
  <2>3. UsedBytes(full) = UsedBytes(s)
    BY <2>2 DEF UsedBytes
  <2>4. \A k \in 1 .. s.count : Holds(made.mem, descs[k])
    BY <1>2, <1>4, LayoutKept
  <2>5. Layout(full, descs, off)
    BY <1>2, <2>2, <2>3, <2>4 DEF Layout
  <2>6. Fits(full, msgs, descs, off)
    BY <1>2, <2>2, <2>5 DEF Fits
  <2>7. s.count > 0 => full.count > 0 /\ NextMessage(full) = NextMessage(s)
    BY <1>1, <1>7, <2>1, <2>2, <2>6, StoredFirst
  <2>8. Stored(full, msgs)
    BY <2>6 DEF Stored
  <2> QED BY <2>1, <2>7, <2>8 DEF result
<1>9. CASE made.ok
  <2>1. /\ result.q = more /\ result.ok
    BY <1>6, <1>9
  <2>2. PICK d, w : w \in Nat /\ Stores(s, size, val, ts, 0, d, w)
    BY <1>5, <1>9
  <2>3. /\ w > 0 /\ UsedBytes(s) + w <= Capacity /\ d.next = made.next
        /\ Occupies(s.tail, w, d) /\ Holds(made.mem, d)
        /\ Unpack(d.chunks) = msg
    BY <2>2 DEF Stores, made, msg
  <2>4. more = [head |-> s.head, tail |-> After(d), count |-> s.count + 1,
                mem |-> made.mem]
    BY <2>3 DEF After
  <2>5. more.count = s.count + 1
    OBVIOUS
  <2> DEFINE all == [k \in 1 .. more.count |-> IF k <= s.count THEN descs[k] ELSE d]
             ends == [k \in 0 .. more.count |-> IF k <= s.count THEN off[k]
                                                            ELSE UsedBytes(s) + w]
             log2 == Append(msgs, msg)
  <2> HIDE DEF more
  <2>6. Layout(more, all, ends)
    <3>1. Layout(s, descs, off) /\ w \in Nat /\ w > 0 /\ UsedBytes(s) + w <= Capacity
      BY <1>2, <2>2, <2>3
    <3>2. Occupies(s.tail, w, d) /\ Holds(made.mem, d)
      BY <2>3
    <3> QED BY <1>4, <2>4, <3>1, <3>2, LayoutPush
  <2>7. Len(log2) = more.count
    BY <1>0, <1>2, <2>5
  <2>8. ASSUME NEW k \in 1 .. more.count PROVE Unpack(all[k].chunks) = log2[k]
    <3>1. CASE k <= s.count
      <4>1. k \in 1 .. s.count
        BY <1>0, <2>5, <3>1
      <4>2. log2[k] = msgs[k] /\ all[k] = descs[k]
        BY <1>0, <1>2, <3>1, <4>1
      <4> QED BY <1>2, <4>1, <4>2
    <3>2. CASE ~(k <= s.count)
      <4>1. k = s.count + 1
        BY <1>0, <2>5, <3>2
      <4>2. log2[k] = msg /\ all[k] = d
        BY <1>0, <1>2, <3>2, <4>1
      <4> QED BY <2>3, <4>2
    <3> QED BY <3>1, <3>2
  <2>9. s.count > 0 => all[1] = descs[1]
    <3>1. s.count > 0 => 1 \in 1 .. more.count /\ 1 <= s.count
      BY <1>0, <2>5
    <3> QED BY <3>1
  <2> HIDE DEF all, ends, log2
  <2>10. Fits(more, log2, all, ends)
    BY <2>6, <2>7, <2>8 DEF Fits
  <2>11. s.count > 0 => more.count > 0 /\ NextMessage(more) = NextMessage(s)
    <3>1. log2 \in Seq(Pushed) /\ (s.count > 0 => more.count > 0)
      BY <1>0, <2>5 DEF log2
    <3>2. s.count > 0 => NextMessage(s) = descs[1]
      BY <1>1, StoredFirst
    <3>3. s.count > 0 => NextMessage(more) = all[1]
      BY <1>7, <2>1, <2>10, <3>1, StoredFirst
    <3> QED BY <2>9, <3>1, <3>2, <3>3
  <2>12. Stored(more, log2)
    BY <2>10 DEF Stored
  <2> QED BY <2>1, <2>11, <2>12 DEF result, log2, msg
<1> QED BY <1>8, <1>9

(* A queue is used as it is meant to be: by one consumer, and no push      *)
(* discards the message between that consumer's get and its pop.           *)
UsedRight == (\A c, d \in Consumers : c = d) /\ (Undisturbed \/ Timeout = 0)

(* The message a consumer holds is still the first one when it pops it;    *)
(* while a push goes on, its loop discards nothing that is held.           *)
ContentsInv ==
    /\ RingInv
    /\ log \in Seq(Pushed)
    /\ Stored(q, log)
    /\ \A c \in Consumers : m_message_desc[c].ok
           => q.count > 0 /\ m_message_desc[c] = NextMessage(q)
    /\ pushing # <<>> => /\ Timeout > 0
                         /\ \/ \A c \in Consumers : ~m_message_desc[c].ok
                            \/ ~Expired(pushing[1].limit)

(* An empty queue stores the empty log.                                    *)
LEMMA ContentsInit == QueueInit => ContentsInv
<1> SUFFICES ASSUME QueueInit PROVE ContentsInv
  OBVIOUS
<1>1. q = [head |-> 0, tail |-> 0, count |-> 0, mem |-> {}] /\ log = <<>>
  BY DEF QueueInit
<1> DEFINE descs == [k \in 1 .. 0 |-> k]
           off == [k \in 0 .. 0 |-> 0]
<1>2. Layout(q, descs, off)
  <2>1. off \in [0 .. 0 -> 0 .. Capacity] /\ off[0] = 0
    BY RingAssumption
  <2>2. descs = [k \in 1 .. 0 |-> descs[k]]
    OBVIOUS
  <2>3. \A j, k \in 0 .. 0 : off[j] <= off[k]
    OBVIOUS
  <2>4. \A k \in 1 .. 0 : FALSE
    OBVIOUS
  <2> HIDE DEF descs, off
  <2> QED BY <1>1, <2>1, <2>2, <2>3, <2>4 DEF Layout, UsedBytes
<1> HIDE DEF descs, off
<1>3. Fits(q, log, descs, off)
  BY <1>1, <1>2 DEF Fits
<1>4. Stored(q, log)
  BY <1>3 DEF Stored
<1>5. \A c \in Consumers : ~m_message_desc[c].ok
  BY DEF QueueInit, NoMessage
<1> QED BY <1>1, <1>4, <1>5, RingInvInit DEF ContentsInv, QueueInit

(* The part of the invariant about the log, for the step of a push into s, *)
(* the queue itself or what is left of it when its first message has been  *)
(* discarded.                                                              *)
LEMMA ContentsPush ==
    ASSUME NEW s \in Queues(Values), InRing(s.mem), NEW msgs \in Seq(Pushed),
           Stored(s, msgs), now \in StartClock .. MaxClock,
           NEW val \in Values, NEW size \in Sizes,
           q' = do_push(s, val, size, now).q,
           log' = IF do_push(s, val, size, now).ok
                  THEN Append(msgs, [val |-> val, size |-> size, ts |-> now])
                  ELSE msgs
    PROVE  /\ log' \in Seq(Pushed) /\ Stored(q', log')
           /\ s.count > 0 => q'.count > 0 /\ NextMessage(q') = NextMessage(s)
<1> DEFINE msg == [val |-> val, size |-> size, ts |-> now]
<1>1. msg \in Pushed
  BY DEF Pushed
<1> HIDE DEF msg
<1>2. log' \in Seq(Pushed)
  BY <1>1 DEF msg
<1>3. LET result == do_push(s, val, size, now)
      IN  /\ Stored(result.q,
                    IF result.ok
                    THEN Append(msgs, [val |-> val, size |-> size, ts |-> now])
                    ELSE msgs)
          /\ s.count > 0 => /\ result.q.count > 0
                            /\ NextMessage(result.q) = NextMessage(s)
  BY StoredPush
<1> QED BY <1>2, <1>3

(* Every step of a queue that is used as it is meant to be keeps it.       *)
LEMMA ContentsStep ==
    ASSUME UsedRight
    PROVE  ContentsInv /\ [QueueNext]_queueVars => ContentsInv'
<1> SUFFICES ASSUME ContentsInv, [QueueNext]_queueVars PROVE ContentsInv'
  OBVIOUS
<1>0. /\ RingInv' /\ q \in Queues(Values) /\ InRing(q.mem) /\ log \in Seq(Pushed)
      /\ now \in StartClock .. MaxClock /\ Stored(q, log) /\ q.count \in Nat
      /\ pushing \in Seq([val : Values, size : Sizes, limit : 0 .. Word - 1])
      /\ m_message_desc \in [Consumers -> Descriptors]
      /\ Timeout \in Nat
  BY RingInvStep, QueueIsRing, SimpleQueueAssumption
     DEF ContentsInv, RingInv, QueueTypeOK, Queues
<1>1. ASSUME NEW val \in Values, NEW size \in Sizes, Push(val, size)
      PROVE  ContentsInv'
  <2> DEFINE result == do_push(q, val, size, now)
  <2>1. /\ log' \in Seq(Pushed) /\ Stored(q', log')
        /\ q.count > 0 => q'.count > 0 /\ NextMessage(q') = NextMessage(q)
    <3>1. /\ q' = result.q
          /\ log' = IF result.ok
                    THEN Append(log, [val |-> val, size |-> size, ts |-> now])
                    ELSE log
      BY <1>1 DEF Push
    <3> QED BY <1>0, <3>1, ContentsPush
  <2>2. m_message_desc' = m_message_desc
    BY <1>1 DEF Push
  <2>3. (\A c \in Consumers : m_message_desc[c].ok
             => q.count > 0 /\ m_message_desc[c] = NextMessage(q))'
    BY <2>1, <2>2 DEF ContentsInv
  <2>4. ASSUME pushing' # <<>>
        PROVE  /\ Timeout > 0
               /\ \/ \A c \in Consumers : ~m_message_desc'[c].ok
                  \/ ~Expired(pushing[1].limit)'
    <3> DEFINE loop == [val |-> val, size |-> size, limit |-> Limit(now)]
    <3>1. ~result.ok /\ Timeout > 0 /\ pushing' = <<loop>> /\ Undisturbed
      BY <1>0, <1>1, <2>4 DEF Push, UsedRight
    <3>2. pushing'[1].limit = Limit(now)
      BY <3>1
    <3>3. Expired(Limit(now)) => \A c \in Consumers : ~m_message_desc[c].ok
      BY <1>1, <3>1 DEF Push
    <3>4. Expired(pushing[1].limit)' => Expired(Limit(now))
      <4>1. q' = [q EXCEPT !.mem = make_message(q, size, val, now, 0).mem]
        BY <1>1, <3>1 DEF Push, do_push
      <4>2. q'.count = q.count
        BY <1>0, <4>1 DEF Queues
      <4>3. ASSUME Expired(pushing[1].limit)' PROVE Expired(Limit(now))
        <5>1. /\ q'.count # 0 /\ NextMessage(q').ok
              /\ NextMessage(q').chunks[1].ts <= Limit(now)
          BY <3>2, <4>3 DEF Expired, empty
        <5>2. q.count > 0 /\ NextMessage(q') = NextMessage(q)
          BY <1>0, <2>1, <4>2, <5>1
        <5> QED BY <5>1, <5>2 DEF Expired, empty
      <4> QED BY <4>3
    <3> QED BY <2>2, <3>1, <3>3, <3>4
  <2> QED BY <1>0, <2>1, <2>3, <2>4 DEF ContentsInv
<1>2. CASE PushGivesUp
  BY <1>0, <1>2 DEF PushGivesUp, ContentsInv
<1>3. CASE PushDiscards
  <2> DEFINE desc == NextMessage(q)
             m == pushing[1]
             rest == pop_message(q, desc)
             result == do_push(rest, m.val, m.size, now)
  <2>1. /\ pushing # <<>> /\ q.count > 0 /\ Timeout > 0
        /\ \A c \in Consumers : ~m_message_desc[c].ok
    BY <1>0, <1>3 DEF PushDiscards, Expired, empty, ContentsInv
  <2>2. m.val \in Values /\ m.size \in Sizes
    BY <1>0, <2>1, LoopTyped
  <2>3. rest \in Queues(Values) /\ InRing(rest.mem)
    BY <1>0, <2>1, NextMessageTyped, PopMessageInRing DEF Descriptors
  <2>4. Removed = Tail(log) /\ Tail(log) \in Seq(Pushed)
    <3>1. log # <<>>
      <4>1. PICK descs, off : Fits(q, log, descs, off)
        BY <1>0 DEF Stored
      <4> QED BY <1>0, <2>1, <4>1, StoredFirst
    <3> QED BY <1>0, <3>1 DEF Removed
  <2>5. Stored(rest, Tail(log))
    BY <1>0, <2>1, StoredPop
  <2>6. /\ q' = result.q
        /\ log' = IF result.ok
                  THEN Append(Tail(log),
                              [val |-> m.val, size |-> m.size, ts |-> now])
                  ELSE Tail(log)
        /\ pushing' \in {<<>>, pushing} /\ m_message_desc' = m_message_desc
    BY <1>3, <2>4 DEF PushDiscards
  <2> HIDE DEF rest, m
  <2>7. log' \in Seq(Pushed) /\ Stored(q', log')
    BY <1>0, <2>2, <2>3, <2>4, <2>5, <2>6, ContentsPush
  <2>8. \A c \in Consumers : ~m_message_desc'[c].ok
    BY <2>1, <2>6
  <2> QED BY <1>0, <2>1, <2>7, <2>8 DEF ContentsInv
<1>4. ASSUME NEW c \in Consumers, Get(c) PROVE ContentsInv'
  <2>1. /\ q' = q /\ pushing' = pushing /\ log' = log /\ pushing = <<>> /\ q.count > 0
        /\ m_message_desc' = [m_message_desc EXCEPT ![c] = NextMessage(q)]
    BY <1>4 DEF Get, Unlocked
  <2>2. \A d \in Consumers : m_message_desc'[d].ok
            => m_message_desc'[d] = NextMessage(q)
    BY <1>0, <2>1 DEF ContentsInv
  <2> QED BY <1>0, <2>1, <2>2 DEF ContentsInv
<1>5. ASSUME NEW c \in Consumers, Pop(c) PROVE ContentsInv'
  <2>1. /\ q' = pop_message(q, NextMessage(q)) /\ q.count > 0
        /\ pushing' = pushing /\ pushing = <<>> /\ log' = Removed
        /\ m_message_desc' = [m_message_desc EXCEPT ![c] = NoMessage]
    BY <1>5 DEF Pop, Unlocked, ContentsInv
  <2>2. Removed = Tail(log) /\ Tail(log) \in Seq(Pushed)
    <3>1. log # <<>>
      <4>1. PICK descs, off : Fits(q, log, descs, off)
        BY <1>0 DEF Stored
      <4> QED BY <1>0, <2>1, <4>1, StoredFirst
    <3> QED BY <1>0, <3>1 DEF Removed
  <2>3. Stored(q', log')
    BY <1>0, <2>1, <2>2, StoredPop
  <2>4. \A d \in Consumers : ~m_message_desc'[d].ok
    <3>1. ASSUME NEW d \in Consumers PROVE ~m_message_desc'[d].ok
      <4>1. d = c
        BY DEF UsedRight
      <4>2. m_message_desc'[c] = NoMessage
        BY <1>0, <2>1
      <4> QED BY <4>1, <4>2 DEF NoMessage
    <3> QED BY <3>1
  <2> QED BY <1>0, <2>1, <2>2, <2>3, <2>4 DEF ContentsInv
<1>6. CASE Tick
  BY <1>0, <1>6 DEF Tick, ContentsInv, Expired
<1>7. CASE UNCHANGED queueVars
  BY <1>0, <1>7 DEF ContentsInv, Expired
<1> QED BY <1>1, <1>2, <1>3, <1>4, <1>5, <1>6, <1>7 DEF QueueNext

(* The ring of a queue used as it is meant to be always holds the log.     *)
THEOREM ContentsInvariant ==
    ASSUME UsedRight
    PROVE  QueueSpec => []ContentsInv
BY ContentsInit, ContentsStep, PTL DEF QueueSpec

(* A queue that counts no message has no bytes in use.                     *)
THEOREM EmptyRingDrained ==
    ASSUME UsedRight
    PROVE  QueueSpec => []EmptyIsDrained
<1>1. ContentsInv => EmptyIsDrained
  BY DEF ContentsInv, Stored, Fits, Layout, EmptyIsDrained
<1> QED BY <1>1, ContentsInvariant, PTL

(* A push is refused only when the free bytes cannot hold the data and two *)
(* headers, in every state the queue can be in.                            *)
THEOREM RoomIsUsed ==
    ASSUME UsedRight
    PROVE  QueueSpec => []AcceptsWhenRoom
BY RoomSuffices, QueueTypeCorrect, EmptyRingDrained, PTL

(* What the first message of the queue is to a consumer.                   *)
LEMMA FirstIsHead ==
    ContentsInv /\ q.count > 0
        => /\ log # <<>> /\ NextMessage(q).ok
           /\ Unpack(NextMessage(q).chunks) = Head(log)
<1> SUFFICES ASSUME ContentsInv, q.count > 0
             PROVE  /\ log # <<>> /\ NextMessage(q).ok
                    /\ Unpack(NextMessage(q).chunks) = Head(log)
  OBVIOUS
<1>1. q \in Queues(Values) /\ log \in Seq(Pushed)
  BY QueueIsRing DEF ContentsInv
<1>2. PICK descs, off : Fits(q, log, descs, off)
  BY DEF ContentsInv, Stored
<1> QED BY <1>1, <1>2, StoredFirst

(* Every step of the queue is a step of the abstract FIFO or changes       *)
(* nothing in it.                                                          *)
LEMMA FifoStep ==
    ASSUME UsedRight, ContentsInv, [QueueNext]_queueVars
    PROVE  [F!FifoNext]_(F!fifoVars)
<1> DEFINE View == [c \in Consumers |->
                        IF m_message_desc[c].ok
                        THEN <<Unpack(m_message_desc[c].chunks)>> ELSE <<>>]
<1>0. /\ m_message_desc \in [Consumers -> Descriptors]
      /\ now \in StartClock .. MaxClock
      /\ pushing \in Seq([val : Values, size : Sizes, limit : 0 .. Word - 1])
  BY DEF ContentsInv, RingInv, QueueTypeOK
<1>1. ASSUME NEW val \in Values, NEW size \in Sizes, Push(val, size)
      PROVE  F!FifoPush
  <2> DEFINE msg == [val |-> val, size |-> size, ts |-> now]
  <2>1. msg \in [val : Values, size : Sizes, ts : StartClock .. MaxClock]
    BY <1>0
  <2>2. log' = log \/ log' = Append(log, msg)
    BY <1>1 DEF Push
  <2> HIDE DEF msg
  <2>3. View' = View
    BY <1>1 DEF Push
  <2> QED BY <2>1, <2>2, <2>3 DEF F!FifoPush, F!Accepted
<1>2. CASE PushGivesUp
  BY <1>2 DEF PushGivesUp, F!fifoVars
<1>3. CASE PushDiscards
  <2> DEFINE msg == [val |-> pushing[1].val, size |-> pushing[1].size, ts |-> now]
  <2>1. msg \in [val : Values, size : Sizes, ts : StartClock .. MaxClock]
    BY <1>0, <1>3, LoopTyped DEF PushDiscards
  <2>2. log # <<>> /\ Timeout > 0
    <3>1. q.count > 0
      BY <1>3, QueueIsRing DEF PushDiscards, Expired, empty, ContentsInv, Queues
    <3> QED BY <1>3, <3>1, FirstIsHead DEF PushDiscards, ContentsInv
  <2>3. log' = Tail(log) \/ log' = Append(Tail(log), msg)
    BY <1>3, <2>2 DEF PushDiscards, Removed
  <2> HIDE DEF msg
  <2>4. View' = View
    BY <1>3 DEF PushDiscards
  <2>5. F!FifoDiscard
    BY <2>1, <2>2, <2>3, <2>4 DEF F!FifoDiscard, F!Accepted
  <2> QED BY <2>5 DEF F!FifoNext
<1>4. ASSUME NEW c \in Consumers, Get(c) PROVE F!FifoGet(c)
  <2>1. /\ log' = log /\ q.count > 0
        /\ m_message_desc' = [m_message_desc EXCEPT ![c] = NextMessage(q)]
    BY <1>4 DEF Get
  <2>2. /\ log # <<>> /\ NextMessage(q).ok
        /\ Unpack(NextMessage(q).chunks) = Head(log)
    BY <2>1, FirstIsHead
  <2>3. View' = [View EXCEPT ![c] = <<Head(log)>>]
    BY <1>0, <2>1, <2>2
  <2> QED BY <2>1, <2>2, <2>3 DEF F!FifoGet
<1>5. ASSUME NEW c \in Consumers, Pop(c) PROVE F!FifoPop(c)
  <2>1. /\ log' = Removed /\ q.count > 0
        /\ m_message_desc' = [m_message_desc EXCEPT ![c] = NoMessage]
    BY <1>5 DEF Pop
  <2>2. /\ log # <<>> /\ Unpack(NextMessage(q).chunks) = Head(log)
    BY <2>1, FirstIsHead
  <2>3. View[c] \in {<<>>, <<Head(log)>>}
    BY <2>2 DEF ContentsInv
  <2>4. View' = [View EXCEPT ![c] = <<>>]
    BY <1>0, <2>1 DEF NoMessage
  <2> QED BY <2>1, <2>2, <2>3, <2>4 DEF F!FifoPop, Removed
<1>6. CASE Tick
  BY <1>6 DEF Tick, F!fifoVars
<1>7. CASE UNCHANGED queueVars
  BY <1>7 DEF F!fifoVars
<1> QED BY <1>1, <1>2, <1>3, <1>4, <1>5, <1>6, <1>7 DEF QueueNext, F!FifoNext

(* A simple queue is a FIFO: messages leave in the order they came in and  *)
(* unchanged, whatever the sizes, however often the ring wraps, and with   *)
(* pushes refused in between.                                              *)
THEOREM QueueIsFifo ==
    ASSUME UsedRight
    PROVE  QueueSpec => ImplementsFifo
<1>1. QueueInit => F!FifoInit
  BY DEF QueueInit, F!FifoInit, NoMessage
<1>2. ContentsInv /\ [QueueNext]_queueVars => [F!FifoNext]_(F!fifoVars)
  BY FifoStep
<1> QED BY <1>1, <1>2, ContentsInvariant, PTL
           DEF QueueSpec, ImplementsFifo, F!FifoSpec
-----------------------------------------------------------------------------
(* What Contents, which walks the ring message by message, reads: exactly  *)
(* the messages that are laid out in it.                                   *)
LEMMA ContentsRead ==
    ASSUME NEW s \in Queues(Values), NEW descs, NEW off, Layout(s, descs, off)
    PROVE  Contents(s) = [k \in 1 .. s.count |-> descs[k]]
<1> DEFINE n == s.count
           From(k) == [head |-> Byte(s.head, off[k]), tail |-> s.tail,
                       count |-> n - k, mem |-> s.mem]
           First(k) == [j \in 1 .. k |-> descs[j]]
           Body(f, k) ==
               IF k = 0 THEN [rest |-> s, msgs |-> <<>>]
               ELSE [rest |-> pop_message(f[k - 1].rest, NextMessage(f[k - 1].rest)),
                     msgs |-> Append(f[k - 1].msgs, NextMessage(f[k - 1].rest))]
           walk == [k \in 0 .. n |-> [rest |-> From(k), msgs |-> First(k)]]
           read == CHOOSE f : f = [k \in 0 .. n |-> Body(f, k)]
<1>1. /\ n \in Nat /\ s.head \in Positions /\ Capacity \in Nat \ {0}
      /\ s = [head |-> s.head, tail |-> s.tail, count |-> n, mem |-> s.mem]
  BY RingAssumption DEF Queues
<1>2. Contents(s) = read[n].msgs
  BY DEF Contents
<1>3. walk[0] = Body(walk, 0)
  <2>1. off[0] = 0
    BY DEF Layout
  <2>2. Byte(s.head, 0) = s.head /\ n - 0 = n
    BY <1>1 DEF Byte, Positions
  <2>3. From(0) = s
    BY <1>1, <2>1, <2>2
  <2>4. First(0) = <<>>
    OBVIOUS
  <2>5. walk[0] = [rest |-> From(0), msgs |-> First(0)]
    BY <1>1
  <2> HIDE DEF From, First, walk
  <2> QED BY <2>3, <2>4, <2>5
<1>4. ASSUME NEW k \in 1 .. n PROVE walk[k] = Body(walk, k)
  <2>1. k - 1 \in 0 .. n /\ k \in 0 .. n /\ k # 0 /\ n - (k - 1) # 0
        /\ (n - (k - 1)) - 1 = n - k /\ k - 1 \in Nat /\ k \in Nat /\ (k - 1) + 1 = k
    BY <1>1
  <2> DEFINE before == From(k - 1)
  <2>2. Finds(s, before.head, descs[k])
    BY LayoutGets
  <2>3. NextMessage(before) = descs[k]
    <3>1. before.mem = s.mem /\ before.tail = s.tail /\ empty(before) = FALSE
      BY <2>1 DEF empty
    <3> HIDE DEF before
    <3> QED BY <2>2, <3>1 DEF NextMessage, Finds
  <2>4. pop_message(before, descs[k]) = From(k)
    <3>1. After(descs[k]) = Byte(s.head, off[k])
      BY LayoutNext
    <3>2. /\ before.mem = s.mem /\ before.tail = s.tail
          /\ before.count - 1 = n - k
      BY <2>1
    <3> HIDE DEF before
    <3> QED BY <3>1, <3>2 DEF pop_message, After
  <2>5. Append(First(k - 1), descs[k]) = First(k)
    <3>1. Len(First(k - 1)) = k - 1
      BY <2>1
    <3>2. Append(First(k - 1), descs[k])
             = [j \in 1 .. (k - 1) + 1 |-> IF j <= k - 1 THEN First(k - 1)[j] ELSE descs[k]]
      BY <2>1, <3>1
    <3> QED BY <2>1, <3>2
  <2>6. /\ walk[k - 1].rest = before /\ walk[k - 1].msgs = First(k - 1)
        /\ walk[k] = [rest |-> From(k), msgs |-> First(k)]
    BY <2>1
  <2> HIDE DEF From, First, walk, before
  <2> QED BY <2>1, <2>3, <2>4, <2>5, <2>6
<1>5. \A k \in 0 .. n : k = 0 \/ k \in 1 .. n
  BY <1>1
<1>6. walk = [k \in 0 .. n |-> Body(walk, k)]
  <2>1. \A k \in 0 .. n : walk[k] = Body(walk, k)
    BY <1>3, <1>4, <1>5
  <2>2. walk = [k \in 0 .. n |-> walk[k]]
    OBVIOUS
  <2> HIDE DEF walk, Body
  <2> QED BY <2>1, <2>2
<1>7. walk[n].msgs = First(n)
  BY <1>1
<1> HIDE DEF walk
<1>8. read = [k \in 0 .. n |-> Body(read, k)]
  BY <1>6
<1> HIDE DEF read
<1>9. Nat \subseteq {k \in Nat : k <= n => read[k] = walk[k]}
  <2> DEFINE S == {k \in Nat : k <= n => read[k] = walk[k]}
  <2>1. \A k \in 0 .. n : read[k] = Body(read, k) /\ walk[k] = Body(walk, k)
    <3> HIDE DEF Body
    <3>1. \A k \in 0 .. n : read[k] = Body(read, k)
      BY <1>8
    <3> QED BY <1>3, <1>4, <1>5, <3>1
  <2>2. 0 \in S
    <3>1. 0 \in 0 .. n
      BY <1>1
    <3> QED BY <2>1, <3>1
  <2>3. ASSUME NEW k \in Nat, k \in S PROVE k + 1 \in S
    <3>1. SUFFICES ASSUME k + 1 <= n PROVE read[k + 1] = walk[k + 1]
      BY <2>3
    <3>2. k <= n /\ k + 1 \in 0 .. n /\ k + 1 # 0 /\ (k + 1) - 1 = k
      BY <1>1, <3>1
    <3>3. read[k] = walk[k]
      BY <2>3, <3>2
    <3>4. Body(read, k + 1) = Body(walk, k + 1)
      BY <3>2, <3>3
    <3> QED BY <2>1, <3>2, <3>4
  <2> HIDE DEF S
  <2> QED BY <2>2, <2>3, SetInduction DEF S
<1>10. read[n] = walk[n]
  BY <1>1, <1>9
<1> QED BY <1>2, <1>7, <1>10

(* The ring always holds exactly the accepted messages, in order and       *)
(* unchanged, and the last of them ends at the tail.                       *)
THEOREM RingIsTheLog ==
    ASSUME UsedRight
    PROVE  QueueSpec => []RingHoldsLog
<1>1. ContentsInv => RingHoldsLog
  <2> SUFFICES ASSUME ContentsInv PROVE RingHoldsLog
    OBVIOUS
  <2>1. q \in Queues(Values) /\ q.count \in Nat
    BY QueueIsRing DEF ContentsInv, Queues
  <2>2. PICK descs, off : Fits(q, log, descs, off)
    BY DEF ContentsInv, Stored
  <2>3. Layout(q, descs, off)
    BY <2>2 DEF Fits
  <2>4. Contents(q) = [k \in 1 .. q.count |-> descs[k]]
    BY <2>1, <2>3, ContentsRead
  <2>5. ASSUME NEW k \in 1 .. q.count
        PROVE  Contents(q)[k].ok /\ Unpack(Contents(q)[k].chunks) = log[k]
    <3>1. descs[k].ok
      BY <2>1, <2>3, LayoutReads
    <3> QED BY <2>2, <2>4, <3>1 DEF Fits
  <2>6. ASSUME q.count > 0 PROVE Contents(q)[q.count].next % Capacity = q.tail
    <3>1. PICK k \in 1 .. q.count : k = q.count
      BY <2>1, <2>6
    <3>2. After(descs[k]) = Byte(q.head, off[k])
      BY <2>1, <2>3, LayoutNext
    <3>3. off[k] = UsedBytes(q) /\ Byte(q.head, UsedBytes(q)) = q.tail
      BY <2>1, <2>3, <3>1, LayoutTail DEF Layout
    <3> QED BY <2>4, <3>1, <3>2, <3>3 DEF After
  <2> QED BY <2>2, <2>5, <2>6 DEF RingHoldsLog, Fits
<1> QED BY <1>1, ContentsInvariant, PTL
=============================================================================
