-------------------------------- MODULE Ring --------------------------------
(***************************************************************************)
(* The byte ring under every queue (base_queue's regions, queue.cpp:281-   *)
(* 325) and the layout of messages in it (message.h:133-211).              *)
(*                                                                         *)
(* A message is one or two chunks.  A chunk is a header of HeaderSize      *)
(* bytes followed by cap bytes of payload; it never wraps round the end of *)
(* the ring, so a message that does not fit before the end is split, or    *)
(* the bytes before the end are skipped when they cannot hold a header and *)
(* a byte.  Memory is the set of the chunks whose bytes are intact: a      *)
(* write removes every chunk it touches, and to read where no chunk starts *)
(* is to read garbage.  The payload is abstracted to a value val, the part *)
(* a chunk carries to its offset off.                                      *)
(***************************************************************************)
EXTENDS Integers, Sequences

CONSTANTS Capacity,     \* the bytes of the ring
          HeaderSize    \* base_message::HEADER_SIZE

ASSUME RingAssumption ==
    /\ Capacity \in Nat \ {0}
    /\ HeaderSize \in Nat \ {0}

Positions == 0 .. Capacity - 1

Region(first, second) == [first |-> first, second |-> second]

static_size(cap) == HeaderSize + cap

(* Slip: the header is forgotten.                                          *)
static_capacity_slip(size) == size

static_capacity(size) == IF size > HeaderSize THEN size - HeaderSize ELSE 0

-----------------------------------------------------------------------------
(* Free regions of a queue q with fields head, tail and count.             *)

(* Slip: a full queue (head = tail) is taken for an empty one.             *)
first_free_region_slip(q) ==
    IF q.head <= q.tail THEN Region(q.tail, Capacity - q.tail)
                        ELSE Region(q.tail, q.head - q.tail)

first_free_region(q) ==
    IF q.count = 0 \/ q.head < q.tail
    THEN Region(q.tail, Capacity - q.tail)
    ELSE Region(q.tail, q.head - q.tail)

(* Slip: no wrap at the end of the ring.                                   *)
next_free_region_slip(q, prev) ==
    LET tl == prev.first + prev.second
    IN  IF q.head < tl THEN Region(tl, Capacity - tl)
                       ELSE Region(tl, q.head - tl)

next_free_region(q, prev) ==
    LET tl == (prev.first + prev.second) % Capacity
    IN  IF q.head < tl THEN Region(tl, Capacity - tl)
                       ELSE Region(tl, q.head - tl)

(* The parts, as [pos, cap], into which static_make_message divides a      *)
(* message of size bytes: <<>> when it does not fit.  Its loop sees at     *)
(* most two non-empty regions (RingProofs, ThirdRegionEmpty).              *)
MessageParts(q, size) ==
    LET r1 == first_free_region(q)
        r2 == next_free_region(q, r1)
        c1 == static_capacity(r1.second)
        c2 == static_capacity(r2.second)
        Part(r, n) == [pos |-> r.first, cap |-> n]
    IN  IF size <= c1 THEN <<Part(r1, size)>>
        ELSE IF size > c1 + c2 THEN <<>>
        ELSE IF c1 = 0 THEN <<Part(r2, size)>>
        ELSE <<Part(r1, c1), Part(r2, size - c1)>>

(* The headers a push that does not fit has already written when it finds  *)
(* out: one in every region that can hold a chunk.                         *)
WastedHeaders(q) ==
    LET r1 == first_free_region(q)
        r2 == next_free_region(q, r1)
    IN  {r.first : r \in {s \in {r1, r2} : s.second > HeaderSize}}

-----------------------------------------------------------------------------
(* Memory.                                                                 *)

Chunks(V) == [pos : Positions, cap : Nat, head : BOOLEAN, tail : BOOLEAN,
              val : V, off : Nat, ts : Nat, counter : Nat]

Touches(c, first, last) == c.pos <= last /\ first < c.pos + static_size(c.cap)

Erase(mem, first, size) == {c \in mem : ~Touches(c, first, first + size - 1)}

(* The constructor of base_message writes a header with no flags, pack     *)
(* then the payload and the flags.                                         *)
WriteChunk(mem, c) == Erase(mem, c.pos, static_size(c.cap)) \cup {c}

EraseHeaders(mem, firsts) ==
    {c \in mem : \A f \in firsts : ~Touches(c, f, f + HeaderSize - 1)}

(* The chunks of a message written into parts.  The tag, the reference     *)
(* counter and the time stamp that are ever read are those of the first    *)
(* chunk; the second has a time stamp of its own and counter 0.            *)
MessageChunks(parts, val, ts, counter) ==
    [i \in DOMAIN parts |->
        [pos |-> parts[i].pos, cap |-> parts[i].cap,
         head |-> i = 1, tail |-> i = Len(parts),
         val |-> val, off |-> IF i = 1 THEN 0 ELSE parts[1].cap,
         ts |-> ts, counter |-> IF i = 1 THEN counter ELSE 0]]

WriteMessage(mem, chunks) ==
    IF Len(chunks) = 1 THEN WriteChunk(mem, chunks[1])
                       ELSE WriteChunk(WriteChunk(mem, chunks[1]), chunks[2])

(* static_make_message, the value and the tail it returns included.        *)
make_message(q, size, val, ts, counter) ==
    LET parts  == MessageParts(q, size)
        chunks == MessageChunks(parts, val, ts, counter)
        last   == chunks[Len(chunks)]
    IN  IF parts = <<>>
        THEN [ok |-> FALSE, mem |-> EraseHeaders(q.mem, WastedHeaders(q)),
              next |-> 0]
        ELSE [ok |-> TRUE, mem |-> WriteMessage(q.mem, chunks),
              next |-> last.pos + static_size(last.cap)]

-----------------------------------------------------------------------------
(* Busy regions between hd, the reader's head, and tl; e is empty().       *)

first_busy_region(hd, tl, e) ==
    IF e \/ hd < tl THEN Region(hd, tl - hd) ELSE Region(hd, Capacity - hd)

next_busy_region(tl, prev) ==
    LET hd == (prev.first + prev.second) % Capacity
    IN  IF hd < tl THEN Region(hd, tl - hd) ELSE Region(hd, Capacity - hd)

(* The inner loop of static_get_message: a region too small for a chunk is *)
(* skipped.  Two small regions in a row do not occur in a sound queue.     *)
SkipSmall(tl, r) ==
    IF r.second > HeaderSize THEN r ELSE next_busy_region(tl, r)

ChunksAt(mem, pos) == {c \in mem : c.pos = pos}

NoMessage == [ok |-> FALSE, chunks |-> <<>>, next |-> 0]

(* static_get_message.  It returns null at an empty region, which only the *)
(* first one can be.  Where it would read garbage (no chunk starts there,  *)
(* a first chunk without FLG_HEAD, a second one that does not end the      *)
(* message) the result is NoMessage.                                       *)
get_message(mem, hd, tl, e) ==
    LET r0 == first_busy_region(hd, tl, e)
        r1 == SkipSmall(tl, r0)
        r2 == SkipSmall(tl, next_busy_region(tl, r1))
        End(r, c) == r.first + static_size(c.cap)
    IN  IF r0.second # 0 /\ \E c \in ChunksAt(mem, r1.first) : c.head
        THEN LET c1 == CHOOSE c \in ChunksAt(mem, r1.first) : TRUE
             IN  IF c1.tail
                 THEN [ok |-> TRUE, chunks |-> <<c1>>, next |-> End(r1, c1)]
                 ELSE IF \E c \in ChunksAt(mem, r2.first) : c.tail
                 THEN LET c2 == CHOOSE c \in ChunksAt(mem, r2.first) : TRUE
                      IN  [ok |-> TRUE, chunks |-> <<c1, c2>>,
                           next |-> End(r2, c2)]
                 ELSE NoMessage
        ELSE NoMessage

(* What a reader of chunks receives from unpack, data_size and timestamp.  *)
(* The value is that of the pushed data when the chunks carry its          *)
(* consecutive parts.                                                      *)
Unpack(chunks) ==
    [val  |-> IF \A c \in {chunks[i] : i \in DOMAIN chunks} :
                    /\ c.val = chunks[1].val
                    /\ c.off = IF c.head THEN 0 ELSE chunks[1].cap
              THEN chunks[1].val ELSE "garbled",
     size |-> IF Len(chunks) = 1 THEN chunks[1].cap
                                 ELSE chunks[1].cap + chunks[2].cap,
     ts   |-> chunks[1].ts]
=============================================================================
