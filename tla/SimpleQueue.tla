---------------------------- MODULE SimpleQueue -----------------------------
(***************************************************************************)
(* simple_queue (queue.cpp:13-492): the queue of the single_* connectors.  *)
(* Head, tail, count and the bytes live in shared memory; a handle keeps   *)
(* only m_message_desc, the message its last get() found, which its next   *)
(* pop() removes without looking again.  The connector calls each of push, *)
(* get and pop under its lock, so get and pop are one step each; between a *)
(* get and the following pop other handles may act.  A push that is        *)
(* refused goes on under the lock with the keepalive loop, one turn of     *)
(* which is a step: only the clock moves between the turns.                *)
(***************************************************************************)
EXTENDS Ring

CONSTANTS Sizes,        \* the sizes of pushed data
          Values,       \* their contents (tag and bytes)
          Consumers,    \* the handles that get and pop
          Timeout,      \* keepalive_timeout, 0 when messages never expire
          StartClock,   \* the clock (seconds since boot) at the start
          MaxClock,     \* bound of the clock
          Word,         \* number of values of an unsigned integer
          Undisturbed   \* TRUE: no push that discards messages comes between
                        \* a get and its pop

ASSUME SimpleQueueAssumption ==
    /\ Sizes \subseteq Nat \ {0}
    /\ Timeout \in Nat /\ StartClock \in Nat /\ MaxClock \in Nat
    /\ StartClock <= MaxClock /\ MaxClock < Word /\ Timeout < Word
    /\ Word \in Nat
    /\ Undisturbed \in BOOLEAN

VARIABLES q,                \* head, tail, count and memory
          pushing,          \* the push in its keepalive loop: a sequence of no
                            \* or one [val, size, limit]
          m_message_desc,   \* the descriptor each consumer caches
          now,              \* the clock of get_timestamp
          log,              \* history: the messages accepted by push and not
                            \* yet removed, oldest first
          discards          \* history: the messages the last step discarded

queueVars == <<q, pushing, m_message_desc, now, log, discards>>

(* base_queue's constructor: clear().                                      *)
QueueInit ==
    /\ q = [head |-> 0, tail |-> 0, count |-> 0, mem |-> {}]
    /\ pushing = <<>>
    /\ m_message_desc = [c \in Consumers |-> NoMessage]
    /\ now = StartClock
    /\ log = <<>> /\ discards = <<>>

empty(s) == s.count = 0

(* Slip: the tail is not wrapped at the end of the ring.                   *)
do_push_slip(s, val, size, ts) ==
    LET made == make_message(s, size, val, ts, 0)
    IN  [ok |-> made.ok,
         q |-> IF made.ok
               THEN [head |-> s.head, tail |-> made.next,
                     count |-> s.count + 1, mem |-> made.mem]
               ELSE [s EXCEPT !.mem = made.mem]]

(* clean_messages() does nothing for a simple queue.                       *)
do_push(s, val, size, ts) ==
    LET made == make_message(s, size, val, ts, 0)
    IN  [ok |-> made.ok,
         q |-> IF made.ok
               THEN [head |-> s.head, tail |-> made.next % Capacity,
                     count |-> s.count + 1, mem |-> made.mem]
               ELSE [s EXCEPT !.mem = made.mem]]

NextMessage(s) == get_message(s.mem, s.head, s.tail, empty(s))

(* Slip: the head is left behind.                                          *)
pop_message_slip(s, desc) == [s EXCEPT !.count = @ - 1]

(* dec_counter changes a counter nobody reads in a simple queue.           *)
pop_message(s, desc) ==
    [head |-> desc.next % Capacity, tail |-> s.tail, count |-> s.count - 1,
     mem |-> s.mem]

(* limit: the subtraction is unsigned, so it wraps when the machine has    *)
(* been up for less than the timeout.                                      *)
Limit(clock) == (clock - Timeout) % Word

Unlocked == pushing = <<>>

(* What is removed is gone from the log: the oldest message.               *)
Removed == IF log = <<>> THEN <<>> ELSE Tail(log)

(* Slip: the age is not looked at.                                         *)
ExpiredSlip(limit) == ~empty(q) /\ NextMessage(q).ok

(* The loop goes on only while there is an oldest message and it is not    *)
(* younger than the limit.                                                 *)
Expired(limit) ==
    LET desc == NextMessage(q)
    IN  ~empty(q) /\ desc.ok /\ desc.chunks[1].ts <= limit

(* push: the first do_push.  When it is refused and a timeout is set, the  *)
(* keepalive loop starts with the limit of this moment.                    *)
Push(val, size) ==
    LET result == do_push(q, val, size, now)
    IN  /\ Unlocked
        /\ (Undisturbed /\ ~result.ok /\ Timeout > 0 /\ Expired(Limit(now)))
              => \A c \in Consumers : ~m_message_desc[c].ok
        /\ q' = result.q
        /\ log' = IF result.ok
                  THEN Append(log, [val |-> val, size |-> size, ts |-> now])
                  ELSE log
        /\ pushing' = IF result.ok \/ Timeout = 0 THEN <<>>
                      ELSE <<[val |-> val, size |-> size, limit |-> Limit(now)]>>
        /\ discards' = <<>>
        /\ UNCHANGED <<m_message_desc, now>>

(* Slip: the loop ends only when the queue is empty.                       *)
PushGivesUpSlip ==
    /\ pushing # <<>>
    /\ ~Expired(pushing[1].limit)
    /\ pushing' = IF empty(q) THEN <<>> ELSE pushing
    /\ discards' = <<>>
    /\ UNCHANGED <<q, m_message_desc, now, log>>

PushGivesUp ==
    /\ pushing # <<>>
    /\ ~Expired(pushing[1].limit)
    /\ pushing' = <<>>
    /\ discards' = <<>>
    /\ UNCHANGED <<q, m_message_desc, now, log>>

(* A turn of the loop: the oldest message is removed and do_push retried.  *)
PushDiscards ==
    /\ pushing # <<>>
    /\ Expired(pushing[1].limit)
    /\ \E desc \in {NextMessage(q)}, m \in {pushing[1]} :
       \E result \in {do_push(pop_message(q, desc), m.val, m.size, now)} :
          /\ q' = result.q
          /\ log' = IF result.ok
                    THEN Append(Removed,
                                [val |-> m.val, size |-> m.size, ts |-> now])
                    ELSE Removed
          /\ pushing' = IF result.ok THEN <<>> ELSE pushing
          /\ discards' = <<Unpack(desc.chunks)>>
    /\ UNCHANGED <<m_message_desc, now>>

Get(c) ==
    /\ Unlocked
    /\ q.count > 0
    /\ m_message_desc' = [m_message_desc EXCEPT ![c] = NextMessage(q)]
    /\ discards' = <<>>
    /\ UNCHANGED <<q, pushing, now, log>>

(* Slip: the cached descriptor is kept for the next pop.                   *)
PopSlip(c) ==
    LET desc == IF m_message_desc[c].ok THEN m_message_desc[c]
                                        ELSE NextMessage(q)
    IN  /\ Unlocked
        /\ q.count > 0
        /\ q' = pop_message(q, desc)
        /\ m_message_desc' = [m_message_desc EXCEPT ![c] = desc]
        /\ log' = Removed /\ discards' = <<>>
        /\ UNCHANGED <<pushing, now>>

Pop(c) ==
    LET desc == IF m_message_desc[c].ok THEN m_message_desc[c]
                                        ELSE NextMessage(q)
    IN  /\ Unlocked
        /\ q.count > 0
        /\ q' = pop_message(q, desc)
        /\ m_message_desc' = [m_message_desc EXCEPT ![c] = NoMessage]
        /\ log' = Removed /\ discards' = <<>>
        /\ UNCHANGED <<pushing, now>>

Tick ==
    /\ now < MaxClock
    /\ now' = now + 1
    /\ discards' = <<>>
    /\ UNCHANGED <<q, pushing, m_message_desc, log>>

QueueNext ==
    \/ \E val \in Values, size \in Sizes : Push(val, size)
    \/ PushGivesUp \/ PushDiscards
    \/ \E c \in Consumers : Get(c) \/ Pop(c)
    \/ Tick

QueueSpec == QueueInit /\ [][QueueNext]_queueVars

(* A push that has started goes on: it runs in its caller's thread.        *)
FairQueueSpec == QueueSpec /\ WF_queueVars(PushGivesUp \/ PushDiscards)
-----------------------------------------------------------------------------
Descriptors == [ok : BOOLEAN, chunks : Seq(Chunks(Values)), next : 0 .. Capacity]

(* The types of the shared fields and of the cached descriptors.           *)
QueueTypeOK ==
    /\ q \in [head : Positions, tail : Positions, count : Nat,
              mem : SUBSET Chunks(Values)]
    /\ pushing \in Seq([val : Values, size : Sizes, limit : 0 .. Word - 1])
    /\ m_message_desc \in [Consumers -> Descriptors]
    /\ now \in StartClock .. MaxClock

(* No byte is written outside the ring: every chunk lies in it, whatever   *)
(* the head, the tail and the count were when it was written, stale        *)
(* descriptors included (message.h:143-165).                               *)
WritesStayInRing ==
    \A c \in q.mem : c.pos + static_size(c.cap) <= Capacity

(* The messages in the ring from the head on, each as NextMessage finds it *)
(* once the ones before it are removed.                                    *)
Contents(s) ==
    LET read[k \in 0 .. s.count] ==
            IF k = 0 THEN [rest |-> s, msgs |-> <<>>]
            ELSE LET before == read[k - 1]
                     desc   == NextMessage(before.rest)
                 IN  [rest |-> pop_message(before.rest, desc),
                      msgs |-> Append(before.msgs, desc)]
    IN  read[s.count].msgs

(* The bytes between the tail and the head.                                *)
FreeBytes(s) ==
    IF s.count = 0 THEN Capacity ELSE (s.head - s.tail) % Capacity

(* A queue that counts no message has no bytes in use: count, head and     *)
(* tail, which push and pop move separately, do not drift apart            *)
(* (queue.h:41-42).                                                        *)
EmptyIsDrained == q.count = 0 => q.head = q.tail

(* The ring holds exactly the accepted messages, in order and unchanged:   *)
(* at each of them static_get_message meets a first chunk with FLG_HEAD    *)
(* (its assert, message.h:199) and the chunk that ends the message, their  *)
(* parts make up the pushed data, and the last message ends at the tail.   *)
RingHoldsLog ==
    LET msgs == Contents(q)
    IN  /\ Len(log) = q.count
        /\ \A k \in 1 .. q.count :
              msgs[k].ok /\ Unpack(msgs[k].chunks) = log[k]
        /\ q.count > 0 => msgs[q.count].next % Capacity = q.tail

(* Two more headers than the data are always enough: a push is refused     *)
(* only when the free bytes, in one region or split by the end of the      *)
(* ring, cannot hold the data and two headers (message.h:133-171).         *)
AcceptsWhenRoom ==
    \A size \in Sizes : FreeBytes(q) >= size + 2 * HeaderSize
                            => MessageParts(q, size) # <<>>

(* A push discards a message only when that has been in the queue for the  *)
(* keepalive timeout (bus.h:26, queue.cpp:251-267).                        *)
DiscardsOnlyOld ==
    \A k \in DOMAIN discards : discards[k].ts + Timeout <= now

(* The keepalive loop ends: each turn makes room or removes a message, so  *)
(* a push returns although other processes wait for its lock.              *)
PushReturns == (pushing # <<>>) ~> (pushing = <<>>)

(* The queue implements the abstract FIFO; what a consumer sees is what    *)
(* unpack makes of the chunks it holds.                                    *)
F == INSTANCE Fifo WITH
        Messages  <- [val : Values, size : Sizes, ts : StartClock .. MaxClock],
        KeepAlive <- Timeout > 0,
        queue     <- log,
        view      <- [c \in Consumers |->
                        IF m_message_desc[c].ok
                        THEN <<Unpack(m_message_desc[c].chunks)>> ELSE <<>>]
ImplementsFifo == F!FifoSpec
=============================================================================
