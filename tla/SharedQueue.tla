---------------------------- MODULE SharedQueue -----------------------------
(***************************************************************************)
(* shared_queue and unreadable_shared_queue (queue.cpp:495-776): the queue *)
(* of the multi_* connectors.  Every message carries a reference counter,  *)
(* set at the push to the number of subscribers and decremented by each    *)
(* reader's pop; a message whose counter is 0 is garbage, and the next     *)
(* push collects the garbage at the head before it looks for room.         *)
(*                                                                         *)
(* A handle is private: its place m_head in the ring (NoPos until its      *)
(* first pop: until then it reads at the queue's own head), and m_counter, *)
(* the value of the shared counter up to which it has read.  A handle is   *)
(* opened, closed and pushes under the connector's exclusive lock; get and *)
(* pop run under its sharable lock, and pop changes shared memory by one   *)
(* atomic decrement.  So each operation is one step.                       *)
(*                                                                         *)
(* keepalive_timeout is 0 here.                                            *)
(***************************************************************************)
EXTENDS Ring, FiniteSets

CONSTANTS Sizes, Values,
          Readers,      \* the shared_queue handles
          Writers,      \* the unreadable_shared_queue handles
          Pushers,      \* the handles that push (or collect garbage)
          Creator,      \* the handle that creates the queue
          Leavers,      \* the handles that may close and open again
          Word,         \* number of values of a 32-bit counter
          LateJoin      \* TRUE: a handle may open while messages are pending

Handles == Readers \cup Writers

ASSUME SharedQueueAssumption ==
    /\ Sizes \subseteq Nat \ {0}
    /\ Readers \cap Writers = {}
    /\ Pushers \subseteq Handles
    /\ Creator \in Handles
    /\ Leavers \subseteq Handles
    /\ Word \in Nat \ {0}
    /\ LateJoin \in BOOLEAN
    \* neither the subscriptions nor the messages that fit wrap a counter
    /\ IsFiniteSet(Readers) /\ Cardinality(Readers) < Word
    /\ Capacity < Word * static_size(1)

VARIABLES q,                \* head, tail, count and memory of base_queue
          counter,          \* the number of messages ever pushed
          subscriptions,    \* the count of subscriptions
          stage,            \* of each handle: closed or open
          m_head, m_counter, m_message_desc,    \* private to each handle
          inbox,            \* history: the messages pushed while the reader
                            \* was subscribed and not yet popped by it
          abandoned         \* history: a reader has closed with messages left

sharedVars == <<q, counter, subscriptions, stage, m_head, m_counter,
                m_message_desc, inbox, abandoned>>

NoPos == -1

SharedInit ==
    /\ q = [head |-> 0, tail |-> 0, count |-> 0, mem |-> {}]
    /\ counter = 0
    /\ subscriptions = IF Creator \in Readers THEN 1 ELSE 0
    /\ stage = [h \in Handles |-> IF h = Creator THEN "open" ELSE "closed"]
    /\ m_head = [h \in Handles |-> NoPos]
    /\ m_counter = [h \in Handles |-> 0]
    /\ m_message_desc = [h \in Handles |-> NoMessage]
    /\ inbox = [r \in Readers |-> <<>>]
    /\ abandoned = FALSE

(* Some message has not been popped by everyone it was counted for.        *)
Pending == \E c \in q.mem : c.head /\ c.counter > 0

-----------------------------------------------------------------------------
(* The constructor on an existing queue and the destructor.                *)

inc_subscriptions_count(h) ==
    IF h \in Readers THEN subscriptions + 1 ELSE subscriptions

(* Slip: the subscription of a destroyed handle stays.                     *)
dec_subscriptions_count_slip(h) == subscriptions

dec_subscriptions_count(h) ==
    IF h \in Readers THEN subscriptions - 1 ELSE subscriptions

Open(h) ==
    /\ stage[h] = "closed"
    /\ ~LateJoin => ~Pending
    /\ stage' = [stage EXCEPT ![h] = "open"]
    /\ m_head' = [m_head EXCEPT ![h] = NoPos]
    /\ m_counter' = [m_counter EXCEPT ![h] = counter]
    /\ subscriptions' = inc_subscriptions_count(h)
    /\ UNCHANGED <<q, counter, m_message_desc, inbox, abandoned>>

Close(h) ==
    /\ stage[h] = "open" /\ h \in Leavers
    /\ stage' = [stage EXCEPT ![h] = "closed"]
    /\ subscriptions' = dec_subscriptions_count(h)
    /\ m_head' = [m_head EXCEPT ![h] = NoPos]       \* the object is gone
    /\ m_counter' = [m_counter EXCEPT ![h] = 0]
    /\ m_message_desc' = [m_message_desc EXCEPT ![h] = NoMessage]
    /\ inbox' = [r \in Readers |-> IF r = h THEN <<>> ELSE inbox[r]]
    /\ abandoned' = (abandoned \/ inbox' # inbox)
    /\ UNCHANGED <<q, counter>>

-----------------------------------------------------------------------------
(* Slip: a reader always reads at the queue's own head.                    *)
head_slip(h) == q.head

head(h) == IF m_head[h] # NoPos THEN m_head[h] ELSE q.head

count(h) == (counter - m_counter[h]) % Word

(* Slip: the garbage is collected behind the first live message as well.   *)
ReleasesSlip(desc) == desc.ok

(* A message is collected when nobody has still to pop it.                 *)
Releases(desc) == desc.ok /\ desc.chunks[1].counter = 0

Collect(s, desc) ==
    [head |-> desc.next % Capacity, tail |-> s.tail, count |-> s.count - 1,
     mem |-> s.mem]

(* The loop of clean_messages, as the queue it leaves: it reads at the     *)
(* queue's own head; e is what empty() says there.                         *)
Sweep(s, e) ==
    LET swept[k \in 0 .. s.count] ==
            IF k = 0 THEN [s |-> s, stop |-> FALSE]
            ELSE LET before == swept[k - 1]
                     desc == get_message(before.s.mem, before.s.head,
                                         before.s.tail, e)
                 IN  IF before.stop \/ ~Releases(desc)
                     THEN [s |-> before.s, stop |-> TRUE]
                     ELSE [s |-> Collect(before.s, desc), stop |-> FALSE]
    IN  swept[s.count].s

(* m_counter is decremented meanwhile, so that empty() is false.           *)
Clean(s, h) == Sweep(s, (count(h) + 1) % Word = 0)

(* unreadable_shared_queue adds the number of collected messages to its    *)
(* m_counter.                                                              *)
CountCleaned(h, cleaned) ==
    [m_counter EXCEPT ![h] = IF h \in Writers THEN (@ + cleaned) % Word ELSE @]

(* A bound of the model: a handle whose count() has reached Word - 1, that  *)
(* is 2^32 - 1 messages collected by other handles, collects no more; from *)
(* there on the empty() of clean_messages would be wrong.                  *)
LagBounded(h) == count(h) < Word - 1

clean(h) ==
    /\ stage[h] = "open" /\ h \in Pushers
    /\ LagBounded(h)
    /\ q' = Clean(q, h)
    /\ m_counter' = CountCleaned(h, q.count - q'.count)
    /\ UNCHANGED <<counter, subscriptions, stage, m_head, m_message_desc, inbox,
                   abandoned>>

(* do_push of the base class with the overridden push_message, both when   *)
(* there is room and when the push is refused.                             *)
Push(h, val, size) ==
    LET cleaned == Clean(q, h)
        made    == make_message(cleaned, size, val, 0, subscriptions)
        msg     == [val |-> val, size |-> size, ts |-> 0]
    IN  /\ stage[h] = "open" /\ h \in Pushers
        /\ LagBounded(h)
        /\ m_counter' = CountCleaned(h, q.count - cleaned.count)
        /\ q' = IF made.ok
                THEN [cleaned EXCEPT !.mem = made.mem,
                                     !.tail = made.next % Capacity,
                                     !.count = @ + 1]
                ELSE [cleaned EXCEPT !.mem = made.mem]
        /\ counter' = IF made.ok THEN (counter + 1) % Word ELSE counter
        /\ inbox' = [r \in Readers |->
                        IF made.ok /\ stage[r] = "open"
                        THEN Append(inbox[r], msg) ELSE inbox[r]]
        /\ UNCHANGED <<subscriptions, stage, m_head, m_message_desc, abandoned>>

NextMessage(h) == get_message(q.mem, head(h), q.tail, count(h) = 0)

Get(h) ==
    /\ stage[h] = "open" /\ h \in Readers
    /\ count(h) > 0
    /\ m_message_desc' = [m_message_desc EXCEPT ![h] = NextMessage(h)]
    /\ UNCHANGED <<q, counter, subscriptions, stage, m_head, m_counter, inbox,
                   abandoned>>

(* dec_counter of the message at desc, in shared memory.                   *)
dec_counter(mem, desc) ==
    {IF c.pos = desc.chunks[1].pos
     THEN [c EXCEPT !.counter = (@ - 1) % Word] ELSE c : c \in mem}

(* Slip: the reference counter is not decremented.                         *)
PopSlip(h) ==
    LET desc == IF m_message_desc[h].ok THEN m_message_desc[h]
                                        ELSE NextMessage(h)
    IN  /\ stage[h] = "open" /\ h \in Readers
        /\ count(h) > 0
        /\ m_head' = [m_head EXCEPT ![h] = desc.next % Capacity]
        /\ m_counter' = [m_counter EXCEPT ![h] = (@ + 1) % Word]
        /\ m_message_desc' = [m_message_desc EXCEPT ![h] = NoMessage]
        /\ inbox' = [inbox EXCEPT ![h] = IF @ = <<>> THEN @ ELSE Tail(@)]
        /\ UNCHANGED <<q, counter, subscriptions, stage, abandoned>>

Pop(h) ==
    LET desc == IF m_message_desc[h].ok THEN m_message_desc[h]
                                        ELSE NextMessage(h)
    IN  /\ stage[h] = "open" /\ h \in Readers
        /\ count(h) > 0
        /\ q' = [q EXCEPT !.mem = dec_counter(@, desc)]
        /\ m_head' = [m_head EXCEPT ![h] = desc.next % Capacity]
        /\ m_counter' = [m_counter EXCEPT ![h] = (@ + 1) % Word]
        /\ m_message_desc' = [m_message_desc EXCEPT ![h] = NoMessage]
        /\ inbox' = [inbox EXCEPT ![h] = IF @ = <<>> THEN @ ELSE Tail(@)]
        /\ UNCHANGED <<counter, subscriptions, stage, abandoned>>

SharedNext ==
    \E h \in Handles :
        \/ Open(h) \/ Close(h)
        \/ clean(h)
        \/ \E val \in Values, size \in Sizes : Push(h, val, size)
        \/ Get(h) \/ Pop(h)

SharedSpec == SharedInit /\ [][SharedNext]_sharedVars
-----------------------------------------------------------------------------
(* The messages in the ring from position hd on, n of them.                *)
Contents(hd, n) ==
    LET read[k \in 0 .. n] ==
            IF k = 0 THEN [hd |-> hd, msgs |-> <<>>]
            ELSE LET before == read[k - 1]
                     desc   == get_message(q.mem, before.hd, q.tail, FALSE)
                 IN  [hd   |-> desc.next % Capacity,
                      msgs |-> Append(before.msgs, desc)]
    IN  read[n].msgs

(* The types of the shared and private fields.                             *)
SharedTypeOK ==
    /\ q.head \in Positions /\ q.tail \in Positions /\ q.count \in Nat
    /\ counter \in 0 .. Word - 1
    /\ subscriptions \in 0 .. Cardinality(Readers)
    /\ stage \in [Handles -> {"closed", "open"}]
    /\ m_head \in [Handles -> Positions \cup {NoPos}]
    /\ m_counter \in [Handles -> 0 .. Word - 1]

(* Every reader's private place in the ring is right: count() is the       *)
(* number of messages it has not popped, and from its head it reads those  *)
(* messages, in order and unchanged, although the queue's own head, the    *)
(* tail and the other readers move independently.                          *)
ReadersSeeInbox ==
    \A r \in Readers : stage[r] = "open" =>
        LET msgs == Contents(head(r), Len(inbox[r]))
        IN  /\ count(r) = Len(inbox[r])
            /\ \A k \in DOMAIN msgs :
                  msgs[k].ok /\ Unpack(msgs[k].chunks) = inbox[r][k]

(* The number of readers that have not popped the k-th message in the ring.*)
Owing(k) == {r \in Readers : Len(inbox[r]) > q.count - k}

(* The reference counter of every message in the ring is at least the      *)
(* number of readers that have still to pop it, so that it is not          *)
(* collected before the last of them (queue.cpp:629), and exactly that     *)
(* number as long as no reader has closed with messages left.  So the      *)
(* assert of pop_message, that there is a count to decrement, holds        *)
(* (queue.cpp:680).                                                        *)
RefCountExact ==
    /\ SharedTypeOK
    /\ LET msgs == Contents(q.head, q.count)
       IN  \A k \in 1 .. q.count :
               /\ msgs[k].ok
               /\ msgs[k].chunks[1].counter >= Cardinality(Owing(k))
               /\ ~abandoned =>
                     msgs[k].chunks[1].counter = Cardinality(Owing(k))

(* What a reader holds between get and pop is neither collected nor        *)
(* overwritten by the pushes of other handles.                             *)
HeldIntact ==
    \A r \in Readers : \A i \in DOMAIN m_message_desc[r].chunks :
        LET held == m_message_desc[r].chunks[i]
        IN  \E c \in q.mem : [c EXCEPT !.counter = 0] = [held EXCEPT !.counter = 0]

(* Once every reader has popped everything, and none has closed with       *)
(* messages left, the garbage collection of the next push by any handle    *)
(* gives the whole ring back.                                              *)
DrainedIsReclaimed ==
    (~abandoned /\ (\A r \in Readers : inbox[r] = <<>>)) =>
        \A h \in Pushers :
            (stage[h] = "open" /\ LagBounded(h)) => Clean(q, h).count = 0

(* The shared queue implements the broadcast.                              *)
B == INSTANCE Broadcast WITH
        Messages <- [val : Values, size : Sizes, ts : {0}],
        members  <- {r \in Readers : stage[r] = "open"},
        inbox    <- inbox,
        view     <- [r \in Readers |->
                        IF m_message_desc[r].ok
                        THEN <<Unpack(m_message_desc[r].chunks)>> ELSE <<>>]
ImplementsBroadcast == B!CastSpec
=============================================================================
