----------------------------- MODULE SmartQueue -----------------------------
(***************************************************************************)
(* smart_shared_queue (queue.cpp:778-1066): a shared queue whose handles   *)
(* come and go.  Every handle reads and pushes; it does not see its own    *)
(* messages.  It announces itself with a CONNECT message and takes leave   *)
(* with a DISCONNECT message, for which space is set aside: an ordinary    *)
(* push may only use what free_space leaves above the reserve, two service *)
(* messages per subscription.  A service message that does not fit is      *)
(* tried again until it does, under the exclusive lock of the connector.   *)
(*                                                                         *)
(* A queue created for a parent queue (a larger connector of the same bus) *)
(* holds a BOOK message and a subscription for every other subscriber of   *)
(* the parent, which opens the new queue later and must find there all     *)
(* that was pushed in between.                                             *)
(*                                                                         *)
(* This extends the model of base_shared_queue in SharedQueue, of which    *)
(* Writers is empty; a handle stands for a process, whose sid it has.  A   *)
(* handle pops only what its last get has returned: pop() on its own       *)
(* dereferences null when only own messages are left.                      *)
(***************************************************************************)
EXTENDS SharedQueue, SequencesExt

CONSTANTS Booked,       \* the handles a child queue has places for
          MaxMessages,  \* bound of the number of messages ever pushed
          Space         \* number of values of free_space, a uint32_t

ASSUME SmartAssumption ==
    /\ Writers = {} /\ Booked \subseteq Readers \ {Creator}
    /\ Space \in Nat /\ Space > Capacity
    /\ MaxMessages \in Nat
    \* Capacity is below 2^32 and no message smaller than two bytes, so that
    \* the messages that fit do not even reach the largest number
    /\ Capacity < (Word - 1) * static_size(1)
    /\ static_size(1) * (Cardinality(Booked) + 1) <= Capacity

VARIABLES free_space,
          child,        \* the queue has been created for a parent
          squeezed,     \* history: the reserve has not been there, after a
                        \* CONNECT or in a child queue from the start
          torn          \* history: a message has been pushed that no reader
                        \* finds whole (see Torn)

smartVars == <<sharedVars, free_space, child, squeezed, torn>>

Val(h, kind) == [sid |-> h, kind |-> kind]
Codes == {"CONNECT", "DISCONNECT", "BOOK"}

IsOrdinary(msg) == msg.chunks[1].val.kind \notin Codes

-----------------------------------------------------------------------------
(* Room for a message.                                                     *)

(* Slip: one service message per subscription.                             *)
reserved_space_slip(subs) == static_size(1) * subs

reserved_space(subs) == 2 * static_size(1) * subs

NoRegion == Region(0, 0)

(* available_space is unsigned: when the free space is below the reserve   *)
(* it is huge and limits nothing.  Only the region before is counted, not  *)
(* the regions before that one.                                            *)
get_free_region(s, space, special, prev) ==
    LET base == IF prev = NoRegion THEN first_free_region(s)
                                   ELSE next_free_region(s, prev)
        over == base.second + prev.second
                    - (space - reserved_space(subscriptions))
    IN  IF special \/ space < reserved_space(subscriptions) \/ over <= 0
        THEN base ELSE Region(base.first, base.second - over)

(* The loop of static_make_message over these regions, as often as it      *)
(* finds a byte: the parts it has made, what is left of the data, and the  *)
(* number of regions it has looked at.                                     *)
Placed(s, space, special, size) ==
    LET place[k \in 0 .. Capacity] ==
            IF k = 0
            THEN [prev |-> NoRegion, parts |-> <<>>, rest |-> size, regions |-> 0]
            ELSE LET before == place[k - 1]
                     r == get_free_region(s, space, special, before.prev)
                     room == static_capacity(r.second)
                     part == IF room < before.rest THEN room ELSE before.rest
                 IN  IF before.rest = 0 \/ r.second = 0 THEN before
                     ELSE [prev    |-> r,
                           parts   |-> IF part = 0 THEN before.parts
                                       ELSE Append(before.parts,
                                              [pos |-> r.first, cap |-> part]),
                           rest    |-> before.rest - part,
                           regions |-> k]
    IN  place[Capacity]

total_size(chunks) ==
    FoldLeft(LAMBDA sum, c : sum + static_size(c.cap), 0, chunks)

SizeOf(msgs) == FoldLeft(LAMBDA sum, m : sum + total_size(m.chunks), 0, msgs)

(* The chunks of a message do not overlap one another.  The offset of a    *)
(* third one is never looked at.                                           *)
Written(mem, chunks) ==
    {c \in mem : \A i \in DOMAIN chunks :
        ~Touches(c, chunks[i].pos, chunks[i].pos + static_size(chunks[i].cap) - 1)}
    \cup {chunks[i] : i \in DOMAIN chunks}

(* Slip: the space of the collected garbage is not given back.             *)
Freed_slip(s, gone) == [s |-> s, space |-> free_space]

(* The free space grows by what has been collected.  The chunks of the     *)
(* garbage are dropped: who would still read them is as lost as with bytes *)
(* that are no chunk.                                                      *)
Freed(s, gone) ==
    [s |-> [s EXCEPT !.mem = @ \ UNION {Range(gone[k].chunks) :
                                            k \in DOMAIN gone}],
     space |-> (free_space + SizeOf(gone)) % Space]

Collected(s) == Freed(s, Contents(q.head, q.count - s.count))

clean_messages(e) == Collected(Sweep(q, e))

(* push_message: the queue and the free space it leaves, of those that     *)
(* clean_messages has left.                                                *)
PushRefused(cleaned, placed) ==
    [ok |-> FALSE, regions |-> placed.regions, space |-> cleaned.space,
     q |-> [cleaned.s EXCEPT !.mem =
                EraseHeaders(@, {placed.parts[i].pos : i \in DOMAIN placed.parts})]]

PushStored(cleaned, placed, chunks) ==
    [ok |-> TRUE, regions |-> placed.regions, chunks |-> chunks,
     space |-> (cleaned.space - total_size(chunks)) % Space,
     q |-> [cleaned.s EXCEPT
                !.mem = Written(@, chunks),
                !.tail = (Last(chunks).pos + static_size(Last(chunks).cap))
                            % Capacity,
                !.count = @ + 1]]

push_message(cleaned, placed, val) ==
    IF placed.rest > 0 THEN PushRefused(cleaned, placed)
    ELSE PushStored(cleaned, placed,
                    MessageChunks(placed.parts, val, 0, subscriptions))

PushOnto(cleaned, special, val, size) ==
    push_message(cleaned, Placed(cleaned.s, cleaned.space, special, size), val)

(* do_push of a message, ordinary or special.                              *)
do_push(e, special, val, size) ==
    PushOnto(clean_messages(e), special, val, size)

-----------------------------------------------------------------------------
(* Nobody else is inside with the exclusive lock, trying to push a service *)
(* message.                                                                *)
Unlocked(h) == \A g \in Readers \ {h} : stage[g] \notin {"joining", "leaving"}

Enter(h, stages) == stage[h] \in stages /\ Unlocked(h)

(* A push that has been refused may have collected garbage and spoilt free *)
(* bytes.                                                                  *)
Refused(pushed) ==
    /\ q' = pushed.q /\ free_space' = pushed.space
    /\ UNCHANGED <<counter, subscriptions, m_head, m_counter, m_message_desc,
                   inbox, abandoned, child, squeezed, torn>>

Stored(pushed) ==
    /\ counter < MaxMessages
    /\ free_space' = pushed.space
    /\ counter' = (counter + 1) % Word

(* The messages h has still to read.                                       *)
Unread(h) == Contents(head(h), count(h))

(* pop_message of msgs: the reference counter of each is decremented.      *)
dec_counters(mem, msgs) ==
    LET firsts == {msgs[i].chunks[1].pos : i \in DOMAIN msgs}
    IN  {IF c.pos \in firsts THEN [c EXCEPT !.counter = (@ - 1) % Word] ELSE c :
            c \in mem}

(* The place of h after it has popped msgs, the first ones it has to read. *)
Advance(h, msgs) ==
    IF msgs = <<>> THEN UNCHANGED <<m_head, m_counter>>
    ELSE /\ m_head' = [m_head EXCEPT ![h] = Last(msgs).next % Capacity]
         /\ m_counter' = [m_counter EXCEPT ![h] = (@ + Len(msgs)) % Word]

-----------------------------------------------------------------------------
(* The constructors.                                                       *)

(* The messages in a new queue: a BOOK for every handle of booked, and the *)
(* creator's CONNECT, which none but those will read.                      *)
Bookings(booked) ==
    LET n == Cardinality(booked)
    IN  [i \in 1 .. n + 1 |->
            MessageChunks(<<[pos |-> (i - 1) * static_size(1), cap |-> 1]>>,
                          Val(Creator, IF i <= n THEN "BOOK" ELSE "CONNECT"),
                          0, n)[1]]

(* The free space of a child queue is not set: the memory is zero.         *)
Created(booked) ==
    LET chunks == Bookings(booked)
        used   == total_size(chunks)
        n      == Len(chunks)
    IN  /\ q = [head |-> 0, tail |-> used % Capacity, count |-> n,
                mem |-> {chunks[i] : i \in 1 .. n}]
        /\ counter = n % Word
        /\ subscriptions = n
        /\ free_space = ((IF child THEN 0 ELSE Capacity) - used) % Space
        /\ stage = [h \in Readers |-> CASE h = Creator -> "open"
                                        [] h \in booked -> "booked"
                                        [] OTHER -> "closed"]
        /\ m_head = [h \in Readers |-> IF h = Creator THEN q.tail ELSE NoPos]
        /\ m_counter = [h \in Readers |-> IF h = Creator THEN counter ELSE 0]

SmartInit ==
    /\ \/ child = FALSE /\ Created({})
       \/ child = TRUE /\ Created(Booked)
    /\ m_message_desc = [h \in Readers |-> NoMessage]
    /\ inbox = [h \in Readers |-> <<>>]
    /\ abandoned = FALSE
    /\ squeezed = (child \/ free_space < reserved_space(1))
    /\ torn = FALSE

(* Slip: the new handle starts at the head of the queue.                   *)
JoinedHeadSlip(pushed) == pushed.q.head

JoinedHead(pushed) == pushed.q.tail

(* The constructor on an existing queue, initialize() included.  The       *)
(* connector opens the queue only while somebody else has it open.         *)
Join(h) ==
    /\ Enter(h, {"closed", "joining"}) /\ subscriptions > 0
    /\ \E pushed \in {do_push(FALSE, TRUE, Val(h, "CONNECT"), 1)} :
        /\ pushed.ok
        /\ Stored(pushed)
        /\ q' = pushed.q
        /\ subscriptions' = subscriptions + 1
        /\ stage' = [stage EXCEPT ![h] = "open"]
        /\ m_head' = [m_head EXCEPT ![h] = JoinedHead(pushed)]
        /\ m_counter' = [m_counter EXCEPT ![h] = counter']
        /\ squeezed' = (squeezed \/ pushed.space < reserved_space(subscriptions + 1))
        /\ UNCHANGED <<m_message_desc, inbox, abandoned, child, torn>>

JoinSpins(h) ==
    /\ Enter(h, {"closed", "joining"}) /\ subscriptions > 0
    /\ \E pushed \in {do_push(FALSE, TRUE, Val(h, "CONNECT"), 1)} :
        /\ ~pushed.ok
        /\ Refused(pushed)
        /\ stage' = [stage EXCEPT ![h] = "joining"]

(* The constructor on a child queue, in which h has a place: it pops the   *)
(* BOOK messages and the one after them.                                   *)
OpenBooked(h) ==
    /\ Enter(h, {"booked"})
    /\ \E booked \in {SubSeq(Unread(h), 1, Cardinality(Booked) + 1)} :
        /\ q' = [q EXCEPT !.mem = dec_counters(@, booked)]
        /\ Advance(h, booked)
    /\ stage' = [stage EXCEPT ![h] = "open"]
    /\ UNCHANGED <<counter, subscriptions, m_message_desc, inbox, abandoned,
                   free_space, child, squeezed, torn>>

-----------------------------------------------------------------------------
(* The destructor.                                                         *)

LeavePush(h) ==
    do_push((count(h) + 1) % Word = 0, TRUE, Val(h, "DISCONNECT"), 1)

(* The DISCONNECT just pushed, which ends at the tail.                     *)
OwnDisconnect(pushed) ==
    [ok |-> TRUE, next |-> pushed.q.tail, chunks |-> pushed.chunks]

(* Slip: the handle's unread messages are not popped.                      *)
LeftSlip(h, pushed) == <<OwnDisconnect(pushed)>>

(* The messages the destructor pops: all that h has not read, up to the    *)
(* DISCONNECT.                                                             *)
Left(h, pushed) == Append(Unread(h), OwnDisconnect(pushed))

Leave(h) ==
    /\ Enter(h, {"open", "leaving"}) /\ h \in Leavers
    /\ \E pushed \in {LeavePush(h)} :
        /\ pushed.ok
        /\ Stored(pushed)
        /\ q' = [pushed.q EXCEPT !.mem = dec_counters(@, Left(h, pushed))]
        /\ subscriptions' = subscriptions - 1
        /\ stage' = [stage EXCEPT ![h] = "closed"]
        /\ m_head' = [m_head EXCEPT ![h] = NoPos]       \* the object is gone
        /\ m_counter' = [m_counter EXCEPT ![h] = 0]
        /\ m_message_desc' = [m_message_desc EXCEPT ![h] = NoMessage]
        /\ inbox' = [inbox EXCEPT ![h] = <<>>]
        /\ UNCHANGED <<abandoned, child, squeezed, torn>>

LeaveSpins(h) ==
    /\ Enter(h, {"open", "leaving"}) /\ h \in Leavers
    /\ \E pushed \in {LeavePush(h)} :
        /\ ~pushed.ok
        /\ Refused(pushed)
        /\ stage' = [stage EXCEPT ![h] = "leaving"]

-----------------------------------------------------------------------------
(* push, get and pop.                                                      *)

(* More than two regions have been used: the limit has cut the second one  *)
(* short, or to nothing, and not held for the third.  A reader looks for   *)
(* the rest where the second part could be at most, not in the third.      *)
Torn(pushed) == pushed.ok /\ pushed.regions > 2

SmartPush(h, size) ==
    /\ Enter(h, {"open"}) /\ h \in Pushers
    /\ \E pushed \in {do_push((count(h) + 1) % Word = 0, FALSE, Val(h, "data"), size)},
          msg \in {[val |-> Val(h, "data"), size |-> size, ts |-> 0]} :
        \/ /\ pushed.ok
           /\ Stored(pushed)
           /\ q' = pushed.q
           /\ inbox' = [g \in Readers |->
                           IF g # h /\ stage[g] \in {"open", "booked"}
                           THEN Append(inbox[g], msg) ELSE inbox[g]]
           /\ torn' = Torn(pushed)
           /\ UNCHANGED <<subscriptions, m_head, m_counter, m_message_desc,
                          abandoned, child, squeezed>>
        \/ ~pushed.ok /\ Refused(pushed)
    /\ UNCHANGED stage

(* get_message passes over own and service messages, popping them.         *)
Skipped(h, m) == m.chunks[1].val.sid = h \/ ~IsOrdinary(m)

FirstHeard(h, msgs) ==
    SelectInSeq(msgs \o <<NoMessage>>, LAMBDA m : ~m.ok \/ ~Skipped(h, m))

SmartGet(h) ==
    /\ Enter(h, {"open"})
    /\ count(h) > 0
    /\ \E msgs \in {Unread(h)} : \E n \in {FirstHeard(h, msgs)} :
        /\ \A k \in DOMAIN msgs : msgs[k].ok
        /\ q' = [q EXCEPT !.mem = dec_counters(@, SubSeq(msgs, 1, n - 1))]
        /\ Advance(h, SubSeq(msgs, 1, n - 1))
        /\ m_message_desc' = [m_message_desc EXCEPT ![h] =
                                  IF n > Len(msgs) THEN NoMessage ELSE msgs[n]]
    /\ UNCHANGED <<counter, subscriptions, stage, inbox, abandoned,
                   free_space, child, squeezed, torn>>

SmartPop(h) ==
    LET desc == m_message_desc[h]
    IN  /\ Enter(h, {"open"})
        /\ desc.ok
        /\ q' = [q EXCEPT !.mem = dec_counters(@, <<desc>>)]
        /\ Advance(h, <<desc>>)
        /\ m_message_desc' = [m_message_desc EXCEPT ![h] = NoMessage]
        /\ inbox' = [inbox EXCEPT ![h] = IF @ = <<>> THEN @ ELSE Tail(@)]
        /\ UNCHANGED <<counter, subscriptions, stage, abandoned, free_space,
                       child, squeezed, torn>>

(* Who meets a torn message reads bytes that are no message: the model     *)
(* ends with the push of the first one.                                    *)
SmartNext ==
    ~torn /\ \E h \in Readers :
        \/ Join(h) \/ JoinSpins(h) \/ OpenBooked(h)
        \/ Leave(h) \/ LeaveSpins(h)
        \/ \E size \in Sizes : SmartPush(h, size)
        \/ SmartGet(h) \/ SmartPop(h)

SmartSpec == SmartInit /\ [][SmartNext]_smartVars
-----------------------------------------------------------------------------
Subscribers == {h \in Readers : stage[h] \in {"open", "booked", "leaving"}}

(* The types of the fields the smart queue adds or uses otherwise.         *)
SmartTypeOK ==
    /\ q.head \in Positions /\ q.tail \in Positions
    /\ subscriptions = Cardinality(Subscribers)
    /\ stage \in [Readers -> {"closed", "joining", "booked", "open", "leaving"}]
    /\ m_head \in [Readers -> Positions \cup {NoPos}]
    /\ free_space \in 0 .. Space - 1

AllHeard ==
    \A h \in Subscribers :
        LET msgs == Unread(h)
            heard == {k \in DOMAIN msgs : ~Skipped(h, msgs[k])}
        IN  /\ \A k \in DOMAIN msgs : msgs[k].ok
            /\ Cardinality(heard) = Len(inbox[h])
            /\ \A k \in heard : Unpack(msgs[k].chunks) =
                                  inbox[h][Cardinality(heard \cap (1 .. k))]

(* What a handle still gets is what the others have pushed since it joined *)
(* or was booked, in order and unchanged, however many service and own     *)
(* messages lie between, and whoever has left meanwhile.                   *)
OthersAreHeard == torn \/ AllHeard

(* The same of every message that a push has accepted, torn or not: a      *)
(* message reads back as it was pushed (smart_shared_queue_test.cpp:223-237).*)
EveryPushIsHeard == AllHeard

(* The reference counter of a message is the number of handles that have   *)
(* not yet popped it: joining, booking and leaving keep it exact, so it is *)
(* never decremented below zero (the assert of queue.cpp:680) and none is  *)
(* left to hold its space for ever.                                        *)
CountersAreExact ==
    torn \/
    /\ SmartTypeOK
    /\ LET msgs == Contents(q.head, q.count)
       IN  \A k \in 1 .. q.count :
               msgs[k].ok /\ msgs[k].chunks[1].counter =
                   Cardinality({h \in Subscribers : count(h) > q.count - k})

(* free_space accounts for every message in the ring, through joins,       *)
(* leaves and garbage collections by all handles.                          *)
SpaceIsExact ==
    torn \/ free_space = ((IF child THEN 0 ELSE Capacity)
                            - SizeOf(Contents(q.head, q.count))) % Space

(* As long as the reserve was there when a subscription was made, and no   *)
(* push has taken from it, no constructor and no destructor spins under    *)
(* the exclusive lock for room that nobody can make.                       *)
NobodySpins ==
    squeezed \/ torn \/ \A h \in Readers : stage[h] \notin {"joining", "leaving"}

(* Subscribers connect and disconnect dynamically (queue.h:218): whoever   *)
(* has been refused its service message gets in at a later try.  All       *)
(* others are locked out, so what is refused once more is refused for ever.*)
(* It does not hold once the reserve has been used up (squeezed).          *)
HandlesComeAndGo ==
    \A h \in Readers :
        /\ stage[h] = "joining" => do_push(FALSE, TRUE, Val(h, "CONNECT"), 1).ok
        /\ stage[h] = "leaving" => LeavePush(h).ok
=============================================================================
