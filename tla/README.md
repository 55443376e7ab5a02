# qbus: TLA+ models, checks and proofs

qbus is a C++ library for interprocess channels in shared memory: queues laid
out byte by byte in a ring, lockers and a barrier that live in the same memory,
connectors that combine them, and buses that chain connectors. This directory
holds TLA+ models of that code, the TLC runs that check them on small
instances, and TLAPS proofs of what holds for every instance. `PROJECT.json`
lists the runs, the correspondence of every definition with source lines, the
hazards and the theorems. Line numbers refer to the files under `src/qbus/`.

## Inventory

| Part | State | Operations | Interacts with |
|---|---|---|---|
| message layout (`message.h/.cpp`) | header and payload bytes of chunks in the ring | `static_make_message`, `static_get_message`, `pack`, `unpack`, counter operations | called by the queues |
| `base_queue`, `simple_queue` (`queue.cpp:13-492`) | shared: head, tail, count, bytes; per handle: `m_message_desc` | `push` (with keepalive loop), `get`, `pop` | under the connector's lock |
| `shared_queue`, `unreadable_shared_queue` (`queue.cpp:495-776`) | also shared: counter, subscriptions; per handle: `m_head`, `m_counter` | constructor, destructor, `clean_messages`, `push`, `get`, `pop` | readers run concurrently under the sharable lock |
| `smart_shared_queue` (`queue.cpp:778-1066`) | also shared: free space; per handle: `m_state` and what `shared_queue` keeps | join and leave with CONNECT and DISCONNECT messages, booking of places in a queue made for a parent, `push` with a reserve, `get`, `pop` | a bidirectional queue; the queues of a bus are chained |
| `shared_locker` (`locker.cpp:11-199`) | `m_scoped`, `m_sharable` under a spinlock | lock, try, timed lock; exclusive and sharable | every connector operation |
| `shared_posix_locker` (`locker.cpp:201-301`) | a `pthread_rwlock_t` | the same | alternative locker |
| `shared_barrier` (`locker.cpp:305-397`) | `m_counter1`, `m_counter2`, a semaphore | `knock`, `expect`, timed `expect`, `open` | readers wait, pushes open |
| `spinlock` (`locker.cpp:400-457`) | one word | lock, try, timed lock, unlock | create, open, destroy of connectors |
| connectors (`connector.h/.cpp`) | spinlock, handle counter, locker, barrier, queue in one shared object | create, open, destroy, push, get, pop, each with and without timeout | everything above |
| shared memory (`memory.cpp`) | a named object, a mapping | create, open, remove | connectors, buses |
| bus (`bus.h/.cpp`) | specification and control block (epoch, input and output id) in shared memory, a list of connectors per process | create, open, push, get, pop; add and remove connectors | connectors |

What is hard here: several processes act on the same memory between two calls
of one process (a cached descriptor, a private head); exclusive locks are
booked while sharable owners are inside; timeouts race the event they wait
for; unsigned counters wrap; a ring position has two meanings when head equals
tail; and a chain of connectors is changed by one process while another pushes.
`PROJECT.json` lists each of these at its line under `hazards`.

What makes each part correct:

* ring: every message is read back unchanged where it was written, no byte is
  written outside the ring, what fits is accepted;
* queues: FIFO per consumer, broadcast to the readers subscribed at the push,
  nothing overwritten while a consumer holds it, all garbage reclaimed;
* locker: mutual exclusion, balanced bookkeeping, a booked writer enters;
* barrier: nobody passes before an `open()`, nobody is forgotten;
* connector: no lost wake-up, calls end, a push with room is accepted;
* lifecycle: initialised before use, destroyed once, after the last use;
* bus: no message lost, duplicated or reordered while connectors come and go.

## Modules

| Module | Models | Uses |
|---|---|---|
| `RWLock` | abstract reader-writer lock; `shared_posix_locker`, each call of which is one call of `pthread_rwlock_t` | |
| `SharedLocker` | `shared_locker` and the lock objects that call it | implements `RWLock` |
| `Ring` | message layout, free and busy regions | |
| `Fifo` | abstract FIFO with optional discarding | |
| `SimpleQueue` | `simple_queue` | `Ring`; implements `Fifo` |
| `Broadcast` | abstract broadcast | |
| `SharedQueue` | `shared_queue`, `unreadable_shared_queue` | `Ring`; implements `Broadcast` |
| `SmartQueue` | `smart_shared_queue` | extends `SharedQueue` |
| `SharedBarrier` | `shared_barrier` | |
| `Connector` | push, get and pop of the `multi_*` connectors | `RWLock`, `SharedBarrier` |
| `Lifecycle` | create, open and destruction of a connector, `shared_memory`, `spinlock` | |
| `Bus`, `MCBus` | the bus over `single_*` connectors; the rooms of its instance | |
| `RingProofs`, `SimpleQueueProofs`, `SharedQueueProofs`, `SmartQueueProofs`, `SharedBarrierProofs`, `ConnectorProofs`, `LifecycleProofs`, `BusProofs` | theorems | the modules they name; the queues use `RingProofs`, the smart queue `SharedQueueProofs` too; `ConnectorProofs` begins with the theorems about `SharedLocker` and instantiates `SharedBarrierProofs` |

Definitions whose name ends in `Slip` or `_slip` (or `_no_limit`, `_no_booking`,
`Early`) are deliberate mistakes next to the definition they replace when a
property is tested for its ability to fail; no specification uses them.

### How state and actions correspond to the code

**SharedLocker.** A section guarded by `m_lock` is one step. `phase` records where
each process is: outside, in the loop of one of the four blocking calls, waiting
for sharable owners after booking (`drain`, `timed_drain`), or an owner. A
failed try changes nothing and is no step. The clock is abstracted: a timed call
may run out of time at each of its loop heads.

**Ring.** Memory is the set of chunks whose bytes are intact. Writing a header
or a chunk removes every chunk it touches; reading where no chunk starts is
reading garbage and yields no message, which every property that reads the ring
rejects. A refused push still leaves the headers it wrote (`WastedHeaders`). The
payload is a value, and a chunk remembers which offset of it it carries, so that
a message put together from the wrong parts is seen as garbled. The region loops
are written out for two regions; `ThirdRegionEmpty` proves that this is all.

**SimpleQueue.** `Push` is the first `do_push`; if it is refused and a timeout is
set, `PushDiscards` and `PushGivesUp` are the turns of the keepalive loop, with
the connector's lock held (`Unlocked` is false), so that only the clock moves in
between. `Get` caches the descriptor, `Pop` uses and clears it. `log` and
`discards` are history variables. `Undisturbed` restricts the environment: no
push between a consumer's get and its pop.

**SharedQueue.** One variable per shared field, one function per private field
of a handle. Opening, closing and pushing hold the exclusive lock
(`connector.h:767`, `699`, `814`), get and pop the sharable one, and a pop
changes shared memory by one atomic decrement, so every operation is one step.
`inbox` is a history variable: the messages pushed while the reader was
subscribed and not popped by it. `abandoned` remembers that a reader has closed
with messages left: their counters then never reach 0, which the destructor
(`queue.cpp:737`) does not repair, so that exactness of the counters and
reclaimed garbage are claimed only until then. `LateJoin` switches on the
environment in which a handle opens while messages are pending.

**SmartQueue.** Adds `free_space` and the stages of a handle: `booked` (a child
queue has a place for it), `joining` and `leaving` (its service message has been
refused and it spins under the exclusive lock, so that nobody else can take a
step: `Unlocked`). The constructor and the destructor are one step each, with
the service message, the garbage they collect and the messages they pop. `get`
pops what it passes over. `Placed` is the loop of `static_make_message` over the
limited regions, in as many parts as it makes. `Torn` is a message for which
more than two regions were used, because the limit cut the second one, possibly
to nothing: a reader does not look where its rest lies. `SmartPush` accepts it,
as the code does, and `torn` remembers it. With that push the model ends, since
who meets such a message reads bytes that are no message; `smart_torn` is about
it, and all other properties are claimed until then. `child` tells a queue made
for a parent, whose free space the code never sets (`queue.cpp:864`), and
`squeezed` remembers that the reserve has not been there: after a CONNECT has
used it, or in a child queue. The subtraction of the reserve then wraps and
limits nothing, as in the code; `NobodySpins` is claimed only until then. What
follows afterwards is `HandlesComeAndGo`, a safety property that does not hold
(see below): whoever spins does so under the exclusive lock, nothing can change
meanwhile, and what is refused at the next try is refused for ever.

**SharedBarrier.** The sections under `m_locker` are steps; `knock` is two steps
because it looks before it locks, a timed-out `expect` is two because it locks
after the semaphore gave up. `opened` and `raced` are history variables; `raced`
remembers that a timeout has raced an `open()` (`LatePass`), after which a token
is left in the semaphore and the barrier's promises no longer hold
(`connector_hang` shows what follows from that). `Guarded` says that the callers
keep `open()` out while a thread is in `knock()`; the connectors do, and a bare
`wait()` (`locker.cpp:346`) does not.

**Connector.** The owners of the locker follow `RWLock`, the barrier is the
`SharedBarrier` module itself, and the queue is reduced to the number of
messages each consumer has not popped. `PushInner` is the nested locking of the
untimed push. A get that finds nothing knocks with the sharable lock held,
releases it and waits; each of these is a step of its own.

**Lifecycle.** One handle per process; `at` is where it is in `do_create`,
`do_open` or its destructor, one step per access to the shared memory that
others can see: the name appears (`Create`), the size (`Truncate`), the contents
and the counter (`Construct`), the spinlock opens (`Unlock`). The spinlock is
modelled by what its compare-and-swap returns: zero memory is `LS_LOCKED`, who
finds it unlocked locks it and tries again, who finds it locked is in. That is
harmless only as long as nobody else comes: `overlap` remembers that two have
been inside, after which the non-atomic counter may be wrong. That this happens
is what `SpinlockExcludes` is about (see below). Every destructor and every
failing create or open removes the name, whoever uses the object
(`OneConnector`). The catch blocks and the handle that keeps its mapping after a
failed `do_open` (`void`) are there too.

**Bus.** `cb` is the control block in shared memory, `m_controlblock` the copy
of a process and `list` its `m_pconnectors`. A call is a sequence of steps
(`call`): the epoch is compared and stored (`is_updated`), the output id read,
connectors added one by one, the input id read and at most one connector
removed, then the connector is called. A push pushes once more when the update
after it finds a new connector, and when it is refused then, it grows the chain
and begins again: this next `do_push` pushes before it asks anything (`op` is
`again`, `bus.cpp:211-217` with 572-580). A push that is refused grows the
chain, a get that finds nothing looks whether it may remove and removes
(`can_remove_connector`, `Shrink`) in separate steps, as the lock is not held in
between. Connectors are FIFOs with a room, and names that any destructor removes
(`Lifecycle`). A call of a connector may be refused because somebody else is
inside (`Contended`). `fault` remembers that calls have overlapped, that an
update was missed or given up, or that somebody has closed the bus; `SerialFifo`
and `ListIsWindow` (the list is the connectors `input_id` to `output_id` of the
copy) are claimed until then. `Polite` processes never overlap with others;
producers that grow the chain at once get lists with gaps (see below). A handle
that closes removes the name of the bus, so that nobody opens it afterwards. An
open that cannot make all its connectors gives the bus up and clears its list,
whose destructors remove names (`Cleared`); no run reaches that branch, which
needs a process that opens while a connector of the window has lost its name and
the bus has not.

## Runs

| Run | Shows |
|---|---|
| `locker` | 3 processes, at most 2 sharable owners: types, exclusion, balanced books, a booked `lock()` enters, implements `RWLock` |
| `queue` | ring of 11 bytes, headers of 2, sizes 1, 2, 5, two contents, timeout 1, clock 1..2: FIFO of unchanged messages, what fits is accepted, only old messages are discarded, the keepalive loop ends, provided `Undisturbed` |
| `keepalive_stale` (violation) | without `Undisturbed`, `pop` uses a stale descriptor and count, head and tail drift apart |
| `shared` | a writer and a reader push, two readers pop, one of them comes and goes and may leave messages behind: broadcast, reference counters, held messages, reclaimed garbage |
| `smart` | three handles, two of which come and go, one of which is booked in the child queue; each hears what the others push, counters and free space are exact, and nobody spins until the reserve has been used up; all until a torn message is pushed |
| `smart_torn` (violation) | when the limit cuts the second free region to nothing, the message goes on in the third: its two parts are in the first and the third region, and other bytes are read back |
| `barrier` | three waiters, two of them timed, callers' lock held: the counters count every waiter; until a timeout races an opening the barrier holds until opened, tokens match, openings are left |
| `connector` | a producer and two consumers, one of which never runs out of time (it is not in `Hasty`), so that only a push can wake it: no lost wake-up, waiters are woken, the barrier is used as guarded |
| `connector_hang` (violation) | the leftover token makes `m_counter2` wrap; a timed get then spins in `knock()` for ever, holding the lock |
| `lifecycle` | three processes, two of which create: constructed before use, handles counted, the locker outlives them, calls end |
| `bus` | two producers and a consumer that may close its handle, after which nobody opens the bus again, connectors with room for one message: sound chain, one FIFO and lists without gaps while calls do not overlap, calls return |
| `bus_lost` (violation) | a get removes a connector that has been filled since it was found empty |

The types of the state are the first conjunct of an invariant of each module's
run, or an invariant of their own; those of `Lifecycle`, and that no destroyed
object is opened again (`NoRevival`), are proved only.

The passing runs check for deadlock, with four exceptions. `barrier`: after a
raced timeout every thread can be spinning in `knock()`, in which the code makes
no progress either. `smart`: a constructor that spins for room under the
exclusive lock (`squeezed`) is where the code stops too, the model ends with a
torn message, and the number of messages is bounded. `lifecycle` and `bus`:
handles are gone, pushes are used up.

### What the models show that no run states

* `limit = get_timestamp() - timeout` (`queue.cpp:254`) wraps while the clock is
  below the timeout, and a full queue then drops fresh messages: run `queue`
  with `StartClock = 0`, `Timeout = 1`, and `DiscardsOnlyOld` fails. The theorem
  `KeepaliveAge` has the assumption that rules it out.
* A reader that opens a `shared_queue` with messages pending starts at the head
  and decrements counters that were not set for it, against the assertion of
  `queue.cpp:680`: run `shared` with `LateJoin = TRUE`, and `RefCountExact`
  fails. `smart_shared_queue` repairs it (`CountersAreExact`).
* The untimed push of a `multi_*` connector holds the exclusive lock when the
  inner push tries to take it (`connector.h:890`, `814`), and is always refused:
  in `Connector` no `PushInner` ever owns the lock a second time. An untimed push
  to a bus of such connectors therefore adds a connector and fails.
* An `unreadable_shared_queue` counts in `m_counter` only the messages it
  collected itself, so its `count()` is not the number of messages in the ring
  when another handle collects too or when the writer is reopened.
* `SharedBarrier` with `Guarded = FALSE` lets a thread that has looked at
  `m_counter2` before an `open()` and counted itself after it take a token of
  that opening.
* A handle that joins a full smart queue leaves less than the reserve; later
  pushes are then not limited, and a destructor can spin for ever for the room
  of its DISCONNECT. A child queue is in this state from the start. Run `smart`
  with the invariant `HandlesComeAndGo`: ordinary pushes fill the reserve of the
  child queue, a handle that leaves and opens it again is refused its CONNECT
  and spins under the exclusive lock, and the booked handle that alone could pop
  is locked out.
* `spinlock::try_lock` takes the old value `LS_LOCKED` of its compare-and-swap for
  success, so that two handles are between the guards together: run `lifecycle`
  with the invariant `SpinlockExcludes`.
* A create that fails because the connector is in use removes its name, and the
  next create makes a second connector, so that two open handles of one name do
  not hear each other: run `lifecycle` with the invariant `OneConnector`.
* A push that has stored its message and then finds that another process has
  added a connector stores it there once more (`bus.cpp:579`), and the consumer
  gets it twice: run `bus` with `Polite = {}` and the invariant `StoredOnce`.
* `smart_shared_queue::pop()` without a `get()` before it uses a null message
  when only own or service messages are left (`queue.cpp:1043`); the model's pop
  follows a get.
* A connector opened before its creator has finished (`Look` with a counter of 0)
  keeps the mapping, so that this handle can never be opened, and destroying it
  removes the name although others use the object. So does every failing create
  or open.
* Two producers that grow a bus at once (`Polite = {}`) get lists with gaps:
  `add_connector` makes the connector the shared `output_id` names, which may be
  one after the next of the list. With such gaps the order is lost too
  (`InOrder` with two producers). With connectors for two messages: the first
  producer adds connectors 1 and 2 while the second waits to add one; the second
  then adds 3 and stores its first message there; following the consumer to 2,
  its next pushes drop connector 0 and later 3 from its list, which is then
  empty and is filled with connector 2. Its third message goes into 2 and is got
  before the first. The trace has about fifty steps, too many for a search of
  all behaviours; it was followed with the steps of the model. `InOrder` is
  therefore stated of one producer, whose own list has no gaps, and is no
  property of the run; TLC finds it true with `Producers = {p1}`, `Polite = {}`,
  `Rooms <- ThreeOfTwo` and `MaxSent = 4`.
* An open that cannot make all its connectors frees the shared memory of the bus
  (`bus.cpp:426-429`, 558) while the guards of `bus.h:452` and 458 have still to
  unlock in it. The model follows what the open does to the names only.
* Following an update counts the copy's epoch up when it removes a connector
  (`bus.cpp:160`), so a later update of others may look like one already
  followed. That needs no overlap of calls: the process misses a connector, its
  own growing skips an id, and after two gaps `update_connectors`, which removes
  one connector for each step of `input_id`, empties the list; it then pushes to
  a connector nobody reads (seen with two polite producers, one consumer and
  `Rooms` of 20 connectors). `fault` covers it: a missed update is a fault.
* Two consumers of one bus may both pass `can_remove_connector` and both remove,
  so that `input_id` passes `output_id`: run `bus` with two consumers that are
  not polite, and `ChainIsSound` fails. The theorem has one consumer as its
  hypothesis.

### Bounds

* Ring sizes are small but not round: with headers of 2 bytes (1 in the smart
  queue), capacities 10, 11 and 13 and the chosen sizes, messages are split, end
  exactly at the end of the ring, leave 1 or 2 bytes that cannot hold a chunk,
  and fill the ring so that head equals tail. `Word` is larger than any value
  the counters should reach in the passing runs of the barrier, and small (5) in
  the shared queue so that `counter` wraps many times.
* `MaxClock` ends the clock; it lets a message become older than the timeout
  while a younger one is behind it.
* `LagBounded` in the shared queue stops a handle that is `Word - 1` messages
  behind from pushing: in the code that takes 2^32 - 1 messages collected by
  other handles.
* `MaxTokens` bounds the semaphore, in which tokens pile up after raced timeouts.
* `Room` is 2 in the connector so that a push can be refused and a consumer can
  lag behind the other.
* `MaxMessages` bounds all messages of a smart queue, service messages included:
  7 are enough to fill the ring, wrap it and let every handle come or go.
  `Space` is larger than the capacity, so that free space below the reserve is
  told from free space above it.
* `MaxObjects` is 2: a second object of the same name is what goes wrong. `Word`
  is 4 there, one more than the handles, so that a lost decrement is seen.
* The bus has 2 pushes per producer and connector ids up to 5; with room for one
  message in each connector the chain grows to `max_capacity` and shrinks again,
  and a push is refused when it cannot grow.
* No symmetry is used: the runs are small, and most check temporal properties.

### Fairness

* `FairLockerSpec`: weak fairness for a booker that sees no sharable owner and
  for releasing an owned lock: the loops have no other exit and the lock objects
  release in their destructors. Nothing is assumed of processes that have not
  booked: the code does not prevent their starvation.
* `FairQueueSpec`: a push in its keepalive loop goes on.
* `FairBarrierSpec`: a thread that has a token or can take one goes on; nobody
  has to open or knock.
* `FairLifeSpec`: a create, open or destructor that has begun goes on; it runs in
  its caller's thread. Nobody has to begin one.
* `FairBusSpec`: a call that has begun goes on; its locks are held for one step,
  so weak fairness is enough. Nobody has to begin a call.
* `FairConnectorSpec`: a call that has begun goes on whenever it can, and time
  passes; nobody has to begin a call.

## Proofs

All theorems hold for every value of the constants under the named assumptions
of the modules, which fix types, the order of the bounds and that the `uint32_t`
counters have a value for everything they count: the handles of a connector
(`LifecycleAssumption`), the waiting threads (`BarrierAssumption`,
`ConnectorAssumption`), the readers and the messages that fit in the ring
(`SharedQueueAssumption`, and for the smart queue, whose smallest message is one
byte and a header, `SmartAssumption`). The other assumptions are
`LockerAssumption`, `RingAssumption`, `SimpleQueueAssumption` and
`BusAssumption`.

Contents, sweeping and opening are recursive functions over a range of numbers.
What they compute is proved by walking along the range: the set of numbers for
which the claim holds contains 0 and with each its successor (`SetInduction` of
`RingProofs`, `NumberInduction` of `BusProofs`, derived from the
well-foundedness of the numbers).

* `ConnectorProofs`, the locker. `LockerInv` joins types, the balance of the
  books (`m_scoped` is the number of processes that booked or own, `m_sharable`
  the number of sharable owners) and exclusion. Exclusion alone is not
  inductive: that a booker enters safely when `m_sharable` is 0 needs the
  balance. The refinement of `RWLock` follows step by step from it.
* `RingProofs`. From any head, tail and count, the free regions lie in the ring
  and the third one is empty, hence every chunk `static_make_message` writes and
  every position it or `static_get_message` returns lies in the ring. Nothing is
  assumed about how the state came about, so this covers stale descriptors too.
  The second half is about the messages in it. A message occupies consecutive
  bytes in one of three ways: whole, whole after skipping bytes too few for a
  header, or split at the end of the ring (`Occupies`). `PushStores`: what is
  stored occupies free bytes at the tail, and nothing that occupies used bytes is
  touched, by a refused push neither. `Layout` puts the messages one after the
  other from head to tail; lemmas say that `static_get_message` finds the first
  of them and that a layout survives a push (`Keeps`) and the removal of the
  first messages (`LayoutDrop`).
* `SimpleQueueProofs`. `RingInv` joins the type invariant with
  `WritesStayInRing`: the head that `pop` sets is computed from a size read back
  from memory, so types alone are not inductive. `KeepaliveAge` adds that the
  limit of a running push lies a timeout before the clock; it needs
  `Timeout <= StartClock`, without which it fails. `ContentsInv` says that there
  is a layout whose messages are the log, and that a cached descriptor is that of
  the first message. From it follow `EmptyIsDrained`, `AcceptsWhenRoom`,
  `RingHoldsLog` and the refinement of `Fifo`. All four have the hypothesis
  `UsedRight`: one consumer, and no keepalive or no push between a get and its
  pop. Without it the cached descriptor is stale (`keepalive_stale`).
* `SharedQueueProofs`. `SharedInv` says that there is a layout of which every
  reader has a suffix: its inbox is the messages from its private head on, its
  wrapping counter gives their number, the counter of each message is at least
  the number of readers that have it before them, and exactly that number until
  somebody has closed with messages left. A message with counter 0 is therefore
  in nobody's suffix, which is why the collection may free it; that
  `clean_messages` frees exactly the leading run of these is `SweepCollects`.
  The five theorems have the hypothesis `~LateJoin`, without which
  `RefCountExact` fails (see above).
* `SmartQueueProofs`. Handles come and go in the middle of the ring, so
  `SmartInv` is about the members of the moment. `Sound` says that there are a
  layout of the queue and the sums of its sizes such that free space is what the
  sums leave (`FreeOf`), the counter of each message is the number of members
  whose lag reaches it (`Tallied`), and each member's `m_head` is where its lag
  says, with the message it holds still in its place (`Tracked`). `Kept` is that
  for one queue, and one lemma per change says that it survives: collection, the
  message pushed at the tail (`AddKept`), headers spoilt in free regions by a
  refused push (`SpoiltKeeps`), the first messages popped (`PopKept`), a member
  more (`JoinKept`) or less (`LeaveKept`). The split into regions is treated as
  the loop it is (`PlacedDivides`): its parts lie in free regions, and without
  the limit they are those of `static_make_message`. That the reserve is there
  until it is used up (`ReserveIsKept` of the proofs) is inductive with exact
  free space and without torn messages only: such a message takes no more than
  the room above the reserve from the regions together (`RegionFound`), and what
  the check has seen as free space is free. `NobodySpins` follows from it, since
  two service messages of one byte fit whenever the reserve is there
  (`RoomForService`), and a handle leaves the queue spinning only if one is
  refused. The theorems say `torn \/ ...`: a torn message has a part that no
  reader finds, so the ring no longer holds what the counters and free space say
  (`smart_torn`).
* `SharedBarrierProofs`. `BarrierInv` counts: the sum of the two counters is,
  modulo the word, the number of threads inside, and until a timeout races an
  opening there is a token for each thread let through that has not taken one.
  `HoldsUntilOpen` needs more (`OneOpening`): while an opening is being left,
  nobody has looked and nobody is counted for the next, so no token is taken by
  somebody it was not for. That is where `Guarded` is used.
* `ConnectorProofs`, the connectors. `LockInv` relates the owners of the lock to
  the places in the calls and at the barrier; with it every step is a step of
  the guarded barrier or a stutter, and the barrier's theorems, instantiated,
  hold in the connector. `WakeInv` carries `NoLostWakeup`, that there are as
  many tokens as consumers that wait with a message to read. To be inductive it
  needs that everybody who waits is counted for the next opening or has a token
  (`Covered`), that the count cannot wrap, and that while somebody waits with a
  message nobody is being counted and all who wait have one (`AllHaveMail`), so
  that no token goes to somebody else. It holds after raced timeouts too, which
  only leave tokens over.
* `LifecycleProofs`. `MadeInv` carries `NeverRaw`: an object is raw, with counter
  0, until its one creator constructs it, so whoever has seen a positive counter
  finds it constructed. That the creator is the only one needs that a created
  object is new (`MakerIsAlone`). `Orderly` carries the counting: at
  most one process is inside the spinlock of an object, what it has read of the
  counter is still its value, the counter is the cardinality of the handles, and
  a dead locker has counter 0. Its last conjunct, that everybody past the counter
  has a live locker, is not inductive without the exact count: the destructor
  that reads 1 must know that there is nobody else. `OrderlyMove` treats the many
  steps that count nothing, `OrderlyCount` the three that do.
* `BusProofs`. `Sound` says of every process that its copy is not ahead of the
  control block, that it adds connectors only up to the shared `output_id`, and
  that whoever is about to remove leaves one. The last is what two overlapping
  consumers break, so `ChainStaysSound` has the hypothesis `OneConsumer`.
  `Serial` holds without a fault: one call at a time, every list is the window of
  its copy, and the copy is up to date where the call relies on it; that a
  process following an update ends with the right window needs all of these.
  `Fifo` adds what is in the connectors: the messages of the chain, from the
  connector a consumer reads to the last one, are the log, and the connectors in
  front of it are empty. A connector is removed only when it is empty and made
  only behind the last, so adding, removing and following an update read the same
  messages (`ChainsHoldLog`, for any number of consumers). That a get returns the
  oldest of them (`Views`) needs one consumer: of two, both may get a message and
  one pop it. `SerialFifo` joins the two.

Only model-checked: liveness and fairness, and `OthersAreHeard` of the smart
queue, which also needs the contents of every message still in the ring.

## Not modelled

* Keepalive in the shared and the smart queue; handles that open a child queue
  with its parent although it has no place for them.
* The polling of the timed calls of the `single_*` connectors: it ends in an
  outcome of the untimed call.
* A `get` from a bus opened for output and a `push` to one opened for input; the
  buses over `multi_*` connectors; processes that crash inside a call (nothing in
  the code handles them: a lock in shared memory stays taken).
* Where things lie in a shared object: that the memory of a bus is sized without
  its spinlock (`bus.h:477-489`) is not seen.
* What happens after a torn message has been pushed: reading other bytes as a
  header has no bound that the code sets.
* `spinlock::timed_lock`, which nothing calls; `common.*`, `exceptions.h`, and
  the examples, which have no state of the library's.
* A push of size 0, which dereferences a null pointer (`message.h:168`) and is
  excluded by `Sizes`.

## Plan

1. A proof of `OthersAreHeard`: `Sound`, with all that every member has still to
   read in place of the message it holds, says that these messages stay as they
   were pushed.
2. Keepalive in `SharedQueue` and `SmartQueue`; the bus over `multi_*`
   connectors, whose consumers wait.
