--------------------------- MODULE ConnectorProofs --------------------------
(***************************************************************************)
(* The locker and the multi_* connectors.  First the reader-writer lock:   *)
(* it implements the abstract lock the connectors take.  Then the          *)
(* connectors for any number of producers and consumers and any room: the  *)
(* lock keeps pushes out while a consumer knocks, so the barrier is used   *)
(* as its guarded specification asks and what is proved of that holds in   *)
(* the connector; and no wake-up is lost.                                  *)
(***************************************************************************)
EXTENDS Connector, SharedLocker, FiniteSetTheorems, TLAPS

(***************************************************************************)
(* shared_locker, for any finite set of processes and any limit of         *)
(* m_sharable: its counters stay in range and agree with the owners, the   *)
(* exclusive owner is alone, and every behaviour is one of RWLock, the     *)
(* lock that the connectors below are modelled with.                       *)
(***************************************************************************)

(* The inductive invariant.  Exclusion alone is not inductive: that a      *)
(* second process cannot book needs m_scoped to be set while somebody has  *)
(* booked, and that count_sharable may trust a zero needs m_sharable to be *)
(* the number of sharable owners.                                          *)
LockerInv ==
    /\ LockerTypeOK
    /\ m_scoped = 0 <=> Booked = {}
    /\ \A p, q \in Booked : p = q
    /\ m_sharable = Cardinality(Sharers)
    /\ \A p \in Writers : m_sharable = 0


USE DEF lockerVars

(* A set of processes is finite, and it is empty when its size is 0.       *)
LEMMA SharersFinite ==
    /\ IsFiniteSet(Sharers)
    /\ Cardinality(Sharers) \in Nat
    /\ Cardinality(Sharers) = 0 <=> Sharers = {}
<1>1. IsFiniteSet(Sharers)
  BY LockerAssumption, FS_Subset DEF Sharers
<1> QED
  BY <1>1, FS_EmptySet, FS_CardinalityType

(* The initial state satisfies the invariant.                              *)
LEMMA LockerInvInit == LockerInit => LockerInv
<1> SUFFICES ASSUME LockerInit PROVE LockerInv
  OBVIOUS
<1>1. Sharers = {} /\ Booked = {} /\ Writers = {}
  BY DEF LockerInit, Sharers, Booked, Writers
<1>2. LockerTypeOK
  BY LockerAssumption DEF LockerInit, LockerTypeOK, States
<1> QED
  BY <1>1, <1>2, FS_EmptySet DEF LockerInv, LockerInit

(* A step that moves one process, without entering or leaving "sharable",  *)
(* keeps the set of sharable owners.                                       *)
LEMMA SharersKept ==
    ASSUME LockerTypeOK, NEW p \in Users, NEW s \in States, Goto(p, s),
           phase[p] # "sharable", s # "sharable"
    PROVE  Sharers' = Sharers
BY DEF LockerTypeOK, Goto, Sharers

(* Every step keeps the invariant.                                         *)
LEMMA LockerInvStep == LockerInv /\ [LockerNext]_lockerVars => LockerInv'
<1> SUFFICES ASSUME LockerInv, [LockerNext]_lockerVars PROVE LockerInv'
  OBVIOUS
<1> USE DEF LockerInv
<1>0. CASE UNCHANGED lockerVars
  BY <1>0 DEF LockerTypeOK, Booked, Sharers, Writers
<1>1. ASSUME NEW p \in Users, NEW c \in Calls, Enter(p, c) PROVE LockerInv'
  <2>1. LockerTypeOK' BY <1>1 DEF LockerTypeOK, Enter, Goto, States
  <2>2. Booked' = Booked /\ Writers' = Writers /\ Sharers' = Sharers
    BY <1>1 DEF LockerTypeOK, Enter, Goto, Calls, Booked, Writers, Sharers
  <2> QED BY <1>1, <2>1, <2>2 DEF Enter
<1>2. ASSUME NEW p \in Users, try_lock(p) PROVE LockerInv'
  <2>1. LockerTypeOK' BY <1>2 DEF LockerTypeOK, try_lock, Goto, States
  <2>2. Sharers' = Sharers
    BY <1>2, SharersKept DEF try_lock, States
  <2>3. Booked' = {p}
    BY <1>2 DEF LockerTypeOK, try_lock, Goto, Booked
  <2>4. m_scoped' = 1 /\ m_sharable' = 0 /\ m_sharable = 0
    BY <1>2 DEF try_lock
  <2> QED BY <2>1, <2>2, <2>3, <2>4
<1>3. ASSUME NEW p \in Users, try_book_lock(p) PROVE LockerInv'
  <2>1. LockerTypeOK' BY <1>3 DEF LockerTypeOK, try_book_lock, Goto, States
  <2>2. Sharers' = Sharers
    BY <1>3 DEF LockerTypeOK, try_book_lock, Goto, Sharers
  <2>3. Booked' = {p}
    BY <1>3 DEF LockerTypeOK, try_book_lock, Goto, Booked
  <2>4. Writers' \in SUBSET {p} /\ (Writers' # {} => m_sharable = 0)
    BY <1>3 DEF LockerTypeOK, try_book_lock, Goto, Writers, Booked
  <2> QED BY <1>3, <2>1, <2>2, <2>3, <2>4 DEF try_book_lock
<1>4. ASSUME NEW p \in Users, count_sharable(p) PROVE LockerInv'
  <2>1. LockerTypeOK' BY <1>4 DEF LockerTypeOK, count_sharable, Goto, States
  <2>2. Sharers' = Sharers
    BY <1>4 DEF LockerTypeOK, count_sharable, Goto, Sharers
  <2>3. Booked' = Booked
    BY <1>4 DEF LockerTypeOK, count_sharable, Goto, Booked
  <2> QED BY <1>4, <2>1, <2>2, <2>3 DEF count_sharable
<1>5. ASSUME NEW p \in Users, unlock(p) \/ timed_lock_cancel(p) PROVE LockerInv'
  <2>1. LockerTypeOK'
    BY <1>5 DEF LockerTypeOK, unlock, timed_lock_cancel, Goto, States
  <2>2. Sharers' = Sharers
    BY <1>5 DEF LockerTypeOK, unlock, timed_lock_cancel, Goto, Sharers
  <2>3. Booked' = {} /\ Writers' = {}
    BY <1>5 DEF LockerTypeOK, unlock, timed_lock_cancel, Goto, Booked, Writers
  <2> QED BY <1>5, <2>1, <2>2, <2>3 DEF unlock, timed_lock_cancel
<1>6. ASSUME NEW p \in Users, timed_expire(p) PROVE LockerInv'
  <2>1. LockerTypeOK' BY <1>6 DEF LockerTypeOK, timed_expire, Goto, States
  <2>2. Booked' = Booked /\ Writers' = Writers /\ Sharers' = Sharers
    BY <1>6 DEF LockerTypeOK, timed_expire, Goto, Booked, Writers, Sharers
  <2> QED BY <1>6, <2>1, <2>2 DEF timed_expire
<1>7. ASSUME NEW p \in Users, try_lock_sharable(p) PROVE LockerInv'
  <2>1. LockerTypeOK'
    BY <1>7, LockerAssumption DEF LockerTypeOK, try_lock_sharable, Goto, States
  <2>2. Sharers' = Sharers \cup {p} /\ p \notin Sharers
    BY <1>7 DEF LockerTypeOK, try_lock_sharable, Goto, Sharers
  <2>3. Booked' = Booked /\ Booked = {}
    BY <1>7 DEF LockerTypeOK, try_lock_sharable, Goto, Booked
  <2>4. Writers' = {}
    BY <2>3 DEF Booked, Writers
  <2>5. Cardinality(Sharers') = Cardinality(Sharers) + 1
    BY <2>2, SharersFinite, FS_AddElement
  <2> QED BY <1>7, <2>1, <2>3, <2>4, <2>5 DEF try_lock_sharable
<1>8. ASSUME NEW p \in Users, unlock_sharable(p) PROVE LockerInv'
  <2>1. Sharers' = Sharers \ {p} /\ p \in Sharers
    BY <1>8 DEF LockerTypeOK, unlock_sharable, Goto, Sharers
  <2>2. Cardinality(Sharers') = Cardinality(Sharers) - 1
    BY <2>1, SharersFinite, FS_RemoveElement
  <2>3. m_sharable > 0
    BY <2>1, SharersFinite DEF LockerTypeOK
  <2>4. LockerTypeOK'
    BY <1>8, <2>3, LockerAssumption DEF LockerTypeOK, unlock_sharable, Goto, States
  <2>5. Booked' = Booked /\ Writers' = Writers /\ Writers = {}
    BY <1>8, <2>3 DEF LockerTypeOK, unlock_sharable, Goto, Booked, Writers
  <2> QED BY <1>8, <2>2, <2>4, <2>5 DEF unlock_sharable
<1> QED
  BY <1>0, <1>1, <1>2, <1>3, <1>4, <1>5, <1>6, <1>7, <1>8
     DEF LockerNext, LockerStep

(* The invariant holds in every reachable state.                           *)
THEOREM LockerInvariant == LockerSpec => []LockerInv
BY LockerInvInit, LockerInvStep, PTL DEF LockerSpec

(* The counters keep their types: m_scoped is a flag and m_sharable never  *)
(* leaves 0 .. MaxSharable, so neither ++ nor -- wraps.                    *)
THEOREM LockerTypeCorrect == LockerSpec => []LockerTypeOK
<1>1. LockerInv => LockerTypeOK
  BY DEF LockerInv
<1> QED
  BY <1>1, LockerInvariant, PTL

(* Mutual exclusion of the lock for any number of processes.               *)
THEOREM LockerExclusion == LockerSpec => []Exclusion
<1>1. LockerInv => Exclusion
  <2> SUFFICES ASSUME LockerInv, NEW p \in Writers
               PROVE  Writers = {p} /\ Sharers = {}
    BY DEF Exclusion
  <2>1. Sharers = {}
    BY SharersFinite DEF LockerInv
  <2>2. Writers \subseteq Booked
    BY DEF Writers, Booked
  <2> QED
    BY <2>1, <2>2 DEF LockerInv
<1> QED
  BY <1>1, LockerInvariant, PTL

(* The two counters are exactly the bookings and the sharable owners.      *)
THEOREM LockerBalance == LockerSpec => []BooksBalance
<1>1. LockerInv => BooksBalance
  <2> SUFFICES ASSUME LockerInv PROVE m_scoped = Cardinality(Booked)
    BY DEF LockerInv, BooksBalance
  <2>1. CASE Booked = {}
    BY <2>1, FS_EmptySet DEF LockerInv
  <2>2. CASE Booked # {}
    <3>1. PICK p \in Booked : TRUE
      BY <2>2
    <3>2. Booked = {p}
      BY <3>1 DEF LockerInv
    <3>3. Cardinality({p}) = 1
      BY FS_Singleton
    <3> QED
      BY <2>2, <3>2, <3>3 DEF LockerInv, LockerTypeOK
  <2> QED
    BY <2>1, <2>2
<1> QED
  BY <1>1, LockerInvariant, PTL

(* shared_locker implements the abstract reader-writer lock: bookings,     *)
(* spins and timeouts are stutters of RWLock, and the lock is granted only *)
(* in states where RWLock grants it.                                       *)
THEOREM LockerRefinesRWLock == LockerSpec => ImplementsRWLock
<1> USE DEF RW!rwVars
<1>1. LockerInit => RW!RWInit
  BY DEF LockerInit, RW!RWInit, Writers, Sharers
<1>2. LockerInv /\ [LockerNext]_lockerVars => [RW!RWNext]_(RW!rwVars)
  <2> SUFFICES ASSUME LockerInv, [LockerNext]_lockerVars
               PROVE  [RW!RWNext]_(RW!rwVars)
    OBVIOUS
  <2> USE DEF LockerInv
  <2>0. CASE UNCHANGED lockerVars
    BY <2>0 DEF Sharers, Writers
  <2>1. ASSUME NEW p \in Users, NEW c \in Calls, Enter(p, c) \/ timed_expire(p)
        PROVE  UNCHANGED RW!rwVars
    BY <2>1 DEF LockerTypeOK, Enter, timed_expire, Goto, Calls, Writers, Sharers
  <2>2. ASSUME NEW p \in Users,
               try_lock(p) \/ try_book_lock(p) \/ count_sharable(p)
        PROVE  RW!GrantScoped(p) \/ UNCHANGED RW!rwVars
    <3>1. Sharers' = Sharers
      BY <2>2 DEF LockerTypeOK, try_lock, try_book_lock, count_sharable, Goto,
                  Sharers
    <3>2. Writers = {}
      BY <2>2 DEF LockerTypeOK, try_lock, try_book_lock, count_sharable,
                  Writers, Booked
    <3>3. Writers' = {} \/ (Writers' = {p} /\ m_sharable = 0)
      BY <2>2, <3>2 DEF LockerTypeOK, try_lock, try_book_lock, count_sharable,
                        Goto, Writers
    <3> QED
      BY <3>1, <3>2, <3>3, SharersFinite DEF RW!GrantScoped
  <2>3. ASSUME NEW p \in Users, unlock(p) \/ timed_lock_cancel(p)
        PROVE  RW!ReleaseScoped(p) \/ UNCHANGED RW!rwVars
    BY <2>3 DEF LockerTypeOK, unlock, timed_lock_cancel, Goto, Writers, Sharers,
                RW!ReleaseScoped
  <2>4. ASSUME NEW p \in Users, try_lock_sharable(p) PROVE RW!GrantSharable(p)
    BY <2>4 DEF LockerTypeOK, try_lock_sharable, Goto, Writers, Sharers, Booked,
                RW!GrantSharable
  <2>5. ASSUME NEW p \in Users, unlock_sharable(p) PROVE RW!ReleaseSharable(p)
    BY <2>5 DEF LockerTypeOK, unlock_sharable, Goto, Writers, Sharers,
                RW!ReleaseSharable
  <2> QED
    BY <2>0, <2>1, <2>2, <2>3, <2>4, <2>5
       DEF LockerNext, LockerStep, RW!RWNext, Calls
<1> QED
  BY <1>1, <1>2, LockerInvariant, PTL DEF LockerSpec, ImplementsRWLock, RW!RWSpec

-----------------------------------------------------------------------------
HIDE DEF lockerVars

(***************************************************************************)
(* The connectors.                                                         *)
(***************************************************************************)

BP == INSTANCE SharedBarrierProofs WITH
        Waiters <- Consumers,
        TimedWaiters <- Hasty \cap Consumers,
        Guarded <- TRUE

(* Counting means the same there as here.                                  *)
LEMMA SameCounting ==
    \A S : /\ BP!IsFiniteSet(S) <=> IsFiniteSet(S)
           /\ BP!Cardinality(S) = Cardinality(S)
BY DEF BP!IsFiniteSet, IsFiniteSet, BP!Cardinality, Cardinality

(* The constants are as the barrier wants them.                            *)
LEMMA ConstantsFit == BP!BarrierConstants
<1>1. Cardinality(Consumers) \in Nat
  BY ConnectorAssumption, FS_CardinalityType
<1> QED BY <1>1, ConnectorAssumption, SameCounting DEF BP!BarrierConstants

-----------------------------------------------------------------------------
(* Who is where, and who owns the lock: a producer in its push owns it     *)
(* exclusively, a consumer from the grant to the unlock owns it sharably,  *)
(* the place of a consumer at the barrier follows its place in the call,   *)
(* and whoever knocks still has nothing to read.                           *)
Pushing == {"push", "push_body"}
Sharing == {"get", "pop", "get_body", "knock", "unlock", "pop_body"}

ProducerPlaced(p) ==
    /\ pc[p] \in Pushing \cup {"idle", "timed_push"}
    /\ p \in writers <=> pc[p] \in Pushing

ConsumerPlaced(c) ==
    /\ c \in readers <=> pc[c] \in Sharing
    /\ \/ pc[c] = "knock" /\ at[c] \in {"knock", "look"} /\ unread[c] = 0
       \/ pc[c] = "unlock" /\ at[c] = "expect" /\ unread[c] = 0
       \/ pc[c] = "expect" /\ at[c] \in {"expect", "pass", "late"}
       \/ /\ pc[c] \in {"idle", "get", "pop", "timed_get", "get_body",
                        "timed_pop", "pop_body"}
          /\ at[c] = "away"

Owners == /\ writers \subseteq Producers /\ readers \subseteq Consumers
          /\ writers # {} => readers = {}

Domains == /\ DOMAIN pc = Procs /\ pc = [p \in Procs |-> pc[p]]
           /\ at = [c \in Consumers |-> at[c]]
           /\ unread \in [Consumers -> 0 .. Room]

LockInv == /\ Owners /\ Domains
           /\ \A p \in Producers : ProducerPlaced(p)
           /\ \A c \in Consumers : ConsumerPlaced(c)

(* At first nobody holds the lock.                                         *)
LEMMA LockInvInit == ConnectorInit => LockInv
BY ConnectorAssumption
   DEF ConnectorInit, L!RWInit, B!BarrierInit, LockInv, Owners, Domains,
       ProducerPlaced, ConsumerPlaced, Procs, Pushing, Sharing

(* A producer moves.                                                       *)
LEMMA ProducerMoves ==
    ASSUME LockInv, NEW p \in Producers, NEW to,
           to \in Pushing \cup {"idle", "timed_push"},
           pc' = [pc EXCEPT ![p] = to],
           \/ to \in Pushing /\ writers = {} /\ readers = {} /\ writers' = {p}
           \/ to \notin Pushing /\ writers' = writers \ {p},
           UNCHANGED <<readers, at>>,
           \/ UNCHANGED unread
           \/ p \in writers /\ (unread \in [Consumers -> 0 .. Room])'
    PROVE  LockInv'
<1>1. p \in Procs /\ p \notin Consumers /\ Producers \subseteq Procs
      /\ Consumers \subseteq Procs
  BY ConnectorAssumption DEF Procs
<1>2. Owners' /\ Domains'
  BY <1>1 DEF LockInv, Owners, Domains
<1>3. ASSUME NEW r \in Producers PROVE ProducerPlaced(r)'
  BY <1>1 DEF LockInv, Owners, Domains, ProducerPlaced, Pushing
<1>4. ASSUME NEW c \in Consumers PROVE ConsumerPlaced(c)'
  <2>1. /\ pc'[c] = pc[c] /\ at'[c] = at[c] /\ readers' = readers
        /\ c # p /\ ConsumerPlaced(c)
    BY <1>1 DEF LockInv, Domains
  <2>2. CASE UNCHANGED unread
    BY <2>1, <2>2 DEF ConsumerPlaced
  <2>3. CASE p \in writers
    BY <2>1, <2>3 DEF LockInv, Owners, ConsumerPlaced, Sharing
  <2> QED BY <2>2, <2>3
<1> QED BY <1>2, <1>3, <1>4 DEF LockInv

(* A consumer moves.                                                       *)
LEMMA ConsumerMoves ==
    ASSUME LockInv, NEW c \in Consumers, NEW to, NEW place,
           pc' = [pc EXCEPT ![c] = to], at' = [at EXCEPT ![c] = place],
           UNCHANGED writers, readers' \subseteq Consumers,
           \/ readers' = readers
           \/ readers' = readers \ {c}
           \/ writers = {} /\ readers' = readers \cup {c},
           (unread \in [Consumers -> 0 .. Room])',
           \A d \in Consumers \ {c} : unread'[d] = unread[d],
           ConsumerPlaced(c)'
    PROVE  LockInv'
<1>1. c \in Procs /\ c \notin Producers /\ Producers \subseteq Procs
      /\ Consumers \subseteq Procs
  BY ConnectorAssumption DEF Procs
<1>2. Owners' /\ Domains'
  BY <1>1 DEF LockInv, Owners, Domains
<1>3. ASSUME NEW r \in Producers PROVE ProducerPlaced(r)'
  BY <1>1 DEF LockInv, Domains, ProducerPlaced
<1>4. ASSUME NEW d \in Consumers PROVE ConsumerPlaced(d)'
  <2>1. CASE d # c
    <3>1. /\ pc'[d] = pc[d] /\ at'[d] = at[d] /\ unread'[d] = unread[d]
          /\ d \in readers' <=> d \in readers
      BY <1>1, <2>1 DEF LockInv, Domains
    <3> QED BY <3>1 DEF LockInv, ConsumerPlaced
  <2> QED BY <2>1
<1> QED BY <1>2, <1>3, <1>4 DEF LockInv

(* The lock's invariant is kept by every step.                             *)
LEMMA ProducerKeeps ==
    ASSUME LockInv, NEW p \in Producers,
           PushTry(p) \/ Call(p, "timed_push") \/ ProducerStep(p)
    PROVE  LockInv'
<1>0. p \in Procs /\ Room \in Nat
  BY ConnectorAssumption DEF Procs
<1>1. CASE PushTry(p)
  BY <1>0, <1>1, ProducerMoves DEF PushTry, Step, L!GrantScoped, barVars, Pushing
<1>2. CASE Call(p, "timed_push") \/ Expire(p, "timed_push")
  <2>1. pc[p] \notin Pushing /\ p \notin writers
    BY <1>2 DEF Call, Expire, Step, Pushing, LockInv, ProducerPlaced
  <2> QED
    BY <1>0, <1>2, <2>1, ProducerMoves
       DEF Call, Expire, Step, lockVars, barVars, Pushing
<1>3. CASE PushInner(p)
  <2>1. p \in writers
    BY <1>3 DEF PushInner, Step, Pushing, LockInv, ProducerPlaced
  <2> QED
    BY <1>0, <1>3, <2>1, ProducerMoves
       DEF PushInner, Step, L!ReleaseScoped, barVars, Pushing
<1>4. CASE TimedPushLock(p)
  BY <1>0, <1>4, ProducerMoves DEF TimedPushLock, Step, L!GrantScoped, barVars, Pushing
<1>5. CASE TimedPushStore(p)
  <2>1. p \in writers
    BY <1>5 DEF TimedPushStore, Step, Pushing, LockInv, ProducerPlaced
  <2>2. (unread \in [Consumers -> 0 .. Room])'
    BY <1>0, <1>5 DEF TimedPushStore, HasRoom, Stored, LockInv, Domains
  <2> QED
    BY <1>0, <1>5, <2>1, <2>2, ProducerMoves
       DEF TimedPushStore, Step, B!Open, L!ReleaseScoped, barVars, Pushing
<1>6. CASE TimedPushRefused(p)
  BY <1>0, <1>6, ProducerMoves
     DEF TimedPushRefused, Step, L!ReleaseScoped, barVars, Pushing
<1> QED BY <1>1, <1>2, <1>3, <1>4, <1>5, <1>6 DEF ProducerStep

(* The same for a step in which the barrier does not move.                 *)
LEMMA ConsumerStays ==
    ASSUME LockInv, NEW c \in Consumers, NEW to,
           pc' = [pc EXCEPT ![c] = to], UNCHANGED <<writers, at>>,
           \/ readers' = readers
           \/ readers' = readers \ {c}
           \/ writers = {} /\ readers' = readers \cup {c},
           \/ UNCHANGED unread
           \/ unread[c] > 0 /\ unread' = [unread EXCEPT ![c] = @ - 1],
           ConsumerPlaced(c)'
    PROVE  LockInv'
<1>0. Room \in Nat /\ unread \in [Consumers -> 0 .. Room] /\ readers \subseteq Consumers
  BY ConnectorAssumption DEF LockInv, Domains, Owners
<1>1. at' = [at EXCEPT ![c] = at[c]] /\ readers' \subseteq Consumers
  BY <1>0 DEF LockInv, Domains
<1>2. /\ (unread \in [Consumers -> 0 .. Room])'
      /\ \A d \in Consumers \ {c} : unread'[d] = unread[d]
  BY <1>0
<1> QED BY <1>1, <1>2, ConsumerMoves

(* A consumer moves.                                                       *)
LEMMA ConsumerKeeps ==
    ASSUME LockInv, NEW c \in Consumers,
           \/ SharableLock(c, "idle", "get") \/ SharableLock(c, "idle", "pop")
           \/ Call(c, "timed_get") \/ Call(c, "timed_pop")
           \/ ConsumerStep(c)
    PROVE  LockInv'
<1>0. /\ c \in Procs /\ Room \in Nat /\ readers \subseteq Consumers
      /\ DOMAIN pc = Procs /\ unread \in [Consumers -> 0 .. Room]
      /\ at = [d \in Consumers |-> at[d]] /\ ConsumerPlaced(c)
  BY ConnectorAssumption DEF Procs, LockInv, Owners, Domains
<1>1. ASSUME NEW from, NEW to, SharableLock(c, from, to),
             <<from, to>> \in {<<"idle", "get">>, <<"idle", "pop">>,
                   <<"timed_get", "get_body">>, <<"timed_pop", "pop_body">>}
      PROVE  LockInv'
  <2>1. ConsumerPlaced(c)'
    BY <1>0, <1>1
       DEF SharableLock, Step, L!GrantSharable, barVars, ConsumerPlaced, Sharing
  <2> QED BY <1>1, <2>1, ConsumerStays DEF SharableLock, Step, L!GrantSharable, barVars
<1>2. ASSUME NEW op \in {"timed_get", "timed_pop"}, Call(c, op) \/ Expire(c, op)
      PROVE  LockInv'
  <2>1. ConsumerPlaced(c)'
    BY <1>0, <1>2 DEF Call, Expire, Step, lockVars, barVars, ConsumerPlaced, Sharing
  <2> QED BY <1>2, <2>1, ConsumerStays DEF Call, Expire, Step, lockVars, barVars
<1>3. CASE GetDone(c) \/ GetFound(c) \/ GetUnlock(c)
  <2>1. ConsumerPlaced(c)'
    BY <1>0, <1>3
       DEF GetDone, GetFound, GetUnlock, Release, Step, L!ReleaseSharable, barVars,
           ConsumerPlaced, Sharing
  <2> QED
    BY <1>3, <2>1, ConsumerStays
       DEF GetDone, GetFound, GetUnlock, Release, Step, L!ReleaseSharable, barVars
<1>4. ASSUME NEW from, NEW to, Pop(c, from, to) \/ PopNone(c, from, to),
             <<from, to>> \in {<<"pop", "idle">>, <<"pop_body", "idle">>,
                               <<"pop_body", "timed_pop">>}
      PROVE  LockInv'
  <2>1. ConsumerPlaced(c)'
    BY <1>0, <1>4
       DEF Pop, PopNone, Release, Step, L!ReleaseSharable, barVars, ConsumerPlaced, Sharing
  <2> QED
    BY <1>4, <2>1, ConsumerStays DEF Pop, PopNone, Release, Step, L!ReleaseSharable, barVars
<1>5. CASE GetKnock(c)
  <2>1. ConsumerPlaced(c)'
    BY <1>0, <1>5
       DEF GetKnock, Step, B!Call, B!Move, lockVars, ConsumerPlaced, Sharing
  <2> QED
    BY <1>0, <1>5, <2>1, ConsumerMoves DEF GetKnock, Step, B!Call, B!Move, lockVars
<1>6. CASE GetKnocking(c)
  <2>1. ConsumerPlaced(c)'
    BY <1>0, <1>6
       DEF GetKnocking, Step, B!KnockLook, B!KnockCount, B!Move, lockVars,
           ConsumerPlaced, Sharing
  <2> QED
    BY <1>0, <1>6, <2>1, ConsumerMoves
       DEF GetKnocking, Step, B!KnockLook, B!KnockCount, B!Move, lockVars
<1>7. CASE GetExpect(c)
  <2>1. ConsumerPlaced(c)'
    BY <1>0, <1>7
       DEF GetExpect, Step, B!TakeToken, B!RunOutOfTime, B!GiveUp, B!Pass,
           B!LatePass, B!Move, lockVars, ConsumerPlaced, Sharing
  <2> QED
    BY <1>0, <1>7, <2>1, ConsumerMoves
       DEF GetExpect, Step, B!TakeToken, B!RunOutOfTime, B!GiveUp, B!Pass,
           B!LatePass, B!Move, lockVars
<1> QED BY <1>1, <1>2, <1>3, <1>4, <1>5, <1>6, <1>7 DEF ConsumerStep

(* The lock's owners are where the code says, whoever moves.               *)
LEMMA LockInvStep == LockInv /\ [ConnectorNext]_connectorVars => LockInv'
<1> SUFFICES ASSUME LockInv, [ConnectorNext]_connectorVars PROVE LockInv'
  OBVIOUS
<1>1. CASE UNCHANGED connectorVars
  BY <1>1 DEF connectorVars, lockVars, barVars, LockInv, Owners, Domains,
              ProducerPlaced, ConsumerPlaced
<1> QED BY <1>1, ProducerKeeps, ConsumerKeeps DEF ConnectorNext
-----------------------------------------------------------------------------
(* What happens at the barrier in a step of the connector: nothing, a step *)
(* of one consumer, or an open() by the producer that owns the lock.  The  *)
(* consumers' places in the call are told as well.                         *)
Entering(c) == /\ pc[c] = "get_body" /\ unread[c] = 0 /\ BP!Call(c)

Calm == /\ UNCHANGED barVars
        /\ \/ UNCHANGED unread
           \/ \E c \in Consumers : /\ unread' = [unread EXCEPT ![c] = @ - 1]
                                   /\ at[c] = "away"

AtBarrier(c) ==
    /\ \/ Entering(c) \/ BP!KnockLook(c) \/ BP!KnockCount(c) \/ BP!TakeToken(c)
       \/ BP!Pass(c) \/ BP!RunOutOfTime(c) \/ BP!GiveUp(c) \/ BP!LatePass(c)
    /\ UNCHANGED unread

Opening == BP!Open /\ Stored /\ writers # {}

(* Seen from the barrier, a step does nothing, opens it, or is one of a    *)
(* consumer at the barrier.                                                *)
LEMMA StepShape ==
    ASSUME LockInv, [ConnectorNext]_connectorVars
    PROVE  Calm \/ Opening \/ \E c \in Consumers : AtBarrier(c)
<1>1. CASE UNCHANGED connectorVars
  BY <1>1 DEF connectorVars, Calm
<1>2. ASSUME NEW p \in Producers,
             PushTry(p) \/ Call(p, "timed_push") \/ TimedPushLock(p)
             \/ TimedPushRefused(p) \/ Expire(p, "timed_push")
      PROVE  Calm
  BY <1>2 DEF PushTry, Call, TimedPushLock, TimedPushRefused, Expire, Calm
<1>3. ASSUME NEW p \in Producers, PushInner(p) PROVE Calm
  BY <1>3 DEF PushInner, Step, Calm, LockInv, ProducerPlaced, Pushing
<1>4. ASSUME NEW p \in Producers, TimedPushStore(p) PROVE Opening
  <2>1. p \in writers /\ readers = {}
    BY <1>4 DEF TimedPushStore, Step, LockInv, Owners, ProducerPlaced, Pushing
  <2>2. \A c \in Consumers : at[c] \notin {"knock", "look"}
    BY <2>1 DEF LockInv, ConsumerPlaced, Sharing
  <2> QED BY <1>4, <2>1, <2>2 DEF TimedPushStore, B!Open, BP!Open, Opening
<1>5. ASSUME NEW c \in Consumers, NEW from, NEW to,
             SharableLock(c, from, to) \/ PopNone(c, from, to)
      PROVE  Calm
  BY <1>5 DEF SharableLock, PopNone, Calm
<1>6. ASSUME NEW c \in Consumers, NEW op, Call(c, op) \/ Expire(c, op) PROVE Calm
  BY <1>6 DEF Call, Expire, Calm
<1>7. ASSUME NEW c \in Consumers, NEW from \in {"pop", "pop_body"}, NEW to,
             Pop(c, from, to)
      PROVE  Calm
  <2>1. at[c] = "away"
    BY <1>7 DEF Pop, Release, Step, LockInv, ConsumerPlaced
  <2> QED BY <1>7, <2>1 DEF Pop, Calm
<1>8. ASSUME NEW c \in Consumers, GetDone(c) \/ GetFound(c) \/ GetUnlock(c) PROVE Calm
  BY <1>8 DEF GetDone, GetFound, GetUnlock, Calm
<1>9. ASSUME NEW c \in Consumers, GetKnock(c) PROVE AtBarrier(c)
  BY <1>9 DEF GetKnock, Step, B!Call, B!Move, BP!Call, BP!Move, AtBarrier, Entering
<1>10. ASSUME NEW c \in Consumers, GetKnocking(c) PROVE AtBarrier(c)
  BY <1>10 DEF GetKnocking, B!KnockLook, B!KnockCount, B!Move, B!Inc,
               BP!KnockLook, BP!KnockCount, BP!Move, BP!Inc, AtBarrier
<1>11. ASSUME NEW c \in Consumers, GetExpect(c) PROVE AtBarrier(c)
  BY <1>11 DEF GetExpect, B!TakeToken, B!RunOutOfTime, B!GiveUp, B!Pass, B!LatePass,
               B!Move, B!Dec, BP!TakeToken, BP!RunOutOfTime, BP!GiveUp, BP!Pass,
               BP!LatePass, BP!Move, BP!Dec, AtBarrier
<1> QED BY <1>1, <1>2, <1>3, <1>4, <1>5, <1>6, <1>7, <1>8, <1>9, <1>10, <1>11
           DEF ConnectorNext, ProducerStep, ConsumerStep

(* Each of them is a step of the guarded barrier, or none.                 *)
LEMMA BarrierStep ==
    LockInv /\ [ConnectorNext]_connectorVars => [BP!BarrierNext]_(BP!barrierVars)
<1> SUFFICES ASSUME LockInv, [ConnectorNext]_connectorVars
             PROVE  BP!BarrierNext \/ UNCHANGED BP!barrierVars
  OBVIOUS
<1>1. CASE Calm
  BY <1>1 DEF Calm, barVars, BP!barrierVars
<1>2. CASE Opening
  BY <1>2 DEF Opening, BP!BarrierNext
<1>3. ASSUME NEW c \in Consumers, AtBarrier(c) PROVE BP!BarrierNext
  BY <1>3 DEF AtBarrier, Entering, BP!BarrierNext
<1> QED BY <1>1, <1>2, <1>3, StepShape

(* The barrier of the instance with proofs is the one the run names.       *)
LEMMA SameBarrier ==
    /\ BP!BarrierInit <=> GB!BarrierInit
    /\ [BP!BarrierNext]_(BP!barrierVars) <=> [GB!BarrierNext]_(GB!barrierVars)
<1>1. BP!BarrierInit <=> GB!BarrierInit
  BY DEF BP!BarrierInit, GB!BarrierInit
<1>2. BP!Open <=> GB!Open
  BY DEF BP!Open, GB!Open
<1>3. \A c : /\ BP!Call(c) <=> GB!Call(c)
             /\ BP!KnockLook(c) <=> GB!KnockLook(c)
             /\ BP!KnockCount(c) <=> GB!KnockCount(c)
             /\ BP!TakeToken(c) <=> GB!TakeToken(c)
             /\ BP!Pass(c) <=> GB!Pass(c)
             /\ BP!RunOutOfTime(c) <=> GB!RunOutOfTime(c)
             /\ BP!GiveUp(c) <=> GB!GiveUp(c)
             /\ BP!LatePass(c) <=> GB!LatePass(c)
  BY DEF BP!Call, BP!KnockLook, BP!KnockCount, BP!TakeToken, BP!Pass,
         BP!RunOutOfTime, BP!GiveUp, BP!LatePass, BP!Move, BP!Inc, BP!Dec,
         GB!Call, GB!KnockLook, GB!KnockCount, GB!TakeToken, GB!Pass,
         GB!RunOutOfTime, GB!GiveUp, GB!LatePass, GB!Move, GB!Inc, GB!Dec
<1>4. BP!BarrierNext <=> GB!BarrierNext
  BY <1>2, <1>3 DEF BP!BarrierNext, GB!BarrierNext
<1> QED BY <1>1, <1>4 DEF BP!barrierVars, GB!barrierVars

(* Who owns the lock and where the consumers are, always.                  *)
THEOREM LockInvariant == ConnectorSpec => []LockInv
BY LockInvInit, LockInvStep, PTL DEF ConnectorSpec

(* The connector uses the barrier with open() kept out while a consumer is *)
(* in knock() (connector.h:941-949): it implements the guarded barrier.    *)
THEOREM GuardedBarrier == ConnectorSpec => ImplementsGuardedBarrier
<1>1. ConnectorInit => GB!BarrierInit
  BY DEF ConnectorInit, B!BarrierInit, GB!BarrierInit
<1>2. LockInv /\ [ConnectorNext]_connectorVars => [GB!BarrierNext]_(GB!barrierVars)
  BY BarrierStep, SameBarrier
<1> QED
  BY <1>1, <1>2, LockInvariant, PTL
     DEF ConnectorSpec, ImplementsGuardedBarrier, GB!BarrierSpec

(* So what is proved of the guarded barrier holds in the connector: a      *)
(* consumer that goes through has had an open() since it knocked, and the  *)
(* counters count the waiting consumers, with a token for each let through *)
(* (until a timeout races an open()).                                      *)
THEOREM BarrierIsUsedRight ==
    ConnectorSpec => [](BP!EveryKnockCounted /\ BP!TokensMatch /\ BP!HoldsUntilOpen)
<1>1. ConnectorInit => BP!BarrierInit
  BY DEF ConnectorInit, B!BarrierInit, BP!BarrierInit
<1>2. ConnectorSpec => BP!BarrierSpec
  BY <1>1, BarrierStep, LockInvariant, PTL DEF ConnectorSpec, BP!BarrierSpec
<1>3. BP!BarrierSpec => []BP!HoldsUntilOpen
  BY ConstantsFit, BP!BarrierHolds
<1>4. BP!BarrierSpec => []BP!EveryKnockCounted
  BY ConstantsFit, BP!KnocksCounted
<1>5. BP!BarrierSpec => []BP!TokensMatch
  BY ConstantsFit, BP!TokensMatchHolds
<1> QED BY <1>2, <1>3, <1>4, <1>5, PTL
-----------------------------------------------------------------------------
(* Why no wake-up is lost.  Nobody waits who is neither counted for the    *)
(* next open() nor has a token; the count cannot wrap; and while somebody  *)
(* waits with a message unread, nobody is counted or about to be, and all  *)
(* who wait have a message, so that a token goes to nobody else.           *)
Looking == BP!At({"look"})

Covered == Cardinality(BP!Queued) <= m_counter1 + m_barrier
NoWrap  == m_counter1 + Cardinality(Looking) <= Cardinality(Consumers)
Woken   == Cardinality(Waiting) <= m_barrier
AllHaveMail ==
    Waiting # {} => /\ m_counter1 = 0 /\ Looking = {}
                    /\ \A c \in Consumers : at[c] = "expect" => unread[c] > 0

WakeInv == /\ LockInv /\ BP!BarrierInv
           /\ Covered /\ NoWrap /\ Woken /\ AllHaveMail

(* Consumers can be counted.                                               *)
LEMMA Countable ==
    ASSUME NEW S \in SUBSET Consumers
    PROVE  /\ IsFiniteSet(S) /\ Cardinality(S) \in Nat
           /\ Cardinality(S) <= Cardinality(Consumers)
           /\ Cardinality(S) = 0 <=> S = {}
           /\ Cardinality(Consumers) \in Nat /\ Cardinality(Consumers) < Word
           /\ Word \in Nat
<1>1. IsFiniteSet(S) /\ Cardinality(S) <= Cardinality(Consumers)
  BY ConnectorAssumption, FS_Subset
<1> QED BY <1>1, ConnectorAssumption, FS_CardinalityType, FS_EmptySet

(* While nobody is being let through, the first counter counts everybody   *)
(* inside, so that nobody waits with a message unread.                     *)
LEMMA NobodyPasses ==
    ASSUME WakeInv, m_counter2 = 0
    PROVE  m_counter1 = Cardinality(BP!Inside) /\ Waiting = {}
<1>1. /\ m_counter1 \in 0 .. Word - 1 /\ Word \in Nat
      /\ Cardinality(BP!Inside) \in 0 .. Word - 1
  BY BP!Numbers, ConstantsFit, SameCounting, Countable DEF WakeInv, BP!BarrierInv
<1>2. m_counter1 = Cardinality(BP!Inside)
  BY <1>1, SameCounting DEF WakeInv, BP!BarrierInv, BP!Accounted
<1>3. Waiting \subseteq BP!Inside /\ BP!Inside \in SUBSET Consumers
  BY DEF Waiting, BP!Inside, BP!At
<1> QED BY <1>2, <1>3, Countable DEF WakeInv, AllHaveMail

(* Every step keeps the four parts of WakeInv that are about waiting       *)
(* consumers.                                                              *)
LEMMA WakeStep ==
    ASSUME WakeInv, [ConnectorNext]_connectorVars
    PROVE  Covered' /\ NoWrap' /\ Woken' /\ AllHaveMail'
<1> DEFINE q == Cardinality(BP!Queued)
           k == Cardinality(Looking)
           v == Cardinality(Waiting)
           n == Cardinality(Consumers)
<1>1. /\ BP!Queued \in SUBSET Consumers /\ Looking \in SUBSET Consumers
      /\ Waiting \in SUBSET Consumers /\ BP!Inside \in SUBSET Consumers
      /\ Looking' \in SUBSET Consumers /\ Waiting' \in SUBSET Consumers
      /\ BP!Queued' \in SUBSET Consumers
  BY DEF BP!Queued, BP!Inside, Looking, Waiting, BP!At
<1>2. /\ q \in Nat /\ k \in Nat /\ v \in Nat /\ n \in Nat /\ n < Word
      /\ v = 0 <=> Waiting = {}
      /\ k = 0 <=> Looking = {}
      /\ q' \in Nat /\ k' \in Nat /\ v' \in Nat /\ k' <= n
      /\ v' = 0 <=> Waiting' = {}
      /\ k' = 0 <=> Looking' = {}
      /\ Word \in Nat
  BY <1>1, Countable
<1>3. BP!BarrierTypeOK /\ at \in [Consumers -> BP!Places]
  BY DEF WakeInv, BP!BarrierInv, BP!BarrierTypeOK
<1>4. m_counter1 \in 0 .. Word - 1 /\ m_counter2 \in 0 .. Word - 1 /\ m_barrier \in Nat
  BY <1>3 DEF BP!BarrierTypeOK
<1>5. q <= m_counter1 + m_barrier /\ m_counter1 + k <= n /\ v <= m_barrier
  BY DEF WakeInv, Covered, NoWrap, Woken
<1>6. /\ m_counter1 + 1 < Word => BP!Inc(m_counter1) = m_counter1 + 1
      /\ m_counter1 > 0 => BP!Dec(m_counter1) = m_counter1 - 1
  BY <1>4, BP!WordArithmetic, ConstantsFit
<1>7. ASSUME q' <= m_counter1' + m_barrier', m_counter1' + k' <= n, v' <= m_barrier',
             AllHaveMail'
      PROVE  Covered' /\ NoWrap' /\ Woken' /\ AllHaveMail'
  BY <1>7 DEF Covered, NoWrap, Woken
<1>8. CASE Calm
  <2>1. UNCHANGED <<BP!Queued, Looking, m_counter1, m_barrier, at>>
    BY <1>8 DEF Calm, barVars, BP!Queued, Looking, BP!At
  <2>2. \A c \in Consumers : at[c] = "expect" => unread'[c] = unread[c]
    BY <1>8 DEF Calm, WakeInv, LockInv, Domains
  <2>3. Waiting' = Waiting
    BY <2>1, <2>2 DEF Waiting
  <2>4. AllHaveMail'
    BY <2>1, <2>2, <2>3 DEF WakeInv, AllHaveMail
  <2> QED BY <1>5, <1>7, <2>1, <2>3, <2>4
<1>9. CASE Opening
  <2>1. /\ at' = at /\ m_counter1' = 0 /\ m_barrier' = m_barrier + m_counter1
        /\ \A c \in Consumers : at[c] \notin {"knock", "look"}
    BY <1>9 DEF Opening, BP!Open
  <2>2. \A c \in Consumers : unread'[c] > 0
    BY <1>9, ConnectorAssumption DEF Opening, Stored, WakeInv, LockInv, Domains
  <2>3. BP!Queued' = BP!Queued /\ Looking' = {} /\ Waiting' \subseteq BP!Queued
    BY <2>1 DEF BP!Queued, Looking, BP!At, Waiting
  <2>4. AllHaveMail'
    BY <2>1, <2>2, <2>3 DEF AllHaveMail
  <2>5. v' <= q
    BY <1>1, <2>3, Countable, FS_Subset
  <2> HIDE DEF q, k, v, n
  <2>6. q' = q
    BY <2>3 DEF q
  <2>7. q' <= m_counter1' + m_barrier'
    BY <1>2, <1>4, <1>5, <2>1, <2>6
  <2>8. m_counter1' + k' <= n
    BY <1>2, <2>1, <2>3
  <2>9. v' <= m_barrier'
    BY <1>2, <1>4, <1>5, <2>1, <2>5
  <2> QED BY <1>7, <2>4, <2>7, <2>8, <2>9
<1>10. ASSUME NEW c \in Consumers, AtBarrier(c)
       PROVE  Covered' /\ NoWrap' /\ Woken' /\ AllHaveMail'
  <2>0. unread' = unread
    BY <1>10 DEF AtBarrier
  <2>1. ASSUME NEW from, NEW to, BP!Move(c, from, to), to \in BP!Places
        PROVE  /\ from = "expect" /\ to = "pass" => q' = q - 1 /\ k' = k
               /\ from = "pass" /\ to = "away" => q' = q /\ k' = k
               /\ from = "late" /\ to = "away" => q' = q - 1 /\ k' = k
               /\ from = "look" /\ to = "expect" => q' = q + 1 /\ k' = k - 1 /\ k >= 1
               /\ from = "knock" /\ to = "look" => q' = q /\ k' = k + 1
               /\ <<from, to>> \in {<<"away", "knock">>, <<"expect", "late">>}
                     => q' = q /\ k' = k
    <3>1. at[c] = from /\ at' = [at EXCEPT ![c] = to]
      BY <2>1 DEF BP!Move
    <3>2. /\ from = "look" /\ to # "look" => k' = k - 1 /\ k >= 1
          /\ from # "look" /\ to = "look" => k' = k + 1
          /\ from # "look" /\ to # "look" => k' = k
      <4> DEFINE S == {"look"}
      <4>1. at[c] \in S <=> from = "look"
        BY <3>1
      <4>2. to \in S <=> to = "look"
        OBVIOUS
      <4>3. Looking = BP!At(S) /\ Looking' = BP!At(S)'
        BY DEF Looking
      <4> HIDE DEF S
      <4>4. BP!BarrierConstants
        BY ConstantsFit
      <4> QED BY <1>3, <3>1, <4>1, <4>2, <4>3, <4>4, BP!AtMoves, SameCounting
    <3> QED BY <1>3, <2>1, <3>2, BP!NumbersMove, ConstantsFit, SameCounting
  <2>2. ASSUME NEW from, NEW to, BP!Move(c, from, to), to # "expect"
        PROVE  /\ Waiting' = IF from = "expect" THEN Waiting \ {c} ELSE Waiting
               /\ \A d \in Consumers : at'[d] = "expect" => at[d] = "expect"
    BY <1>3, <2>0, <2>2 DEF BP!Move, Waiting
  <2>3. CASE Entering(c)
    <3>1. BP!Move(c, "away", "knock") /\ UNCHANGED <<m_counter1, m_barrier>>
      BY <2>3 DEF Entering, BP!Call
    <3>2. q' = q /\ k' = k /\ Waiting' = Waiting
      BY <2>1, <2>2, <3>1 DEF BP!Places
    <3>3. AllHaveMail'
      BY <1>2, <2>0, <2>2, <3>1, <3>2 DEF WakeInv, AllHaveMail
    <3> QED BY <1>5, <1>7, <3>1, <3>2, <3>3
  <2>4. CASE BP!KnockLook(c)
    <3>1. /\ BP!Move(c, "knock", "look") /\ m_counter2 = 0
          /\ UNCHANGED <<m_counter1, m_barrier>>
      BY <2>4 DEF BP!KnockLook
    <3>2. q' = q /\ k' = k + 1 /\ Waiting' = Waiting
      BY <2>1, <2>2, <3>1 DEF BP!Places
    <3>3. Waiting = {} /\ m_counter1 = Cardinality(BP!Inside)
      BY <3>1, NobodyPasses
    <3>4. m_counter1 + k + 1 <= n
      <4>1. /\ Looking' \cup BP!Inside \in SUBSET Consumers
            /\ Looking' \cap BP!Inside = {}
        BY <1>1, <1>3, <3>1 DEF BP!Move, Looking, BP!Inside, BP!At
      <4>2. Cardinality(Looking' \cap BP!Inside) = 0
        BY <4>1, FS_EmptySet
      <4>3. Cardinality(Looking' \cup BP!Inside) = k' + Cardinality(BP!Inside) - 0
        BY <1>1, <4>2, Countable, FS_Union
      <4>4. /\ Cardinality(BP!Inside) \in Nat
            /\ Cardinality(Looking' \cup BP!Inside) <= n
        BY <1>1, <4>1, Countable
      <4> HIDE DEF k, n
      <4> QED BY <1>2, <3>2, <3>3, <4>3, <4>4
    <3>5. AllHaveMail'
      BY <3>2, <3>3 DEF AllHaveMail
    <3> HIDE DEF q, k, v, n
    <3>6. v' = v
      BY <3>2 DEF v
    <3> QED BY <1>2, <1>4, <1>5, <1>7, <3>1, <3>2, <3>4, <3>5, <3>6
  <2>5. CASE BP!KnockCount(c)
    <3>1. /\ BP!Move(c, "look", "expect") /\ m_counter1' = BP!Inc(m_counter1)
          /\ UNCHANGED m_barrier
      BY <2>5 DEF BP!KnockCount
    <3>2. q' = q + 1 /\ k' = k - 1 /\ k >= 1
      BY <2>1, <3>1 DEF BP!Places
    <3>3. Waiting = {}
      BY <1>2, <3>2 DEF WakeInv, AllHaveMail
    <3>4. unread[c] = 0
      BY <3>1 DEF BP!Move, WakeInv, LockInv, ConsumerPlaced
    <3>5. Waiting' = {}
      BY <1>3, <2>0, <3>1, <3>3, <3>4 DEF BP!Move, Waiting
    <3>6. AllHaveMail' /\ v' = 0
      BY <1>2, <3>5 DEF AllHaveMail
    <3> HIDE DEF q, k, v, n
    <3> QED BY <1>2, <1>4, <1>5, <1>6, <1>7, <3>1, <3>2, <3>6
  <2>6. CASE BP!TakeToken(c)
    <3>1. /\ BP!Move(c, "expect", "pass") /\ m_barrier > 0 /\ m_barrier' = m_barrier - 1
          /\ UNCHANGED m_counter1
      BY <2>6 DEF BP!TakeToken
    <3>2. q' = q - 1 /\ k' = k /\ Waiting' = Waiting \ {c}
      BY <2>1, <2>2, <3>1 DEF BP!Places
    <3>3. Looking' = Looking
      BY <1>3, <3>1 DEF BP!Move, Looking, BP!At
    <3>4. AllHaveMail'
      BY <2>0, <2>2, <3>1, <3>2, <3>3 DEF WakeInv, AllHaveMail
    <3>5. v' <= m_barrier'
      <4>1. CASE Waiting = {}
        BY <1>2, <1>4, <3>1, <3>2, <4>1
      <4>2. CASE Waiting # {}
        <5>1. c \in Waiting
          BY <3>1, <4>2 DEF BP!Move, WakeInv, AllHaveMail, Waiting
        <5>2. v' = v - 1
          BY <1>1, <3>2, <5>1, Countable, FS_RemoveElement
        <5> HIDE DEF v
        <5> QED BY <1>2, <1>4, <1>5, <3>1, <5>2
      <4> QED BY <4>1, <4>2
    <3> HIDE DEF q, k, v, n
    <3> QED BY <1>2, <1>4, <1>5, <1>7, <3>1, <3>2, <3>4, <3>5
  <2>7. CASE BP!Pass(c)
    <3>1. BP!Move(c, "pass", "away") /\ UNCHANGED <<m_counter1, m_barrier>>
      BY <2>7 DEF BP!Pass
    <3>2. q' = q /\ k' = k /\ Waiting' = Waiting
      BY <2>1, <2>2, <3>1 DEF BP!Places
    <3>3. AllHaveMail'
      BY <1>2, <2>0, <2>2, <3>1, <3>2 DEF WakeInv, AllHaveMail
    <3> QED BY <1>5, <1>7, <3>1, <3>2, <3>3
  <2>8. CASE BP!RunOutOfTime(c)
    <3>1. /\ BP!Move(c, "expect", "late") /\ m_barrier = 0
          /\ UNCHANGED <<m_counter1, m_barrier>>
      BY <2>8 DEF BP!RunOutOfTime
    <3>2. Waiting = {}
      BY <1>2, <1>5, <3>1
    <3>3. q' = q /\ k' = k /\ Waiting' = {}
      BY <2>1, <2>2, <3>1, <3>2 DEF BP!Places
    <3>4. AllHaveMail' /\ v' = 0
      BY <1>2, <3>3 DEF AllHaveMail
    <3> QED BY <1>4, <1>5, <1>7, <3>1, <3>3, <3>4
  <2>9. CASE BP!GiveUp(c)
    <3>1. /\ BP!Move(c, "late", "away") /\ m_counter2 = 0
          /\ m_counter1' = BP!Dec(m_counter1) /\ UNCHANGED m_barrier
      BY <2>9 DEF BP!GiveUp
    <3>2. q' = q - 1 /\ k' = k /\ Waiting' = Waiting
      BY <2>1, <2>2, <3>1 DEF BP!Places
    <3>3. Waiting = {} /\ m_counter1 = Cardinality(BP!Inside)
      BY <3>1, NobodyPasses
    <3>4. c \in BP!Inside
      BY <3>1 DEF BP!Move, BP!Inside, BP!At
    <3>5. m_counter1 > 0
      BY <1>1, <1>4, <3>3, <3>4, Countable
    <3>6. AllHaveMail' /\ v' = 0
      BY <1>2, <3>2, <3>3 DEF AllHaveMail
    <3> HIDE DEF q, k, v, n
    <3> QED BY <1>2, <1>4, <1>5, <1>6, <1>7, <3>1, <3>2, <3>5, <3>6
  <2>10. CASE BP!LatePass(c)
    <3>1. BP!Move(c, "late", "away") /\ UNCHANGED <<m_counter1, m_barrier>>
      BY <2>10 DEF BP!LatePass
    <3>2. q' = q - 1 /\ k' = k /\ Waiting' = Waiting
      BY <2>1, <2>2, <3>1 DEF BP!Places
    <3>3. AllHaveMail'
      BY <1>2, <2>0, <2>2, <3>1, <3>2 DEF WakeInv, AllHaveMail
    <3> HIDE DEF q, k, v, n
    <3>4. v' = v
      BY <3>2 DEF v
    <3> QED BY <1>2, <1>4, <1>5, <1>7, <3>1, <3>2, <3>3, <3>4
  <2> QED BY <1>10, <2>3, <2>4, <2>5, <2>6, <2>7, <2>8, <2>9, <2>10 DEF AtBarrier
<1>11. LockInv
  BY DEF WakeInv
<1> QED BY <1>8, <1>9, <1>10, <1>11, StepShape

(* At first nobody waits.                                                  *)
LEMMA WakeInit == ConnectorInit => WakeInv
<1> SUFFICES ASSUME ConnectorInit PROVE WakeInv
  OBVIOUS
<1>1. BP!BarrierInit
  BY DEF ConnectorInit, B!BarrierInit, BP!BarrierInit
<1>2. LockInv /\ BP!BarrierInv
  BY <1>1, LockInvInit, BP!BarrierInvInit, ConstantsFit
<1>3. BP!Queued = {} /\ Looking = {} /\ Waiting = {}
  BY <1>1 DEF BP!BarrierInit, BP!Queued, Looking, Waiting, BP!At
<1>4. Cardinality({}) = 0 /\ Cardinality(Consumers) \in Nat
  BY FS_EmptySet, ConnectorAssumption, FS_CardinalityType
<1>5. Covered /\ NoWrap /\ Woken
  BY <1>1, <1>3, <1>4 DEF BP!BarrierInit, Covered, NoWrap, Woken
<1> QED BY <1>2, <1>3, <1>5 DEF WakeInv, AllHaveMail

(* No wake-up is lost between a get that finds nothing and its wait        *)
(* (connector.h:941-949), for any number of producers and consumers, of    *)
(* whom any may run out of time, and although a timeout that races an      *)
(* open() leaves a token too many behind (raced).                          *)
THEOREM WakeupIsKept == ConnectorSpec => []NoLostWakeup
<1>1. WakeInv /\ [ConnectorNext]_connectorVars => WakeInv'
  <2> SUFFICES ASSUME WakeInv, [ConnectorNext]_connectorVars PROVE WakeInv'
    OBVIOUS
  <2>1. LockInv'
    BY LockInvStep DEF WakeInv
  <2>2. BP!BarrierInv'
    BY BarrierStep, BP!BarrierInvStep, ConstantsFit DEF WakeInv
  <2> QED BY <2>1, <2>2, WakeStep DEF WakeInv
<1>2. WakeInv => NoLostWakeup
  <2> SUFFICES ASSUME WakeInv PROVE ConnectorTypeOK
    BY DEF WakeInv, Woken, NoLostWakeup
  <2>1. LockInv
    BY DEF WakeInv
  <2>2. writers \subseteq Procs /\ readers \subseteq Consumers
    BY <2>1 DEF LockInv, Owners, Procs
  <2>3. ASSUME NEW p \in Procs
        PROVE  pc[p] \in {"idle", "push", "timed_push", "push_body", "get", "pop",
                          "timed_get", "get_body", "knock", "unlock", "expect",
                          "timed_pop", "pop_body"}
    BY <2>1, <2>3 DEF Procs, LockInv, ProducerPlaced, ConsumerPlaced, Pushing
  <2> QED BY <2>1, <2>2, <2>3 DEF ConnectorTypeOK, LockInv, Domains
<1> QED BY <1>1, <1>2, WakeInit, PTL DEF ConnectorSpec
=============================================================================
