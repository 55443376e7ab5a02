----------------------------- MODULE Connector ------------------------------
(***************************************************************************)
(* The multi_* connectors (connector.h:675-999, connector.cpp:71-174): how *)
(* safe_connector combines the locker, the barrier and the shared queue.   *)
(* A push runs under the exclusive lock and then opens the barrier; get    *)
(* and pop run under the sharable lock; a timed get that finds nothing     *)
(* knocks at the barrier, still under its lock, unlocks and waits.         *)
(*                                                                         *)
(* The locker is the reader-writer lock that SharedLocker implements, the  *)
(* barrier is SharedBarrier itself, and of the queue only the number of    *)
(* messages each consumer has not popped is kept (SharedQueue shows that   *)
(* this is what a consumer sees).  A try_lock that fails changes nothing   *)
(* and is not a step.  The end of a section under the lock and its unlock  *)
(* are one step.  A timed call may run out of time at any of its loop      *)
(* heads and inside timed_lock.                                            *)
(***************************************************************************)
EXTENDS Integers, FiniteSets

CONSTANTS Producers, Consumers,
          Room,         \* the messages for which the queue has room
          Hasty,        \* the processes whose timed calls may run out of
                        \* time; the others allow more than they need
          Word, MaxTokens

ASSUME ConnectorAssumption ==
    /\ Producers \cap Consumers = {}
    /\ IsFiniteSet(Consumers)
    /\ Room \in Nat \ {0}
    /\ Hasty \subseteq Producers \cup Consumers
    /\ Word \in Nat /\ Cardinality(Consumers) < Word /\ MaxTokens \in Nat

VARIABLES writers, readers,     \* the owners of the locker
          m_counter1, m_counter2, m_barrier, at, opened, raced,  \* the barrier
          unread,               \* per consumer the messages not popped yet
          pc                    \* where each process is

lockVars == <<writers, readers>>
barVars  == <<m_counter1, m_counter2, m_barrier, at, opened, raced>>
connectorVars == <<lockVars, barVars, unread, pc>>

Procs == Producers \cup Consumers

L == INSTANCE RWLock

B == INSTANCE SharedBarrier WITH
        Waiters <- Consumers,
        TimedWaiters <- Hasty \cap Consumers,
        Guarded <- FALSE

ConnectorInit ==
    /\ L!RWInit /\ B!BarrierInit
    /\ unread = [c \in Consumers |-> 0]
    /\ pc = [p \in Procs |-> "idle"]

Step(p, from, to) == pc[p] = from /\ pc' = [pc EXCEPT ![p] = to]

HasRoom == \A c \in Consumers : unread[c] < Room

Stored == unread' = [c \in Consumers |-> unread[c] + 1]

(* A timed call begins, or gives up at a loop head or in timed_lock.       *)
Call(p, op) ==
    /\ Step(p, "idle", op)
    /\ UNCHANGED <<lockVars, barVars, unread>>

Expire(p, op) ==
    /\ p \in Hasty
    /\ Step(p, op, "idle")
    /\ UNCHANGED <<lockVars, barVars, unread>>

-----------------------------------------------------------------------------
(* push without timeout.  safe_connector::do_push owns the lock when it    *)
(* calls base_safe_connector::do_push, which tries to lock it again and    *)
(* stores the message only if that succeeds.                               *)

PushTry(p) ==
    /\ Step(p, "idle", "push")
    /\ L!GrantScoped(p)
    /\ UNCHANGED <<barVars, unread>>

PushInner(p) ==
    LET owns == writers = {} /\ readers = {}
    IN  /\ Step(p, "push", "idle")
        /\ IF owns /\ HasRoom THEN Stored /\ B!Open
                              ELSE UNCHANGED <<barVars, unread>>
        /\ L!ReleaseScoped(p)

(* push with timeout.                                                      *)
TimedPushLock(p) ==
    /\ Step(p, "timed_push", "push_body")
    /\ L!GrantScoped(p)
    /\ UNCHANGED <<barVars, unread>>

(* Slip: the barrier is not opened.                                        *)
TimedPushStoreSlip(p) ==
    /\ Step(p, "push_body", "idle")
    /\ HasRoom
    /\ Stored
    /\ L!ReleaseScoped(p)
    /\ UNCHANGED barVars

TimedPushStore(p) ==
    /\ Step(p, "push_body", "idle")
    /\ HasRoom
    /\ Stored
    /\ B!Open
    /\ L!ReleaseScoped(p)

TimedPushRefused(p) ==
    /\ Step(p, "push_body", "timed_push")
    /\ ~HasRoom
    /\ L!ReleaseScoped(p)
    /\ UNCHANGED <<barVars, unread>>

-----------------------------------------------------------------------------
(* get and pop take the sharable lock, by a try or with a timeout.         *)
SharableLock(c, from, to) ==
    /\ Step(c, from, to)
    /\ L!GrantSharable(c)
    /\ UNCHANGED <<barVars, unread>>

Release(c, from, to) ==
    /\ Step(c, from, to)
    /\ L!ReleaseSharable(c)

GetDone(c) ==
    /\ Release(c, "get", "idle")
    /\ UNCHANGED <<barVars, unread>>

GetFound(c) ==
    /\ unread[c] > 0
    /\ Release(c, "get_body", "idle")
    /\ UNCHANGED <<barVars, unread>>

(* Slip: the lock is given up before the knock.                            *)
GetKnockSlip(c) ==
    /\ unread[c] = 0
    /\ Release(c, "get_body", "knock")
    /\ B!Call(c)
    /\ UNCHANGED unread

GetKnock(c) ==
    /\ unread[c] = 0
    /\ Step(c, "get_body", "knock")
    /\ B!Call(c)
    /\ UNCHANGED <<lockVars, unread>>

GetKnocking(c) ==
    /\ \/ Step(c, "knock", "knock") /\ B!KnockLook(c)
       \/ Step(c, "knock", "unlock") /\ B!KnockCount(c)
    /\ UNCHANGED <<lockVars, unread>>

GetUnlock(c) ==
    /\ Release(c, "unlock", "expect")
    /\ UNCHANGED <<barVars, unread>>

(* expect: it returns false when the time ran out before an open(), which  *)
(* ends the call, and true otherwise, which goes round the loop.           *)
GetExpect(c) ==
    /\ \/ Step(c, "expect", "expect") /\ (B!TakeToken(c) \/ B!RunOutOfTime(c))
       \/ Step(c, "expect", "idle") /\ B!GiveUp(c)
       \/ Step(c, "expect", "timed_get") /\ (B!Pass(c) \/ B!LatePass(c))
    /\ UNCHANGED <<lockVars, unread>>

Pop(c, from, to) ==
    /\ unread[c] > 0
    /\ Release(c, from, to)
    /\ unread' = [unread EXCEPT ![c] = @ - 1]
    /\ UNCHANGED barVars

PopNone(c, from, to) ==
    /\ unread[c] = 0
    /\ Release(c, from, to)
    /\ UNCHANGED <<barVars, unread>>

-----------------------------------------------------------------------------
ProducerStep(p) ==
    \/ PushInner(p)
    \/ TimedPushLock(p) \/ TimedPushStore(p) \/ TimedPushRefused(p)
    \/ Expire(p, "timed_push")

ConsumerStep(c) ==
    \/ GetDone(c) \/ Pop(c, "pop", "idle") \/ PopNone(c, "pop", "idle")
    \/ SharableLock(c, "timed_get", "get_body") \/ Expire(c, "timed_get")
    \/ GetFound(c) \/ GetKnock(c) \/ GetKnocking(c) \/ GetUnlock(c)
    \/ GetExpect(c)
    \/ SharableLock(c, "timed_pop", "pop_body") \/ Expire(c, "timed_pop")
    \/ Pop(c, "pop_body", "idle") \/ PopNone(c, "pop_body", "timed_pop")

ConnectorNext ==
    \/ \E p \in Producers : PushTry(p) \/ Call(p, "timed_push") \/ ProducerStep(p)
    \/ \E c \in Consumers :
          \/ SharableLock(c, "idle", "get") \/ SharableLock(c, "idle", "pop")
          \/ Call(c, "timed_get") \/ Call(c, "timed_pop")
          \/ ConsumerStep(c)

ConnectorSpec == ConnectorInit /\ [][ConnectorNext]_connectorVars

(* A call that has begun goes on whenever it can: it runs in its caller's  *)
(* thread, its loops spin, and time passes.  Nobody has to begin a call.   *)
FairConnectorSpec ==
    /\ ConnectorSpec
    /\ \A p \in Producers : WF_connectorVars(ProducerStep(p))
    /\ \A c \in Consumers : WF_connectorVars(ConsumerStep(c))
-----------------------------------------------------------------------------
Waiting == {c \in Consumers : at[c] = "expect" /\ unread[c] > 0}

(* The types of the parts that are the connector's own.                    *)
ConnectorTypeOK ==
    /\ writers \subseteq Procs /\ readers \subseteq Consumers
    /\ unread \in [Consumers -> 0 .. Room]
    /\ pc \in [Procs -> {"idle", "push", "timed_push", "push_body", "get", "pop",
                         "timed_get", "get_body", "knock", "unlock", "expect",
                         "timed_pop", "pop_body"}]

(* No wake-up is lost between a get that finds nothing and its wait        *)
(* (connector.h:941-949): for every consumer that waits although there is  *)
(* a message for it, a token is in the semaphore.                          *)
NoLostWakeup == ConnectorTypeOK /\ Cardinality(Waiting) <= m_barrier

(* A consumer that waits while there is a message for it is woken: one     *)
(* outside Hasty by a token, since no timeout ends its wait.               *)
WaiterIsWoken == \A c \in Consumers : (c \in Waiting) ~> (at[c] # "expect")

(* A timed get ends, with a message or at the latest some time after its   *)
(* timeout (connector.cpp:146, the allowable timeout of the getting).      *)
TimedGetReturns == \A c \in Consumers : (pc[c] = "timed_get") ~> (pc[c] = "idle")

(* The connector uses the barrier with open() kept out while a consumer is *)
(* in knock(): what is shown of SharedBarrier with Guarded holds here.     *)
GB == INSTANCE SharedBarrier WITH
        Waiters <- Consumers,
        TimedWaiters <- Hasty \cap Consumers,
        Guarded <- TRUE
ImplementsGuardedBarrier == GB!BarrierSpec
=============================================================================
