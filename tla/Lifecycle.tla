----------------------------- MODULE Lifecycle ------------------------------
(***************************************************************************)
(* The life of a connector's handles: base_safe_connector's do_create,     *)
(* do_open and destructor (connector.h:684-774) over shared_memory         *)
(* (memory.cpp) and spinlock (locker.cpp:407-457).  The handles of a bus   *)
(* follow the same pattern.                                                *)
(*                                                                         *)
(* The shared memory is an object with a name in the file system.  It      *)
(* starts with a spinlock, a counter of handles and the locker, which the  *)
(* creator constructs and the last handle destroys.  The memory is zero at *)
(* first, and zero means LS_LOCKED.  The counter is a plain variable: its  *)
(* increment and decrement read it and write it later.  The queue is left  *)
(* out, except that it is opened and freed under the locker.               *)
(***************************************************************************)
EXTENDS Integers, Sequences, FiniteSets

CONSTANTS Procs,        \* processes, each with one handle
          Creators,     \* the processes that may create
          MaxObjects,   \* bound of the number of objects ever created
          Word          \* number of values of the counter, a uint32_t

ASSUME LifecycleAssumption ==
    /\ IsFiniteSet(Procs) /\ Creators \subseteq Procs /\ MaxObjects \in Nat
    /\ Word \in Nat /\ Cardinality(Procs) < Word

VARIABLES name,         \* the object the name leads to, 0 if none
          objs,         \* the objects, in the order of creation
          at,           \* where each process is
          obj,          \* the object its handle has mapped
          reg,          \* the counter as it has read it
          overlap       \* history: two opens or destructors have been inside
                        \* the spinlock of an object together

lifeVars == <<name, objs, at, obj, reg, overlap>>

(* Between the two guards of the spinlock in do_open and the destructor.   *)
Guarded == {"look", "lock", "read", "add", "release", "done", "free", "freed",
            "unread", "subtract", "leave"}

(* Slip: do_open does not release m_plocker.                               *)
OwnsSlip == {"unlock", "hand over", "read", "add", "release", "done", "open", "freed"}

(* Has m_plocker.                                                          *)
Owns == {"unlock", "hand over", "read", "add", "release", "freed"}

(* The handle is one of those the counter counts.                          *)
Counted == {"unlock", "hand over", "release", "done", "open", "close", "free",
            "freed", "unread", "subtract"}

LifeInit ==
    /\ name = 0 /\ objs = <<>>
    /\ at = [p \in Procs |-> "new"]
    /\ obj = [p \in Procs |-> 0] /\ reg = [p \in Procs |-> 0]
    /\ overlap = FALSE

Resting == {"new", "open", "void", "gone"}

Goto(p, from, to) == at[p] = from /\ at' = [at EXCEPT ![p] = to]

Object(p) == objs[obj[p]]

Others(p, places) ==
    {r \in Procs \ {p} : obj[r] = obj[p] /\ at[r] \in places}

-----------------------------------------------------------------------------
(* shared_memory.                                                          *)

Raw == [sized |-> FALSE, lock |-> "LS_LOCKED", counter |-> 0, locker |-> "raw"]

(* create: shm_open with create_only.                                      *)
Create(p) ==
    /\ p \in Creators /\ Len(objs) < MaxObjects
    /\ name = 0
    /\ Goto(p, "new", "truncate")
    /\ objs' = Append(objs, Raw)
    /\ name' = Len(objs')
    /\ obj' = [obj EXCEPT ![p] = Len(objs')]
    /\ UNCHANGED <<reg, overlap>>

(* truncate and the mapping.                                               *)
Truncate(p) ==
    /\ Goto(p, "truncate", "construct")
    /\ objs' = [objs EXCEPT ![obj[p]].sized = TRUE]
    /\ UNCHANGED <<name, obj, reg, overlap>>

Open(p) ==
    /\ name # 0
    /\ Goto(p, "new", "map")
    /\ obj' = [obj EXCEPT ![p] = name]
    /\ UNCHANGED <<name, objs, reg, overlap>>

Map(p) ==
    /\ Goto(p, "map", "enter") /\ Object(p).sized
    /\ UNCHANGED <<name, objs, obj, reg, overlap>>

(* An exception: the name exists already, or does not exist, or the object *)
(* has no size yet.  The catch block removes the name all the same.        *)
Throw(p) ==
    /\ \/ p \in Creators /\ name # 0 /\ Goto(p, "new", "remove")
       \/ name = 0 /\ Goto(p, "new", "remove")
       \/ Goto(p, "map", "remove") /\ ~Object(p).sized
    /\ obj' = [obj EXCEPT ![p] = 0]
    /\ UNCHANGED <<name, objs, reg, overlap>>

(* remove, in the catch block and in the destructor of every handle.  A    *)
(* handle that has nothing mapped may try again.                           *)
Remove(p) ==
    /\ Goto(p, "remove", IF obj[p] = 0 THEN "new" ELSE "gone")
    /\ name' = 0
    /\ obj' = [obj EXCEPT ![p] = 0] /\ reg' = [reg EXCEPT ![p] = 0]
    /\ UNCHANGED <<objs, overlap>>

-----------------------------------------------------------------------------
(* spinlock.                                                               *)

(* try_lock takes the old value LS_LOCKED for success: who finds the lock  *)
(* free locks it and tries again, who finds it locked is in.               *)
TryLock(p, from, to) ==
    \/ /\ Goto(p, from, from)
       /\ Object(p).lock = "LS_UNLOCKED"
       /\ objs' = [objs EXCEPT ![obj[p]].lock = "LS_LOCKED"]
       /\ UNCHANGED <<name, obj, reg, overlap>>
    \/ /\ Goto(p, from, to)
       /\ Object(p).lock = "LS_LOCKED"
       /\ overlap' = (overlap \/ Others(p, Guarded) # {})
       /\ UNCHANGED <<name, objs, obj, reg>>

Unlock(p, from, to) ==
    /\ Goto(p, from, to)
    /\ objs' = [objs EXCEPT ![obj[p]].lock = "LS_UNLOCKED"]
    /\ UNCHANGED <<name, obj, reg, overlap>>

(* m_plocker, taken and released; its promise is RWLock's.                 *)
LockLocker(p, from, to) ==
    /\ Goto(p, from, to) /\ Others(p, Owns) = {}
    /\ UNCHANGED <<name, objs, obj, reg, overlap>>

UnlockLocker(p, from, to) ==
    /\ Goto(p, from, to)
    /\ UNCHANGED <<name, objs, obj, reg, overlap>>

-----------------------------------------------------------------------------
(* do_create.                                                              *)

(* Slip: the counter is set before the locker is constructed.              *)
ConstructSlip(p) ==
    /\ Goto(p, "construct", "unlock")
    /\ objs' = [objs EXCEPT ![obj[p]].counter = @ + 1]
    /\ UNCHANGED <<name, obj, reg, overlap>>

(* The locker, the barrier and the queue are made before the counter is    *)
(* incremented; until then everybody who opens gives up.                   *)
Construct(p) ==
    /\ Goto(p, "construct", "unlock")
    /\ objs' = [objs EXCEPT ![obj[p]].locker = "live", ![obj[p]].counter = @ + 1]
    /\ UNCHANGED <<name, obj, reg, overlap>>

-----------------------------------------------------------------------------
(* do_open.                                                                *)

(* A counter of 0 means that the object is not constructed yet or already  *)
(* destroyed; do_open then returns false.  The handle keeps the mapping,   *)
(* so that no further create or open of it can succeed.                    *)
Look(p) ==
    /\ \/ Goto(p, "look", "lock") /\ Object(p).counter > 0
       \/ Goto(p, "look", "quit") /\ Object(p).counter = 0
    /\ UNCHANGED <<name, objs, obj, reg, overlap>>

ReadCounter(p, from, to) ==
    /\ Goto(p, from, to)
    /\ reg' = [reg EXCEPT ![p] = Object(p).counter]
    /\ UNCHANGED <<name, objs, obj, overlap>>

WriteIncremented(p) ==
    /\ Goto(p, "add", "release")
    /\ objs' = [objs EXCEPT ![obj[p]].counter = (reg[p] + 1) % Word]
    /\ UNCHANGED <<name, obj, reg, overlap>>

(* Slip: the destructor of a handle does not count down.                   *)
WriteDecrementedSlip(p) ==
    /\ Goto(p, "subtract", "leave")
    /\ UNCHANGED <<name, objs, obj, reg, overlap>>

(* Slip: the last but one destroys the locker.                             *)
WriteDecrementedEarly(p) ==
    /\ Goto(p, "subtract", "leave")
    /\ objs' = [objs EXCEPT ![obj[p]].counter = (reg[p] - 1) % Word,
                            ![obj[p]].locker = IF reg[p] <= 2 THEN "dead" ELSE @]
    /\ UNCHANGED <<name, obj, reg, overlap>>

(* The last handle destroys the barrier and the locker.                    *)
WriteDecremented(p) ==
    /\ Goto(p, "subtract", "leave")
    /\ objs' = [objs EXCEPT ![obj[p]].counter = (reg[p] - 1) % Word,
                            ![obj[p]].locker = IF reg[p] = 1 THEN "dead" ELSE @]
    /\ UNCHANGED <<name, obj, reg, overlap>>

-----------------------------------------------------------------------------
CreateSteps(p) ==
    \/ Create(p) \/ Truncate(p) \/ Construct(p)
    \/ Unlock(p, "unlock", "hand over")
    \/ UnlockLocker(p, "hand over", "open")

OpenSteps(p) ==
    \/ Open(p) \/ Map(p)
    \/ TryLock(p, "enter", "look")
    \/ Look(p)
    \/ LockLocker(p, "lock", "read")
    \/ ReadCounter(p, "read", "add")
    \/ WriteIncremented(p)
    \/ UnlockLocker(p, "release", "done")
    \/ Unlock(p, "done", "open")
    \/ Unlock(p, "quit", "void")

(* Destroying a handle whose open has failed only removes the name.        *)
Close(p) ==
    /\ \/ Goto(p, "open", "close")
       \/ Goto(p, "void", "remove")
    /\ UNCHANGED <<name, objs, obj, reg, overlap>>

DestructorSteps(p) ==
    \/ TryLock(p, "close", "free")
    \/ LockLocker(p, "free", "freed")
    \/ UnlockLocker(p, "freed", "unread")
    \/ ReadCounter(p, "unread", "subtract")
    \/ WriteDecremented(p)
    \/ Unlock(p, "leave", "remove")

LifeNext ==
    \E p \in Procs : \/ CreateSteps(p) \/ OpenSteps(p) \/ Close(p)
                     \/ DestructorSteps(p) \/ Throw(p) \/ Remove(p)

LifeSpec == LifeInit /\ [][LifeNext]_lifeVars

(* A call that has begun goes on: it runs in its caller's thread.          *)
FairLifeSpec ==
    /\ LifeSpec
    /\ \A p \in Procs :
        WF_lifeVars(at[p] \notin Resting /\
                    (CreateSteps(p) \/ OpenSteps(p) \/ DestructorSteps(p)
                        \/ Throw(p) \/ Remove(p)))
-----------------------------------------------------------------------------
(* The types of the objects and of what each process keeps.                *)
LifeTypeOK ==
    /\ name \in 0 .. Len(objs)
    /\ objs \in Seq([sized : BOOLEAN, lock : {"LS_LOCKED", "LS_UNLOCKED"},
                     counter : 0 .. Word - 1,
                     locker : {"raw", "live", "dead"}])
    /\ at \in [Procs -> Guarded \cup Counted \cup
                Resting \cup {"truncate", "construct", "map", "enter", "quit",
                              "remove"}]
    /\ obj \in [Procs -> 0 .. Len(objs)]
    /\ reg \in [Procs -> 0 .. Word - 1]

(* Who has passed the counter, and who has a connector open, finds the     *)
(* locker constructed, although the object has its name before it has its  *)
(* size, and its size before its contents (connector.h:724-739).           *)
NeverRaw ==
    \A p \in Procs : at[p] \in Counted \cup Owns \cup {"lock"} =>
        Object(p).sized /\ Object(p).locker # "raw"

(* Unless two have been inside the spinlock together, the counter is the   *)
(* number of the handles that have the object open (connector.h:702, 769). *)
HandlesCounted ==
    \/ overlap
    \/ \A i \in DOMAIN objs :
        objs[i].counter = Cardinality({p \in Procs : obj[p] = i /\
                                                     at[p] \in Counted})

(* Unless two have been inside the spinlock together, nobody who has the   *)
(* connector open, or is about to open it, is left with a locker that      *)
(* somebody else has destroyed.                                            *)
LockerLives ==
    overlap \/ \A p \in Procs : at[p] \in Counted \cup Owns \cup {"lock"} =>
                                    Object(p).locker = "live"

(* Between the guards of the spinlock a process is alone: scoped_lock sets *)
(* "the exclusive lock immediately" (locker.h:211).  It does not hold: the *)
(* spinlock takes a locked one for free.                                   *)
SpinlockExcludes ==
    \A p, r \in Procs :
        p # r /\ at[p] \in Guarded /\ at[r] \in Guarded => obj[p] # obj[r]

(* Handles of one connector that are open share one object, so that one    *)
(* gets what the other pushes (connector_test.cpp:29-38).  It does not     *)
(* hold: every handle that is destroyed or fails to create or open removes *)
(* the name, and the next create makes a second object.                    *)
OneConnector ==
    \A p, r \in Procs : at[p] = "open" /\ at[r] = "open" => obj[p] = obj[r]

(* An object whose locker has been destroyed is not opened again, though   *)
(* processes may have mapped it before.                                    *)
NoRevival ==
    [][\A p \in Procs : at[p] # "open" /\ at'[p] = "open"
                            => overlap \/ Object(p).locker # "dead"]_lifeVars

(* Every create, open and destructor comes to its end.                     *)
CallsEnd ==
    \A p \in Procs : at[p] \notin Resting
                        ~> at[p] \in Resting
=============================================================================
