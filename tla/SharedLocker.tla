---------------------------- MODULE SharedLocker ----------------------------
(***************************************************************************)
(* shared_locker (locker.cpp:11-199): the reader-writer lock kept in       *)
(* shared memory.  Its two counters are read and written under the guard   *)
(* m_lock only, so each guarded section is one step; between two sections  *)
(* the caller spins, and any other process may run.                        *)
(*                                                                         *)
(* The exclusive lock is taken in two phases: try_book_lock sets m_scoped  *)
(* while sharable owners may still be inside, and the booker then waits    *)
(* for them to leave.  A timed booker that gives up must take its booking  *)
(* back.  The clock is abstracted: a timed call may run out of time at any *)
(* of its loop heads.                                                      *)
(***************************************************************************)
EXTENDS Integers, FiniteSets

CONSTANTS Users,        \* the processes (threads) that use the locker
          MaxSharable   \* UINT_MAX, the limit of m_sharable

ASSUME LockerAssumption ==
    /\ IsFiniteSet(Users)
    /\ MaxSharable \in Nat \ {0}

VARIABLES m_scoped,     \* 1 when the exclusive lock is booked or owned
          m_sharable,   \* the number of sharable owners
          phase         \* where each process is in the locker's code

lockerVars == <<m_scoped, m_sharable, phase>>

Calls  == {"lock", "timed_lock", "lock_sharable", "timed_lock_sharable"}
States == Calls \cup {"idle", "drain", "timed_drain", "scoped", "sharable"}

LockerInit ==
    /\ m_scoped = 0
    /\ m_sharable = 0
    /\ phase = [p \in Users |-> "idle"]

Goto(p, s) == phase' = [phase EXCEPT ![p] = s]

Enter(p, c) ==
    /\ phase[p] = "idle"
    /\ Goto(p, c)
    /\ UNCHANGED <<m_scoped, m_sharable>>

(* Slip: the sharable owners are not looked at.                            *)
try_lock_slip(p) ==
    /\ phase[p] = "idle"
    /\ m_scoped = 0
    /\ m_scoped' = 1
    /\ Goto(p, "scoped")
    /\ UNCHANGED m_sharable

try_lock(p) ==
    /\ phase[p] = "idle"
    /\ m_scoped = 0 /\ m_sharable = 0
    /\ m_scoped' = 1
    /\ Goto(p, "scoped")
    /\ UNCHANGED m_sharable

(* Slip: LS_SHARABLE is taken for success.                                 *)
try_book_lock_slip(p) ==
    /\ phase[p] \in {"lock", "timed_lock"}
    /\ m_scoped = 0
    /\ m_scoped' = 1
    /\ Goto(p, "scoped")
    /\ UNCHANGED m_sharable

(* One turn of the loop of lock() or timed_lock().  LS_SCOPED changes      *)
(* nothing and the loop goes round.                                        *)
try_book_lock(p) ==
    /\ phase[p] \in {"lock", "timed_lock"}
    /\ m_scoped = 0
    /\ m_scoped' = 1
    /\ Goto(p, IF m_sharable = 0 THEN "scoped"
               ELSE IF phase[p] = "lock" THEN "drain" ELSE "timed_drain")
    /\ UNCHANGED m_sharable

count_sharable(p) ==
    /\ phase[p] \in {"drain", "timed_drain"}
    /\ m_sharable = 0
    /\ Goto(p, "scoped")
    /\ UNCHANGED <<m_scoped, m_sharable>>

unlock(p) ==
    /\ phase[p] = "scoped"
    /\ m_scoped' = 0
    /\ Goto(p, "idle")
    /\ UNCHANGED m_sharable

(* Slip: timed_lock returns false without unlock().                        *)
timed_lock_cancel_slip(p) ==
    /\ phase[p] = "timed_drain"
    /\ Goto(p, "idle")
    /\ UNCHANGED <<m_scoped, m_sharable>>

(* timed_lock ran out of time while it waited for the sharable owners: it  *)
(* calls unlock() to withdraw its booking and reports failure.             *)
timed_lock_cancel(p) ==
    /\ phase[p] = "timed_drain"
    /\ m_scoped' = 0
    /\ Goto(p, "idle")
    /\ UNCHANGED m_sharable

(* A timed call ran out of time before it booked or took anything.         *)
timed_expire(p) ==
    /\ phase[p] \in {"timed_lock", "timed_lock_sharable"}
    /\ Goto(p, "idle")
    /\ UNCHANGED <<m_scoped, m_sharable>>

(* Slip: the limit of m_sharable is not checked.                           *)
try_lock_sharable_no_limit(p) ==
    /\ phase[p] \in {"idle", "lock_sharable", "timed_lock_sharable"}
    /\ m_scoped = 0
    /\ m_sharable' = m_sharable + 1
    /\ Goto(p, "sharable")
    /\ UNCHANGED m_scoped

(* Slip: a booking does not keep new sharable owners out.                  *)
try_lock_sharable_no_booking(p) ==
    /\ phase[p] \in {"idle", "lock_sharable", "timed_lock_sharable"}
    /\ (\A q \in Users : phase[q] # "scoped") /\ m_sharable < MaxSharable
    /\ m_sharable' = m_sharable + 1
    /\ Goto(p, "sharable")
    /\ UNCHANGED m_scoped

(* try_lock_sharable as a call of its own and as one turn of the loops of  *)
(* lock_sharable and timed_lock_sharable.                                  *)
try_lock_sharable(p) ==
    /\ phase[p] \in {"idle", "lock_sharable", "timed_lock_sharable"}
    /\ m_scoped = 0 /\ m_sharable < MaxSharable
    /\ m_sharable' = m_sharable + 1
    /\ Goto(p, "sharable")
    /\ UNCHANGED m_scoped

unlock_sharable(p) ==
    /\ phase[p] = "sharable"
    /\ m_sharable' = m_sharable - 1
    /\ Goto(p, "idle")
    /\ UNCHANGED m_scoped

LockerStep(p) ==
    \/ \E c \in Calls : Enter(p, c)
    \/ try_lock(p)
    \/ try_book_lock(p)
    \/ count_sharable(p)
    \/ unlock(p)
    \/ timed_lock_cancel(p)
    \/ timed_expire(p)
    \/ try_lock_sharable(p)
    \/ unlock_sharable(p)

LockerNext == \E p \in Users : LockerStep(p)

LockerSpec == LockerInit /\ [][LockerNext]_lockerVars

(* A process keeps spinning (the loops of lock and timed_lock have no exit *)
(* but success and expiry) and an owner releases what it owns: scoped_lock *)
(* and sharable_lock do so in their destructors.                           *)
LockerFairness ==
    \A p \in Users : /\ WF_lockerVars(count_sharable(p))
                     /\ WF_lockerVars(unlock(p))
                     /\ WF_lockerVars(unlock_sharable(p))

FairLockerSpec == LockerSpec /\ LockerFairness

-----------------------------------------------------------------------------
Writers == {p \in Users : phase[p] = "scoped"}
Sharers == {p \in Users : phase[p] = "sharable"}
Booked  == {p \in Users : phase[p] \in {"scoped", "drain", "timed_drain"}}

(* The types of the counters and of the control points.                    *)
LockerTypeOK ==
    /\ m_scoped \in {0, 1}
    /\ m_sharable \in 0 .. MaxSharable
    /\ phase \in [Users -> States]

(* The exclusive owner is alone: no second exclusive owner and no sharable *)
(* owner, even though the booking is made while sharable owners are still  *)
(* inside (locker.cpp:83-88, 112-121).                                     *)
Exclusion ==
    \A p \in Writers : Writers = {p} /\ Sharers = {}

(* Bookkeeping agrees with the callers: m_scoped is set exactly while one  *)
(* process has booked or owns the exclusive lock, and m_sharable counts    *)
(* the sharable owners.  With it neither assert of unlock (locker.cpp:136) *)
(* and unlock_sharable (locker.cpp:197) can fail, and nobody's booking is  *)
(* cleared by another process's timeout.                                   *)
BooksBalance ==
    /\ m_scoped = Cardinality(Booked)
    /\ m_sharable = Cardinality(Sharers)

(* A process that has booked the lock in lock() gets it: no sharable owner *)
(* can enter any more, so the ones inside only leave.                      *)
BookedWriterEnters ==
    \A p \in Users : (phase[p] = "drain") ~> (phase[p] = "scoped")

(* The locker implements the abstract reader-writer lock.                  *)
RW == INSTANCE RWLock WITH
        Procs <- Users, writers <- Writers, readers <- Sharers
ImplementsRWLock == RW!RWSpec

=============================================================================
