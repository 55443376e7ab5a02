------------------------------- MODULE RWLock -------------------------------
(***************************************************************************)
(* What a reader-writer locker promises to the code that uses it: a set of *)
(* exclusive owners and a set of sharable owners, which are never granted  *)
(* together.  shared_locker implements it (SharedLocker); the connectors   *)
(* only rely on it.  shared_posix_locker (locker.cpp:201-301) hands every  *)
(* call to a pthread_rwlock_t, of which POSIX promises just this; a call   *)
(* of it that fails or runs out of time changes nothing.                   *)
(***************************************************************************)
CONSTANTS Procs

VARIABLES writers,      \* the processes that own the exclusive lock
          readers       \* the processes that own the sharable lock

rwVars == <<writers, readers>>

RWInit == writers = {} /\ readers = {}

GrantScoped(p) ==
    /\ writers = {} /\ readers = {}
    /\ writers' = {p}
    /\ UNCHANGED readers

ReleaseScoped(p) ==
    /\ p \in writers
    /\ writers' = writers \ {p}
    /\ UNCHANGED readers

GrantSharable(p) ==
    /\ writers = {} /\ p \notin readers
    /\ readers' = readers \cup {p}
    /\ UNCHANGED writers

ReleaseSharable(p) ==
    /\ p \in readers
    /\ readers' = readers \ {p}
    /\ UNCHANGED writers

RWNext == \E p \in Procs : \/ GrantScoped(p)   \/ ReleaseScoped(p)
                           \/ GrantSharable(p) \/ ReleaseSharable(p)

RWSpec == RWInit /\ [][RWNext]_rwVars
=============================================================================
