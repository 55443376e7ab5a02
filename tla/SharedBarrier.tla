--------------------------- MODULE SharedBarrier ----------------------------
(***************************************************************************)
(* shared_barrier (locker.cpp:305-397): readers that found no message wait *)
(* here until a push opens the barrier.  m_counter1 counts those who have  *)
(* knocked and wait, m_counter2 those an open() has let through and who    *)
(* have not left yet; a semaphore (boost, external) holds one token for    *)
(* each of the latter.                                                     *)
(*                                                                         *)
(* The sections under m_locker are one step each.  open() is one step too: *)
(* it holds m_locker throughout, and a token taken or a look at m_counter2 *)
(* between two turns of its loop could as well have come before or after.  *)
(* knock() looks at m_counter2 before it takes m_locker, so it is two      *)
(* steps; a timed wait that runs out of time takes m_locker afterwards, so *)
(* that is two steps as well.                                              *)
(***************************************************************************)
EXTENDS Integers, FiniteSets

CONSTANTS Waiters,      \* the threads that wait at the barrier
          TimedWaiters, \* those whose waits have a timeout
          Word,         \* number of values of the 32-bit counters
          MaxTokens,    \* bound of the semaphore
          Guarded       \* TRUE: the callers keep open() out while a thread is
                        \* in knock(), as the connectors do with their lock

(* What is assumed of them; who instantiates the module shows it.          *)
BarrierConstants ==
    /\ IsFiniteSet(Waiters)
    /\ TimedWaiters \subseteq Waiters
    /\ Word \in Nat \ {0} /\ MaxTokens \in Nat
    /\ Cardinality(Waiters) < Word     \* no more threads than numbers
    /\ Guarded \in BOOLEAN

ASSUME BarrierAssumption == BarrierConstants

VARIABLES m_counter1, m_counter2,
          m_barrier,    \* the tokens of the semaphore
          at,           \* where each thread is
          opened,       \* history: the threads for which open() has been
                        \* called since they knocked
          raced         \* history: a timeout has raced an open(), and the
                        \* thread has left by LatePass

barrierVars == <<m_counter1, m_counter2, m_barrier, at, opened, raced>>

Places == {"away",      \* not at the barrier
           "knock",     \* spins in knock() on m_counter2
           "look",      \* has seen m_counter2 = 0, not counted yet
           "expect",    \* waits for a token
           "pass",      \* has a token, has not left m_counter2 yet
           "late"}      \* has run out of time, not checked m_counter2 yet

BarrierInit ==
    /\ m_counter1 = 0 /\ m_counter2 = 0 /\ m_barrier = 0
    /\ at = [t \in Waiters |-> "away"]
    /\ opened = {} /\ raced = FALSE

Inc(n) == (n + 1) % Word

Dec(n) == (n - 1) % Word

Move(t, from, to) == at[t] = from /\ at' = [at EXCEPT ![t] = to]

Call(t) ==
    /\ Move(t, "away", "knock")
    /\ opened' = opened \ {t}
    /\ UNCHANGED <<m_counter1, m_counter2, m_barrier, raced>>

(* Slip: knock does not wait for the threads of the last opening.          *)
KnockLookSlip(t) ==
    /\ Move(t, "knock", "look")
    /\ UNCHANGED <<m_counter1, m_counter2, m_barrier, opened, raced>>

KnockLook(t) ==
    /\ Move(t, "knock", "look")
    /\ m_counter2 = 0
    /\ UNCHANGED <<m_counter1, m_counter2, m_barrier, opened, raced>>

KnockCount(t) ==
    /\ Move(t, "look", "expect")
    /\ m_counter1' = Inc(m_counter1)
    /\ UNCHANGED <<m_counter2, m_barrier, opened, raced>>

(* Slip: one token for all.                                                *)
OpenSlip ==
    /\ Guarded => \A t \in Waiters : at[t] \notin {"knock", "look"}
    /\ m_barrier + m_counter1 <= MaxTokens
    /\ m_counter1' = 0
    /\ m_counter2' = (m_counter2 + m_counter1) % Word
    /\ m_barrier' = m_barrier + (IF m_counter1 > 0 THEN 1 ELSE 0)
    /\ opened' = opened \cup {t \in Waiters : at[t] \in {"expect", "pass", "late"}}
    /\ UNCHANGED <<at, raced>>

Open ==
    /\ Guarded => \A t \in Waiters : at[t] \notin {"knock", "look"}
    /\ m_barrier + m_counter1 <= MaxTokens
    /\ m_counter1' = 0
    /\ m_counter2' = (m_counter2 + m_counter1) % Word
    /\ m_barrier' = m_barrier + m_counter1
    /\ opened' = opened \cup {t \in Waiters : at[t] \in {"expect", "pass", "late"}}
    /\ UNCHANGED <<at, raced>>

(* m_barrier.wait() or timed_wait() gets a token.                          *)
TakeToken(t) ==
    /\ Move(t, "expect", "pass")
    /\ m_barrier > 0
    /\ m_barrier' = m_barrier - 1
    /\ UNCHANGED <<m_counter1, m_counter2, opened, raced>>

(* Slip: the thread leaves without giving up its place in m_counter2.      *)
PassSlip(t) ==
    /\ Move(t, "pass", "away")
    /\ UNCHANGED <<m_counter1, m_counter2, m_barrier, opened, raced>>

Pass(t) ==
    /\ Move(t, "pass", "away")
    /\ m_counter2' = Dec(m_counter2)
    /\ UNCHANGED <<m_counter1, m_barrier, opened, raced>>

(* timed_wait fails: there was no token when the time came.                *)
RunOutOfTime(t) ==
    /\ t \in TimedWaiters
    /\ Move(t, "expect", "late")
    /\ m_barrier = 0
    /\ UNCHANGED <<m_counter1, m_counter2, m_barrier, opened, raced>>

(* No open since, so the thread withdraws its knock and reports a timeout. *)
GiveUp(t) ==
    /\ Move(t, "late", "away")
    /\ m_counter2 = 0
    /\ m_counter1' = Dec(m_counter1)
    /\ UNCHANGED <<m_counter2, m_barrier, opened, raced>>

(* An open came meanwhile: the thread counts itself among those let        *)
(* through and reports success, but its token stays in the semaphore.      *)
LatePass(t) ==
    /\ Move(t, "late", "away")
    /\ m_counter2 > 0
    /\ m_counter2' = Dec(m_counter2)
    /\ raced' = TRUE
    /\ UNCHANGED <<m_counter1, m_barrier, opened>>

BarrierNext ==
    \/ \E t \in Waiters : \/ Call(t) \/ KnockLook(t) \/ KnockCount(t)
                          \/ TakeToken(t) \/ Pass(t)
                          \/ RunOutOfTime(t) \/ GiveUp(t) \/ LatePass(t)
    \/ Open

BarrierSpec == BarrierInit /\ [][BarrierNext]_barrierVars

(* A thread that can go on does; nobody has to call open() or knock.       *)
BarrierFairness ==
    \A t \in Waiters : /\ WF_barrierVars(KnockCount(t))
                       /\ WF_barrierVars(TakeToken(t))
                       /\ WF_barrierVars(Pass(t))
                       /\ WF_barrierVars(GiveUp(t) \/ LatePass(t))

FairBarrierSpec == BarrierSpec /\ BarrierFairness
-----------------------------------------------------------------------------
At(places) == {t \in Waiters : at[t] \in places}

(* The types of the counters and places; m_barrier never goes negative.    *)
BarrierTypeOK ==
    /\ m_counter1 \in 0 .. Word - 1 /\ m_counter2 \in 0 .. Word - 1
    /\ m_barrier \in Nat
    /\ at \in [Waiters -> Places]
    /\ opened \subseteq Waiters

(* Nobody is forgotten: the two counters together always count exactly the *)
(* threads between knock() and the end of expect(), timeouts included      *)
(* (modulo the width of the counters).                                     *)
EveryKnockCounted ==
    /\ BarrierTypeOK
    /\ (m_counter1 + m_counter2) % Word
          = Cardinality(At({"expect", "pass", "late"})) % Word

(* The barrier holds all the waiting threads until some thread opens it    *)
(* (locker.h:161): a thread that goes through has had an open() since it   *)
(* knocked.  It holds until a timeout races an open().                     *)
HoldsUntilOpen == ~raced => At({"pass"}) \subseteq opened

(* Tokens and counters agree: one token for each thread let through that   *)
(* has not taken its own, so that nobody takes a token meant for another   *)
(* opening and m_counter2 cannot be decremented below 0.  It holds until a *)
(* timeout races an open().                                                *)
TokensMatch ==
    ~raced => /\ m_counter2 = m_barrier + Cardinality(At({"pass"}))
              /\ m_counter1 + m_barrier = Cardinality(At({"expect", "late"}))

(* The threads of one opening leave, so that knock(), which spins while    *)
(* m_counter2 is not 0, can end, unless a timeout races an open().         *)
KnockIsAnswered == (m_counter2 > 0) ~> (m_counter2 = 0 \/ raced)
=============================================================================
