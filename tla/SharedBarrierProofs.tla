------------------------- MODULE SharedBarrierProofs ------------------------
(***************************************************************************)
(* The barrier for any number of threads, of which any may have a timeout: *)
(* every waiting thread is counted, and until a timeout races an open()    *)
(* tokens and counters agree.  That nobody goes through unopened needs the *)
(* callers' lock (Guarded) as well.                                        *)
(***************************************************************************)
EXTENDS SharedBarrier, FiniteSetTheorems, TLAPS

USE DEF barrierVars, BarrierConstants

Inside == At({"expect", "pass", "late"})
Passing == At({"pass"})
Queued == At({"expect", "late"})

(* Threads can be counted, and there are fewer of them than the counters   *)
(* have values.                                                            *)
LEMMA ThreadsFinite ==
    ASSUME NEW T \in SUBSET Waiters
    PROVE  /\ IsFiniteSet(T)
           /\ Cardinality(T) \in Nat /\ Cardinality(T) < Word
           /\ Cardinality(T) = 0 <=> T = {}
           /\ Word \in Nat
<1>1. /\ IsFiniteSet(T) /\ Cardinality(T) <= Cardinality(Waiters)
      /\ Cardinality(Waiters) \in Nat
  BY BarrierAssumption, FS_Subset, FS_CardinalityType
<1>2. Cardinality(T) \in Nat
  BY <1>1, FS_CardinalityType
<1> QED BY <1>1, <1>2, BarrierAssumption, FS_EmptySet

(* In particular those at some places.                                     *)
LEMMA AtFinite ==
    ASSUME NEW S
    PROVE  /\ IsFiniteSet(At(S))
           /\ Cardinality(At(S)) \in Nat /\ Cardinality(At(S)) < Word
           /\ Cardinality(At(S)) = 0 <=> At(S) = {}
           /\ Word \in Nat
<1>1. At(S) \in SUBSET Waiters
  BY DEF At
<1> QED BY <1>1, ThreadsFinite

(* What a thread that moves does to the number of threads at the places S. *)
LEMMA AtMoves ==
    ASSUME at \in [Waiters -> Places], NEW t \in Waiters, NEW to,
           at' = [at EXCEPT ![t] = to], NEW S
    PROVE  /\ (at[t] \in S <=> to \in S) => At(S)' = At(S)
           /\ (at[t] \notin S /\ to \in S)
                => /\ At(S)' = At(S) \cup {t}
                   /\ Cardinality(At(S)') = Cardinality(At(S)) + 1
           /\ (at[t] \in S /\ to \notin S)
                => /\ At(S)' = At(S) \ {t}
                   /\ Cardinality(At(S)') = Cardinality(At(S)) - 1
                   /\ Cardinality(At(S)) >= 1
<1>1. (at[t] \in S <=> to \in S) => At(S)' = At(S)
  BY DEF At
<1>2. ASSUME at[t] \notin S, to \in S
      PROVE  At(S)' = At(S) \cup {t} /\ t \notin At(S)
  BY <1>2 DEF At
<1>3. ASSUME at[t] \in S, to \notin S
      PROVE  At(S)' = At(S) \ {t} /\ t \in At(S)
  BY <1>3 DEF At
<1> HIDE DEF At
<1>4. ASSUME t \notin At(S)
      PROVE  Cardinality(At(S) \cup {t}) = Cardinality(At(S)) + 1
  BY <1>4, AtFinite, FS_AddElement
<1>5. ASSUME t \in At(S)
      PROVE  /\ Cardinality(At(S) \ {t}) = Cardinality(At(S)) - 1
             /\ Cardinality(At(S)) >= 1
  <2>1. Cardinality(At(S) \ {t}) = Cardinality(At(S)) - 1
    BY <1>5, AtFinite, FS_RemoveElement
  <2>2. Cardinality(At(S)) \in Nat /\ Cardinality(At(S)) # 0
    BY <1>5, AtFinite
  <2> QED BY <2>1, <2>2
<1> QED BY <1>1, <1>2, <1>3, <1>4, <1>5

(* The counters are numbers of a word; adding and subtracting 1 wraps.     *)
LEMMA WordArithmetic ==
    ASSUME NEW n \in 0 .. Word - 1
    PROVE  /\ Word \in Nat \ {0}
           /\ n % Word = n
           /\ Inc(n) \in 0 .. Word - 1 /\ Dec(n) \in 0 .. Word - 1
           /\ n + 1 < Word => Inc(n) = n + 1
           /\ n + 1 = Word => Inc(n) = 0
           /\ n > 0 => Dec(n) = n - 1
           /\ n = 0 => Dec(n) = Word - 1
           /\ \A m \in 0 .. Word - 1 :
                 (n + m) % Word = IF n + m < Word THEN n + m ELSE n + m - Word
BY BarrierAssumption DEF Inc, Dec
-----------------------------------------------------------------------------
(* The counters account for the threads inside, exactly or with one word   *)
(* too many, which is the case once m_counter2 has wrapped.                *)
Accounted ==
    \/ m_counter1 + m_counter2 = Cardinality(Inside)
    \/ m_counter1 + m_counter2 = Cardinality(Inside) + Word

(* Counting modulo the word and counting the threads agree while the       *)
(* counters have their types.                                              *)
LEMMA AccountedIsCounted ==
    BarrierTypeOK => (EveryKnockCounted <=> Accounted)
<1> DEFINE n == Cardinality(Inside)
<1>1. n \in 0 .. Word - 1
  BY AtFinite DEF Inside
<1>2. SUFFICES ASSUME BarrierTypeOK
              PROVE  (m_counter1 + m_counter2) % Word = n % Word <=> Accounted
  BY DEF EveryKnockCounted, Inside
<1>3. m_counter1 \in 0 .. Word - 1 /\ m_counter2 \in 0 .. Word - 1
  BY <1>2 DEF BarrierTypeOK
<1>4. /\ n % Word = n
      /\ (m_counter1 + m_counter2) % Word =
              IF m_counter1 + m_counter2 < Word THEN m_counter1 + m_counter2
              ELSE m_counter1 + m_counter2 - Word
  BY <1>1, <1>3, WordArithmetic
<1> HIDE DEF n
<1> QED BY <1>1, <1>3, <1>4, BarrierAssumption DEF Accounted, n

(* One invariant for all threads: the sum of the counters, and, until a    *)
(* timeout races an open(), the tokens.                                    *)
BarrierInv == BarrierTypeOK /\ Accounted /\ TokensMatch

(* The numbers the invariant relates, as integers.                         *)
LEMMA Numbers ==
    ASSUME BarrierTypeOK
    PROVE  /\ m_counter1 \in 0 .. Word - 1 /\ m_counter2 \in 0 .. Word - 1
           /\ m_barrier \in Nat /\ Word \in Nat \ {0} /\ MaxTokens \in Nat
           /\ Cardinality(Inside) \in 0 .. Word - 1
           /\ Cardinality(Passing) \in 0 .. Word - 1
           /\ Cardinality(Queued) \in 0 .. Word - 1
           /\ Cardinality(Inside) = Cardinality(Passing) + Cardinality(Queued)
<1>1. Inside = Passing \cup Queued /\ Passing \cap Queued = {}
  BY DEF Inside, Passing, Queued, At
<1>2. /\ IsFiniteSet(Passing) /\ IsFiniteSet(Queued)
      /\ \A S \in {Inside, Passing, Queued} : Cardinality(S) \in 0 .. Word - 1
  BY AtFinite DEF Inside, Passing, Queued
<1>3. Cardinality(Inside) = Cardinality(Passing) + Cardinality(Queued)
  <2>1. Cardinality(Passing \cap Queued) = 0
    BY <1>1, FS_EmptySet
  <2>2. Cardinality(Inside) =
          Cardinality(Passing) + Cardinality(Queued) - Cardinality(Passing \cap Queued)
    BY <1>1, <1>2, FS_Union
  <2> QED BY <1>2, <2>1, <2>2
<1> QED BY <1>2, <1>3, BarrierAssumption DEF BarrierTypeOK

(* A step that takes t from one place to another, in the numbers.          *)
LEMMA NumbersMove ==
    ASSUME BarrierTypeOK, NEW t \in Waiters, NEW from, NEW to,
           Move(t, from, to), to \in Places
    PROVE  /\ (at \in [Waiters -> Places])'
           /\ from = "expect" /\ to = "pass" =>
                /\ Cardinality(Passing') = Cardinality(Passing) + 1
                /\ Cardinality(Queued') = Cardinality(Queued) - 1
                /\ Inside' = Inside
           /\ from = "pass" /\ to = "away" =>
                /\ Cardinality(Passing') = Cardinality(Passing) - 1
                /\ Queued' = Queued
                /\ Cardinality(Inside') = Cardinality(Inside) - 1
                /\ Cardinality(Passing) >= 1
           /\ from = "late" /\ to = "away" =>
                /\ Passing' = Passing
                /\ Cardinality(Queued') = Cardinality(Queued) - 1
                /\ Cardinality(Inside') = Cardinality(Inside) - 1
                /\ Cardinality(Queued) >= 1
           /\ from = "look" /\ to = "expect" =>
                /\ Passing' = Passing
                /\ Cardinality(Queued') = Cardinality(Queued) + 1
                /\ Cardinality(Inside') = Cardinality(Inside) + 1
           /\ <<from, to>> \in {<<"away", "knock">>, <<"knock", "look">>,
                                <<"expect", "late">>} =>
                /\ Passing' = Passing /\ Queued' = Queued /\ Inside' = Inside
<1>1. at \in [Waiters -> Places] /\ at[t] = from /\ at' = [at EXCEPT ![t] = to]
  BY DEF BarrierTypeOK, Move
<1> USE DEF Inside, Passing, Queued
<1>2. (at \in [Waiters -> Places])'
  BY <1>1
<1>3. CASE from = "expect" /\ to = "pass"
  BY <1>1, <1>2, <1>3, AtMoves
<1>4. CASE from = "pass" /\ to = "away"
  BY <1>1, <1>2, <1>4, AtMoves
<1>5. CASE from = "late" /\ to = "away"
  BY <1>1, <1>2, <1>5, AtMoves
<1>6. CASE from = "look" /\ to = "expect"
  BY <1>1, <1>2, <1>6, AtMoves
<1>7. CASE <<from, to>> \in {<<"away", "knock">>, <<"knock", "look">>,
                             <<"expect", "late">>}
  BY <1>1, <1>2, <1>7, AtMoves
<1> QED BY <1>2, <1>3, <1>4, <1>5, <1>6, <1>7

(* At first no thread is inside.                                           *)
LEMMA BarrierInvInit == BarrierInit => BarrierInv
<1> SUFFICES ASSUME BarrierInit PROVE BarrierInv
  OBVIOUS
<1>1. Inside = {} /\ Passing = {} /\ Queued = {}
  BY DEF BarrierInit, Inside, Passing, Queued, At
<1>2. Cardinality({}) = 0
  BY FS_EmptySet
<1>3. BarrierTypeOK
  BY BarrierAssumption DEF BarrierInit, BarrierTypeOK, Places
<1>4. Accounted
  BY <1>1, <1>2 DEF BarrierInit, Accounted
<1>5. TokensMatch
  BY <1>1, <1>2 DEF BarrierInit, TokensMatch, Passing, Queued
<1> QED BY <1>3, <1>4, <1>5 DEF BarrierInv

(* Every step keeps it.                                                    *)
LEMMA BarrierInvStep == BarrierInv /\ [BarrierNext]_barrierVars => BarrierInv'
<1> SUFFICES ASSUME BarrierInv, [BarrierNext]_barrierVars PROVE BarrierInv'
  OBVIOUS
<1> DEFINE i == Cardinality(Inside)
           p == Cardinality(Passing)
           w == Cardinality(Queued)
           Tokens == ~raced => m_counter2 = m_barrier + p /\ m_counter1 + m_barrier = w
           Sum == m_counter1 + m_counter2 = i \/ m_counter1 + m_counter2 = i + Word
<1>0. BarrierTypeOK /\ Sum /\ Tokens /\ opened \subseteq Waiters
  BY DEF BarrierInv, BarrierTypeOK, Accounted, TokensMatch, Passing, Queued
<1>1. /\ m_counter1 \in 0 .. Word - 1 /\ m_counter2 \in 0 .. Word - 1
      /\ m_barrier \in Nat /\ Word \in Nat \ {0}
      /\ i \in 0 .. Word - 1 /\ p \in 0 .. Word - 1 /\ w \in 0 .. Word - 1
      /\ i = p + w
  BY <1>0, Numbers
<1>2. ASSUME (at \in [Waiters -> Places])', opened' \subseteq Waiters,
             m_counter1' \in 0 .. Word - 1, m_counter2' \in 0 .. Word - 1,
             m_barrier' \in Nat, Sum', Tokens'
      PROVE  BarrierInv'
  BY <1>2 DEF BarrierInv, BarrierTypeOK, Accounted, TokensMatch, Passing, Queued
<1>3. Inc(m_counter1) \in 0 .. Word - 1
      /\ (m_counter1 + 1 < Word => Inc(m_counter1) = m_counter1 + 1)
      /\ (m_counter1 + 1 = Word => Inc(m_counter1) = 0)
  BY <1>1, WordArithmetic
<1>4. /\ Dec(m_counter1) \in 0 .. Word - 1 /\ Dec(m_counter2) \in 0 .. Word - 1
      /\ m_counter1 > 0 => Dec(m_counter1) = m_counter1 - 1
      /\ m_counter1 = 0 => Dec(m_counter1) = Word - 1
      /\ m_counter2 > 0 => Dec(m_counter2) = m_counter2 - 1
      /\ m_counter2 = 0 => Dec(m_counter2) = Word - 1
  BY <1>1, WordArithmetic
<1>5. (m_counter2 + m_counter1) % Word =
          IF m_counter2 + m_counter1 < Word THEN m_counter2 + m_counter1
          ELSE m_counter2 + m_counter1 - Word
  BY <1>1, WordArithmetic
<1>6. ASSUME NEW t \in Waiters, Call(t) \/ KnockLook(t) \/ RunOutOfTime(t)
      PROVE  BarrierInv'
  <2>1. /\ (at \in [Waiters -> Places])' /\ i' = i /\ p' = p /\ w' = w
        /\ opened' \subseteq Waiters
        /\ UNCHANGED <<m_counter1, m_counter2, m_barrier, raced>>
    BY <1>0, <1>6, NumbersMove DEF Call, KnockLook, RunOutOfTime, Places
  <2> HIDE DEF i, p, w
  <2> QED BY <1>0, <1>1, <1>2, <2>1
<1>7. ASSUME NEW t \in Waiters, KnockCount(t) PROVE BarrierInv'
  <2>1. /\ (at \in [Waiters -> Places])' /\ i' = i + 1 /\ p' = p /\ w' = w + 1
        /\ m_counter1' = Inc(m_counter1)
        /\ UNCHANGED <<m_counter2, m_barrier, opened, raced>>
    BY <1>0, <1>7, NumbersMove DEF KnockCount, Places
  <2>2. i' \in 0 .. Word - 1
    <3>1. Inside' \in SUBSET Waiters
      BY DEF Inside, At
    <3> QED BY <3>1, ThreadsFinite
  <2> HIDE DEF i, p, w
  <2>3. Sum' /\ Tokens'
    BY <1>0, <1>1, <1>3, <2>1, <2>2
  <2> QED BY <1>0, <1>1, <1>2, <1>3, <2>1, <2>3
<1>8. ASSUME NEW t \in Waiters, TakeToken(t) PROVE BarrierInv'
  <2>1. /\ (at \in [Waiters -> Places])' /\ i' = i /\ p' = p + 1 /\ w' = w - 1
        /\ m_barrier > 0 /\ m_barrier' = m_barrier - 1
        /\ UNCHANGED <<m_counter1, m_counter2, opened, raced>>
    BY <1>0, <1>8, NumbersMove DEF TakeToken, Places
  <2> HIDE DEF i, p, w
  <2>3. Sum' /\ Tokens' /\ m_barrier' \in Nat
    BY <1>0, <1>1, <2>1
  <2> QED BY <1>0, <1>1, <1>2, <2>1, <2>3
<1>9. ASSUME NEW t \in Waiters, Pass(t) PROVE BarrierInv'
  <2>1. /\ (at \in [Waiters -> Places])' /\ i' = i - 1 /\ p' = p - 1 /\ w' = w
        /\ p >= 1 /\ m_counter2' = Dec(m_counter2)
        /\ UNCHANGED <<m_counter1, m_barrier, opened, raced>>
    BY <1>0, <1>9, NumbersMove DEF Pass, Places
  <2> HIDE DEF i, p, w
  <2>3. Sum' /\ Tokens'
    BY <1>0, <1>1, <1>4, <2>1
  <2> QED BY <1>0, <1>1, <1>2, <1>4, <2>1, <2>3
<1>10. ASSUME NEW t \in Waiters, GiveUp(t) PROVE BarrierInv'
  <2>1. /\ (at \in [Waiters -> Places])' /\ i' = i - 1 /\ p' = p /\ w' = w - 1
        /\ w >= 1 /\ m_counter2 = 0 /\ m_counter1' = Dec(m_counter1)
        /\ UNCHANGED <<m_counter2, m_barrier, opened, raced>>
    BY <1>0, <1>10, NumbersMove DEF GiveUp, Places
  <2> HIDE DEF i, p, w
  <2>3. Sum' /\ Tokens'
    BY <1>0, <1>1, <1>4, <2>1
  <2> QED BY <1>0, <1>1, <1>2, <1>4, <2>1, <2>3
<1>11. ASSUME NEW t \in Waiters, LatePass(t) PROVE BarrierInv'
  <2>1. /\ (at \in [Waiters -> Places])' /\ i' = i - 1
        /\ m_counter2 > 0 /\ m_counter2' = Dec(m_counter2) /\ raced'
        /\ UNCHANGED <<m_counter1, m_barrier, opened>>
    BY <1>0, <1>11, NumbersMove DEF LatePass, Places
  <2> HIDE DEF i, p, w
  <2>3. Sum' /\ Tokens'
    BY <1>0, <1>1, <1>4, <2>1
  <2> QED BY <1>0, <1>1, <1>2, <1>4, <2>1, <2>3
<1>12. CASE Open
  <2>1. /\ at' = at /\ i' = i /\ p' = p /\ w' = w /\ opened' \subseteq Waiters
        /\ m_counter1' = 0 /\ m_counter2' = (m_counter2 + m_counter1) % Word
        /\ m_barrier' = m_barrier + m_counter1 /\ UNCHANGED raced
    BY <1>0, <1>12 DEF Open, Inside, Passing, Queued, At
  <2>2. (at \in [Waiters -> Places])'
    BY <1>0, <2>1 DEF BarrierTypeOK
  <2> HIDE DEF i, p, w
  <2>3. Sum' /\ Tokens' /\ m_counter2' \in 0 .. Word - 1 /\ m_barrier' \in Nat
    BY <1>0, <1>1, <1>5, <2>1
  <2>4. m_counter1' \in 0 .. Word - 1
    BY <1>1, <2>1
  <2> QED BY <1>2, <2>1, <2>2, <2>3, <2>4
<1>13. CASE UNCHANGED barrierVars
  <2>1. i' = i /\ p' = p /\ w' = w
    BY <1>13 DEF Inside, Passing, Queued, At
  <2> HIDE DEF i, p, w
  <2> QED BY <1>0, <1>1, <1>2, <1>13, <2>1 DEF BarrierTypeOK
<1> QED BY <1>6, <1>7, <1>8, <1>9, <1>10, <1>11, <1>12, <1>13 DEF BarrierNext

(* The invariant of the barrier: both counters count the threads in their  *)
(* part of the protocol, whatever times out.                               *)
THEOREM BarrierInvariant == BarrierSpec => []BarrierInv
BY BarrierInvInit, BarrierInvStep, PTL DEF BarrierSpec

(* Nobody is forgotten: the two counters of the barrier always count the   *)
(* threads between knock() and the end of expect(), timeouts included.     *)
THEOREM KnocksCounted == BarrierSpec => []EveryKnockCounted
<1>1. BarrierInv => EveryKnockCounted
  BY AccountedIsCounted DEF BarrierInv
<1> QED BY <1>1, BarrierInvariant, PTL

(* Until a timeout races an open(), there is one token for each thread let *)
(* through that has not taken its own (locker.cpp:353-364).                *)
THEOREM TokensMatchHolds == BarrierSpec => []TokensMatch
<1>1. BarrierInv => TokensMatch
  BY DEF BarrierInv
<1> QED BY <1>1, BarrierInvariant, PTL
-----------------------------------------------------------------------------
(* Why nobody goes through unopened when the callers keep open() out of    *)
(* knock(): while an opening is being left, nobody has looked at           *)
(* m_counter2 and nobody is counted for the next one, so every token is    *)
(* for somebody the opening was for.                                       *)
OneOpening ==
    ~raced => /\ At({"pass"}) \subseteq opened
              /\ m_counter2 > 0 => /\ m_counter1 = 0
                                   /\ At({"look"}) = {}
                                   /\ At({"expect", "late"}) \subseteq opened

(* When open() is guarded by the connector's lock, every step keeps what   *)
(* is known of the running open().                                         *)
LEMMA OneOpeningStep ==
    ASSUME Guarded, BarrierInv, OneOpening, [BarrierNext]_barrierVars
    PROVE  OneOpening'
<1>1. /\ m_counter1 \in 0 .. Word - 1 /\ m_counter2 \in 0 .. Word - 1
      /\ m_barrier \in Nat /\ Word \in Nat \ {0}
      /\ Cardinality(Passing) \in 0 .. Word - 1
      /\ Cardinality(Queued) \in 0 .. Word - 1
      /\ at \in [Waiters -> Places]
  BY Numbers DEF BarrierInv, BarrierTypeOK
<1>2. ~raced => /\ m_counter2 = m_barrier + Cardinality(Passing)
                /\ m_counter1 + m_barrier = Cardinality(Queued)
  BY DEF BarrierInv, TokensMatch, Passing, Queued
<1>3. Dec(m_counter2) \in 0 .. Word - 1 /\ (m_counter2 > 0 => Dec(m_counter2) = m_counter2 - 1)
  BY <1>1, WordArithmetic
<1> SUFFICES ASSUME ~raced' PROVE OneOpening'
  BY DEF OneOpening
<1>4. ASSUME NEW t \in Waiters, Call(t) PROVE OneOpening'
  BY <1>1, <1>4 DEF Call, Move, OneOpening, At
<1>5. ASSUME NEW t \in Waiters, KnockLook(t) \/ RunOutOfTime(t) PROVE OneOpening'
  BY <1>1, <1>5 DEF KnockLook, RunOutOfTime, Move, OneOpening, At
<1>6. ASSUME NEW t \in Waiters, KnockCount(t) PROVE OneOpening'
  BY <1>1, <1>6 DEF KnockCount, Move, OneOpening, At
<1>7. ASSUME NEW t \in Waiters, TakeToken(t) PROVE OneOpening'
  <2>1. m_counter2 > 0
    BY <1>1, <1>2, <1>7 DEF TakeToken
  <2> QED BY <1>1, <1>7, <2>1 DEF TakeToken, Move, OneOpening, At
<1>8. ASSUME NEW t \in Waiters, Pass(t) PROVE OneOpening'
  <2>1. Cardinality(Passing) >= 1
    BY <1>8, NumbersMove DEF Pass, BarrierInv, Places
  <2>2. m_counter2 > 0 /\ raced' = raced /\ m_counter2' = m_counter2 - 1
    BY <1>1, <1>2, <1>3, <1>8, <2>1 DEF Pass
  <2> QED BY <1>1, <1>8, <2>2 DEF Pass, Move, OneOpening, At
<1>9. ASSUME NEW t \in Waiters, GiveUp(t) PROVE OneOpening'
  BY <1>1, <1>9 DEF GiveUp, Move, OneOpening, At
<1>10. ASSUME NEW t \in Waiters, LatePass(t) PROVE OneOpening'
  BY <1>10 DEF LatePass
<1>11. CASE Open
  <2>1. At({"look"}) = {}
    BY <1>11 DEF Open, At
  <2> QED BY <1>1, <1>11, <2>1 DEF Open, OneOpening, At
<1>12. CASE UNCHANGED barrierVars
  BY <1>12 DEF OneOpening, At
<1> QED BY <1>4, <1>5, <1>6, <1>7, <1>8, <1>9, <1>10, <1>11, <1>12 DEF BarrierNext

(* The barrier holds all the waiting threads until some thread opens it    *)
(* (locker.h:161), when its callers keep open() out of knock() and until a *)
(* timeout races an open().                                                *)
THEOREM BarrierHolds ==
    ASSUME Guarded
    PROVE  BarrierSpec => []HoldsUntilOpen
<1>1. BarrierInit => OneOpening
  BY DEF BarrierInit, OneOpening, At
<1>2. BarrierInv /\ OneOpening /\ [BarrierNext]_barrierVars => OneOpening'
  BY OneOpeningStep
<1>3. OneOpening => HoldsUntilOpen
  BY DEF OneOpening, HoldsUntilOpen
<1> QED BY <1>1, <1>2, <1>3, BarrierInvariant, PTL DEF BarrierSpec
=============================================================================
