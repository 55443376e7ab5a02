-------------------------- MODULE LifecycleProofs ---------------------------
(***************************************************************************)
(* The life of a connector for every number of processes and objects: the  *)
(* types, an object is constructed before it is used, and, until two have  *)
(* been inside the spinlock together, exact counting of the handles and a  *)
(* locker that outlives them.                                              *)
(***************************************************************************)
EXTENDS Lifecycle, FiniteSetTheorems, SequenceTheorems, TLAPS

Objects == [sized : BOOLEAN, lock : {"LS_LOCKED", "LS_UNLOCKED"},
            counter : 0 .. Word - 1, locker : {"raw", "live", "dead"}]

(* Being made by its creator.                                              *)
Making == {"truncate", "construct"}

(* Past the counter of do_open, or open, or not yet done with the counter. *)
Entered == Counted \cup Owns \cup {"lock"}

(* Has something mapped.                                                   *)
Mapped == Making \cup Entered \cup {"map", "enter", "look", "quit", "void", "leave"}

HasObject == \A p \in Procs : at[p] \in Mapped => obj[p] # 0

(* An object stays raw until its only creator constructs it, and its       *)
(* counter stays 0.                                                        *)
RawIsFresh ==
    \A i \in DOMAIN objs : IF objs[i].locker = "raw" THEN objs[i].counter = 0
                                                     ELSE objs[i].sized = TRUE

MakerIsAlone ==
    \A p \in Procs : at[p] \in Making =>
        /\ Object(p).locker = "raw"
        /\ at[p] = "construct" => Object(p).sized = TRUE
        /\ \A r \in Procs \ {p} : at[r] \in Making => obj[r] # obj[p]

EnteredIsMade == \A p \in Procs : at[p] \in Entered => Object(p).locker # "raw"

MadeInv == LifeTypeOK /\ HasObject /\ RawIsFresh /\ MakerIsAlone /\ EnteredIsMade

(* No two are inside the spinlock of an object together.                   *)
Alone ==
    \A p, r \in Procs :
        p # r /\ at[p] \in Guarded /\ at[r] \in Guarded => obj[p] # obj[r]

RegIsFresh ==
    \A p \in Procs : at[p] \in {"add", "subtract"} => reg[p] = Object(p).counter

Handles(i) == {p \in Procs : obj[p] = i /\ at[p] \in Counted}

DeadIsUncounted ==
    \A i \in DOMAIN objs : objs[i].locker = "dead" => objs[i].counter = 0

Orderly ==
    /\ Alone /\ RegIsFresh /\ DeadIsUncounted
    /\ \A i \in DOMAIN objs : objs[i].counter = Cardinality(Handles(i))
    /\ \A p \in Procs : at[p] \in Entered => Object(p).locker = "live"

CountInv == MadeInv /\ (overlap \/ Orderly)
-----------------------------------------------------------------------------
Places == Guarded \cup Counted \cup Resting \cup
            {"truncate", "construct", "map", "enter", "quit", "remove"}

(* What is left of an object when p has changed it in place.               *)
Replaced(p, v) ==
    /\ objs' \in Seq(Objects) /\ Len(objs') = Len(objs)
    /\ objs'[obj[p]] = v
    /\ \A i \in 1 .. Len(objs) : i # obj[p] => objs'[i] = objs[i]

(* A step that leaves the objects alone replaces p's object by itself.     *)
LEMMA ReplacedBySame ==
    ASSUME LifeTypeOK, NEW p \in Procs, UNCHANGED objs
    PROVE  Replaced(p, Object(p))
BY DEF LifeTypeOK, Objects, Replaced, Object

(* An EXCEPT on p's object replaces that one and no other.                 *)
LEMMA ReplacedByUpdate ==
    ASSUME LifeTypeOK, NEW p \in Procs, obj[p] # 0, NEW v \in Objects,
           objs' = [objs EXCEPT ![obj[p]] = v]
    PROVE  Replaced(p, v)
BY DEF LifeTypeOK, Objects, Replaced

(* A process that has something mapped has an object.                      *)
LEMMA ObjectTyped ==
    ASSUME MadeInv, NEW p \in Procs, at[p] \in Mapped
    PROVE  /\ obj[p] \in 1 .. Len(objs) /\ obj[p] # 0 /\ Len(objs) \in Nat
           /\ obj[p] \in DOMAIN objs /\ Object(p) \in Objects
<1>1. objs \in Seq(Objects)
  BY DEF MadeInv, LifeTypeOK, Objects
<1>2. obj[p] \in 0 .. Len(objs) /\ obj[p] # 0
  BY DEF MadeInv, LifeTypeOK, HasObject
<1> QED BY <1>1, <1>2 DEF Object

(* A step of p within what it has mapped: what is required of p's new      *)
(* place and of the new contents of its object.                            *)
LEMMA MadeInPlace ==
    ASSUME MadeInv, NEW p \in Procs, NEW b \in Mapped \cup {"remove"},
           NEW v \in Objects,
           at[p] \in Mapped, at' = [at EXCEPT ![p] = b], Replaced(p, v),
           UNCHANGED <<name, obj>>, reg' \in [Procs -> 0 .. Word - 1],
           v.locker = "raw" => v.counter = 0,
           v.locker # "raw" => v.sized = TRUE,
           Object(p).locker # "raw" => v.locker # "raw",
           Object(p).sized = TRUE => v.sized = TRUE,
           v.locker # "raw" => Object(p).locker # "raw" \/ at[p] \in Making,
           b \in Making => at[p] \in Making /\ v.locker = "raw",
           b = "construct" => v.sized = TRUE,
           b \in Entered => v.locker # "raw"
    PROVE  MadeInv'
<1> DEFINE i == obj[p]
<1>1. i \in 1 .. Len(objs) /\ Len(objs) \in Nat
  BY DEF MadeInv, LifeTypeOK, HasObject
<1>2. LifeTypeOK'
  <2>1. at' \in [Procs -> Places]
    BY DEF MadeInv, LifeTypeOK, Places, Mapped, Making, Entered, Counted, Owns,
           Guarded, Resting
  <2> QED BY <2>1 DEF MadeInv, LifeTypeOK, Places, Replaced, Objects
<1>3. \A r \in Procs : r # p => at'[r] = at[r]
  BY DEF MadeInv, LifeTypeOK
<1>4. at'[p] = b
  BY DEF MadeInv, LifeTypeOK
<1>5. HasObject'
  BY <1>3, <1>4 DEF MadeInv, HasObject
<1>6. /\ DOMAIN objs = 1 .. Len(objs) /\ DOMAIN objs' = DOMAIN objs
      /\ \A j \in DOMAIN objs : objs'[j] = IF j = i THEN v ELSE objs[j]
  <2>1. objs \in Seq(Objects)
    BY DEF MadeInv, LifeTypeOK, Objects
  <2> QED BY <1>1, <2>1 DEF Replaced
<1>7. RawIsFresh'
  BY <1>6 DEF MadeInv, RawIsFresh
<1>8. \A r \in Procs : at[r] \in Mapped =>
          Object(r)' = IF obj[r] = i THEN v ELSE Object(r)
  BY <1>6, ObjectTyped DEF Object
<1>9. Making \subseteq Mapped /\ Entered \subseteq Mapped
  BY DEF Mapped
<1> HIDE DEF i
<1>10. MakerIsAlone'
  BY <1>3, <1>4, <1>8, <1>9 DEF MadeInv, MakerIsAlone, Object, i
<1>11. EnteredIsMade'
  BY <1>3, <1>4, <1>8, <1>9 DEF MadeInv, MakerIsAlone, EnteredIsMade, Object, i
<1> QED BY <1>2, <1>5, <1>7, <1>10, <1>11 DEF MadeInv

(* A step that only moves p and may read the counter.                      *)
LEMMA MadeMove ==
    ASSUME MadeInv, NEW p \in Procs, NEW a \in Mapped \ Making,
           NEW b \in (Mapped \ Making) \cup {"remove"}, Goto(p, a, b),
           UNCHANGED <<name, objs, obj>>, reg' \in [Procs -> 0 .. Word - 1],
           b \in Entered => a \in Entered \/ Object(p).locker # "raw"
    PROVE  MadeInv'
<1> DEFINE v == Object(p)
<1>1. /\ obj[p] \in 1 .. Len(objs) /\ obj[p] # 0 /\ Len(objs) \in Nat
      /\ Object(p) \in Objects
  BY ObjectTyped DEF Goto
<1>2. v \in Objects /\ Replaced(p, v)
  BY <1>1, ReplacedBySame DEF MadeInv
<1>3. /\ v.locker = "raw" => v.counter = 0
      /\ v.locker # "raw" => v.sized = TRUE
  BY <1>1 DEF MadeInv, LifeTypeOK, RawIsFresh, Object
<1>4. b \in Entered => v.locker # "raw"
  BY DEF MadeInv, EnteredIsMade, Goto
<1>5. b \notin Making
  BY DEF Making
<1> HIDE DEF v
<1> QED BY <1>2, <1>3, <1>4, <1>5, MadeInPlace DEF Goto, v, Making

(* A step of p that changes the lock bit or the counter of a constructed   *)
(* object, or that destroys its locker.                                    *)
LEMMA MadeUpdate ==
    ASSUME MadeInv, NEW p \in Procs, NEW a \in Mapped \ Making,
           NEW b \in (Mapped \ Making) \cup {"remove"}, Goto(p, a, b),
           NEW v \in Objects, objs' = [objs EXCEPT ![obj[p]] = v],
           v.sized = Object(p).sized,
           IF a \in Entered
           THEN v.locker # "raw"
           ELSE v.counter = Object(p).counter /\ v.locker = Object(p).locker,
           UNCHANGED <<name, obj, reg>>,
           b \in Entered => a \in Entered
    PROVE  MadeInv'
<1>1. /\ obj[p] \in 1 .. Len(objs) /\ obj[p] # 0 /\ Len(objs) \in Nat
      /\ Object(p) \in Objects
  BY ObjectTyped DEF Goto
<1>2. Replaced(p, v)
  BY <1>1, ReplacedByUpdate DEF MadeInv
<1>3. /\ v.locker = "raw" => v.counter = 0
      /\ v.locker # "raw" => v.sized = TRUE
      /\ v.locker = "raw" <=> Object(p).locker = "raw"
  BY <1>1 DEF MadeInv, LifeTypeOK, RawIsFresh, EnteredIsMade, Object, Goto
<1>4. b \in Entered => v.locker # "raw"
  BY <1>3 DEF MadeInv, EnteredIsMade, Goto
<1>5. b \notin Making /\ b # "construct" /\ reg' \in [Procs -> 0 .. Word - 1]
  BY DEF Making, MadeInv, LifeTypeOK
<1> QED BY <1>2, <1>3, <1>4, <1>5, MadeInPlace DEF Goto, Making

(* The counter has a value for every number of handles.                    *)
LEMMA WordFits ==
    /\ Word \in Nat
    /\ Procs # {} => Word > 1
    /\ \A S \in SUBSET Procs : Cardinality(S) \in Nat /\ Cardinality(S) < Word
<1>1. /\ IsFiniteSet(Procs) /\ Word \in Nat
      /\ Cardinality(Procs) \in Nat /\ Cardinality(Procs) < Word
  BY LifecycleAssumption, FS_CardinalityType
<1>2. Procs # {} => Cardinality(Procs) # 0
  BY <1>1, FS_EmptySet
<1>3. ASSUME NEW S \in SUBSET Procs
      PROVE  Cardinality(S) \in Nat /\ Cardinality(S) < Word
  BY <1>1, FS_Subset, FS_CardinalityType
<1> QED BY <1>1, <1>2, <1>3

(* Who finds a positive counter finds the object constructed.              *)
LEMMA CountedIsMade ==
    ASSUME MadeInv, NEW p \in Procs, at[p] \in Mapped, Object(p).counter > 0
    PROVE  Object(p).locker # "raw"
<1>1. obj[p] \in DOMAIN objs /\ Object(p).counter \in 0 .. Word - 1 /\ Word \in Nat
  BY ObjectTyped, WordFits DEF Objects
<1>2. Object(p).locker = "raw" => Object(p).counter = 0
  BY <1>1 DEF MadeInv, RawIsFresh, Object
<1> QED BY <1>1, <1>2

USE DEF Mapped, Making, Entered, Counted, Owns

(* spinlock::try_lock, in do_open and in the destructor.                   *)
LEMMA MadeTryLock ==
    ASSUME MadeInv, NEW p \in Procs,
           TryLock(p, "enter", "look") \/ TryLock(p, "close", "free")
    PROVE  MadeInv'
<1>0. reg \in [Procs -> 0 .. Word - 1]
  BY DEF MadeInv, LifeTypeOK
<1>1. ASSUME NEW a \in {"enter", "close"}, Goto(p, a, a),
             objs' = [objs EXCEPT ![obj[p]].lock = "LS_LOCKED"],
             UNCHANGED <<name, obj, reg>>
      PROVE  MadeInv'
  <2> DEFINE v == [Object(p) EXCEPT !.lock = "LS_LOCKED"]
  <2>1. obj[p] \in 1 .. Len(objs) /\ Object(p) \in Objects
    BY <1>1, ObjectTyped DEF Goto
  <2>2. /\ v \in Objects /\ v.sized = Object(p).sized
        /\ v.counter = Object(p).counter /\ v.locker = Object(p).locker
    BY <2>1 DEF Objects
  <2>3. objs' = [objs EXCEPT ![obj[p]] = v]
    BY <1>1 DEF Object
  <2>4. a \in Entered => v.locker # "raw"
    BY <1>1, <2>2 DEF MadeInv, EnteredIsMade, Goto
  <2> HIDE DEF v
  <2>5. a \in Mapped \ Making
    BY <1>1
  <2> QED BY <1>1, <2>2, <2>3, <2>4, <2>5, MadeUpdate
<1>2. ASSUME Goto(p, "enter", "look") \/ Goto(p, "close", "free"),
             UNCHANGED <<name, objs, obj, reg>>
      PROVE  MadeInv'
  BY <1>0, <1>2, MadeMove
<1> QED BY <1>1, <1>2 DEF TryLock

(* spinlock::unlock, in do_create, do_open and the destructor.             *)
LEMMA MadeUnlock ==
    ASSUME MadeInv, NEW p \in Procs, NEW a, NEW b, Unlock(p, a, b),
           <<a, b>> \in {<<"unlock", "hand over">>, <<"done", "open">>,
                         <<"quit", "void">>, <<"leave", "remove">>}
    PROVE  MadeInv'
<1> DEFINE v == [Object(p) EXCEPT !.lock = "LS_UNLOCKED"]
<1>1. obj[p] \in 1 .. Len(objs) /\ Object(p) \in Objects
  BY ObjectTyped DEF Goto, Unlock
<1>2. /\ v \in Objects /\ v.sized = Object(p).sized
      /\ v.counter = Object(p).counter /\ v.locker = Object(p).locker
  BY <1>1 DEF Objects
<1>3. objs' = [objs EXCEPT ![obj[p]] = v]
  BY DEF Object, Unlock
<1>4. a \in Entered => v.locker # "raw"
  BY <1>2 DEF MadeInv, EnteredIsMade, Goto, Unlock
<1>5. Goto(p, a, b) /\ UNCHANGED <<name, obj, reg>>
  BY DEF Unlock
<1> HIDE DEF v
<1> QED BY <1>2, <1>3, <1>4, <1>5, MadeUpdate

(* The steps of create, open and destruction that leave the objects alone. *)
LEMMA MadeQuiet ==
    ASSUME MadeInv, NEW p \in Procs,
           \/ Map(p) \/ Look(p) \/ Close(p)
           \/ LockLocker(p, "lock", "read") \/ LockLocker(p, "free", "freed")
           \/ UnlockLocker(p, "hand over", "open")
           \/ UnlockLocker(p, "release", "done")
           \/ UnlockLocker(p, "freed", "unread")
           \/ ReadCounter(p, "read", "add") \/ ReadCounter(p, "unread", "subtract")
    PROVE  MadeInv'
<1>1. reg \in [Procs -> 0 .. Word - 1]
  BY DEF MadeInv, LifeTypeOK
<1>2. CASE Look(p)
  <2>1. Object(p).counter > 0 => Object(p).locker # "raw"
    BY <1>2, CountedIsMade DEF Look, Goto
  <2> QED BY <1>1, <1>2, <2>1, MadeMove DEF Look
<1>3. ASSUME NEW a \in {"read", "unread"}, NEW b \in {"add", "subtract"},
             ReadCounter(p, a, b)
      PROVE  MadeInv'
  <2>1. Object(p).counter \in 0 .. Word - 1
    BY <1>3, ObjectTyped DEF ReadCounter, Goto, Objects
  <2>2. reg' \in [Procs -> 0 .. Word - 1]
    BY <1>1, <1>3, <2>1 DEF ReadCounter
  <2> QED BY <1>3, <2>2, MadeMove DEF ReadCounter
<1>4. CASE Map(p) \/ Close(p)
  BY <1>1, <1>4, MadeMove DEF Map, Close
<1>5. CASE LockLocker(p, "lock", "read") \/ LockLocker(p, "free", "freed")
  BY <1>1, <1>5, MadeMove DEF LockLocker
<1>6. CASE \/ UnlockLocker(p, "hand over", "open")
           \/ UnlockLocker(p, "release", "done")
           \/ UnlockLocker(p, "freed", "unread")
  BY <1>1, <1>6, MadeMove DEF UnlockLocker
<1> QED BY <1>2, <1>3, <1>4, <1>5, <1>6

(* What is left of the object by the steps that construct it and count.    *)
LEMMA MadeConstruct ==
    ASSUME MadeInv, NEW p \in Procs, Truncate(p) \/ Construct(p)
    PROVE  MadeInv'
<1>1. /\ obj[p] \in 1 .. Len(objs) /\ obj[p] # 0 /\ Len(objs) \in Nat
      /\ Object(p) \in Objects
  BY ObjectTyped DEF Truncate, Construct, Goto
<1>2. /\ Object(p).locker = "raw" /\ Object(p).counter = 0
      /\ at[p] = "construct" => Object(p).sized = TRUE
  BY <1>1 DEF MadeInv, MakerIsAlone, RawIsFresh, Truncate, Construct, Goto, Object
<1>3. reg \in [Procs -> 0 .. Word - 1]
  BY DEF MadeInv, LifeTypeOK
<1>4. CASE Truncate(p)
  <2> DEFINE v == [Object(p) EXCEPT !.sized = TRUE]
  <2>1. /\ v \in Objects /\ v.sized = TRUE
        /\ v.counter = 0 /\ v.locker = "raw"
    BY <1>1, <1>2 DEF Objects
  <2>2. objs' = [objs EXCEPT ![obj[p]] = v]
    BY <1>4 DEF Object, Truncate
  <2> HIDE DEF v
  <2>3. Replaced(p, v)
    BY <1>1, <2>1, <2>2, ReplacedByUpdate DEF MadeInv
  <2> QED BY <1>2, <1>3, <1>4, <2>1, <2>3, MadeInPlace DEF Truncate, Goto
<1>5. CASE Construct(p)
  <2> DEFINE v == [Object(p) EXCEPT !.locker = "live", !.counter = @ + 1]
  <2>0. 1 \in 0 .. Word - 1 /\ Object(p).sized = TRUE
    BY <1>2, <1>5, WordFits DEF Construct, Goto
  <2>1. /\ v \in Objects /\ v.sized = TRUE
        /\ v.counter = 1 /\ v.locker = "live"
    <3> DEFINE w == [Object(p) EXCEPT !.locker = "live"]
    <3>1. w \in Objects /\ w.sized = TRUE /\ w.counter = 0 /\ w.locker = "live"
      BY <1>1, <1>2, <2>0 DEF Objects
    <3>2. v = [w EXCEPT !.counter = 1]
      BY <1>1, <1>2 DEF Objects
    <3> HIDE DEF v, w
    <3> QED BY <2>0, <3>1, <3>2 DEF Objects
  <2>2. objs' = [objs EXCEPT ![obj[p]] = v]
    BY <1>5 DEF Object, Construct
  <2> HIDE DEF v
  <2>3. Replaced(p, v)
    BY <1>1, <2>1, <2>2, ReplacedByUpdate DEF MadeInv
  <2> QED BY <1>2, <1>3, <1>5, <2>1, <2>3, MadeInPlace DEF Construct, Goto
<1> QED BY <1>4, <1>5

(* The writes of the counter keep the object constructed.                  *)
LEMMA MadeCount ==
    ASSUME MadeInv, NEW p \in Procs, WriteIncremented(p) \/ WriteDecremented(p)
    PROVE  MadeInv'
<1>1. /\ obj[p] \in 1 .. Len(objs) /\ Object(p) \in Objects
      /\ Object(p).locker # "raw"
  BY ObjectTyped DEF MadeInv, EnteredIsMade, WriteIncremented, WriteDecremented, Goto
<1>2. /\ Word \in Nat /\ Word > 0
      /\ reg[p] \in Int
  <2>1. Word \in Nat /\ Word > 1
    BY WordFits
  <2>2. reg[p] \in 0 .. Word - 1
    BY DEF MadeInv, LifeTypeOK
  <2> QED BY <2>1, <2>2
<1>3. (reg[p] + 1) % Word \in 0 .. Word - 1 /\ (reg[p] - 1) % Word \in 0 .. Word - 1
  BY <1>2
<1>4. CASE WriteIncremented(p)
  <2> DEFINE v == [Object(p) EXCEPT !.counter = (reg[p] + 1) % Word]
  <2>1. v \in Objects /\ v.sized = Object(p).sized /\ v.locker # "raw"
    BY <1>1, <1>3 DEF Objects
  <2>2. objs' = [objs EXCEPT ![obj[p]] = v]
    BY <1>4 DEF Object, WriteIncremented
  <2> HIDE DEF v
  <2>3. /\ Goto(p, "add", "release") /\ UNCHANGED <<name, obj, reg>>
        /\ "add" \in Mapped \ Making /\ "add" \in Entered
        /\ "release" \in Mapped \ Making
    BY <1>4 DEF WriteIncremented
  <2> HIDE DEF Mapped, Making, Entered
  <2> QED BY <2>1, <2>2, <2>3, MadeUpdate
<1>5. CASE WriteDecremented(p)
  <2> DEFINE v == [Object(p) EXCEPT !.counter = (reg[p] - 1) % Word,
                                    !.locker = IF reg[p] = 1 THEN "dead" ELSE @]
  <2>1. v \in Objects /\ v.sized = Object(p).sized /\ v.locker # "raw"
    BY <1>1, <1>3 DEF Objects
  <2>2. objs' = [objs EXCEPT ![obj[p]] = v]
    BY <1>5 DEF Object, WriteDecremented
  <2> HIDE DEF v
  <2>3. /\ Goto(p, "subtract", "leave") /\ UNCHANGED <<name, obj, reg>>
        /\ "subtract" \in Mapped \ Making /\ "subtract" \in Entered
        /\ "leave" \in Mapped \ Making
    BY <1>5 DEF WriteDecremented
  <2> HIDE DEF Mapped, Making, Entered
  <2> QED BY <2>1, <2>2, <2>3, MadeUpdate
<1> QED BY <1>4, <1>5

HIDE DEF Mapped, Making, Entered, Counted, Owns

(* How the sets of places lie to one another.                              *)
LEMMA PlacesApart ==
    /\ Making \subseteq Mapped /\ Entered \subseteq Mapped
    /\ "truncate" \in Making /\ "truncate" \notin Entered
    /\ "map" \notin Making /\ "map" \notin Entered
BY DEF Mapped, Making, Entered, Counted, Owns

(* The steps that change the name and what p has mapped.                   *)
LEMMA MadeNames ==
    ASSUME MadeInv, NEW p \in Procs, Create(p) \/ Open(p) \/ Throw(p) \/ Remove(p)
    PROVE  MadeInv'
<1>0. /\ objs \in Seq(Objects) /\ Len(objs) \in Nat /\ name \in 0 .. Len(objs)
      /\ at \in [Procs -> Places] /\ obj \in [Procs -> 0 .. Len(objs)]
      /\ reg \in [Procs -> 0 .. Word - 1]
  <2>1. objs \in Seq(Objects)
    BY DEF MadeInv, LifeTypeOK, Objects
  <2>2. Len(objs) \in Nat
    BY <2>1
  <2>3. /\ name \in 0 .. Len(objs) /\ obj \in [Procs -> 0 .. Len(objs)]
        /\ reg \in [Procs -> 0 .. Word - 1]
    BY DEF MadeInv, LifeTypeOK
  <2>4. at \in [Procs -> Places]
    BY DEF MadeInv, LifeTypeOK, Places
  <2> QED BY <2>1, <2>2, <2>3, <2>4
<1>1. Word \in Nat /\ Word > 1
  BY WordFits
<1>2. CASE Create(p)
  <2> DEFINE n == Len(objs) + 1
  <2>1. /\ objs' = Append(objs, Raw) /\ name' = n /\ reg' = reg
        /\ at' = [at EXCEPT ![p] = "truncate"] /\ obj' = [obj EXCEPT ![p] = n]
    BY <1>0, <1>2 DEF Create, Goto
  <2>2. Raw \in Objects /\ Raw.locker = "raw" /\ Raw.counter = 0
    BY <1>1 DEF Raw, Objects
  <2> HIDE DEF Raw
  <2>3. /\ objs' \in Seq(Objects) /\ Len(objs') = n /\ n \in Nat
        /\ DOMAIN objs' = 1 .. n /\ objs'[n] = Raw
        /\ \A i \in DOMAIN objs : i \in 1 .. Len(objs) /\ objs'[i] = objs[i]
    BY <1>0, <2>1, <2>2
  <2>4. LifeTypeOK'
    <3>1. at' \in [Procs -> Places]
      BY <1>0, <2>1 DEF Places
    <3>2. obj' \in [Procs -> 0 .. n]
      BY <1>0, <2>1
    <3> QED BY <1>0, <2>1, <2>3, <3>1, <3>2 DEF LifeTypeOK, Places, Objects
  <2>5. /\ \A r \in Procs : r # p => at'[r] = at[r] /\ obj'[r] = obj[r]
        /\ at'[p] = "truncate" /\ obj'[p] = n
    BY <1>0, <2>1
  <2>6. HasObject'
    BY <1>0, <2>5 DEF MadeInv, HasObject
  <2>7. RawIsFresh'
    <3>1. \A i \in 1 .. n : i = n \/ i \in DOMAIN objs
      BY <1>0
    <3> QED BY <2>2, <2>3, <3>1 DEF MadeInv, RawIsFresh
  <2>8. \A r \in Procs : at[r] \in Mapped =>
            obj[r] \in DOMAIN objs /\ obj[r] # n /\ objs'[obj[r]] = objs[obj[r]]
    BY <1>0, <2>3, ObjectTyped
  <2>9. MakerIsAlone'
    BY <2>2, <2>3, <2>5, <2>8, PlacesApart DEF MadeInv, MakerIsAlone, Object
  <2>10. EnteredIsMade'
    BY <2>5, <2>8, PlacesApart DEF MadeInv, EnteredIsMade, Object
  <2> QED BY <2>4, <2>6, <2>7, <2>9, <2>10 DEF MadeInv
<1>3. CASE Open(p) \/ Throw(p) \/ Remove(p)
  <2>1. /\ objs' = objs /\ name' \in {0, name} /\ at'[p] \in Places
        /\ at' = [at EXCEPT ![p] = at'[p]]
    BY <1>0, <1>3 DEF Open, Throw, Remove, Goto, Places, Resting
  <2>2. /\ obj' = [obj EXCEPT ![p] = obj'[p]] /\ obj'[p] \in {0, name}
        /\ reg' \in [Procs -> 0 .. Word - 1]
    BY <1>0, <1>1, <1>3 DEF Open, Throw, Remove
  <2>3. at'[p] \notin Mapped \/ (at'[p] = "map" /\ obj'[p] # 0)
    BY <1>0, <1>3 DEF Open, Throw, Remove, Goto, Mapped, Making, Entered,
                      Counted, Owns
  <2>4. \A r \in Procs : r # p => at'[r] = at[r] /\ obj'[r] = obj[r]
    BY <1>0, <2>1, <2>2
  <2>5. LifeTypeOK'
    <3>1. at' \in [Procs -> Places] /\ obj' \in [Procs -> 0 .. Len(objs)]
      <4>1. obj'[p] \in 0 .. Len(objs)
        BY <1>0, <2>2
      <4> QED BY <1>0, <2>1, <2>2, <4>1
    <3> QED BY <1>0, <2>1, <2>2, <3>1 DEF LifeTypeOK, Places, Objects
  <2>6. HasObject'
    BY <2>3, <2>4 DEF MadeInv, HasObject
  <2>7. RawIsFresh'
    BY <2>1 DEF MadeInv, RawIsFresh
  <2>8. at'[p] \notin Making /\ at'[p] \notin Entered
    BY <2>3, PlacesApart
  <2>9. \A r \in Procs : r # p => Object(r)' = Object(r)
    BY <2>1, <2>4 DEF Object
  <2>10. MakerIsAlone'
    BY <2>4, <2>8, <2>9 DEF MadeInv, MakerIsAlone
  <2>11. EnteredIsMade'
    BY <2>4, <2>8, <2>9 DEF MadeInv, EnteredIsMade
  <2> QED BY <2>5, <2>6, <2>7, <2>10, <2>11 DEF MadeInv
<1> QED BY <1>2, <1>3

(* Every step keeps MadeInv.                                               *)
LEMMA MadeStep == MadeInv /\ [LifeNext]_lifeVars => MadeInv'
<1> SUFFICES ASSUME MadeInv, [LifeNext]_lifeVars PROVE MadeInv'
  OBVIOUS
<1>1. ASSUME NEW p \in Procs, CreateSteps(p) PROVE MadeInv'
  <2>1. Unlock(p, "unlock", "hand over") => MadeInv'
    BY MadeUnlock
  <2> QED BY <1>1, <2>1, MadeNames, MadeConstruct, MadeQuiet DEF CreateSteps
<1>2. ASSUME NEW p \in Procs, OpenSteps(p) PROVE MadeInv'
  <2>1. Unlock(p, "done", "open") \/ Unlock(p, "quit", "void") => MadeInv'
    BY MadeUnlock
  <2> QED BY <1>2, <2>1, MadeNames, MadeTryLock, MadeCount, MadeQuiet DEF OpenSteps
<1>3. ASSUME NEW p \in Procs, DestructorSteps(p) PROVE MadeInv'
  <2>1. Unlock(p, "leave", "remove") => MadeInv'
    BY MadeUnlock
  <2> QED BY <1>3, <2>1, MadeTryLock, MadeCount, MadeQuiet DEF DestructorSteps
<1>4. ASSUME NEW p \in Procs, Close(p) \/ Throw(p) \/ Remove(p) PROVE MadeInv'
  BY <1>4, MadeNames, MadeQuiet
<1>5. CASE UNCHANGED lifeVars
  BY <1>5 DEF lifeVars, MadeInv, LifeTypeOK, HasObject, RawIsFresh, MakerIsAlone,
              EnteredIsMade, Object
<1> QED BY <1>1, <1>2, <1>3, <1>4, <1>5 DEF LifeNext
-----------------------------------------------------------------------------
(* Counting.                                                               *)

(* The counters and the lockers stay as they are.                          *)
SameCounts ==
    /\ DOMAIN objs' = DOMAIN objs
    /\ \A i \in DOMAIN objs : /\ objs'[i].counter = objs[i].counter
                              /\ objs'[i].locker = objs[i].locker

(* Setting the lock or the size of an object counts nothing.               *)
LEMMA LockBitKeepsCounts ==
    ASSUME NEW i, NEW x, objs \in Seq(Objects),
           \/ objs' = [objs EXCEPT ![i].lock = x]
           \/ objs' = [objs EXCEPT ![i].sized = x]
           \/ objs' = objs
    PROVE  SameCounts
<1>1. DOMAIN objs' = DOMAIN objs
  OBVIOUS
<1>2. ASSUME NEW j \in DOMAIN objs
      PROVE  objs'[j].counter = objs[j].counter /\ objs'[j].locker = objs[j].locker
  <2>1. objs[j] \in Objects
    OBVIOUS
  <2>2. CASE objs' = [objs EXCEPT ![i].lock = x]
    <3>1. objs'[j] = objs[j] \/ objs'[j] = [objs[j] EXCEPT !.lock = x]
      BY <2>2
    <3> QED BY <2>1, <3>1 DEF Objects
  <2>3. CASE objs' = [objs EXCEPT ![i].sized = x]
    <3>1. objs'[j] = objs[j] \/ objs'[j] = [objs[j] EXCEPT !.sized = x]
      BY <2>3
    <3> QED BY <2>1, <3>1 DEF Objects
  <2>4. CASE objs' = objs
    BY <2>4
  <2> QED BY <2>2, <2>3, <2>4
<1> QED BY <1>1, <1>2 DEF SameCounts

(* A step of p that neither counts nor changes what p has mapped.          *)
LEMMA OrderlyMove ==
    ASSUME MadeInv, Orderly, NEW p \in Procs, NEW b,
           at' = [at EXCEPT ![p] = b], at[p] \in Mapped, obj' = obj, SameCounts,
           b \in Counted <=> at[p] \in Counted,
           b \in Guarded => at[p] \in Guarded \/ Others(p, Guarded) = {},
           \A r \in Procs \ {p} : reg'[r] = reg[r],
           b \in {"add", "subtract"} => reg'[p] = Object(p).counter,
           b \in Entered => at[p] \in Entered \/ Object(p).counter > 0
    PROVE  Orderly'
<1>1. at'[p] = b /\ \A r \in Procs : r # p => at'[r] = at[r]
  BY DEF MadeInv, LifeTypeOK
<1>2. \A r \in Procs : at[r] \in Mapped =>
          /\ Object(r)'.counter = Object(r).counter
          /\ Object(r)'.locker = Object(r).locker
          /\ obj[r] \in DOMAIN objs
  BY ObjectTyped DEF SameCounts, Object
<1>3. Alone'
  BY <1>1 DEF Orderly, Alone, Others
<1>4. RegIsFresh'
  <2>1. {"add", "subtract"} \subseteq Mapped
    BY DEF Mapped, Entered, Counted, Owns
  <2> QED BY <1>1, <1>2, <2>1 DEF Orderly, RegIsFresh
<1>5. DeadIsUncounted'
  BY DEF Orderly, DeadIsUncounted, SameCounts
<1>6. ASSUME NEW i \in DOMAIN objs'
      PROVE  (objs[i].counter = Cardinality(Handles(i)))'
  <2>1. Handles(i)' = Handles(i)
    BY <1>1 DEF Handles
  <2>2. objs[i].counter = Cardinality(Handles(i)) /\ objs'[i].counter = objs[i].counter
    BY <1>6 DEF Orderly, SameCounts
  <2> QED BY <2>1, <2>2
<1>7. ASSUME NEW r \in Procs, at'[r] \in Entered
      PROVE  Object(r)'.locker = "live"
  <2>1. CASE at[r] \in Entered
    BY <1>2, <2>1, PlacesApart DEF Orderly
  <2>2. CASE at[r] \notin Entered
    <3>1. r = p /\ Object(p).counter > 0
      BY <1>1, <1>7, <2>2
    <3>2. Object(p) \in Objects /\ obj[p] \in DOMAIN objs
      BY ObjectTyped
    <3>3. Object(p).locker # "raw"
      BY <3>1, CountedIsMade
    <3>4. Object(p).counter # 0
      <4>1. Object(p).counter \in 0 .. Word - 1 /\ Word \in Nat
        BY <3>2, WordFits DEF Objects
      <4> QED BY <3>1, <4>1
    <3>5. Object(p).locker # "dead"
      BY <3>2, <3>4 DEF Orderly, DeadIsUncounted, Object
    <3>6. Object(p).locker \in {"raw", "live", "dead"}
      BY <3>2 DEF Objects
    <3> QED BY <1>2, <3>1, <3>3, <3>5, <3>6
  <2> QED BY <2>1, <2>2
<1> QED BY <1>3, <1>4, <1>5, <1>6, <1>7 DEF Orderly

(* The steps that neither count nor map.                                   *)
LEMMA OrderlyQuiet ==
    ASSUME MadeInv, Orderly, NEW p \in Procs,
           \/ Truncate(p) \/ Map(p) \/ Look(p) \/ Close(p)
           \/ LockLocker(p, "lock", "read") \/ LockLocker(p, "free", "freed")
           \/ UnlockLocker(p, "hand over", "open")
           \/ UnlockLocker(p, "release", "done")
           \/ UnlockLocker(p, "freed", "unread")
           \/ ReadCounter(p, "read", "add") \/ ReadCounter(p, "unread", "subtract")
           \/ Unlock(p, "unlock", "hand over") \/ Unlock(p, "done", "open")
           \/ Unlock(p, "quit", "void") \/ Unlock(p, "leave", "remove")
    PROVE  Orderly'
<1> DEFINE b == at'[p]
<1>0. objs \in Seq(Objects) /\ at \in [Procs -> Places] /\ reg \in [Procs -> 0 .. Word - 1]
  BY DEF MadeInv, LifeTypeOK, Objects, Places
<1>1. SameCounts
  BY <1>0, LockBitKeepsCounts DEF Truncate, Map, Look, Close, LockLocker,
     UnlockLocker, ReadCounter, Unlock
<1>2. /\ obj' = obj
      /\ \A r \in Procs \ {p} : reg'[r] = reg[r]
      /\ b \in {"add", "subtract"} => reg'[p] = Object(p).counter
  BY <1>0 DEF Truncate, Map, Look, Close, LockLocker,
     UnlockLocker, ReadCounter, Unlock, Goto
<1>3. /\ at' = [at EXCEPT ![p] = b] /\ at[p] \in Mapped
      /\ b \in Counted <=> at[p] \in Counted
  BY <1>0 DEF Truncate, Map, Look, Close, LockLocker, UnlockLocker,
     ReadCounter, Unlock, Goto, Mapped, Making, Entered, Counted, Owns
<1>4. b \in Guarded => at[p] \in Guarded
  BY <1>0 DEF Truncate, Map, Look, Close, LockLocker, UnlockLocker,
     ReadCounter, Unlock, Goto, Guarded
<1>5. b \in Entered => at[p] \in Entered \/ Object(p).counter > 0
  BY <1>0 DEF Truncate, Map, Look, Close, LockLocker, UnlockLocker,
     ReadCounter, Unlock, Goto, Entered, Counted, Owns
<1> HIDE DEF b
<1> QED BY <1>1, <1>2, <1>3, <1>4, <1>5, OrderlyMove

(* Who enters the spinlock is alone in it, or overlap records it.          *)
LEMMA OrderlyTryLock ==
    ASSUME MadeInv, Orderly, NEW p \in Procs,
           TryLock(p, "enter", "look") \/ TryLock(p, "close", "free")
    PROVE  overlap' \/ Orderly'
<1> DEFINE b == at'[p]
<1>0. objs \in Seq(Objects) /\ at \in [Procs -> Places]
  BY DEF MadeInv, LifeTypeOK, Objects, Places
<1>1. SameCounts
  BY <1>0, LockBitKeepsCounts DEF TryLock
<1>2. obj' = obj /\ reg' = reg
  BY DEF TryLock
<1>3. /\ at' = [at EXCEPT ![p] = b] /\ at[p] \in Mapped
      /\ b \in Counted <=> at[p] \in Counted
      /\ b \notin {"add", "subtract"}
      /\ b \in Entered => at[p] \in Entered
  BY <1>0 DEF TryLock, Goto, Mapped, Making, Entered, Counted, Owns
<1>4. CASE b = at[p] \/ Others(p, Guarded) = {}
  <2> HIDE DEF b
  <2> QED BY <1>1, <1>2, <1>3, <1>4, OrderlyMove
<1>5. CASE b # at[p] /\ Others(p, Guarded) # {}
  BY <1>0, <1>5 DEF TryLock, Goto
<1> QED BY <1>4, <1>5

(* The steps that change the name and what p has mapped.                   *)
LEMMA OrderlyNames ==
    ASSUME MadeInv, Orderly, NEW p \in Procs,
           Create(p) \/ Open(p) \/ Throw(p) \/ Remove(p)
    PROVE  Orderly'
<1>0. /\ objs \in Seq(Objects) /\ Len(objs) \in Nat
      /\ at \in [Procs -> Places] /\ obj \in [Procs -> 0 .. Len(objs)]
      /\ reg \in [Procs -> 0 .. Word - 1]
  BY DEF MadeInv, LifeTypeOK, Objects, Places
<1>1. \A r \in Procs : r # p =>
          at'[r] = at[r] /\ obj'[r] = obj[r] /\ reg'[r] = reg[r]
  BY <1>0 DEF Create, Open, Throw, Remove, Goto
<1>2. at'[p] \notin Guarded /\ at'[p] \notin Entered
  BY <1>0 DEF Create, Open, Throw, Remove, Goto, Guarded, Entered, Counted, Owns
<1>3. at[p] \notin Counted
  BY <1>0 DEF Create, Open, Throw, Remove, Goto, Counted
<1>4. /\ \A i \in DOMAIN objs : objs'[i] = objs[i]
      /\ \A i \in DOMAIN objs' : i \in DOMAIN objs \/ (objs'[i] = Raw /\ i = Len(objs) + 1)
  <2>1. CASE Create(p)
    BY <1>0, <2>1 DEF Create
  <2>2. CASE objs' = objs
    BY <2>2
  <2> QED BY <2>1, <2>2 DEF Open, Throw, Remove
<1>5. \A r \in Procs : at[r] \in Mapped => obj[r] \in DOMAIN objs
  BY ObjectTyped
<1>6. \A r \in Procs : r # p /\ at[r] \in Mapped => Object(r)' = Object(r)
  BY <1>1, <1>4, <1>5 DEF Object
<1>7. {"add", "subtract"} \subseteq Entered /\ Counted \subseteq Entered
  BY DEF Entered, Counted, Owns
<1>8. Alone'
  BY <1>1, <1>2 DEF Orderly, Alone
<1>9. RegIsFresh'
  BY <1>1, <1>2, <1>6, <1>7, PlacesApart DEF Orderly, RegIsFresh
<1>10. Raw.locker = "raw" /\ Raw.counter = 0
  BY DEF Raw
<1>11. DeadIsUncounted'
  BY <1>4, <1>10 DEF Orderly, DeadIsUncounted
<1>12. ASSUME NEW i \in DOMAIN objs'
       PROVE  (objs[i].counter = Cardinality(Handles(i)))'
  <2>1. Handles(i)' = Handles(i)
    BY <1>1, <1>2, <1>3, <1>7 DEF Handles
  <2>2. CASE i \in DOMAIN objs
    BY <1>4, <2>1, <2>2 DEF Orderly
  <2>3. CASE objs'[i] = Raw /\ i = Len(objs) + 1
    <3>1. Handles(i) = {}
      BY <1>0, <2>3 DEF Handles
    <3> QED BY <1>10, <2>1, <2>3, <3>1, FS_EmptySet
  <2> QED BY <1>4, <2>2, <2>3
<1>13. ASSUME NEW r \in Procs, at'[r] \in Entered
       PROVE  Object(r)'.locker = "live"
  BY <1>1, <1>2, <1>6, <1>13, PlacesApart DEF Orderly
<1> QED BY <1>8, <1>9, <1>11, <1>12, <1>13 DEF Orderly

(* A step of p that changes the counter of its object to the number of the *)
(* handles it leaves.                                                      *)
LEMMA OrderlyCount ==
    ASSUME MadeInv, Orderly, NEW p \in Procs, NEW b, NEW v,
           at' = [at EXCEPT ![p] = b], at[p] \in Mapped, UNCHANGED <<obj, reg>>,
           Replaced(p, v),
           v.counter = Cardinality(Handles(obj[p])'),
           v.locker = "dead" => v.counter = 0,
           b \in Guarded => at[p] \in Guarded,
           b \notin {"add", "subtract"},
           b \in Entered => v.locker = "live",
           \A r \in Procs \ {p} : obj[r] = obj[p] =>
                /\ at[r] \notin {"add", "subtract"}
                /\ at[r] \in Entered => v.locker = "live"
    PROVE  Orderly'
<1>1. at'[p] = b /\ \A r \in Procs : r # p => at'[r] = at[r]
  BY DEF MadeInv, LifeTypeOK
<1>2. /\ objs \in Seq(Objects) /\ Len(objs) \in Nat /\ obj[p] \in DOMAIN objs
      /\ DOMAIN objs' = DOMAIN objs /\ objs'[obj[p]] = v
      /\ \A i \in DOMAIN objs : i # obj[p] => objs'[i] = objs[i]
  <2>1. objs \in Seq(Objects) /\ obj[p] \in DOMAIN objs
    BY ObjectTyped DEF MadeInv, LifeTypeOK, Objects
  <2> QED BY <2>1 DEF Replaced
<1>3. \A r \in Procs : at[r] \in Mapped =>
          /\ obj[r] \in DOMAIN objs
          /\ obj[r] # obj[p] => Object(r)' = Object(r)
          /\ obj[r] = obj[p] => Object(r)' = v
  BY <1>2, ObjectTyped DEF Object
<1>4. Alone'
  BY <1>1 DEF Orderly, Alone
<1>5. RegIsFresh'
  <2>1. {"add", "subtract"} \subseteq Mapped
    BY DEF Mapped, Entered, Counted, Owns
  <2> QED BY <1>1, <1>3, <2>1 DEF Orderly, RegIsFresh
<1>6. DeadIsUncounted'
  BY <1>2 DEF Orderly, DeadIsUncounted
<1>7. ASSUME NEW i \in DOMAIN objs'
      PROVE  (objs[i].counter = Cardinality(Handles(i)))'
  <2>1. CASE i = obj[p]
    BY <1>2, <2>1
  <2>2. CASE i # obj[p]
    <3>1. Handles(i)' = Handles(i)
      BY <1>1, <2>2 DEF Handles
    <3>2. objs'[i] = objs[i] /\ objs[i].counter = Cardinality(Handles(i))
      BY <1>2, <1>7, <2>2 DEF Orderly
    <3> QED BY <3>1, <3>2
  <2> QED BY <2>1, <2>2
<1>8. ASSUME NEW r \in Procs, at'[r] \in Entered
      PROVE  Object(r)'.locker = "live"
  <2>1. CASE r = p
    BY <1>1, <1>3, <1>8, <2>1
  <2>2. CASE r # p
    BY <1>1, <1>3, <1>8, <2>2, PlacesApart DEF Orderly
  <2> QED BY <2>1, <2>2
<1> QED BY <1>4, <1>5, <1>6, <1>7, <1>8 DEF Orderly

(* One handle more or less is one more or less to count, and the word of   *)
(* the counter is large enough.                                            *)
LEMMA HandlesFinite ==
    ASSUME NEW i, NEW p \in Procs
    PROVE  /\ IsFiniteSet(Handles(i)) /\ Cardinality(Handles(i)) \in Nat
           /\ p \notin Handles(i) =>
                /\ Cardinality(Handles(i) \cup {p}) = Cardinality(Handles(i)) + 1
                /\ Cardinality(Handles(i)) + 1 < Word
           /\ p \in Handles(i) =>
                /\ Cardinality(Handles(i) \ {p}) = Cardinality(Handles(i)) - 1
                /\ Cardinality(Handles(i)) >= 1
           /\ Cardinality(Handles(i)) < Word
<1>1. IsFiniteSet(Procs) /\ Handles(i) \subseteq Procs
  BY LifecycleAssumption DEF Handles
<1>2. IsFiniteSet(Handles(i)) /\ Cardinality(Handles(i)) \in Nat
      /\ Cardinality(Handles(i)) < Word
  BY <1>1, FS_Subset, WordFits
<1>3. p \notin Handles(i) =>
        Cardinality(Handles(i) \cup {p}) = Cardinality(Handles(i)) + 1
  BY <1>2, FS_AddElement
<1>4. Cardinality(Handles(i) \cup {p}) < Word
  BY <1>1, WordFits
<1>5. p \in Handles(i) => Cardinality(Handles(i) \ {p}) = Cardinality(Handles(i)) - 1
  BY <1>2, FS_RemoveElement
<1>6. p \in Handles(i) => Cardinality(Handles(i)) # 0
  BY <1>2, FS_EmptySet
<1> QED BY <1>2, <1>3, <1>4, <1>5, <1>6

(* The creator's increment: nobody has been counted before.                *)
LEMMA OrderlyConstruct ==
    ASSUME MadeInv, Orderly, NEW p \in Procs, Construct(p)
    PROVE  Orderly'
<1> DEFINE v == [Object(p) EXCEPT !.locker = "live", !.counter = @ + 1]
           i == obj[p]
<1>1. /\ at[p] = "construct" /\ at' = [at EXCEPT ![p] = "unlock"]
      /\ UNCHANGED <<obj, reg>> /\ objs' = [objs EXCEPT ![i] = v]
  BY DEF Construct, Goto, Object
<1>2. "construct" \in Making /\ "construct" \in Mapped /\ "construct" \notin Counted
      /\ "unlock" \in Counted /\ "unlock" \notin Guarded
      /\ {"add", "subtract"} \subseteq Entered
  BY DEF Making, Mapped, Counted, Guarded, Entered, Owns
<1>3. Object(p) \in Objects /\ i \in DOMAIN objs /\ i # 0
  BY <1>1, <1>2, ObjectTyped
<1>4. Object(p).locker = "raw" /\ Object(p).counter = 0
  BY <1>1, <1>2, <1>3 DEF MadeInv, MakerIsAlone, RawIsFresh, Object
<1>5. v \in Objects /\ v.locker = "live" /\ v.counter = 1
  <2> DEFINE w == [Object(p) EXCEPT !.locker = "live"]
  <2>1. w \in Objects /\ w.counter = 0 /\ w.locker = "live"
    BY <1>3, <1>4 DEF Objects
  <2>2. v = [w EXCEPT !.counter = 1]
    BY <1>3, <1>4 DEF Objects
  <2>3. 1 \in 0 .. Word - 1
    BY WordFits
  <2> HIDE DEF v, w
  <2> QED BY <2>1, <2>2, <2>3 DEF Objects
<1> HIDE DEF v
<1>6. Replaced(p, v)
  BY <1>1, <1>3, <1>5, ReplacedByUpdate DEF MadeInv
<1>7. Cardinality(Handles(i)) = 0 /\ p \notin Handles(i)
  BY <1>1, <1>2, <1>3, <1>4 DEF Orderly, Object, Handles
<1>8. Handles(i)' = Handles(i) \cup {p}
  BY <1>1, <1>2 DEF Handles, MadeInv, LifeTypeOK
<1>9. v.counter = Cardinality(Handles(obj[p])')
  BY <1>5, <1>7, <1>8, HandlesFinite
<1>10. \A r \in Procs : obj[r] = obj[p] => at[r] \notin Entered
  BY <1>4 DEF MadeInv, EnteredIsMade, Object
<1>11. \A r \in Procs \ {p} : obj[r] = obj[p] =>
            /\ at[r] \notin {"add", "subtract"}
            /\ at[r] \in Entered => v.locker = "live"
  BY <1>2, <1>10
<1>12. /\ at[p] \in Mapped
       /\ v.locker = "dead" => v.counter = 0
       /\ "unlock" \in Guarded => at[p] \in Guarded
       /\ "unlock" \notin {"add", "subtract"}
       /\ "unlock" \in Entered => v.locker = "live"
  BY <1>1, <1>2, <1>5
<1> QED BY <1>1, <1>6, <1>9, <1>11, <1>12, OrderlyCount

(* do_open writes what it has read plus one, and nobody has counted in     *)
(* between.                                                                *)
LEMMA OrderlyIncrement ==
    ASSUME MadeInv, Orderly, NEW p \in Procs, WriteIncremented(p)
    PROVE  Orderly'
<1> DEFINE v == [Object(p) EXCEPT !.counter = (reg[p] + 1) % Word]
           i == obj[p]
           n == Cardinality(Handles(i))
<1>1. /\ at[p] = "add" /\ at' = [at EXCEPT ![p] = "release"]
      /\ UNCHANGED <<obj, reg>> /\ objs' = [objs EXCEPT ![i] = v]
  BY DEF WriteIncremented, Goto, Object
<1>2. "add" \in Mapped /\ "add" \notin Counted /\ "release" \in Counted
      /\ {"add", "subtract", "release"} \subseteq Guarded /\ "add" \in Entered
  BY DEF Mapped, Counted, Guarded, Entered, Owns
<1>3. Object(p) \in Objects /\ i \in DOMAIN objs /\ i # 0
  BY <1>1, <1>2, ObjectTyped
<1>4. reg[p] = n /\ Object(p).locker = "live"
  BY <1>1, <1>2, <1>3 DEF Orderly, RegIsFresh, Object
<1>5. p \notin Handles(i)
  BY <1>1, <1>2 DEF Handles
<1>6. n \in Nat /\ n + 1 < Word /\ Cardinality(Handles(i) \cup {p}) = n + 1
  BY <1>5, HandlesFinite
<1>7. (n + 1) % Word = n + 1 /\ n + 1 \in 0 .. Word - 1
  BY <1>6, WordFits
<1>8. v \in Objects /\ v.locker = "live" /\ v.counter = n + 1
  <2> HIDE DEF n
  <2> QED BY <1>3, <1>4, <1>7 DEF Objects
<1> HIDE DEF v
<1>9. Replaced(p, v)
  BY <1>1, <1>3, <1>8, ReplacedByUpdate DEF MadeInv
<1>10. Handles(i)' = Handles(i) \cup {p}
  BY <1>1, <1>2 DEF Handles, MadeInv, LifeTypeOK
<1>11. v.counter = Cardinality(Handles(obj[p])')
  BY <1>6, <1>8, <1>10
<1>12. \A r \in Procs \ {p} : obj[r] = obj[p] => at[r] \notin {"add", "subtract"}
  BY <1>1, <1>2 DEF Orderly, Alone
<1>13. \A r \in Procs \ {p} : obj[r] = obj[p] =>
            /\ at[r] \notin {"add", "subtract"}
            /\ at[r] \in Entered => v.locker = "live"
  BY <1>8, <1>12
<1>14. /\ at[p] \in Mapped
       /\ v.locker = "dead" => v.counter = 0
       /\ "release" \in Guarded => at[p] \in Guarded
       /\ "release" \notin {"add", "subtract"}
       /\ "release" \in Entered => v.locker = "live"
  BY <1>1, <1>2, <1>8
<1> QED BY <1>1, <1>9, <1>11, <1>13, <1>14, OrderlyCount

(* The destructor writes what it has read minus one, and destroys the      *)
(* locker only when nobody else has or wants it.                           *)
LEMMA OrderlyDecrement ==
    ASSUME MadeInv, Orderly, NEW p \in Procs, WriteDecremented(p)
    PROVE  Orderly'
<1> DEFINE v == [Object(p) EXCEPT !.counter = (reg[p] - 1) % Word,
                                  !.locker = IF reg[p] = 1 THEN "dead" ELSE @]
           i == obj[p]
           n == Cardinality(Handles(i))
<1>1. /\ at[p] = "subtract" /\ at' = [at EXCEPT ![p] = "leave"]
      /\ UNCHANGED <<obj, reg>> /\ objs' = [objs EXCEPT ![i] = v]
  BY DEF WriteDecremented, Goto, Object
<1>2. /\ "subtract" \in Mapped /\ "subtract" \in Counted /\ "leave" \notin Entered
      /\ {"add", "subtract", "leave"} \subseteq Guarded /\ "subtract" \in Entered
      /\ Counted \subseteq Entered /\ Entered \subseteq Counted \cup Guarded
  BY DEF Mapped, Counted, Guarded, Entered, Owns
<1>3. Object(p) \in Objects /\ i \in DOMAIN objs /\ i # 0
  BY <1>1, <1>2, ObjectTyped
<1>4. reg[p] = n /\ Object(p).locker = "live"
  BY <1>1, <1>2, <1>3 DEF Orderly, RegIsFresh, Object
<1>5. p \in Handles(i)
  BY <1>1, <1>2 DEF Handles
<1>6. /\ n \in Nat /\ n >= 1 /\ n < Word
      /\ Cardinality(Handles(i) \ {p}) = n - 1 /\ IsFiniteSet(Handles(i))
  BY <1>5, HandlesFinite
<1>7. (n - 1) % Word = n - 1 /\ n - 1 \in 0 .. Word - 1
  BY <1>6, WordFits
<1>8. /\ v \in Objects /\ v.counter = n - 1
      /\ v.locker = IF n = 1 THEN "dead" ELSE "live"
  <2> HIDE DEF n
  <2> QED BY <1>3, <1>4, <1>7 DEF Objects
<1> HIDE DEF v
<1>9. Replaced(p, v)
  BY <1>1, <1>3, <1>8, ReplacedByUpdate DEF MadeInv
<1>10. Handles(i)' = Handles(i) \ {p}
  BY <1>1, <1>2 DEF Handles, MadeInv, LifeTypeOK
<1>11. v.counter = Cardinality(Handles(obj[p])')
  BY <1>6, <1>8, <1>10
<1>12. v.locker = "dead" => v.counter = 0
  BY <1>6, <1>8
<1>13. ASSUME NEW r \in Procs \ {p}, obj[r] = obj[p]
       PROVE  at[r] \notin Guarded /\ (at[r] \in Entered => v.locker = "live")
  <2>1. at[r] \notin Guarded
    BY <1>1, <1>2, <1>13 DEF Orderly, Alone
  <2>2. CASE at[r] \in Entered
    <3>1. r \in Handles(i) \ {p}
      BY <1>2, <1>13, <2>1, <2>2 DEF Handles
    <3>2. IsFiniteSet(Handles(i) \ {p})
      BY <1>6, FS_RemoveElement
    <3>3. n - 1 # 0
      BY <1>6, <3>1, <3>2, FS_EmptySet
    <3> QED BY <1>6, <1>8, <2>1, <3>3
  <2> QED BY <2>1, <2>2
<1> QED BY <1>1, <1>2, <1>8, <1>9, <1>11, <1>12, <1>13, OrderlyCount

(* Every step keeps the order, or two are inside the spinlock together.    *)
LEMMA OrderlyStep ==
    ASSUME MadeInv, Orderly, [LifeNext]_lifeVars
    PROVE  overlap' \/ Orderly'
<1>1. ASSUME NEW p \in Procs, CreateSteps(p) PROVE Orderly'
  BY <1>1, OrderlyNames, OrderlyQuiet, OrderlyConstruct DEF CreateSteps
<1>2. ASSUME NEW p \in Procs, OpenSteps(p) PROVE overlap' \/ Orderly'
  BY <1>2, OrderlyNames, OrderlyQuiet, OrderlyTryLock, OrderlyIncrement DEF OpenSteps
<1>3. ASSUME NEW p \in Procs, DestructorSteps(p) PROVE overlap' \/ Orderly'
  BY <1>3, OrderlyQuiet, OrderlyTryLock, OrderlyDecrement DEF DestructorSteps
<1>4. ASSUME NEW p \in Procs, Close(p) \/ Throw(p) \/ Remove(p) PROVE Orderly'
  BY <1>4, OrderlyNames, OrderlyQuiet
<1>5. CASE UNCHANGED lifeVars
  BY <1>5 DEF lifeVars, Orderly, Alone, RegIsFresh, DeadIsUncounted, Handles, Object
<1> QED BY <1>1, <1>2, <1>3, <1>4, <1>5 DEF LifeNext

(* overlap is never taken back.                                            *)
LEMMA OverlapStays == overlap /\ [LifeNext]_lifeVars => overlap'
BY Zenon DEF LifeNext, lifeVars, CreateSteps, OpenSteps, DestructorSteps, Create,
   Truncate, Construct, Unlock, UnlockLocker, Open, Map, TryLock, Look,
   LockLocker, ReadCounter, WriteIncremented, WriteDecremented, Close, Throw,
   Remove

(* Every step keeps CountInv.                                              *)
LEMMA CountStep == CountInv /\ [LifeNext]_lifeVars => CountInv'
<1> SUFFICES ASSUME CountInv, [LifeNext]_lifeVars PROVE CountInv'
  OBVIOUS
<1>1. MadeInv'
  BY MadeStep DEF CountInv
<1>2. CASE overlap
  BY <1>1, <1>2, OverlapStays, Zenon DEF CountInv
<1>3. CASE Orderly
  <2>1. MadeInv
    BY Zenon DEF CountInv
  <2>2. overlap' \/ Orderly'
    BY <1>3, <2>1, OrderlyStep
  <2> QED BY <1>1, <2>2, Zenon DEF CountInv
<1> QED BY <1>2, <1>3, Zenon DEF CountInv

(* The invariants hold at the start.                                       *)
LEMMA LifeStarts == LifeInit => MadeInv /\ CountInv
<1> SUFFICES ASSUME LifeInit PROVE MadeInv /\ CountInv
  OBVIOUS
<1>1. objs = <<>> /\ name = 0 /\ \A p \in Procs : at[p] = "new" /\ obj[p] = 0
  BY DEF LifeInit
<1>2. /\ "new" \notin Mapped /\ "new" \notin Making /\ "new" \notin Entered
      /\ "new" \notin Guarded /\ "new" \notin {"add", "subtract"} /\ "new" \in Places
  BY DEF Mapped, Making, Entered, Counted, Owns, Guarded, Places, Resting
<1>3. LifeTypeOK
  <2>1. reg \in [Procs -> 0 .. Word - 1]
    BY WordFits DEF LifeInit
  <2>2. at \in [Procs -> Places] /\ obj \in [Procs -> 0 .. Len(objs)]
    BY <1>1, <1>2 DEF LifeInit
  <2> QED BY <1>1, <2>1, <2>2 DEF LifeTypeOK, Places
<1>4. MadeInv
  BY <1>1, <1>2, <1>3 DEF MadeInv, HasObject, RawIsFresh, MakerIsAlone, EnteredIsMade
<1>5. Orderly
  BY <1>1, <1>2 DEF Orderly, Alone, RegIsFresh, DeadIsUncounted
<1> QED BY <1>4, <1>5 DEF CountInv
-----------------------------------------------------------------------------
(* The types of Lifecycle: the counter keeps the range of its word and     *)
(* every handle refers to an object that exists.                           *)
THEOREM LifeTypeCorrect == LifeSpec => []LifeTypeOK
<1>1. MadeInv => LifeTypeOK
  BY DEF MadeInv
<1> QED BY <1>1, LifeStarts, MadeStep, PTL DEF LifeSpec

(* Nobody passes the counter of do_open, and nobody has a connector open,  *)
(* whose object has no size or no locker yet (connector.h:724-739).        *)
THEOREM NeverRawHolds == LifeSpec => []NeverRaw
<1>1. MadeInv => NeverRaw
  <2> SUFFICES ASSUME MadeInv, NEW p \in Procs, at[p] \in Entered
               PROVE  Object(p).sized /\ Object(p).locker # "raw"
    BY DEF NeverRaw, Entered
  <2>1. obj[p] \in DOMAIN objs /\ Object(p).locker # "raw"
    BY ObjectTyped, PlacesApart DEF MadeInv, EnteredIsMade
  <2>2. Object(p).sized = TRUE
    BY <2>1 DEF MadeInv, RawIsFresh, Object
  <2> QED BY <2>1, <2>2
<1> QED BY <1>1, LifeStarts, MadeStep, PTL DEF LifeSpec

(* Unless two are inside the spinlock of an object together, the counter   *)
(* is the number of its open handles (connector.h:702, 738, 769).          *)
THEOREM HandlesCountedHolds == LifeSpec => []HandlesCounted
<1>1. CountInv => HandlesCounted
  <2>1. Orderly => \A i \in DOMAIN objs :
            objs[i].counter = Cardinality({p \in Procs : obj[p] = i /\ at[p] \in Counted})
    BY DEF Orderly, Handles
  <2> QED BY <2>1, Zenon DEF CountInv, HandlesCounted
<1> QED BY <1>1, LifeStarts, CountStep, PTL DEF LifeSpec

(* Unless two are inside the spinlock of an object together, the locker    *)
(* lives as long as somebody has it or is about to take it                 *)
(* (connector.h:703-712).                                                  *)
THEOREM LockerLivesHolds == LifeSpec => []LockerLives
<1>1. CountInv => LockerLives
  <2>1. Orderly => \A p \in Procs : at[p] \in Counted \cup Owns \cup {"lock"} =>
                                        Object(p).locker = "live"
    BY DEF Orderly, Entered
  <2> QED BY <2>1, Zenon DEF CountInv, LockerLives
<1> QED BY <1>1, LifeStarts, CountStep, PTL DEF LifeSpec

(* A destroyed object is not opened again (connector.h:761), unless two    *)
(* have been inside its spinlock together.                                 *)
THEOREM NoRevivalHolds == LifeSpec => NoRevival
<1> DEFINE Kept == \A p \in Procs : at[p] # "open" /\ at'[p] = "open"
                                      => overlap \/ Object(p).locker # "dead"
<1>1. CountInv /\ [LifeNext]_lifeVars => [Kept]_lifeVars
  <2> SUFFICES ASSUME CountInv, LifeNext, NEW p \in Procs,
                      at[p] # "open", at'[p] = "open"
               PROVE  overlap \/ Object(p).locker # "dead"
    BY DEF lifeVars
  <2>1. at[p] \in {"hand over", "done"}
    <3>1. at \in [Procs -> Places]
      BY DEF CountInv, MadeInv, LifeTypeOK, Places
    <3>2. PICK r \in Procs : CreateSteps(r) \/ OpenSteps(r) \/ Close(r)
                              \/ DestructorSteps(r) \/ Throw(r) \/ Remove(r)
      BY DEF LifeNext
    <3>3. CASE CreateSteps(r)
      BY <3>1, <3>3 DEF CreateSteps, Create, Truncate, Construct, Unlock,
         UnlockLocker, Goto
    <3>4. CASE OpenSteps(r)
      BY <3>1, <3>4 DEF OpenSteps, Open, Map, TryLock, Look, LockLocker,
         ReadCounter, WriteIncremented, UnlockLocker, Unlock, Goto
    <3>5. CASE DestructorSteps(r)
      BY <3>1, <3>5 DEF DestructorSteps, TryLock, LockLocker, UnlockLocker,
         ReadCounter, WriteDecremented, Unlock, Goto
    <3>6. CASE Close(r) \/ Throw(r) \/ Remove(r)
      BY <3>1, <3>6 DEF Close, Throw, Remove, Goto
    <3> QED BY <3>2, <3>3, <3>4, <3>5, <3>6
  <2>2. Orderly => Object(p).locker # "dead"
    BY <2>1 DEF Orderly, Entered, Counted
  <2> QED BY <2>2, Zenon DEF CountInv
<1> QED BY <1>1, LifeStarts, CountStep, PTL DEF LifeSpec, NoRevival
=============================================================================
