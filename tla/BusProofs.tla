----------------------------- MODULE BusProofs ------------------------------
(***************************************************************************)
(* What holds of the bus for any number of processes, connectors and       *)
(* messages: the chain of connectors is sound when there is one consumer   *)
(* or no fault has occurred, without a fault the list of every process is  *)
(* the window of its copy of the control block, and without a fault the    *)
(* chain is one FIFO of the messages, across connectors that come and go.  *)
(*                                                                         *)
(* The invariants are stated process by process, as predicates of what a   *)
(* process has (its copy, its call, its list) and of the shared control    *)
(* block b and objects o, so that a step of one process concerns the       *)
(* others only through b and o.                                            *)
(***************************************************************************)
EXTENDS Bus, NaturalsInduction, WellFoundedInduction, TLAPS

USE DEF Pushing, Calling

Places == {"closed", "idle", "epoch", "output", "adding", "input", "act", "grow",
           "check", "shrink"}
Calls == [at : Places, op : {"none", "get", "pop"} \cup Pushing,
          target : Ids, added : BOOLEAN]
Objects == [level : DOMAIN Rooms, msgs : Seq(Messages)]
Entries(o) == [id : Ids, obj : 1 .. Len(o)]

(* The types of the memory that all share.                                 *)
Stored(b, d, o) ==
    /\ b \in CBs /\ b.input_id <= b.output_id
    /\ o \in Seq(Objects)
    /\ d \in [Ids -> 0 .. Len(o)]

(* A process p with n pushes, its copy, its call w and its list l suit the *)
(* control block b: a copy is never ahead, who is about to add has          *)
(* something to add, and who is about to remove leaves a connector.        *)
Fits(p, n, copy, w, l, b, o) ==
    /\ copy \in CBs /\ copy.input_id <= b.input_id /\ copy.output_id <= b.output_id
    /\ w \in Calls
    /\ l \in Seq(Entries(o)) /\ (w.at # "closed" => l # <<>>)
    /\ w.at = "adding" => copy.output_id < w.target /\ w.target <= b.output_id
    /\ w.at \in {"check", "shrink"} => w.op \in {"get", "pop"}
    /\ w.at = "shrink" => b.input_id < b.output_id
    /\ w.at = "grow" => w.op \in Pushing
    /\ w.at \notin {"idle", "closed"} => w.op # "none"
    /\ w.op \in {"get", "pop"} => p \in Consumers
    /\ w.op \in Pushing => p \in Producers /\ n[p] >= 1

Suits(p) == Fits(p, sent, m_controlblock[p], call[p], list[p], cb, objs)

History ==
    /\ sent \in [Producers -> 0 .. MaxSent]
    /\ log \in Seq(Messages) /\ seen \in [Producers -> 0 .. MaxSent]
    /\ fault \in BOOLEAN

(* The inductive form of ChainIsSound.                                     *)
Sound ==
    /\ Stored(cb, dir, objs) /\ History
    /\ m_controlblock \in [Procs -> CBs] /\ call \in [Procs -> Calls]
    /\ list \in [Procs -> Seq(Entries(objs))]
    /\ \A p \in Procs : Suits(p)

(* One process at most is about to remove a connector.                     *)
Alone == \A c, d \in Procs : (call[c].at = "shrink" /\ call[d].at = "shrink") => c = d

(* The list l is the connectors from a to b, newest first.                 *)
IsWindow(l, a, b) ==
    /\ Len(l) = b - a + 1
    /\ \A k \in DOMAIN l : l[k].id = b + 1 - k

(* The list of a process is the window of its copy, and the copy is up to  *)
(* date where the process relies on it.                                    *)
Follows(copy, w, l, b) ==
    /\ w.at # "closed" => IsWindow(l, copy.input_id, copy.output_id)
    /\ copy.input_id <= copy.output_id
    /\ w.at = "adding" => w.target = b.output_id
    /\ w.at = "input" => copy.output_id = b.output_id
    /\ (w.at \in {"act", "grow"} /\ w.op \in Pushing)
          => copy.output_id = b.output_id
    /\ w.at \in {"check", "shrink"}
          => copy.output_id = b.output_id /\ copy.input_id = b.input_id

(* The inductive form of ListIsWindow: calls do not overlap.               *)
Serial ==
    /\ \A p, r \in Busy : p = r
    /\ \A p \in Procs : Follows(m_controlblock[p], call[p], list[p], cb)

OneConsumer == \A c, d \in Consumers : c = d

BusInv ==
    /\ (OneConsumer \/ ~fault) => Sound
    /\ ~fault => Serial
    /\ fault \in BOOLEAN
-----------------------------------------------------------------------------
(* A set of numbers that is not empty has a least one.                     *)
LEMMA LeastNumber ==
    ASSUME NEW T, T \subseteq Nat, T # {}
    PROVE  \E x \in T : \A y \in T : x <= y
<1> DEFINE R == {ss \in Nat \X Nat : ss[1] < ss[2]}
<1>1. IsWellFoundedOn(R, Nat)
  BY NatLessThanWellFounded DEF OpToRel
<1> HIDE DEF R
<1>2. PICK x \in T : \A y \in T : <<y, x>> \notin R
  BY <1>1, WFMin
<1>3. ASSUME NEW y \in T PROVE x <= y
  <2>1. x \in Nat /\ y \in Nat /\ ~(y < x)
    BY <1>2 DEF R
  <2> QED BY <2>1
<1> QED BY <1>3

(* Induction over the numbers, with the set of those for which the claim   *)
(* holds in place of a predicate.                                          *)
LEMMA NumberInduction ==
    ASSUME NEW S, 0 \in S, \A n \in Nat : n \in S => n + 1 \in S
    PROVE  Nat \subseteq S
<1> DEFINE T == Nat \ S
<1>1. SUFFICES ASSUME T # {} PROVE FALSE
  OBVIOUS
<1>2. PICK x \in T : \A y \in T : x <= y
  <2>1. T \subseteq Nat
    OBVIOUS
  <2> HIDE DEF T
  <2> QED BY <1>1, <2>1, LeastNumber
<1>3. x \in Nat /\ x # 0 /\ x \notin S
  OBVIOUS
<1>4. x - 1 \in Nat /\ (x - 1) + 1 = x /\ ~(x <= x - 1)
  BY <1>3
<1> QED BY <1>2, <1>3, <1>4
-----------------------------------------------------------------------------
(* A sequence with an element is not empty.                                *)
LEMMA LongIsNotEmpty ==
    ASSUME NEW V, NEW s \in Seq(V), Len(s) >= 1
    PROVE  s # <<>>
OBVIOUS

(* Objects are only added, so an entry stays one.                          *)
LEMMA EntriesGrow ==
    ASSUME NEW o \in Seq(Objects), NEW o2 \in Seq(Objects), Len(o) <= Len(o2),
           NEW l \in Seq(Entries(o))
    PROVE  l \in Seq(Entries(o2))
<1>1. Entries(o) \subseteq Entries(o2)
  BY DEF Entries
<1>2. Len(l) \in Nat /\ \A k \in 1 .. Len(l) : l[k] \in Entries(o)
  OBVIOUS
<1>3. l = [k \in 1 .. Len(l) |-> l[k]]
  OBVIOUS
<1>4. [k \in 1 .. Len(l) |-> l[k]] \in Seq(Entries(o2))
  BY <1>1, <1>2
<1> QED BY <1>3, <1>4

(* A process that a step leaves alone still suits the control block when   *)
(* the ids only grow, unless it is about to remove a connector.            *)
LEMMA FitsGrows ==
    ASSUME NEW p, NEW n, NEW copy, NEW w, NEW l, NEW b, NEW o \in Seq(Objects),
           Fits(p, n, copy, w, l, b, o), b \in CBs,
           NEW b2 \in CBs, NEW o2 \in Seq(Objects), Len(o) <= Len(o2),
           b.input_id <= b2.input_id, b.output_id <= b2.output_id,
           w.at = "shrink" => b2.input_id < b2.output_id
    PROVE  Fits(p, n, copy, w, l, b2, o2)
<1>1. l \in Seq(Entries(o2))
  BY EntriesGrow DEF Fits
<1>2. /\ copy.input_id <= b2.input_id /\ copy.output_id <= b2.output_id
      /\ w.at = "adding" => w.target <= b2.output_id
  BY DEF Fits, CBs, Calls, Ids
<1> QED BY <1>1, <1>2 DEF Fits

(* What make_connector returns for the connector id.                       *)
Makes(made, o, l, id) ==
    /\ made.objs \in Seq(Objects) /\ Len(o) <= Len(made.objs)
    /\ made.dir \in [Ids -> 0 .. Len(made.objs)]
    /\ made.list \in Seq(Entries(made.objs))
    /\ made.ok => /\ Len(made.list) = Len(l) + 1 /\ made.list[1].id = id
                  /\ \A k \in 1 .. Len(l) : made.list[k + 1] = l[k]
    /\ l = <<>> => made.ok

(* make_connector keeps the types, puts the connector at the front, and    *)
(* succeeds with an empty list.                                            *)
LEMMA MakeFits ==
    ASSUME NEW d, NEW o \in Seq(Objects), d \in [Ids -> 0 .. Len(o)],
           NEW l \in Seq(Entries(o)), NEW id \in Ids
    PROVE  Makes(make_connector(d, o, l, id), o, l, id)
<1> DEFINE made  == make_connector(d, o, l, id)
           level == IF l = <<>> THEN 1 ELSE o[l[1].obj].level + 1
           obj   == IF d[id] # 0 THEN d[id] ELSE Len(o) + 1
<1>1. Len(o) \in Nat /\ d[id] \in 0 .. Len(o) /\ Len(Rooms) \in Nat \ {0}
  BY BusAssumption
<1>2. level \in Nat \ {0} /\ (l = <<>> => level = 1)
  <2>1. CASE l = <<>>
    BY <2>1
  <2>2. CASE l # <<>>
    <3>1. l[1] \in Entries(o)
      BY <2>2
    <3>2. l[1].obj \in 1 .. Len(o)
      BY <3>1 DEF Entries
    <3>3. o[l[1].obj] \in Objects /\ DOMAIN Rooms = 1 .. Len(Rooms)
      BY <3>2, BusAssumption
    <3>4. o[l[1].obj].level \in 1 .. Len(Rooms)
      BY <3>3 DEF Objects
    <3>5. level = o[l[1].obj].level + 1
      BY <2>2
    <3> HIDE DEF level
    <3> QED BY <1>1, <2>2, <3>4, <3>5
  <2> QED BY <2>1, <2>2
<1>3. made = IF d[id] = 0 /\ level > Len(Rooms)
             THEN [ok |-> FALSE, dir |-> d, objs |-> o, list |-> l]
             ELSE [ok   |-> TRUE,
                   dir  |-> [d EXCEPT ![id] = obj],
                   objs |-> IF d[id] # 0 THEN o
                            ELSE Append(o, [level |-> level, msgs |-> <<>>]),
                   list |-> <<Entry(id, obj)>> \o l]
  BY DEF make_connector
<1> HIDE DEF level, made
<1>4. CASE d[id] = 0 /\ level > Len(Rooms)
  <2>1. /\ made.objs = o /\ made.dir = d /\ made.list = l /\ made.ok = FALSE
    BY <1>3, <1>4
  <2>2. l # <<>>
    BY <1>1, <1>2, <1>4
  <2>3. Makes(made, o, l, id)
    BY <1>1, <2>1, <2>2 DEF Makes
  <2> QED BY <2>3 DEF made
<1>5. CASE ~(d[id] = 0 /\ level > Len(Rooms))
  <2> DEFINE o2 == IF d[id] # 0 THEN o ELSE Append(o, [level |-> level, msgs |-> <<>>])
  <2>1. /\ made.objs = o2 /\ made.dir = [d EXCEPT ![id] = obj]
        /\ made.list = <<Entry(id, obj)>> \o l /\ made.ok = TRUE
    BY <1>3, <1>5
  <2>2. o2 \in Seq(Objects) /\ Len(o) <= Len(o2) /\ obj \in 1 .. Len(o2)
    <3>1. CASE d[id] # 0
      BY <1>1, <3>1
    <3>2. CASE d[id] = 0
      <4>1. [level |-> level, msgs |-> <<>>] \in Objects
        BY <1>1, <1>2, <1>5, <3>2, BusAssumption DEF Objects
      <4> QED BY <1>1, <3>2, <4>1
    <3> QED BY <3>1, <3>2
  <2> HIDE DEF o2, obj
  <2>3. made.dir \in [Ids -> 0 .. Len(made.objs)]
    <3>1. \A i \in 0 .. Len(o) : i \in 0 .. Len(o2)
      BY <1>1, <2>2
    <3> QED BY <2>1, <2>2, <3>1
  <2>4. Entry(id, obj) \in Entries(o2) /\ Entry(id, obj).id = id
    BY <2>2 DEF Entry, Entries
  <2>5. l \in Seq(Entries(o2))
    BY <2>2, EntriesGrow
  <2> DEFINE e == Entry(id, obj)
             E == Entries(o2)
  <2>6. e \in E /\ e.id = id /\ l \in Seq(E) /\ made.list = <<e>> \o l
    BY <2>1, <2>4, <2>5
  <2> HIDE DEF e, E
  <2>7. /\ made.list \in Seq(E) /\ Len(made.list) = Len(l) + 1 /\ made.list[1] = e
        /\ \A k \in 1 .. Len(l) : made.list[k + 1] = l[k]
    BY <2>6
  <2>8. Makes(made, o, l, id)
    BY <2>1, <2>2, <2>3, <2>6, <2>7 DEF E, Makes
  <2> QED BY <2>8 DEF made
<1> QED BY <1>4, <1>5
(* A connector made at the front of a window makes the window longer.      *)
LEMMA WindowGrows ==
    ASSUME NEW l, NEW l2, NEW a \in Nat, NEW b \in Nat, IsWindow(l, a, b), a <= b + 1,
           Len(l2) = Len(l) + 1, l2[1].id = b + 1,
           \A k \in 1 .. Len(l) : l2[k + 1] = l[k],
           NEW V, l \in Seq(V), NEW W, l2 \in Seq(W)
    PROVE  IsWindow(l2, a, b + 1)
<1>1. Len(l) \in Nat /\ DOMAIN l = 1 .. Len(l) /\ DOMAIN l2 = 1 .. Len(l) + 1
  OBVIOUS
<1>2. ASSUME NEW k \in 1 .. Len(l) + 1 PROVE l2[k].id = b + 1 + 1 - k
  <2>1. CASE k = 1
    BY <2>1
  <2>2. CASE k # 1
    <3>1. PICK j \in 1 .. Len(l) : k = j + 1
      <4>1. k - 1 \in 1 .. Len(l) /\ k = (k - 1) + 1
        BY <1>1, <2>2
      <4> QED BY <4>1
    <3>2. l2[k] = l[j] /\ l[j].id = b + 1 - j
      BY <1>1, <3>1 DEF IsWindow
    <3> QED BY <3>1, <3>2
  <2> QED BY <2>1, <2>2
<1>3. Len(l2) = b + 1 - a + 1
  BY DEF IsWindow
<1> QED BY <1>1, <1>2, <1>3 DEF IsWindow

(* pop_back of a window with more than one connector.                      *)
LEMMA WindowShrinks ==
    ASSUME NEW V, NEW l \in Seq(V), NEW a \in Nat, NEW b \in Nat, IsWindow(l, a, b), a < b
    PROVE  Front(l) # <<>> /\ IsWindow(Front(l), a + 1, b)
<1> DEFINE f == Front(l)
<1>1. Len(l) = b - a + 1 /\ Len(l) \in Nat /\ Len(l) >= 2
  BY DEF IsWindow
<1>2. f \in Seq(V) /\ Len(f) = Len(l) - 1 /\ \A k \in 1 .. Len(f) : f[k] = l[k]
  BY <1>1 DEF Front
<1> HIDE DEF f
<1>3. DOMAIN f = 1 .. Len(f) /\ DOMAIN f \subseteq DOMAIN l
  BY <1>1, <1>2
<1>4. IsWindow(f, a + 1, b)
  <2>1. Len(f) = b - (a + 1) + 1
    BY <1>1, <1>2
  <2>2. ASSUME NEW k \in DOMAIN f PROVE f[k].id = b + 1 - k
    <3>1. k \in DOMAIN l /\ f[k] = l[k]
      BY <1>2, <1>3
    <3> QED BY <3>1 DEF IsWindow
  <2> QED BY <2>1, <2>2 DEF IsWindow
<1>5. f # <<>>
  BY <1>1, <1>2
<1> QED BY <1>4, <1>5 DEF f

(* What the process p has after pop_back, or after pop_back and the making *)
(* of the connector next.                                                  *)
LEMMA DropFits ==
    ASSUME NEW p \in Procs, Stored(cb, dir, objs), NEW next \in Ids,
           list \in [Procs -> Seq(Entries(objs))], list[p] # <<>>, DropBack(p, next)
    PROVE  /\ objs' \in Seq(Objects) /\ Len(objs) <= Len(objs')
           /\ dir' \in [Ids -> 0 .. Len(objs')]
           /\ list' = [list EXCEPT ![p] = list'[p]]
           /\ list'[p] \in Seq(Entries(objs')) /\ list'[p] # <<>>
           /\ Front(list[p]) # <<>> => /\ list'[p] = Front(list[p]) /\ objs' = objs
                                       /\ dir' = [dir EXCEPT ![Last(list[p]).id] = 0]
<1> DEFINE l       == list[p]
           rest    == Front(l)
           cleared == [dir EXCEPT ![Last(l).id] = 0]
<1>1. l \in Seq(Entries(objs)) /\ l # <<>> /\ objs \in Seq(Objects) /\ Len(objs) \in Nat
  BY DEF Stored
<1>2. cleared \in [Ids -> 0 .. Len(objs)]
  <2> DEFINE x == Last(l).id
  <2>1. dir \in [Ids -> 0 .. Len(objs)] /\ 0 \in 0 .. Len(objs)
    BY <1>1 DEF Stored
  <2>2. cleared = [dir EXCEPT ![x] = 0]
    OBVIOUS
  <2> HIDE DEF x, cleared
  <2> QED BY <2>1, <2>2
<1>3. rest \in Seq(Entries(objs))
  BY <1>1 DEF Front
<1> HIDE DEF rest, cleared
<1>4. CASE rest = <<>>
  <2> DEFINE made == make_connector(cleared, objs, rest, next)
  <2>1. dir' = made.dir /\ objs' = made.objs /\ list' = [list EXCEPT ![p] = made.list]
    BY <1>4 DEF DropBack, Install, rest, cleared
  <2>0. made = make_connector(cleared, objs, rest, next) /\ Len(rest) = 0
    BY <1>4
  <2> HIDE DEF made
  <2>2. list'[p] = made.list /\ list' = [list EXCEPT ![p] = list'[p]]
    BY <2>1
  <2>3. /\ made.objs \in Seq(Objects) /\ Len(objs) <= Len(made.objs)
        /\ made.dir \in [Ids -> 0 .. Len(made.objs)]
        /\ made.list \in Seq(Entries(made.objs)) /\ Len(made.list) = Len(rest) + 1
    <3>1. Makes(made, objs, rest, next)
      BY <1>1, <1>2, <1>3, <2>0, MakeFits
    <3> QED BY <1>4, <3>1 DEF Makes
  <2>4. made.list # <<>>
    <3>1. Len(made.list) >= 1
      BY <2>0, <2>3
    <3>2. made.list \in Seq(Entries(made.objs))
      BY <2>3
    <3> QED BY ONLY <3>1, <3>2, LongIsNotEmpty, Zenon
  <2> QED BY <1>4, <2>1, <2>2, <2>3, <2>4 DEF rest
<1>5. CASE rest # <<>>
  <2>1. dir' = cleared /\ objs' = objs /\ list' = [list EXCEPT ![p] = rest]
    BY <1>5 DEF DropBack, Install, rest, cleared
  <2>2. list'[p] = rest /\ list' = [list EXCEPT ![p] = list'[p]]
    BY <2>1
  <2> QED BY <1>1, <1>2, <1>3, <1>5, <2>1, <2>2 DEF rest, cleared
<1> QED BY <1>4, <1>5

(* The turns of do_open: open[i] is what it has after the connector i.     *)
Turns(open) ==
    \A i \in cb.input_id .. cb.output_id :
        open[i] = IF i = cb.input_id THEN make_connector(dir, objs, <<>>, i)
                  ELSE LET before == open[i - 1]
                       IN  IF ~before.ok THEN before
                           ELSE make_connector(before.dir, before.objs, before.list, i)

(* do_open takes one turn after the other.                                 *)
LEMMA OpenedTurns ==
    ASSUME Stored(cb, dir, objs)
    PROVE  \E open : Turns(open) /\ Opened = open[cb.output_id]
<1> DEFINE a == cb.input_id
           z == cb.output_id
           Body(f, i) == IF i = a THEN make_connector(dir, objs, <<>>, i)
                         ELSE LET before == f[i - 1]
                              IN  IF ~before.ok THEN before
                                  ELSE make_connector(before.dir, before.objs,
                                                      before.list, i)
           open == CHOOSE f : f = [i \in a .. z |-> Body(f, i)]
           Exists(n) == \E f : f = [i \in a .. a + n |-> Body(f, i)]
<1>1. /\ a \in Nat /\ z \in Nat /\ a <= z /\ a \in Ids /\ z \in Ids /\ z - a \in Nat
      /\ a + (z - a) = z
  BY DEF Stored, CBs, Ids
<1>2. Opened = open[z]
  BY DEF Opened
<1>3. Exists(0)
  <2> DEFINE f == [i \in a .. a |-> make_connector(dir, objs, <<>>, i)]
  <2>1. a .. a + 0 = {a} /\ a .. a = {a}
    BY <1>1
  <2>2. f = [i \in a .. a + 0 |-> Body(f, i)]
    BY <2>1
  <2> QED BY <2>2
<1>4. ASSUME NEW n \in Nat, Exists(n) PROVE Exists(n + 1)
  <2>1. PICK f : f = [i \in a .. a + n |-> Body(f, i)]
    BY <1>4
  <2> DEFINE g == [i \in a .. a + (n + 1) |-> IF i <= a + n THEN f[i] ELSE Body(f, i)]
  <2>2. ASSUME NEW i \in a .. a + (n + 1) PROVE g[i] = Body(g, i)
    <3>1. i # a => i - 1 \in a .. a + (n + 1) /\ i - 1 <= a + n
      BY <1>1
    <3>2. i # a => g[i - 1] = f[i - 1]
      BY <3>1
    <3> HIDE DEF g
    <3>3. Body(g, i) = Body(f, i)
      BY <3>2
    <3>4. g[i] = Body(f, i)
      <4>1. CASE i <= a + n
        <5>1. i \in a .. a + n /\ g[i] = f[i]
          BY <1>1, <4>1 DEF g
        <5> HIDE DEF Body
        <5> QED BY <2>1, <5>1
      <4>2. CASE ~(i <= a + n)
        <5> HIDE DEF Body
        <5> QED BY <4>2 DEF g
      <4> QED BY <4>1, <4>2
    <3> QED BY <3>3, <3>4
  <2>3. g = [i \in a .. a + (n + 1) |-> g[i]]
    OBVIOUS
  <2> HIDE DEF g, Body
  <2>4. g = [i \in a .. a + (n + 1) |-> Body(g, i)]
    BY <2>2, <2>3
  <2> QED BY <2>4
<1>5. Exists(z - a)
  <2> DEFINE S == {n \in Nat : Exists(n)}
  <2>1. 0 \in S /\ \A n \in Nat : n \in S => n + 1 \in S
    <3> HIDE DEF Exists
    <3> QED BY <1>3, <1>4
  <2> HIDE DEF S
  <2>2. Nat \subseteq S
    BY <2>1, NumberInduction
  <2> HIDE DEF Exists
  <2> QED BY <1>1, <2>2 DEF S
<1>6. open = [i \in a .. z |-> Body(open, i)]
  <2> HIDE DEF Body
  <2>1. \E f : f = [i \in a .. z |-> Body(f, i)]
    BY <1>1, <1>5
  <2> QED BY <2>1
<1>7. ASSUME NEW i \in a .. z PROVE open[i] = Body(open, i)
  <2> HIDE DEF Body, open
  <2> QED BY <1>6
<1> HIDE DEF open
<1> QED BY <1>2, <1>7 DEF Turns

(* do_open: one connector after the other, each in front of those before.  *)
Opening(r, i) ==
    /\ r.objs \in Seq(Objects) /\ Len(objs) <= Len(r.objs)
    /\ r.dir \in [Ids -> 0 .. Len(r.objs)]
    /\ r.list \in Seq(Entries(r.objs))
    /\ r.ok => IsWindow(r.list, cb.input_id, i)

(* do_open opens the window of the control block.                          *)
LEMMA OpenedFits ==
    ASSUME Stored(cb, dir, objs)
    PROVE  Opening(Opened, cb.output_id)
<1> DEFINE a == cb.input_id
           z == cb.output_id
<1>1. /\ a \in Nat /\ z \in Nat /\ a <= z /\ a \in Ids /\ z \in Ids /\ z - a \in Nat
      /\ a + (z - a) = z
  BY DEF Stored, CBs, Ids
<1>2. PICK open : Turns(open) /\ Opened = open[z]
  BY OpenedTurns
<1>3. ASSUME NEW i \in a .. z
      PROVE  open[i] = IF i = a THEN make_connector(dir, objs, <<>>, i)
                       ELSE LET before == open[i - 1]
                            IN  IF ~before.ok THEN before
                                ELSE make_connector(before.dir, before.objs, before.list, i)
  BY <1>2 DEF Turns
<1>4. Opening(open[a], a)
  <2>1. open[a] = make_connector(dir, objs, <<>>, a)
    BY <1>1, <1>3
  <2>2. objs \in Seq(Objects) /\ dir \in [Ids -> 0 .. Len(objs)] /\ <<>> \in Seq(Entries(objs))
    BY DEF Stored
  <2>3. Makes(open[a], objs, <<>>, a)
    BY <1>1, <2>1, <2>2, MakeFits
  <2>4. open[a].ok => IsWindow(open[a].list, a, a)
    <3> SUFFICES ASSUME open[a].ok PROVE IsWindow(open[a].list, a, a)
      OBVIOUS
    <3>1. /\ Len(open[a].list) = 1 /\ open[a].list[1].id = a
          /\ open[a].list \in Seq(Entries(open[a].objs))
      BY <2>3 DEF Makes
    <3>2. DOMAIN open[a].list = {1}
      BY <3>1
    <3> QED BY <1>1, <3>1, <3>2 DEF IsWindow
  <2> QED BY <2>3, <2>4 DEF Makes, Opening
<1>5. ASSUME NEW j \in Nat, j + 1 \in a .. z, j \in a .. z, Opening(open[j], j)
      PROVE  Opening(open[j + 1], j + 1)
  <2> DEFINE b == open[j]
             r == open[j + 1]
  <2>1. j + 1 # a /\ (j + 1) - 1 = j /\ j + 1 \in Ids
    BY <1>1, <1>5, BusAssumption DEF Ids
  <2>2. r = IF ~b.ok THEN b ELSE make_connector(b.dir, b.objs, b.list, j + 1)
    BY <1>3, <1>5, <2>1
  <2>3. Opening(b, j)
    BY <1>5
  <2> HIDE DEF b, r
  <2>4. ~b.ok => Opening(r, j + 1)
    <3> SUFFICES ASSUME ~b.ok PROVE Opening(r, j + 1)
      OBVIOUS
    <3>1. r = b /\ ~r.ok
      BY <2>2
    <3>2. Opening(r, j)
      BY <2>3, <3>1
    <3> QED BY <3>1, <3>2 DEF Opening
  <2>5. b.ok => Opening(r, j + 1)
    <3> SUFFICES ASSUME b.ok PROVE Opening(r, j + 1)
      OBVIOUS
    <3>1. Makes(r, b.objs, b.list, j + 1)
      BY <2>1, <2>2, <2>3, MakeFits DEF Opening
    <3>2. Len(objs) <= Len(r.objs)
      <4>1. Len(objs) <= Len(b.objs) /\ Len(b.objs) <= Len(r.objs)
            /\ b.objs \in Seq(Objects) /\ r.objs \in Seq(Objects) /\ objs \in Seq(Objects)
        BY <2>3, <3>1 DEF Opening, Makes, Stored
      <4>2. Len(objs) \in Nat /\ Len(b.objs) \in Nat /\ Len(r.objs) \in Nat
        BY <4>1
      <4> QED BY <4>1, <4>2
    <3>3. r.ok => IsWindow(r.list, a, j + 1)
      <4> SUFFICES ASSUME r.ok PROVE IsWindow(r.list, a, j + 1)
        OBVIOUS
      <4>1. /\ Len(r.list) = Len(b.list) + 1 /\ r.list[1].id = j + 1
            /\ \A k \in 1 .. Len(b.list) : r.list[k + 1] = b.list[k]
            /\ r.list \in Seq(Entries(r.objs))
        BY <3>1 DEF Makes
      <4>2. b.list \in Seq(Entries(b.objs)) /\ IsWindow(b.list, a, j)
        BY <2>3 DEF Opening
      <4>3. a <= j + 1
        BY <1>1, <1>5
      <4> QED BY <1>1, <4>1, <4>2, <4>3, WindowGrows
    <3> QED BY <3>1, <3>2, <3>3 DEF Makes, Opening
  <2>6. Opening(r, j + 1)
    BY <2>4, <2>5
  <2> QED BY <2>6 DEF r
<1>6. Opening(open[z], z)
  <2> DEFINE S == {n \in Nat : a + n <= z => Opening(open[a + n], a + n)}
  <2>1. 0 \in S
    <3>1. a + 0 = a
      BY <1>1
    <3> QED BY <1>4, <3>1
  <2>2. ASSUME NEW n \in Nat, n \in S PROVE n + 1 \in S
    <3> SUFFICES ASSUME a + (n + 1) <= z PROVE Opening(open[a + (n + 1)], a + (n + 1))
      OBVIOUS
    <3> DEFINE j == a + n
    <3>1. j \in Nat /\ j + 1 \in a .. z /\ j \in a .. z /\ a + (n + 1) = j + 1 /\ a + n <= z
      BY <1>1
    <3>2. Opening(open[j], j)
      BY <2>2, <3>1
    <3> HIDE DEF j
    <3> QED BY <1>5, <3>1, <3>2
  <2> HIDE DEF S
  <2>3. Nat \subseteq S
    BY <2>1, <2>2, NumberInduction
  <2>4. z - a \in S
    BY <1>1, <2>3
  <2> QED BY <1>1, <2>4 DEF S
<1> QED BY <1>2, <1>6
-----------------------------------------------------------------------------
(* The process p gets the copy, the call w and the list l.                 *)
Moves(p, copy, w, l) ==
    /\ m_controlblock' = [m_controlblock EXCEPT ![p] = copy]
    /\ call' = [call EXCEPT ![p] = w]
    /\ list' = [list EXCEPT ![p] = l]

(* A step of p leaves the chain sound when p still suits the shared state, *)
(* ids and objects only grow, and nobody else is about to remove the last  *)
(* connector.                                                              *)
LEMMA MovesSound ==
    ASSUME Sound, NEW p \in Procs, NEW copy, NEW w, NEW l, Moves(p, copy, w, l),
           Stored(cb', dir', objs'), History', Len(objs) <= Len(objs'),
           cb.input_id <= cb'.input_id, cb.output_id <= cb'.output_id,
           \A r \in Producers : r # p => sent'[r] = sent[r],
           \A r \in Procs : (r # p /\ call[r].at = "shrink")
                               => cb'.input_id < cb'.output_id,
           Fits(p, sent', copy, w, l, cb', objs')
    PROVE  Sound'
<1>1. /\ cb \in CBs /\ cb' \in CBs /\ objs \in Seq(Objects) /\ objs' \in Seq(Objects)
      /\ m_controlblock \in [Procs -> CBs] /\ call \in [Procs -> Calls]
      /\ list \in [Procs -> Seq(Entries(objs))]
  BY DEF Sound, Stored
<1>2. /\ m_controlblock'[p] = copy /\ call'[p] = w /\ list'[p] = l
      /\ \A r \in Procs : r # p => /\ m_controlblock'[r] = m_controlblock[r]
                                   /\ call'[r] = call[r] /\ list'[r] = list[r]
  BY <1>1 DEF Moves
<1>3. copy \in CBs /\ w \in Calls /\ l \in Seq(Entries(objs'))
  BY DEF Fits
<1>4. m_controlblock' \in [Procs -> CBs] /\ call' \in [Procs -> Calls]
  BY <1>1, <1>3 DEF Moves
<1>5. list' \in [Procs -> Seq(Entries(objs'))]
  <2>1. ASSUME NEW r \in Procs PROVE list'[r] \in Seq(Entries(objs'))
    <3>1. CASE r = p
      BY <1>2, <1>3, <3>1
    <3>2. CASE r # p
      <4>1. list[r] \in Seq(Entries(objs))
        BY <1>1
      <4>2. list[r] \in Seq(Entries(objs'))
        BY <1>1, <4>1, EntriesGrow
      <4> QED BY <1>2, <3>2, <4>2
    <3> QED BY <3>1, <3>2
  <2>2. list' = [r \in Procs |-> list'[r]]
    BY <1>1 DEF Moves
  <2> QED BY <2>1, <2>2
<1>6. ASSUME NEW r \in Procs PROVE Suits(r)'
  <2>1. CASE r = p
    BY <1>2, <2>1 DEF Suits
  <2>2. CASE r # p
    <3>1. Fits(r, sent, m_controlblock[r], call[r], list[r], cb, objs)
      BY DEF Sound, Suits
    <3>2. call[r].at = "shrink" => cb'.input_id < cb'.output_id
      BY <2>2
    <3>3. Fits(r, sent, m_controlblock[r], call[r], list[r], cb', objs')
      BY <1>1, <3>1, <3>2, FitsGrows
    <3>4. Fits(r, sent', m_controlblock[r], call[r], list[r], cb', objs')
      BY <2>2, <3>3 DEF Fits
    <3> QED BY <1>2, <2>2, <3>4 DEF Suits
  <2> QED BY <2>1, <2>2
<1> QED BY <1>4, <1>5, <1>6 DEF Sound

(* A step of p leaves the calls serial when the control block is changed   *)
(* only by a process that is in a call, and a call begins when no other    *)
(* one runs.                                                               *)
LEMMA MovesSerial ==
    ASSUME Sound, Serial, NEW p \in Procs, NEW copy, NEW w, NEW l, Moves(p, copy, w, l),
           cb' = cb \/ p \in Busy,
           w.at \notin {"idle", "closed"} => \A r \in Busy : r = p,
           Follows(copy, w, l, cb')
    PROVE  Serial'
<1>1. /\ m_controlblock \in [Procs -> CBs] /\ call \in [Procs -> Calls]
      /\ list \in [Procs -> Seq(Entries(objs))]
  BY DEF Sound
<1>2. /\ m_controlblock'[p] = copy /\ call'[p] = w /\ list'[p] = l
      /\ \A r \in Procs : r # p => /\ m_controlblock'[r] = m_controlblock[r]
                                   /\ call'[r] = call[r] /\ list'[r] = list[r]
  BY <1>1 DEF Moves
<1>3. ASSUME NEW r \in Procs PROVE Follows(m_controlblock'[r], call'[r], list'[r], cb')
  <2>1. CASE r = p
    BY <1>2, <2>1
  <2>2. CASE r # p
    <3>1. Follows(m_controlblock[r], call[r], list[r], cb)
      BY DEF Serial
    <3>2. cb' # cb => call[r].at \in {"idle", "closed"}
      BY <2>2 DEF Serial, Busy
    <3>3. Follows(m_controlblock[r], call[r], list[r], cb')
      <4>1. CASE cb' = cb
        BY <3>1, <4>1
      <4>2. CASE call[r].at \in {"idle", "closed"}
        BY <3>1, <4>2 DEF Follows
      <4> QED BY <3>2, <4>1, <4>2
    <3> QED BY <1>2, <2>2, <3>3
  <2> QED BY <2>1, <2>2
<1>4. \A r, x \in Busy' : r = x
  <2> SUFFICES ASSUME NEW r \in Procs, call'[r].at \notin {"idle", "closed"},
                      NEW x \in Procs, call'[x].at \notin {"idle", "closed"}
               PROVE  r = x
    BY DEF Busy
  <2>1. r # p => r \in Busy
    BY <1>2 DEF Busy
  <2>2. x # p => x \in Busy
    BY <1>2 DEF Busy
  <2> QED BY <1>2, <2>1, <2>2 DEF Serial
<1> QED BY <1>3, <1>4 DEF Serial

(* Where update_connectors leaves a call whose operation is op.            *)
Leaves(w, op, bits) ==
    /\ w.at \in {"idle", "act", "check"}
    /\ w.at = "idle" => w.op = "none"
    /\ w.at # "idle" => w.op = op
    /\ w.at = "check" => w.op \in {"get", "pop"} /\ "input" \notin bits
    /\ (op = "pushed" /\ "output" \notin bits) => w.at = "idle"
    /\ w.added = FALSE

(* It goes on to the connector, to the end of the call or to the check.    *)
LEMMA UpdatedLeaves ==
    ASSUME NEW p \in Procs, call[p] \in Calls, call[p].op # "none",
           NEW bits, Updated(p, bits)
    PROVE  \E w \in Calls : call' = [call EXCEPT ![p] = w] /\ Leaves(w, call[p].op, bits)
<1> DEFINE op   == call[p].op
           next == CASE op \in Calling -> "act"
                     [] op = "pushed" -> IF "output" \in bits THEN "act" ELSE "idle"
                     [] OTHER         -> IF "input" \in bits THEN "act" ELSE "check"
           w == IF next = "idle" THEN Outside("idle") ELSE [Outside(next) EXCEPT !.op = op]
<1>1. call' = [call EXCEPT ![p] = w]
  BY DEF Updated
<1>2. op \in {"get", "pop"} \cup Pushing /\ 0 \in Ids
  BY BusAssumption DEF Calls, Ids
<1>3. /\ next \in {"idle", "act", "check"}
      /\ next = "check" => op \in {"get", "pop"} /\ "input" \notin bits
      /\ (op = "pushed" /\ "output" \notin bits) => next = "idle"
  BY <1>2
<1> HIDE DEF next, op
<1>4. w \in Calls /\ Leaves(w, op, bits)
  BY <1>2, <1>3 DEF Outside, Calls, Places, Leaves
<1> HIDE DEF w
<1> QED BY <1>1, <1>4 DEF op

(* A call that goes elsewhere changes nothing else.                        *)
LEMMA GotoMoves ==
    ASSUME NEW p \in Procs, call[p] \in Calls, NEW to \in Places, Goto(p, to)
    PROVE  \E w \in Calls : /\ call' = [call EXCEPT ![p] = w] /\ w.at = to
                            /\ to = "idle" => w.op = "none"
                            /\ to # "idle" => /\ w.op = call[p].op
                                              /\ w.target = call[p].target
<1> DEFINE w == IF to = "idle" THEN Outside("idle") ELSE [call[p] EXCEPT !.at = to]
<1>1. call' = [call EXCEPT ![p] = w]
  BY DEF Goto
<1>2. w \in Calls /\ w.at = to /\ (to = "idle" => w.op = "none")
      /\ (to # "idle" => w.op = call[p].op /\ w.target = call[p].target)
  <2>1. 0 \in Ids
    BY BusAssumption DEF Ids
  <2> QED BY <2>1 DEF Outside, Calls, Places
<1> HIDE DEF w
<1> QED BY <1>1, <1>2
-----------------------------------------------------------------------------
(* What every step has to keep.                                            *)
Kept == Sound' /\ ((Serial /\ ~fault') => Serial')

(* A push called again goes to its first update.                           *)
LEMMA AgainMoves ==
    ASSUME NEW p \in Procs, call[p] \in Calls, PushesAgain(p)
    PROVE  \E w \in Calls : /\ call' = [call EXCEPT ![p] = w] /\ w.at = "epoch"
                            /\ w.op = IF call[p].op = "push" THEN "push" ELSE "again"
                            /\ w.added = call[p].added
<1> DEFINE op == IF call[p].op = "push" THEN "push" ELSE "again"
           w  == [call[p] EXCEPT !.at = "epoch", !.op = op]
<1>1. call' = [call EXCEPT ![p] = w]
  BY DEF PushesAgain
<1>2. w \in Calls /\ w.at = "epoch" /\ w.op = op /\ w.added = call[p].added
  BY DEF Calls, Places
<1> HIDE DEF w
<1> QED BY <1>1, <1>2

(* What is known of the process that takes a step.                         *)
LEMMA Here ==
    ASSUME Sound, NEW p \in Procs
    PROVE  /\ m_controlblock[p] \in CBs /\ call[p] \in Calls
           /\ list[p] \in Seq(Entries(objs)) /\ Suits(p)
           /\ cb \in CBs /\ cb.input_id \in Nat /\ cb.output_id \in Nat
           /\ m_controlblock[p].input_id \in Nat /\ m_controlblock[p].output_id \in Nat
           /\ m_controlblock = [m_controlblock EXCEPT ![p] = m_controlblock[p]]
           /\ list = [list EXCEPT ![p] = list[p]]
<1>1. m_controlblock \in [Procs -> CBs] /\ list \in [Procs -> Seq(Entries(objs))]
  BY DEF Sound
<1>2. m_controlblock[p] \in CBs /\ cb \in CBs /\ call[p] \in Calls /\ Suits(p)
  BY DEF Sound, Stored
<1>3. \A b \in CBs : b.input_id \in Nat /\ b.output_id \in Nat
  BY BusAssumption DEF CBs, Ids
<1> QED BY <1>1, <1>2, <1>3

(* A step of p that changes its copy and its call only.                    *)
LEMMA CallMoves ==
    ASSUME Sound, NEW p \in Procs, UNCHANGED shared, list' = list, History',
           \A r \in Producers : r # p => sent'[r] = sent[r],
           NEW copy, m_controlblock' = [m_controlblock EXCEPT ![p] = copy],
           NEW w, call' = [call EXCEPT ![p] = w],
           Fits(p, sent', copy, w, list[p], cb, objs),
           (Serial /\ ~fault') => /\ w.at \notin {"idle", "closed"} => \A r \in Busy : r = p
                                  /\ Follows(copy, w, list[p], cb)
    PROVE  Kept
<1>1. cb' = cb /\ dir' = dir /\ objs' = objs
  BY DEF shared
<1>2. Moves(p, copy, w, list[p])
  BY Here DEF Moves
<1>3. /\ Stored(cb', dir', objs') /\ Len(objs) <= Len(objs')
      /\ cb.input_id <= cb'.input_id /\ cb.output_id <= cb'.output_id
  <2>1. Len(objs) \in Nat
    BY DEF Sound, Stored
  <2> QED BY <1>1, <2>1, Here DEF Sound
<1>4. ASSUME NEW r \in Procs, call[r].at = "shrink" PROVE cb'.input_id < cb'.output_id
  BY <1>1, <1>4 DEF Sound, Suits, Fits
<1>5. Fits(p, sent', copy, w, list[p], cb', objs')
  BY <1>1
<1>6. Sound'
  BY <1>2, <1>3, <1>4, <1>5, MovesSound
<1>7. (Serial /\ ~fault') => Serial'
  BY <1>1, <1>2, MovesSerial
<1> QED BY <1>6, <1>7 DEF Kept

(* While a call runs without a fault no other one does.                    *)
LEMMA BusyAlone ==
    ASSUME Serial, NEW p \in Procs, call[p].at \notin {"idle", "closed"}
    PROVE  /\ \A r \in Busy : r = p
           /\ Follows(m_controlblock[p], call[p], list[p], cb)
BY DEF Serial, Busy

(* The history of a step that stores nothing and pops nothing.             *)
LEMMA SameHistory ==
    ASSUME Sound, UNCHANGED <<sent, log, seen>>, fault' \in BOOLEAN
    PROVE  History' /\ \A r \in Producers : sent'[r] = sent[r]
BY DEF Sound, History

(* is_updated stores the shared epoch in the copy; with equal epochs the   *)
(* update ends, and without a fault the ids were equal too.                *)
LEMMA isUpdatedKeeps ==
    ASSUME Sound, NEW p \in Procs, is_updated(p)
    PROVE  Kept
<1> DEFINE mine == m_controlblock[p]
           copy == [mine EXCEPT !.epoch = cb.epoch]
<1>1. /\ mine \in CBs /\ call[p] \in Calls /\ cb \in CBs
      /\ Fits(p, sent, mine, call[p], list[p], cb, objs)
  BY Here DEF Suits
<1>2. /\ call[p].at = "epoch" /\ call[p].op # "none"
      /\ UNCHANGED shared /\ list' = list /\ sent' = sent /\ log' = log /\ seen' = seen
  BY <1>1 DEF is_updated, Fits
<1>3. m_controlblock' = [m_controlblock EXCEPT ![p] = copy]
  BY DEF is_updated
<1>4. copy \in CBs /\ copy.input_id = mine.input_id /\ copy.output_id = mine.output_id
  BY <1>1 DEF CBs
<1> HIDE DEF copy
<1>5. CASE cb.epoch # mine.epoch
  <2>1. Goto(p, "output") /\ fault' = fault
    BY <1>5 DEF is_updated
  <2>2. PICK w \in Calls : /\ call' = [call EXCEPT ![p] = w] /\ w.at = "output"
                           /\ w.op = call[p].op
    BY <1>1, <2>1, GotoMoves DEF Places
  <2>3. Fits(p, sent', copy, w, list[p], cb, objs)
    BY <1>1, <1>2, <1>4, <2>2 DEF Fits
  <2>4. History'
    BY <1>2, <2>1, SameHistory DEF Sound, History
  <2>5. ASSUME Serial
        PROVE  (\A r \in Busy : r = p) /\ Follows(copy, w, list[p], cb)
    <3>1. Follows(mine, call[p], list[p], cb) /\ \A r \in Busy : r = p
      BY <1>2, <2>5, BusyAlone
    <3> QED BY <1>2, <1>4, <2>2, <3>1 DEF Follows
  <2> QED BY <1>2, <1>3, <2>2, <2>3, <2>4, <2>5, CallMoves
<1>6. CASE cb.epoch = mine.epoch
  <2>1. Updated(p, {}) /\ fault' = (fault \/ IdsDiffer(p))
    BY <1>6 DEF is_updated
  <2>2. PICK w \in Calls : call' = [call EXCEPT ![p] = w] /\ Leaves(w, call[p].op, {})
    BY <1>1, <1>2, <2>1, UpdatedLeaves
  <2>3. Fits(p, sent', copy, w, list[p], cb, objs)
    BY <1>1, <1>2, <1>4, <2>2 DEF Fits, Leaves
  <2>4. History'
    <3>1. fault' \in BOOLEAN
      BY <2>1
    <3> QED BY <1>2, <3>1, SameHistory
  <2>5. ASSUME Serial, ~fault'
        PROVE  (\A r \in Busy : r = p) /\ Follows(copy, w, list[p], cb)
    <3>1. Follows(mine, call[p], list[p], cb) /\ \A r \in Busy : r = p
      BY <1>2, <2>5, BusyAlone
    <3>2. mine.output_id = cb.output_id /\ mine.input_id = cb.input_id
      BY <2>1, <2>5 DEF IdsDiffer
    <3> QED BY <1>2, <1>4, <2>2, <3>1, <3>2 DEF Follows, Leaves
  <2> QED BY <1>2, <1>3, <2>2, <2>3, <2>4, <2>5, CallMoves
<1> QED BY <1>5, <1>6

(* update_connectors reads the shared output_id, which the copy has not    *)
(* passed.                                                                 *)
LEMMA ReadOutputIdKeeps ==
    ASSUME Sound, NEW p \in Procs, ReadOutputId(p)
    PROVE  Kept
<1> DEFINE mine == m_controlblock[p]
           to == IF cb.output_id = mine.output_id THEN "input" ELSE "adding"
           w  == [call[p] EXCEPT !.target = cb.output_id, !.at = to]
<1>1. /\ mine \in CBs /\ call[p] \in Calls /\ cb \in CBs
      /\ Fits(p, sent, mine, call[p], list[p], cb, objs)
      /\ m_controlblock = [m_controlblock EXCEPT ![p] = mine]
  BY Here DEF Suits
<1>2. /\ call[p].at = "output" /\ UNCHANGED shared /\ list' = list /\ sent' = sent
      /\ log' = log /\ seen' = seen /\ fault' = fault
      /\ m_controlblock' = [m_controlblock EXCEPT ![p] = mine]
  BY <1>1 DEF ReadOutputId, hist
<1>3. call' = [call EXCEPT ![p] = w]
  BY <1>1 DEF ReadOutputId, Sound
<1>4. w \in Calls /\ w.at = to /\ w.target = cb.output_id /\ w.op = call[p].op
  BY <1>1 DEF Calls, Places, CBs
<1> HIDE DEF w
<1>5. cb.output_id \in Nat /\ mine.output_id \in Nat /\ mine.output_id <= cb.output_id
  BY <1>1, Here DEF Fits
<1>6. Fits(p, sent', mine, w, list[p], cb, objs)
  BY <1>1, <1>2, <1>4, <1>5 DEF Fits
<1>7. History'
  BY <1>2, SameHistory DEF Sound, History
<1>8. ASSUME Serial
      PROVE  (\A r \in Busy : r = p) /\ Follows(mine, w, list[p], cb)
  <2>1. Follows(mine, call[p], list[p], cb) /\ \A r \in Busy : r = p
    BY <1>2, <1>8, BusyAlone
  <2> QED BY <1>2, <1>4, <2>1 DEF Follows
<1> QED BY <1>2, <1>3, <1>6, <1>7, <1>8, CallMoves
(* A connector is made for the list of p.                                  *)
LEMMA InstallFits ==
    ASSUME Sound, NEW p \in Procs, NEW id \in Ids, Make(p, id).ok, Install(p, Make(p, id))
    PROVE  /\ objs' \in Seq(Objects) /\ Len(objs) <= Len(objs')
           /\ dir' \in [Ids -> 0 .. Len(objs')]
           /\ list' = [list EXCEPT ![p] = list'[p]]
           /\ list'[p] \in Seq(Entries(objs')) /\ list'[p] # <<>>
           /\ \A a, b \in Nat : (IsWindow(list[p], a, b) /\ a <= b /\ id = b + 1)
                                   => IsWindow(list'[p], a, b + 1)
<1> DEFINE made == Make(p, id)
<1>1. /\ list \in [Procs -> Seq(Entries(objs))] /\ list[p] \in Seq(Entries(objs))
      /\ objs \in Seq(Objects) /\ dir \in [Ids -> 0 .. Len(objs)]
  BY DEF Sound, Stored
<1>2. Makes(made, objs, list[p], id)
  BY <1>1, MakeFits DEF Make
<1>3. made.ok /\ dir' = made.dir /\ objs' = made.objs /\ list' = [list EXCEPT ![p] = made.list]
  BY DEF Install
<1> HIDE DEF made
<1>4. list'[p] = made.list /\ list' = [list EXCEPT ![p] = list'[p]]
  BY <1>1, <1>3
<1>5. /\ made.objs \in Seq(Objects) /\ Len(objs) <= Len(made.objs)
      /\ made.dir \in [Ids -> 0 .. Len(made.objs)]
      /\ made.list \in Seq(Entries(made.objs))
      /\ Len(made.list) = Len(list[p]) + 1 /\ made.list[1].id = id
      /\ \A k \in 1 .. Len(list[p]) : made.list[k + 1] = list[p][k]
  BY <1>2, <1>3 DEF Makes
<1>6. made.list # <<>>
  <2>1. Len(made.list) >= 1
    <3>1. Len(list[p]) \in Nat
      BY <1>1
    <3> QED BY <1>5, <3>1
  <2> QED BY <1>5, <2>1, LongIsNotEmpty
<1>7. ASSUME NEW a \in Nat, NEW b \in Nat, IsWindow(list[p], a, b), a <= b, id = b + 1
      PROVE  IsWindow(made.list, a, b + 1)
  <2>1. a <= b + 1 /\ made.list[1].id = b + 1
    BY <1>5, <1>7
  <2> QED BY <1>1, <1>5, <1>7, <2>1, WindowGrows
<1> QED BY <1>3, <1>4, <1>5, <1>6, <1>7

(* Control blocks that count.                                              *)
RaiseOutput(b, i) == [b EXCEPT !.output_id = i, !.epoch = @ + 1]
RaiseInput(b)     == [b EXCEPT !.input_id = @ + 1, !.epoch = @ + 1]

(* They are control blocks, with the other id unchanged.                   *)
LEMMA Raised ==
    ASSUME NEW b \in CBs
    PROVE  /\ \A i \in Ids : /\ RaiseOutput(b, i) \in CBs
                            /\ RaiseOutput(b, i).input_id = b.input_id
                            /\ RaiseOutput(b, i).output_id = i
           /\ b.input_id + 1 \in Ids => RaiseInput(b) \in CBs
           /\ RaiseInput(b).input_id = b.input_id + 1
           /\ RaiseInput(b).output_id = b.output_id
<1> DEFINE e == b.epoch + 1
           n == b.input_id + 1
<1>1. e \in Nat /\ RaiseInput(b) = [b EXCEPT !.input_id = n, !.epoch = e]
      /\ \A i : RaiseOutput(b, i) = [b EXCEPT !.output_id = i, !.epoch = e]
  BY DEF CBs, RaiseInput, RaiseOutput
<1> HIDE DEF e, n
<1>2. ASSUME NEW i \in Ids
      PROVE  /\ RaiseOutput(b, i) \in CBs
             /\ RaiseOutput(b, i).input_id = b.input_id
             /\ RaiseOutput(b, i).output_id = i
  <2>1. RaiseOutput(b, i) = [b EXCEPT !.output_id = i, !.epoch = e] /\ e \in Nat
    BY <1>1
  <2> QED BY <2>1 DEF CBs
<1>3. /\ n \in Ids => RaiseInput(b) \in CBs
      /\ RaiseInput(b).input_id = n /\ RaiseInput(b).output_id = b.output_id
  <2>1. n \in Ids => RaiseInput(b) \in CBs
    BY <1>1 DEF CBs
  <2>2. RaiseInput(b).input_id = n
    BY <1>1 DEF CBs
  <2>3. RaiseInput(b).output_id = b.output_id
    BY <1>1 DEF CBs
  <2> QED BY <2>1, <2>2, <2>3
<1> QED BY <1>2, <1>3 DEF n

(* A turn of the loop of additions: the connector after the newest of the  *)
(* list, up to the output_id that was read.                                *)
LEMMA AddKnownKeeps ==
    ASSUME Sound, NEW p \in Procs, AddKnown(p)
    PROVE  Kept
<1> DEFINE mine == m_controlblock[p]
           id   == mine.output_id + 1
           copy == RaiseOutput(mine, id)
           to   == IF id = call[p].target THEN "input" ELSE "adding"
           w    == [call[p] EXCEPT !.added = TRUE, !.at = to]
           l    == list'[p]
<1>1. /\ mine \in CBs /\ call[p] \in Calls /\ cb \in CBs
      /\ Fits(p, sent, mine, call[p], list[p], cb, objs)
      /\ cb.input_id \in Nat /\ cb.output_id \in Nat
      /\ mine.input_id \in Nat /\ mine.output_id \in Nat
  BY Here DEF Suits
<1>2. /\ call[p].at = "adding" /\ Make(p, id).ok /\ Install(p, Make(p, id))
      /\ cb' = cb /\ sent' = sent /\ log' = log /\ seen' = seen /\ fault' = fault
  BY DEF AddKnown, hist
<1>3. m_controlblock' = [m_controlblock EXCEPT ![p] = copy] /\ call' = [call EXCEPT ![p] = w]
  BY <1>1 DEF AddKnown, Sound, RaiseOutput
<1>4. /\ call[p].target \in Nat /\ mine.output_id < call[p].target
      /\ call[p].target <= cb.output_id /\ cb.output_id <= MaxId
  BY <1>1, <1>2, BusAssumption DEF Fits, Calls, CBs, Ids
<1>5. id \in Ids /\ id <= call[p].target /\ id <= cb.output_id
  <2> DEFINE x == mine.output_id
             t == call[p].target
             z == cb.output_id
  <2>1. /\ x \in Nat /\ t \in Nat /\ z \in Nat /\ x < t /\ t <= z /\ z <= MaxId
        /\ MaxId \in Nat
    BY <1>1, <1>4, BusAssumption
  <2> HIDE DEF x, t, z
  <2>2. x + 1 \in 0 .. MaxId /\ x + 1 <= t /\ x + 1 <= z
    BY <2>1
  <2> QED BY <2>2 DEF Ids, x, t, z
<1>6. copy \in CBs /\ copy.input_id = mine.input_id /\ copy.output_id = id
  BY <1>1, <1>5, Raised
<1>7. w \in Calls /\ w.at = to /\ w.target = call[p].target /\ w.op = call[p].op
  BY <1>1 DEF Calls, Places
<1>8. /\ objs' \in Seq(Objects) /\ Len(objs) <= Len(objs')
      /\ dir' \in [Ids -> 0 .. Len(objs')] /\ list' = [list EXCEPT ![p] = l]
      /\ l \in Seq(Entries(objs')) /\ l # <<>>
      /\ \A a, b \in Nat : (IsWindow(list[p], a, b) /\ a <= b /\ id = b + 1)
                              => IsWindow(l, a, b + 1)
  BY <1>2, <1>5, InstallFits
<1> HIDE DEF copy, w, l
<1>9. Moves(p, copy, w, l)
  BY <1>3, <1>8 DEF Moves
<1>10. Stored(cb', dir', objs') /\ History'
  <2>1. History'
    BY <1>2, SameHistory DEF Sound, History
  <2> QED BY <1>2, <1>8, <2>1 DEF Sound, Stored
<1>11. Fits(p, sent', copy, w, l, cb', objs')
  <2>1. w.at = "adding" => id < w.target
    BY <1>5, <1>7, <1>1, <1>4
  <2> HIDE DEF mine
  <2> QED BY <1>1, <1>2, <1>4, <1>5, <1>6, <1>7, <1>8, <2>1 DEF Fits
<1>12. Sound'
  <2>1. cb.input_id <= cb'.input_id /\ cb.output_id <= cb'.output_id
    BY <1>1, <1>2
  <2>2. \A r \in Procs : (r # p /\ call[r].at = "shrink") => cb'.input_id < cb'.output_id
    BY <1>2 DEF Sound, Suits, Fits
  <2> QED BY <1>2, <1>8, <1>9, <1>10, <1>11, <2>1, <2>2, MovesSound
<1>13. ASSUME Serial PROVE Serial'
  <2>1. Follows(mine, call[p], list[p], cb) /\ \A r \in Busy : r = p
    BY <1>2, <1>13, BusyAlone
  <2>2. IsWindow(l, mine.input_id, id) /\ mine.input_id <= id
    BY <1>1, <1>2, <1>8, <2>1 DEF Follows
  <2>3. Follows(copy, w, l, cb')
    BY <1>2, <1>6, <1>7, <2>1, <2>2 DEF Follows
  <2> QED BY <1>2, <1>9, <1>13, <2>1, <2>3, MovesSerial
<1> QED BY <1>12, <1>13 DEF Kept

(* An update that cannot add a connector returns: a fault.                 *)
LEMMA AddGivesUpKeeps ==
    ASSUME Sound, NEW p \in Procs, AddGivesUp(p)
    PROVE  Kept
<1> DEFINE mine == m_controlblock[p]
<1>1. /\ mine \in CBs /\ call[p] \in Calls /\ cb \in CBs
      /\ Fits(p, sent, mine, call[p], list[p], cb, objs)
      /\ m_controlblock = [m_controlblock EXCEPT ![p] = mine]
  BY Here DEF Suits
<1>2. /\ call[p].at = "adding" /\ call[p].op # "none" /\ Updated(p, {})
      /\ UNCHANGED shared /\ list' = list /\ sent' = sent
      /\ log' = log /\ seen' = seen /\ fault' = TRUE
      /\ m_controlblock' = [m_controlblock EXCEPT ![p] = mine]
  BY <1>1 DEF AddGivesUp, Fits
<1>3. PICK w \in Calls : call' = [call EXCEPT ![p] = w] /\ Leaves(w, call[p].op, {})
  BY <1>1, <1>2, UpdatedLeaves
<1>4. Fits(p, sent', mine, w, list[p], cb, objs)
  BY <1>1, <1>2, <1>3 DEF Fits, Leaves
<1>5. History'
  BY <1>2, SameHistory
<1> QED BY <1>2, <1>3, <1>4, <1>5, CallMoves
(* The second half of update_connectors: nothing to remove, nothing left   *)
(* to remove (a fault), or the oldest connector is dropped.                *)
LEMMA RemoveKnownKeeps ==
    ASSUME Sound, NEW p \in Procs, RemoveKnown(p)
    PROVE  Kept
<1> DEFINE mine == m_controlblock[p]
           bits == IF call[p].added THEN {"output"} ELSE {}
<1>1. /\ mine \in CBs /\ call[p] \in Calls /\ cb \in CBs
      /\ Fits(p, sent, mine, call[p], list[p], cb, objs)
      /\ m_controlblock = [m_controlblock EXCEPT ![p] = mine]
      /\ cb.input_id \in Nat /\ cb.output_id \in Nat
      /\ mine.input_id \in Nat /\ mine.output_id \in Nat
  BY Here DEF Suits
<1>2. /\ call[p].at = "input" /\ call[p].op # "none" /\ list[p] # <<>>
      /\ cb' = cb /\ named' = named /\ sent' = sent /\ log' = log /\ seen' = seen
  BY <1>1 DEF RemoveKnown, Fits
<1>3. CASE cb.input_id = mine.input_id
  <2>1. /\ Updated(p, bits) /\ UNCHANGED shared /\ list' = list /\ fault' = fault
        /\ m_controlblock' = [m_controlblock EXCEPT ![p] = mine]
    BY <1>1, <1>3 DEF RemoveKnown, shared
  <2> HIDE DEF bits
  <2>2. PICK w \in Calls : call' = [call EXCEPT ![p] = w] /\ Leaves(w, call[p].op, bits)
    BY <1>1, <1>2, <2>1, UpdatedLeaves
  <2>3. Fits(p, sent', mine, w, list[p], cb, objs)
    BY <1>1, <1>2, <2>2 DEF Fits, Leaves
  <2>4. History'
    BY <1>2, <2>1, SameHistory DEF Sound, History
  <2>5. ASSUME Serial
        PROVE  (\A r \in Busy : r = p) /\ Follows(mine, w, list[p], cb)
    <3>1. Follows(mine, call[p], list[p], cb) /\ \A r \in Busy : r = p
      BY <1>2, <2>5, BusyAlone
    <3> QED BY <1>2, <1>3, <2>2, <3>1 DEF Follows, Leaves
  <2> QED BY <1>2, <2>1, <2>2, <2>3, <2>4, <2>5, CallMoves
<1>4. CASE cb.input_id # mine.input_id /\ mine.input_id = mine.output_id
  <2>1. /\ Updated(p, {}) /\ UNCHANGED shared /\ list' = list /\ fault' = TRUE
        /\ m_controlblock' = [m_controlblock EXCEPT ![p] = mine]
    BY <1>1, <1>4 DEF RemoveKnown, shared
  <2>2. PICK w \in Calls : call' = [call EXCEPT ![p] = w] /\ Leaves(w, call[p].op, {})
    BY <1>1, <1>2, <2>1, UpdatedLeaves
  <2>3. Fits(p, sent', mine, w, list[p], cb, objs)
    BY <1>1, <1>2, <2>2 DEF Fits, Leaves
  <2>4. History'
    BY <1>2, <2>1, SameHistory
  <2> QED BY <1>2, <2>1, <2>2, <2>3, <2>4, CallMoves
<1>5. CASE cb.input_id # mine.input_id /\ mine.input_id # mine.output_id
  <2> DEFINE copy == RaiseInput(mine)
             l    == list'[p]
  <2>1. /\ DropBack(p, mine.input_id + 1) /\ Updated(p, bits \cup {"input"})
        /\ fault' = fault /\ m_controlblock' = [m_controlblock EXCEPT ![p] = copy]
    BY <1>1, <1>5 DEF RemoveKnown, RaiseInput
  <2> HIDE DEF bits
  <2>2. PICK w \in Calls : /\ call' = [call EXCEPT ![p] = w]
                           /\ Leaves(w, call[p].op, bits \cup {"input"})
    BY <1>1, <1>2, <2>1, UpdatedLeaves
  <2>3. mine.input_id + 1 <= cb.input_id /\ mine.input_id + 1 \in Ids
    <3>1. mine.input_id <= cb.input_id /\ cb.input_id <= MaxId /\ MaxId \in Nat
      BY <1>1, BusAssumption DEF Fits, CBs, Ids
    <3> QED BY <1>1, <1>5, <3>1 DEF Ids
  <2>4. /\ copy \in CBs /\ copy.input_id = mine.input_id + 1
        /\ copy.output_id = mine.output_id
    BY <1>1, <2>3, Raised
  <2>5. /\ objs' \in Seq(Objects) /\ Len(objs) <= Len(objs')
        /\ dir' \in [Ids -> 0 .. Len(objs')] /\ list' = [list EXCEPT ![p] = l]
        /\ l \in Seq(Entries(objs')) /\ l # <<>>
        /\ Front(list[p]) # <<>> => l = Front(list[p])
    BY <1>2, <2>1, <2>3, DropFits DEF Sound
  <2> HIDE DEF copy, l
  <2>6. Moves(p, copy, w, l)
    BY <2>1, <2>2, <2>5 DEF Moves
  <2>7. Stored(cb', dir', objs') /\ History'
    <3>1. History'
      BY <1>2, <2>1, SameHistory DEF Sound, History
    <3> QED BY <1>2, <2>5, <3>1 DEF Sound, Stored
  <2>8. Fits(p, sent', copy, w, l, cb', objs')
    <3> HIDE DEF mine
    <3> QED BY <1>1, <1>2, <2>2, <2>3, <2>4, <2>5 DEF Fits, Leaves
  <2>9. Sound'
    <3>1. cb.input_id <= cb'.input_id /\ cb.output_id <= cb'.output_id
      BY <1>1, <1>2
    <3>2. \A r \in Procs : (r # p /\ call[r].at = "shrink") => cb'.input_id < cb'.output_id
      BY <1>2 DEF Sound, Suits, Fits
    <3> QED BY <1>2, <2>5, <2>6, <2>7, <2>8, <3>1, <3>2, MovesSound
  <2>10. ASSUME Serial PROVE Serial'
    <3>1. Follows(mine, call[p], list[p], cb) /\ \A r \in Busy : r = p
      BY <1>2, <2>10, BusyAlone
    <3>2. /\ IsWindow(list[p], mine.input_id, mine.output_id)
          /\ mine.input_id < mine.output_id
      BY <1>1, <1>2, <1>5, <3>1 DEF Follows
    <3>3. IsWindow(l, mine.input_id + 1, mine.output_id)
      <4>1. list[p] \in Seq(Entries(objs))
        BY Here
      <4>2. Front(list[p]) # <<>> /\ IsWindow(Front(list[p]), mine.input_id + 1, mine.output_id)
        BY <1>1, <3>2, <4>1, WindowShrinks
      <4> QED BY <2>5, <4>2
    <3>4. mine.input_id + 1 <= mine.output_id
      BY <1>1, <3>2
    <3>5. Follows(copy, w, l, cb')
      BY <1>2, <2>2, <2>4, <3>1, <3>3, <3>4 DEF Follows, Leaves
    <3> QED BY <1>2, <2>6, <2>10, <3>1, <3>5, MovesSerial
  <2> QED BY <2>9, <2>10 DEF Kept
<1> QED BY <1>3, <1>4, <1>5

(* A refused push adds a connector: the copy's output_id is the shared     *)
(* one, so the list stays a window.                                        *)
LEMMA GrowKeeps ==
    ASSUME Sound, NEW p \in Procs, Grow(p)
    PROVE  Kept
<1> DEFINE mine == m_controlblock[p]
           id   == cb.output_id + 1
           copy == [mine EXCEPT !.output_id = id]
           l    == list'[p]
<1>1. /\ mine \in CBs /\ call[p] \in Calls /\ cb \in CBs
      /\ Fits(p, sent, mine, call[p], list[p], cb, objs)
      /\ cb.input_id \in Nat /\ cb.output_id \in Nat
      /\ mine.input_id \in Nat /\ mine.output_id \in Nat
  BY Here DEF Suits
<1>2. /\ call[p].at = "grow" /\ Make(p, id).ok /\ Install(p, Make(p, id))
      /\ cb' = RaiseOutput(cb, id) /\ sent' = sent /\ log' = log /\ seen' = seen
      /\ fault' = fault /\ PushesAgain(p) /\ id < MaxId
  BY DEF Grow, hist, RaiseOutput
<1>3. m_controlblock' = [m_controlblock EXCEPT ![p] = copy]
  BY DEF Grow
<1>4. PICK w \in Calls : /\ call' = [call EXCEPT ![p] = w] /\ w.at = "epoch"
                         /\ w.op \in Calling
  BY <1>1, <1>2, AgainMoves
<1>5. id \in Ids /\ id \in Nat
  BY <1>1, <1>2, BusAssumption DEF Ids
<1>6. copy \in CBs /\ copy.input_id = mine.input_id /\ copy.output_id = id
  BY <1>1, <1>5 DEF CBs
<1>7. cb' \in CBs /\ cb'.input_id = cb.input_id /\ cb'.output_id = id
  BY <1>1, <1>2, <1>5, Raised
<1>8. /\ objs' \in Seq(Objects) /\ Len(objs) <= Len(objs')
      /\ dir' \in [Ids -> 0 .. Len(objs')] /\ list' = [list EXCEPT ![p] = l]
      /\ l \in Seq(Entries(objs')) /\ l # <<>>
      /\ \A a, b \in Nat : (IsWindow(list[p], a, b) /\ a <= b /\ id = b + 1)
                              => IsWindow(l, a, b + 1)
  BY <1>2, <1>5, InstallFits
<1> HIDE DEF copy, l
<1>9. Moves(p, copy, w, l)
  BY <1>3, <1>4, <1>8 DEF Moves
<1>10. cb.input_id <= cb.output_id
  BY DEF Sound, Stored
<1>11. Stored(cb', dir', objs') /\ History'
  <2>1. History'
    BY <1>2, SameHistory DEF Sound, History
  <2>2. cb.input_id <= id
    BY <1>1, <1>10
  <2> QED BY <1>7, <1>8, <2>1, <2>2 DEF Stored
<1>12. Fits(p, sent', copy, w, l, cb', objs')
  <2>1. mine.input_id <= cb'.input_id /\ id <= cb'.output_id
    BY <1>1, <1>5, <1>7 DEF Fits
  <2> HIDE DEF mine
  <2> QED BY <1>1, <1>2, <1>4, <1>6, <1>8, <2>1 DEF Fits
<1>13. Sound'
  <2>1. cb.input_id <= cb'.input_id /\ cb.output_id <= cb'.output_id
    BY <1>1, <1>7
  <2>2. \A r \in Procs : (r # p /\ call[r].at = "shrink") => cb'.input_id < cb'.output_id
    BY <1>1, <1>7, <1>10
  <2> QED BY <1>2, <1>8, <1>9, <1>11, <1>12, <2>1, <2>2, MovesSound
<1>14. ASSUME Serial PROVE Serial'
  <2>1. Follows(mine, call[p], list[p], cb) /\ \A r \in Busy : r = p
    BY <1>2, <1>14, BusyAlone
  <2>2. mine.output_id = cb.output_id
    BY <1>1, <1>2, <2>1 DEF Follows, Fits
  <2>3. IsWindow(l, mine.input_id, id) /\ mine.input_id <= id
    BY <1>1, <1>2, <1>8, <2>1, <2>2 DEF Follows
  <2>4. Follows(copy, w, l, cb')
    BY <1>4, <1>6, <2>3 DEF Follows
  <2>5. p \in Busy
    BY <1>2 DEF Busy
  <2> QED BY <1>9, <1>14, <2>1, <2>4, <2>5, MovesSerial
<1> QED BY <1>13, <1>14 DEF Kept
(* A get or pop removes the oldest connector: nobody else is about to, so  *)
(* one stays.                                                              *)
LEMMA ShrinkKeeps ==
    ASSUME Sound, Alone, NEW p \in Procs, Shrink(p)
    PROVE  Kept
<1> DEFINE mine == m_controlblock[p]
           id   == cb.input_id + 1
           copy == [mine EXCEPT !.input_id = id]
           l    == list'[p]
<1>1. /\ mine \in CBs /\ call[p] \in Calls /\ cb \in CBs
      /\ Fits(p, sent, mine, call[p], list[p], cb, objs)
      /\ cb.input_id \in Nat /\ cb.output_id \in Nat
      /\ mine.input_id \in Nat /\ mine.output_id \in Nat
  BY Here DEF Suits
<1>2. /\ call[p].at = "shrink" /\ DropBack(p, id) /\ Goto(p, "act")
      /\ cb' = RaiseInput(cb) /\ sent' = sent /\ log' = log /\ seen' = seen
      /\ fault' = fault
  BY DEF Shrink, hist, RaiseInput
<1>3. m_controlblock' = [m_controlblock EXCEPT ![p] = copy]
  BY DEF Shrink
<1>4. PICK w \in Calls : /\ call' = [call EXCEPT ![p] = w] /\ w.at = "act"
                         /\ w.op = call[p].op
  BY <1>1, <1>2, GotoMoves DEF Places
<1>5. /\ cb.input_id < cb.output_id /\ list[p] # <<>> /\ call[p].op \in {"get", "pop"}
      /\ id \in Ids /\ id <= cb.output_id
  <2>1. /\ cb.input_id < cb.output_id /\ list[p] # <<>> /\ call[p].op \in {"get", "pop"}
        /\ cb.output_id <= MaxId /\ MaxId \in Nat
    BY <1>1, <1>2, BusAssumption DEF Fits, CBs, Ids
  <2> QED BY <1>1, <2>1 DEF Ids
<1>6. copy \in CBs /\ copy.input_id = id /\ copy.output_id = mine.output_id
  BY <1>1, <1>5 DEF CBs
<1>7. cb' \in CBs /\ cb'.input_id = id /\ cb'.output_id = cb.output_id
  BY <1>1, <1>2, <1>5, Raised
<1>8. /\ objs' \in Seq(Objects) /\ Len(objs) <= Len(objs')
      /\ dir' \in [Ids -> 0 .. Len(objs')] /\ list' = [list EXCEPT ![p] = l]
      /\ l \in Seq(Entries(objs')) /\ l # <<>>
      /\ Front(list[p]) # <<>> => l = Front(list[p])
  BY <1>2, <1>5, DropFits DEF Sound
<1> HIDE DEF copy, l
<1>9. Moves(p, copy, w, l)
  BY <1>3, <1>4, <1>8 DEF Moves
<1>10. Stored(cb', dir', objs') /\ History'
  <2>1. History'
    BY <1>2, SameHistory DEF Sound, History
  <2> QED BY <1>5, <1>7, <1>8, <2>1 DEF Stored
<1>11. Fits(p, sent', copy, w, l, cb', objs')
  <2>1. id <= cb'.input_id /\ mine.output_id <= cb'.output_id
    BY <1>1, <1>7 DEF Fits
  <2> HIDE DEF mine
  <2> QED BY <1>1, <1>2, <1>4, <1>5, <1>6, <1>8, <2>1 DEF Fits
<1>12. Sound'
  <2>1. cb.input_id <= cb'.input_id /\ cb.output_id <= cb'.output_id
    BY <1>1, <1>7
  <2>2. \A r \in Procs : ~(r # p /\ call[r].at = "shrink")
    BY <1>2 DEF Alone
  <2> QED BY <1>2, <1>8, <1>9, <1>10, <1>11, <2>1, <2>2, MovesSound
<1>13. ASSUME Serial PROVE Serial'
  <2>1. Follows(mine, call[p], list[p], cb) /\ \A r \in Busy : r = p
    BY <1>2, <1>13, BusyAlone
  <2>2. /\ mine.output_id = cb.output_id /\ mine.input_id = cb.input_id
        /\ IsWindow(list[p], cb.input_id, cb.output_id)
    BY <1>2, <2>1 DEF Follows
  <2>3. IsWindow(l, id, cb.output_id)
    <3>1. list[p] \in Seq(Entries(objs))
      BY Here
    <3>2. Front(list[p]) # <<>> /\ IsWindow(Front(list[p]), id, cb.output_id)
      BY <1>1, <1>5, <2>2, <3>1, WindowShrinks
    <3> QED BY <1>8, <3>2
  <2>4. Follows(copy, w, l, cb')
    BY <1>4, <1>5, <1>6, <2>2, <2>3 DEF Follows
  <2>5. p \in Busy
    BY <1>2 DEF Busy
  <2> QED BY <1>9, <1>13, <2>1, <2>4, <2>5, MovesSerial
<1> QED BY <1>12, <1>13 DEF Kept

(* Steps that change nothing but the call: a refused push, a push that     *)
(* fails, a get or pop that finds nothing, and the check before removing.  *)
LEMMA GoesKeeps ==
    ASSUME Sound, NEW p \in Procs, NEW to \in {"idle", "epoch", "grow", "shrink"},
           Goto(p, to), UNCHANGED <<shared, list, m_controlblock, sent, log, seen, fault>>,
           call[p].at \notin {"idle", "closed"},
           to = "grow" => call[p].op \in Pushing /\ call[p].at = "act",
           to = "shrink" => /\ call[p].at = "check"
                            /\ cb.input_id # cb.output_id
    PROVE  Kept
<1> DEFINE mine == m_controlblock[p]
<1>1. /\ mine \in CBs /\ call[p] \in Calls /\ cb \in CBs
      /\ Fits(p, sent, mine, call[p], list[p], cb, objs)
      /\ cb.input_id \in Nat /\ cb.output_id \in Nat
      /\ m_controlblock = [m_controlblock EXCEPT ![p] = mine]
  BY Here DEF Suits
<1>2. PICK w \in Calls : /\ call' = [call EXCEPT ![p] = w] /\ w.at = to
                         /\ to = "idle" => w.op = "none"
                         /\ to # "idle" => w.op = call[p].op
  BY <1>1, GotoMoves DEF Places
<1>3. to = "shrink" => cb.input_id < cb.output_id
  <2>1. cb.input_id <= cb.output_id
    BY DEF Sound, Stored
  <2> QED BY <1>1, <2>1
<1>4. Fits(p, sent', mine, w, list[p], cb, objs)
  <2>1. sent' = sent
    OBVIOUS
  <2> HIDE DEF mine
  <2> QED BY <1>1, <1>2, <1>3, <2>1 DEF Fits
<1>5. History' /\ \A r \in Producers : sent'[r] = sent[r]
  BY SameHistory DEF Sound, History
<1>6. ASSUME Serial
      PROVE  (\A r \in Busy : r = p) /\ Follows(mine, w, list[p], cb)
  <2>1. Follows(mine, call[p], list[p], cb) /\ \A r \in Busy : r = p
    BY <1>6, BusyAlone
  <2> QED BY <1>2, <2>1 DEF Follows
<1>7. m_controlblock' = [m_controlblock EXCEPT ![p] = mine] /\ UNCHANGED shared /\ list' = list
  BY <1>1
<1> QED BY <1>2, <1>4, <1>5, <1>6, <1>7, CallMoves
(* The front and the back of a list lead to objects.                       *)
LEMMA Connected ==
    ASSUME Sound, NEW p \in Procs, call[p].at # "closed"
    PROVE  /\ Output(p) \in 1 .. Len(objs) /\ Input(p) \in 1 .. Len(objs)
           /\ \A o \in 1 .. Len(objs) : objs[o].msgs \in Seq(Messages)
<1>1. list[p] \in Seq(Entries(objs)) /\ list[p] # <<>> /\ objs \in Seq(Objects)
  BY DEF Sound, Stored, Suits, Fits
<1>2. list[p][1] \in Entries(objs) /\ list[p][Len(list[p])] \in Entries(objs)
  BY <1>1
<1>3. Output(p) \in 1 .. Len(objs) /\ Input(p) \in 1 .. Len(objs)
  BY <1>2 DEF Output, Input, Last, Entries
<1>4. ASSUME NEW o \in 1 .. Len(objs) PROVE objs[o].msgs \in Seq(Messages)
  <2>1. objs[o] \in Objects
    BY <1>1
  <2> QED BY <2>1 DEF Objects
<1> QED BY <1>3, <1>4

(* Messages come and go in a connector.                                    *)
LEMMA MessagesChange ==
    ASSUME NEW s \in Seq(Objects), NEW o \in 1 .. Len(s), NEW ms \in Seq(Messages)
    PROVE  LET s2 == [s EXCEPT ![o].msgs = ms] IN s2 \in Seq(Objects) /\ Len(s2) = Len(s)
<1> DEFINE s2 == [s EXCEPT ![o].msgs = ms]
           x == [s[o] EXCEPT !.msgs = ms]
<1>1. s[o] \in Objects
  OBVIOUS
<1>2. x \in Objects
  BY <1>1 DEF Objects
<1>3. s2 = [s EXCEPT ![o] = x]
  OBVIOUS
<1> HIDE DEF x
<1>4. s2 \in Seq(Objects) /\ Len(s2) = Len(s)
  <2> HIDE DEF s2
  <2> QED BY <1>2, <1>3
<1> QED BY <1>4

(* A step of p that changes the messages of a connector and its call.      *)
LEMMA MessageMoves ==
    ASSUME Sound, NEW p \in Procs, call[p].at \notin {"idle", "closed"},
           UNCHANGED <<cb, dir, list, m_controlblock, sent, fault>>,
           NEW o \in 1 .. Len(objs), NEW ms \in Seq(Messages),
           objs' = [objs EXCEPT ![o].msgs = ms],
           log' \in Seq(Messages), seen' = seen,
           NEW w \in Calls, call' = [call EXCEPT ![p] = w],
           w.at \in {"idle", "epoch"}, w.at # "idle" => w.op # "none",
           w.op \in {"none", call[p].op}
             \/ (w.op = "pushed" /\ call[p].op \in Pushing)
    PROVE  Kept
<1> DEFINE mine == m_controlblock[p]
<1>1. /\ mine \in CBs /\ cb \in CBs /\ cb.input_id \in Nat /\ cb.output_id \in Nat
      /\ Fits(p, sent, mine, call[p], list[p], cb, objs)
      /\ m_controlblock = [m_controlblock EXCEPT ![p] = mine]
      /\ list = [list EXCEPT ![p] = list[p]]
  BY Here DEF Suits
<1>2. objs \in Seq(Objects) /\ dir \in [Ids -> 0 .. Len(objs)] /\ cb.input_id <= cb.output_id
  BY DEF Sound, Stored
<1>3. objs' \in Seq(Objects) /\ Len(objs') = Len(objs)
  BY <1>2, MessagesChange
<1>4. Len(objs) \in Nat
  BY <1>2
<1>5. Moves(p, mine, w, list[p])
  BY <1>1 DEF Moves
<1>6. Stored(cb', dir', objs') /\ History'
  <2>1. cb' = cb /\ dir' = dir /\ sent' = sent /\ fault' = fault /\ seen' = seen
    OBVIOUS
  <2>2. History'
    BY <2>1 DEF Sound, History
  <2> QED BY <1>1, <1>2, <1>3, <2>1, <2>2 DEF Stored
<1>7. Fits(p, sent', mine, w, list[p], cb', objs')
  <2>1. cb' = cb /\ sent' = sent
    OBVIOUS
  <2>2. Entries(objs') = Entries(objs)
    BY <1>3 DEF Entries
  <2> HIDE DEF mine
  <2> QED BY <1>1, <2>1, <2>2 DEF Fits
<1>8. Sound'
  <2>1. /\ Len(objs) <= Len(objs') /\ cb.input_id <= cb'.input_id
        /\ cb.output_id <= cb'.output_id
    BY <1>1, <1>3, <1>4
  <2>2. \A r \in Procs : (r # p /\ call[r].at = "shrink") => cb'.input_id < cb'.output_id
    BY DEF Sound, Suits, Fits
  <2>3. \A r \in Producers : r # p => sent'[r] = sent[r]
    OBVIOUS
  <2> QED BY <1>5, <1>6, <1>7, <2>1, <2>2, <2>3, MovesSound
<1>9. ASSUME Serial PROVE Serial'
  <2>1. Follows(mine, call[p], list[p], cb) /\ \A r \in Busy : r = p
    BY <1>9, BusyAlone
  <2>2. Follows(mine, w, list[p], cb')
    BY <2>1 DEF Follows
  <2> QED BY <1>5, <1>9, <2>1, <2>2, MovesSerial
<1> QED BY <1>8, <1>9 DEF Kept

(* output_connector()->push stores the message of the call.                *)
LEMMA PushStoresKeeps ==
    ASSUME Sound, NEW p \in Procs, PushStores(p)
    PROVE  Kept
<1> DEFINE o  == Output(p)
           m  == [from |-> p, n |-> sent[p]]
           ms == Append(objs[o].msgs, m)
           w  == [call[p] EXCEPT !.op = "pushed", !.at = "epoch"]
<1>1. /\ call[p].at = "act" /\ call[p].op \in Pushing
      /\ UNCHANGED <<cb, dir, list, m_controlblock, sent, seen, fault>>
      /\ objs' = [objs EXCEPT ![o].msgs = ms]
      /\ log' = IF call[p].op = "push" THEN Append(log, m) ELSE log
  BY DEF PushStores
<1>2. call' = [call EXCEPT ![p] = w]
  BY DEF PushStores, Sound
<1>3. call[p] \in Calls /\ p \in Producers /\ sent[p] \in 1 .. MaxSent /\ log \in Seq(Messages)
  <2>1. call[p] \in Calls /\ p \in Producers /\ sent[p] >= 1
    BY <1>1, Here DEF Suits, Fits
  <2>2. sent[p] \in 0 .. MaxSent /\ log \in Seq(Messages)
    BY <2>1 DEF Sound, History
  <2> QED BY <2>1, <2>2, BusAssumption
<1>4. m \in Messages
  BY <1>3 DEF Messages
<1>5. o \in 1 .. Len(objs) /\ objs[o].msgs \in Seq(Messages)
  BY <1>1, Connected
<1> HIDE DEF o, m
<1>6. ms \in Seq(Messages) /\ log' \in Seq(Messages)
  BY <1>1, <1>3, <1>4, <1>5
<1>7. w \in Calls /\ w.at = "epoch" /\ w.op = "pushed"
  BY <1>3 DEF Calls, Places
<1> HIDE DEF w, ms
<1> QED BY <1>1, <1>2, <1>5, <1>6, <1>7, MessageMoves

(* Removing a message from the log leaves a log.                           *)
LEMMA RemoveFirstStays ==
    ASSUME NEW s \in Seq(Messages), NEW m
    PROVE  RemoveFirst(s, m) \in Seq(Messages)
<1> DEFINE I == {i \in 1 .. Len(s) : s[i] = m}
<1>1. CASE I = {}
  <2>1. ~ \E i \in 1 .. Len(s) : s[i] = m
    BY <1>1
  <2> QED BY <2>1 DEF RemoveFirst
<1>2. CASE I # {}
  <2>1. \E i \in I : \A j \in I : i <= j
    <3>1. I \subseteq Nat
      OBVIOUS
    <3> HIDE DEF I
    <3> QED BY <1>2, <3>1, LeastNumber
  <2>2. Min(I) \in I
    BY <2>1 DEF Min
  <2>3. PICK i \in 1 .. Len(s) : RemoveFirst(s, m) = RemoveAt(s, i)
    BY <1>2, <2>2 DEF RemoveFirst, SelectInSeq
  <2>4. SubSeq(s, 1, i - 1) \in Seq(Messages) /\ SubSeq(s, i + 1, Len(s)) \in Seq(Messages)
    OBVIOUS
  <2> QED BY <2>3, <2>4 DEF RemoveAt
<1> QED BY <1>1, <1>2

(* input_connector()->pop removes a message.                               *)
LEMMA PopFindsKeeps ==
    ASSUME Sound, NEW p \in Procs, PopFinds(p)
    PROVE  Kept
<1> DEFINE o  == Input(p)
           ms == Tail(objs[o].msgs)
<1>1. /\ call[p].at = "act" /\ call[p].op = "pop" /\ objs[o].msgs # <<>>
      /\ UNCHANGED <<cb, dir, list, m_controlblock, sent, seen, fault>>
      /\ objs' = [objs EXCEPT ![o].msgs = ms]
      /\ log' = RemoveFirst(log, Head(objs[o].msgs)) /\ Goto(p, "idle")
  BY DEF PopFinds
<1>2. call[p] \in Calls /\ log \in Seq(Messages)
  BY Here DEF Sound, History
<1>3. PICK w \in Calls : call' = [call EXCEPT ![p] = w] /\ w.at = "idle" /\ w.op = "none"
  BY <1>1, <1>2, GotoMoves DEF Places
<1>4. o \in 1 .. Len(objs) /\ objs[o].msgs \in Seq(Messages)
  BY <1>1, Connected
<1> HIDE DEF o
<1>5. ms \in Seq(Messages)
  BY <1>1, <1>4
<1>6. log' \in Seq(Messages)
  BY <1>1, <1>2, RemoveFirstStays
<1> HIDE DEF ms
<1> QED BY <1>1, <1>3, <1>4, <1>5, <1>6, MessageMoves

(* input_connector()->get returns a message.                               *)
LEMMA GetFindsKeeps ==
    ASSUME Sound, NEW p \in Procs, GetFinds(p)
    PROVE  Kept
<1> DEFINE mine == m_controlblock[p]
           o    == Input(p)
           m    == Head(objs[o].msgs)
<1>1. /\ call[p].at = "act" /\ objs[o].msgs # <<>> /\ Goto(p, "idle")
      /\ UNCHANGED shared /\ list' = list /\ m_controlblock' = m_controlblock
      /\ sent' = sent /\ log' = log /\ fault' = fault
      /\ seen' = [seen EXCEPT ![m.from] = m.n]
  BY DEF GetFinds
<1>2. /\ mine \in CBs /\ call[p] \in Calls
      /\ Fits(p, sent, mine, call[p], list[p], cb, objs)
      /\ m_controlblock = [m_controlblock EXCEPT ![p] = mine]
  BY Here DEF Suits
<1>3. PICK w \in Calls : call' = [call EXCEPT ![p] = w] /\ w.at = "idle" /\ w.op = "none"
  BY <1>1, <1>2, GotoMoves DEF Places
<1>4. o \in 1 .. Len(objs) /\ objs[o].msgs \in Seq(Messages)
  BY <1>1, Connected
<1>5. m \in Messages
  <2> HIDE DEF o
  <2> QED BY <1>1, <1>4
<1> HIDE DEF m, mine
<1>6. History'
  <2>1. m.from \in Producers /\ m.n \in 0 .. MaxSent
    BY <1>5 DEF Messages
  <2> QED BY <1>1, <2>1 DEF Sound, History
<1>7. Fits(p, sent', mine, w, list[p], cb, objs)
  BY <1>1, <1>2, <1>3 DEF Fits
<1>8. ASSUME Serial PROVE Follows(mine, w, list[p], cb)
  <2>1. Follows(mine, call[p], list[p], cb)
    BY <1>1, <1>8, BusyAlone DEF mine
  <2> QED BY <1>1, <1>3, <2>1 DEF Follows
<1>9. m_controlblock' = [m_controlblock EXCEPT ![p] = mine]
  BY <1>1, <1>2
<1> QED BY <1>1, <1>3, <1>6, <1>7, <1>8, <1>9, CallMoves
(* The steps that only decide where a call goes on.                        *)
LEMMA OtherStepsKeep ==
    ASSUME Sound, NEW p \in Procs,
           PushRefused(p) \/ PushFails(p) \/ FindsNothing(p) \/ can_remove_connector(p)
    PROVE  Kept
<1>1. CASE PushRefused(p)
  BY <1>1, GoesKeeps DEF PushRefused, hist
<1>2. CASE PushFails(p)
  BY <1>2, GoesKeeps DEF PushFails, hist
<1>3. CASE FindsNothing(p)
  BY <1>3, GoesKeeps DEF FindsNothing, hist
<1>4. CASE can_remove_connector(p)
  <2> DEFINE to == IF cb.input_id # cb.output_id THEN "shrink" ELSE "idle"
  <2>1. /\ call[p].at = "check" /\ Goto(p, to)
        /\ UNCHANGED <<shared, list, m_controlblock, sent, log, seen, fault>>
    BY <1>4 DEF can_remove_connector
  <2>2. to \in {"idle", "epoch", "grow", "shrink"} /\ to # "grow"
        /\ (to = "shrink" => cb.input_id # cb.output_id)
    OBVIOUS
  <2> HIDE DEF to
  <2> QED BY <2>1, <2>2, GoesKeeps
<1> QED BY <1>1, <1>2, <1>3, <1>4

(* A call begins, alone or with a fault.                                   *)
LEMMA BeginKeeps ==
    ASSUME Sound, NEW p \in Procs, NEW op, NEW to, Begin(p, op, to),
           \/ op = "push" /\ to = "epoch" /\ p \in Producers
                /\ sent[p] < MaxSent /\ sent' = [sent EXCEPT ![p] = @ + 1]
           \/ op \in {"get", "pop"} /\ to = "act" /\ p \in Consumers /\ sent' = sent
    PROVE  Kept
<1> DEFINE mine == m_controlblock[p]
           w    == [call[p] EXCEPT !.op = op, !.at = to]
<1>1. /\ mine \in CBs /\ call[p] \in Calls
      /\ Fits(p, sent, mine, call[p], list[p], cb, objs)
      /\ m_controlblock = [m_controlblock EXCEPT ![p] = mine]
  BY Here DEF Suits
<1>2. /\ call[p].at = "idle" /\ fault' = (fault \/ Busy # {}) /\ UNCHANGED shared
      /\ list' = list /\ log' = log /\ seen' = seen
      /\ m_controlblock' = [m_controlblock EXCEPT ![p] = mine]
  BY <1>1 DEF Begin
<1>3. call' = [call EXCEPT ![p] = w]
  BY DEF Begin, Sound
<1>4. w \in Calls /\ w.at = to /\ w.op = op
  BY <1>1 DEF Calls, Places
<1> HIDE DEF w
<1>5. /\ sent' \in [Producers -> 0 .. MaxSent]
      /\ \A r \in Producers : r # p => sent'[r] = sent[r]
      /\ op = "push" => sent'[p] >= 1
  <2>1. sent \in [Producers -> 0 .. MaxSent] /\ MaxSent \in Nat
    BY BusAssumption DEF Sound, History
  <2>2. CASE op = "push" /\ p \in Producers /\ sent[p] < MaxSent
             /\ sent' = [sent EXCEPT ![p] = @ + 1]
    <3>1. sent[p] + 1 \in 0 .. MaxSent /\ sent[p] + 1 >= 1
      BY <2>1, <2>2
    <3> DEFINE x == sent[p] + 1
    <3>2. sent' = [sent EXCEPT ![p] = x]
      BY <2>2
    <3> HIDE DEF x
    <3>3. sent' \in [Producers -> 0 .. MaxSent] /\ sent'[p] = x
          /\ \A r \in Producers : r # p => sent'[r] = sent[r]
      BY <2>1, <2>2, <3>1, <3>2 DEF x
    <3> QED BY <3>1, <3>3 DEF x
  <2>3. CASE op \in {"get", "pop"} /\ sent' = sent
    BY <2>1, <2>3
  <2> QED BY <2>2, <2>3
<1>6. History'
  <2>1. fault' \in BOOLEAN
    BY <1>2
  <2> QED BY <1>2, <1>5, <2>1 DEF Sound, History
<1>7. Fits(p, sent', mine, w, list[p], cb, objs)
  BY <1>1, <1>2, <1>4, <1>5 DEF Fits
<1>8. ASSUME Serial, ~fault'
      PROVE  (\A r \in Busy : r = p) /\ Follows(mine, w, list[p], cb)
  <2>1. Busy = {}
    BY <1>2, <1>8
  <2>2. Follows(mine, call[p], list[p], cb)
    BY <1>8 DEF Serial
  <2> QED BY <1>2, <1>4, <2>1, <2>2 DEF Follows
<1> QED BY <1>2, <1>3, <1>5, <1>6, <1>7, <1>8, CallMoves

(* do_open brings a list that is the window of the shared control block.   *)
LEMMA OpenSucceeds ==
    ASSUME Sound, NEW p \in Procs, Open(p), Opened.ok
    PROVE  Kept
<1> DEFINE l == Opened.list
<1>1. /\ call[p] \in Calls /\ cb \in CBs /\ cb.input_id \in Nat /\ cb.output_id \in Nat
      /\ cb.input_id <= cb.output_id /\ Stored(cb, dir, objs)
      /\ list \in [Procs -> Seq(Entries(objs))]
  BY Here DEF Sound, Stored
<1>2. /\ call[p].at = "closed" /\ Opened.ok /\ Install(p, Opened) /\ Goto(p, "idle")
      /\ m_controlblock' = [m_controlblock EXCEPT ![p] = cb]
      /\ cb' = cb /\ sent' = sent /\ log' = log /\ seen' = seen /\ fault' = fault
  BY DEF Open
<1>3. /\ dir' = Opened.dir /\ objs' = Opened.objs /\ list' = [list EXCEPT ![p] = l]
  BY <1>2 DEF Install
<1>4. Opening(Opened, cb.output_id)
  BY <1>1, OpenedFits
<1>5. /\ objs' \in Seq(Objects) /\ Len(objs) <= Len(objs')
      /\ dir' \in [Ids -> 0 .. Len(objs')] /\ l \in Seq(Entries(objs'))
      /\ IsWindow(l, cb.input_id, cb.output_id)
  BY <1>2, <1>3, <1>4 DEF Opening
<1> HIDE DEF l
<1>6. l # <<>>
  <2>1. Len(l) >= 1
    BY <1>1, <1>5 DEF IsWindow
  <2> QED BY <1>5, <2>1, LongIsNotEmpty
<1>7. PICK w \in Calls : call' = [call EXCEPT ![p] = w] /\ w.at = "idle" /\ w.op = "none"
  BY <1>1, <1>2, GotoMoves DEF Places
<1>8. Moves(p, cb, w, l)
  BY <1>2, <1>3, <1>7 DEF Moves
<1>9. Stored(cb', dir', objs') /\ History'
  <2>1. History'
    BY <1>2, SameHistory DEF Sound, History
  <2> QED BY <1>1, <1>2, <1>5, <2>1 DEF Stored
<1>10. cb.input_id <= cb'.input_id /\ cb.output_id <= cb'.output_id
  BY <1>1, <1>2
<1>11. Fits(p, sent', cb, w, l, cb', objs')
  BY <1>1, <1>2, <1>5, <1>6, <1>7, <1>10 DEF Fits
<1>12. Sound'
  <2>1. \A r \in Procs : (r # p /\ call[r].at = "shrink") => cb'.input_id < cb'.output_id
    BY <1>2 DEF Sound, Suits, Fits
  <2> QED BY <1>2, <1>5, <1>8, <1>9, <1>10, <1>11, <2>1, MovesSound
<1>13. ASSUME Serial PROVE Serial'
  <2>1. Follows(cb, w, l, cb')
    BY <1>1, <1>5, <1>7 DEF Follows
  <2> QED BY <1>2, <1>7, <1>8, <1>13, <2>1, MovesSerial
<1> QED BY <1>12, <1>13 DEF Kept

(* Names that a process takes away lead nowhere.                           *)
LEMMA ClearedNames ==
    ASSUME NEW n \in Nat, NEW d \in [Ids -> 0 .. n], NEW l
    PROVE  Cleared(d, l) \in [Ids -> 0 .. n]
<1>1. 0 \in 0 .. n /\ \A i \in Ids : d[i] \in 0 .. n
  OBVIOUS
<1> QED BY <1>1 DEF Cleared

(* do_open that fails takes its names away: a fault.                       *)
LEMMA OpenFails ==
    ASSUME Sound, NEW p \in Procs, Open(p), ~Opened.ok
    PROVE  Kept
<1>1. /\ dir' = Cleared(Opened.dir, Opened.list) /\ objs' = Opened.objs
      /\ cb' = cb /\ sent' = sent /\ log' = log /\ seen' = seen /\ fault' = TRUE
      /\ UNCHANGED <<list, m_controlblock, call>>
  BY DEF Open, local
<1>2. /\ cb \in CBs /\ objs \in Seq(Objects) /\ cb.input_id \in Nat /\ cb.output_id \in Nat
      /\ cb.input_id <= cb.output_id /\ Stored(cb, dir, objs) /\ call \in [Procs -> Calls]
      /\ Fits(p, sent, m_controlblock[p], call[p], list[p], cb, objs)
  BY Here DEF Sound, Stored, Suits
<1>3. Opening(Opened, cb.output_id)
  BY <1>2, OpenedFits
<1>4. /\ objs' \in Seq(Objects) /\ Len(objs) <= Len(objs') /\ Len(objs') \in Nat
      /\ Opened.dir \in [Ids -> 0 .. Len(objs')]
  BY <1>1, <1>3 DEF Opening
<1>5. dir' \in [Ids -> 0 .. Len(objs')]
  BY <1>1, <1>4, ClearedNames
<1>6. Stored(cb', dir', objs') /\ History'
  BY <1>1, <1>2, <1>4, <1>5, SameHistory DEF Stored
<1>7. cb.input_id <= cb'.input_id /\ cb.output_id <= cb'.output_id
  BY <1>1, <1>2
<1>8. \A r \in Procs : call[r].at = "shrink" => cb'.input_id < cb'.output_id
  BY <1>1 DEF Sound, Suits, Fits
<1>9. Fits(p, sent', m_controlblock[p], call[p], list[p], cb', objs')
  <2>1. Fits(p, sent, m_controlblock[p], call[p], list[p], cb', objs')
    BY <1>1, <1>2, <1>4, <1>7, <1>8, FitsGrows
  <2> QED BY <1>1, <2>1
<1>10. Moves(p, m_controlblock[p], call[p], list[p])
  BY <1>1, <1>2, Here DEF Moves
<1>11. Sound'
  BY <1>1, <1>4, <1>6, <1>7, <1>8, <1>9, <1>10, MovesSound
<1> QED BY <1>1, <1>11 DEF Kept

(* do_open, whether it finds the connectors or not.                        *)
LEMMA OpenKeeps ==
    ASSUME Sound, NEW p \in Procs, Open(p)
    PROVE  Kept
BY OpenSucceeds, OpenFails

(* The destructors drop the list and the names: a fault.                   *)
LEMMA CloseKeeps ==
    ASSUME Sound, NEW p \in Procs, Close(p)
    PROVE  Kept
<1> DEFINE w == Outside("closed")
<1>1. /\ cb \in CBs /\ cb.input_id \in Nat /\ cb.output_id \in Nat
      /\ objs \in Seq(Objects) /\ dir \in [Ids -> 0 .. Len(objs)]
      /\ cb.input_id <= cb.output_id
  BY Here DEF Sound, Stored
<1>2. /\ dir' = Cleared(dir, list[p])
      /\ cb' = cb /\ objs' = objs /\ sent' = sent /\ log' = log /\ seen' = seen
      /\ fault' = TRUE /\ Moves(p, Created, w, <<>>)
  BY DEF Close, Moves
<1>3. Len(objs) \in Nat
  BY <1>1
<1>4. dir' \in [Ids -> 0 .. Len(objs)]
  BY <1>1, <1>2, <1>3, ClearedNames
<1>5. Stored(cb', dir', objs') /\ History'
  BY <1>1, <1>2, <1>4, SameHistory DEF Stored
<1>6. /\ Created \in CBs /\ Created.input_id = 0 /\ Created.output_id = 0
      /\ w \in Calls /\ w.at = "closed" /\ w.op = "none"
  <2>1. 0 \in Ids
    BY BusAssumption DEF Ids
  <2> QED BY <2>1 DEF Created, CBs, Outside, Calls, Places
<1> HIDE DEF w
<1>7. Fits(p, sent', Created, w, <<>>, cb', objs')
  BY <1>1, <1>2, <1>6 DEF Fits
<1>8. Sound'
  <2>1. /\ Len(objs) <= Len(objs') /\ cb.input_id <= cb'.input_id
        /\ cb.output_id <= cb'.output_id
    BY <1>1, <1>2, <1>3
  <2>2. \A r \in Procs : (r # p /\ call[r].at = "shrink") => cb'.input_id < cb'.output_id
    BY <1>2 DEF Sound, Suits, Fits
  <2> QED BY <1>2, <1>5, <1>7, <2>1, <2>2, MovesSound
<1> QED BY <1>2, <1>8 DEF Kept
-----------------------------------------------------------------------------
(* Every step of the bus.                                                  *)
LEMMA BusStep ==
    ASSUME Sound, Alone, BusNext
    PROVE  Kept
<1>1. ASSUME NEW p \in Procs, Open(p) PROVE Kept
  BY <1>1, OpenKeeps
<1>2. ASSUME NEW p \in Procs, Close(p) PROVE Kept
  BY <1>2, CloseKeeps
<1>3. ASSUME NEW p \in Procs, Step(p) PROVE Kept
  <2>1. CASE is_updated(p)
    BY <2>1, isUpdatedKeeps
  <2>2. CASE ReadOutputId(p)
    BY <2>2, ReadOutputIdKeeps
  <2>3. CASE AddKnown(p)
    BY <2>3, AddKnownKeeps
  <2>4. CASE AddGivesUp(p)
    BY <2>4, AddGivesUpKeeps
  <2>5. CASE RemoveKnown(p)
    BY <2>5, RemoveKnownKeeps
  <2>6. CASE PushStores(p)
    BY <2>6, PushStoresKeeps
  <2>7. CASE Grow(p)
    BY <2>7, GrowKeeps
  <2>8. CASE GetFinds(p)
    BY <2>8, GetFindsKeeps
  <2>9. CASE PopFinds(p)
    BY <2>9, PopFindsKeeps
  <2>10. CASE Shrink(p)
    BY <2>10, ShrinkKeeps
  <2>11. CASE PushRefused(p) \/ PushFails(p) \/ FindsNothing(p) \/ can_remove_connector(p)
    BY <2>11, OtherStepsKeep
  <2> QED BY <1>3, <2>1, <2>2, <2>3, <2>4, <2>5, <2>6, <2>7, <2>8, <2>9, <2>10, <2>11
          DEF Step
<1>4. ASSUME NEW p \in Producers, BeginPush(p) PROVE Kept
  BY <1>4, BeginKeeps DEF BeginPush, Procs
<1>5. ASSUME NEW c \in Consumers, BeginGet(c) \/ BeginPop(c) PROVE Kept
  BY <1>5, BeginKeeps DEF BeginGet, BeginPop, Procs
<1> QED BY <1>1, <1>2, <1>3, <1>4, <1>5 DEF BusNext

(* A fault is remembered.                                                  *)
LEMMA FaultStays ==
    ASSUME BusNext, fault \in BOOLEAN
    PROVE  fault' \in BOOLEAN /\ (fault => fault')
<1> DEFINE Stays == fault' = fault \/ fault' = TRUE
<1>1. ASSUME NEW p \in Procs, Open(p) \/ Close(p) PROVE Stays
  BY <1>1 DEF Open, Close
<1>2. ASSUME NEW p \in Procs, Step(p) PROVE Stays \/ fault' = (fault \/ IdsDiffer(p))
  <2>1. CASE is_updated(p)
    BY <2>1 DEF is_updated
  <2>2. CASE ReadOutputId(p) \/ AddKnown(p) \/ AddGivesUp(p) \/ RemoveKnown(p)
    BY <2>2 DEF ReadOutputId, AddKnown, AddGivesUp, RemoveKnown, hist
  <2>3. CASE PushStores(p) \/ PushRefused(p) \/ Grow(p) \/ PushFails(p)
    BY <2>3 DEF PushStores, PushRefused, Grow, PushFails, hist
  <2>4. CASE GetFinds(p) \/ PopFinds(p) \/ FindsNothing(p)
    BY <2>4 DEF GetFinds, PopFinds, FindsNothing, hist
  <2>5. CASE can_remove_connector(p) \/ Shrink(p)
    BY <2>5 DEF can_remove_connector, Shrink, hist
  <2> QED BY <1>2, <2>1, <2>2, <2>3, <2>4, <2>5 DEF Step
<1>3. ASSUME NEW p \in Procs, BeginPush(p) \/ BeginGet(p) \/ BeginPop(p)
      PROVE  fault' = (fault \/ Busy # {})
  BY <1>3 DEF BeginPush, BeginGet, BeginPop, Begin
<1>4. \E x \in BOOLEAN : Stays \/ fault' = (fault \/ x)
  <2>1. ASSUME NEW p \in Procs, fault' = (fault \/ IdsDiffer(p))
        PROVE  \E x \in BOOLEAN : fault' = (fault \/ x)
    BY <2>1
  <2>2. ASSUME fault' = (fault \/ Busy # {})
        PROVE  \E x \in BOOLEAN : fault' = (fault \/ x)
    BY <2>2
  <2> QED BY <1>1, <1>2, <1>3, <2>1, <2>2 DEF BusNext, Procs
<1>5. PICK x \in BOOLEAN : Stays \/ fault' = (fault \/ x)
  BY <1>4
<1>6. CASE fault = TRUE
  BY <1>5, <1>6
<1>7. CASE fault = FALSE
  BY <1>5, <1>7
<1> QED BY <1>6, <1>7

(* With one consumer, or without overlapping calls, one process at most is *)
(* about to remove a connector.                                            *)
LEMMA AloneHolds ==
    ASSUME Sound, OneConsumer \/ Serial
    PROVE  Alone
<1>1. CASE OneConsumer
  <2>1. ASSUME NEW c \in Procs, call[c].at = "shrink" PROVE c \in Consumers
    BY <2>1 DEF Sound, Suits, Fits
  <2> QED BY <1>1, <2>1 DEF Alone, OneConsumer
<1>2. CASE Serial
  BY <1>2 DEF Alone, Serial, Busy
<1> QED BY <1>1, <1>2

(* create leaves a chain of one connector.                                 *)
LEMMA BusStarts ==
    ASSUME BusInit
    PROVE  Sound /\ Serial
<1>1. 0 \in Ids /\ MaxSent \in Nat /\ 1 \in DOMAIN Rooms /\ Creator \in Procs
  BY BusAssumption DEF Ids
<1>2. /\ cb = Created /\ dir = [i \in Ids |-> IF i = 0 THEN 1 ELSE 0]
      /\ objs = <<[level |-> 1, msgs |-> <<>>]>>
      /\ list = [p \in Procs |-> IF p = Creator THEN <<Entry(0, 1)>> ELSE <<>>]
      /\ m_controlblock = [p \in Procs |-> cb]
      /\ call = [p \in Procs |-> Outside(IF p = Creator THEN "idle" ELSE "closed")]
      /\ sent = [p \in Producers |-> 0] /\ log = <<>> /\ seen = [p \in Producers |-> 0]
      /\ fault = FALSE
  BY DEF BusInit
<1>3. Created \in CBs /\ Created.input_id = 0 /\ Created.output_id = 0
  BY <1>1 DEF Created, CBs
<1>4. objs \in Seq(Objects) /\ Len(objs) = 1
  <2>1. [level |-> 1, msgs |-> <<>>] \in Objects
    BY <1>1 DEF Objects
  <2> QED BY <1>2, <2>1
<1>5. Entry(0, 1) \in Entries(objs) /\ Entry(0, 1).id = 0
  BY <1>1, <1>4 DEF Entry, Entries
<1>6. Stored(cb, dir, objs)
  <2>1. dir \in [Ids -> 0 .. 1]
    BY <1>2
  <2> QED BY <1>2, <1>3, <1>4, <2>1 DEF Stored
<1>7. History
  <2>1. 0 \in 0 .. MaxSent
    BY <1>1
  <2>2. sent \in [Producers -> 0 .. MaxSent] /\ seen \in [Producers -> 0 .. MaxSent]
    BY <1>2, <2>1
  <2>3. <<>> \in Seq(Messages)
    OBVIOUS
  <2>4. log \in Seq(Messages)
    BY <1>2, <2>3
  <2>5. fault \in BOOLEAN
    BY <1>2
  <2> QED BY <2>2, <2>4, <2>5 DEF History
<1>8. ASSUME NEW p \in Procs
      PROVE  /\ m_controlblock[p] = cb
             /\ call[p] \in Calls /\ call[p].op = "none"
             /\ call[p].at = IF p = Creator THEN "idle" ELSE "closed"
             /\ list[p] = IF p = Creator THEN <<Entry(0, 1)>> ELSE <<>>
             /\ list[p] \in Seq(Entries(objs))
  <2>1. Outside("idle") \in Calls /\ Outside("closed") \in Calls
    BY <1>1 DEF Outside, Calls, Places
  <2>2. list[p] = IF p = Creator THEN <<Entry(0, 1)>> ELSE <<>>
    BY <1>2
  <2>3. list[p] \in Seq(Entries(objs))
    <3> DEFINE e == Entry(0, 1)
    <3>1. e \in Entries(objs) /\ list[p] = IF p = Creator THEN <<e>> ELSE <<>>
      BY <1>5, <2>2
    <3> HIDE DEF e
    <3> QED BY <3>1
  <2>4. call[p] = Outside(IF p = Creator THEN "idle" ELSE "closed") /\ m_controlblock[p] = cb
    BY <1>2
  <2>5. /\ Outside("idle").at = "idle" /\ Outside("idle").op = "none"
        /\ Outside("closed").at = "closed" /\ Outside("closed").op = "none"
    BY DEF Outside
  <2>6. CASE p = Creator
    BY <2>1, <2>2, <2>3, <2>4, <2>5, <2>6
  <2>7. CASE p # Creator
    BY <2>1, <2>2, <2>3, <2>4, <2>5, <2>7
  <2> QED BY <2>6, <2>7
<1>9. ASSUME NEW p \in Procs PROVE Suits(p)
  <2>1. call[p].at # "closed" => list[p] # <<>>
    BY <1>8
  <2>2. call[p].at \in {"idle", "closed"}
    BY <1>8
  <2> QED BY <1>2, <1>3, <1>8, <2>1, <2>2 DEF Suits, Fits
<1>10. Sound
  <2>1. m_controlblock \in [Procs -> CBs]
    BY <1>2, <1>3
  <2>2. call = [p \in Procs |-> call[p]] /\ list = [p \in Procs |-> list[p]]
    BY <1>2
  <2>3. call \in [Procs -> Calls] /\ list \in [Procs -> Seq(Entries(objs))]
    BY <1>8, <2>2
  <2> QED BY <1>6, <1>7, <1>9, <2>1, <2>3 DEF Sound
<1>11. ASSUME NEW p \in Procs
       PROVE  Follows(m_controlblock[p], call[p], list[p], cb)
  <2>1. call[p].at # "closed" => IsWindow(list[p], 0, 0)
    <3> SUFFICES ASSUME p = Creator PROVE IsWindow(list[p], 0, 0)
      BY <1>8
    <3> DEFINE e == Entry(0, 1)
    <3>1. list[p] = <<e>> /\ e.id = 0
      BY <1>5, <1>8
    <3> HIDE DEF e
    <3> QED BY <3>1 DEF IsWindow
  <2>2. call[p].at \in {"idle", "closed"}
    BY <1>8
  <2> QED BY <1>2, <1>3, <1>8, <2>1, <2>2 DEF Follows
<1>12. Busy = {}
  BY <1>8 DEF Busy
<1> QED BY <1>10, <1>11, <1>12 DEF Serial

(* The chain is sound with one consumer or without a fault, and calls are  *)
(* serial without a fault.                                                 *)
THEOREM BusInvariant == BusSpec => []BusInv
<1>1. BusInit => BusInv
  BY BusStarts DEF BusInv, Sound, History
<1>2. ASSUME BusInv, [BusNext]_busVars PROVE BusInv'
  <2>1. CASE BusNext
    <3>0. fault \in BOOLEAN
      BY <1>2 DEF BusInv
    <3>1. fault' \in BOOLEAN
      BY <2>1, <3>0, FaultStays
    <3>2. ~fault' => ~fault
      BY <2>1, <3>0, FaultStays
    <3>3. (OneConsumer \/ ~fault') => Sound' /\ (~fault' => Serial')
      <4> SUFFICES ASSUME OneConsumer \/ ~fault' PROVE Sound' /\ (~fault' => Serial')
        OBVIOUS
      <4>1. Sound /\ Alone /\ (~fault' => Serial)
        BY <1>2, <3>2, AloneHolds DEF BusInv
      <4> QED BY <2>1, <4>1, BusStep DEF Kept
    <3>4. OneConsumer' = OneConsumer
      BY DEF OneConsumer
    <3> QED BY <3>1, <3>3, <3>4 DEF BusInv
  <2>2. CASE UNCHANGED busVars
    BY <1>2, <2>2 DEF busVars, shared, local, hist, BusInv, OneConsumer, Sound, Stored,
       Suits, Fits, History, Serial, Follows, Busy, IsWindow, Entries
  <2> QED BY <1>2, <2>1, <2>2
<1> QED BY <1>1, <1>2, PTL DEF BusSpec

(* What Sound says of the types.                                           *)
LEMMA SoundChain ==
    ASSUME Sound
    PROVE  ChainIsSound
<1>1. /\ cb \in CBs /\ m_controlblock \in [Procs -> CBs] /\ cb.input_id <= cb.output_id
      /\ objs \in Seq(Objects) /\ dir \in [Ids -> 0 .. Len(objs)]
      /\ call \in [Procs -> Calls] /\ list \in [Procs -> Seq(Entries(objs))]
      /\ log \in Seq(Messages) /\ seen \in [Producers -> 0 .. MaxSent] /\ fault \in BOOLEAN
  BY DEF Sound, Stored, History
<1>2. DOMAIN objs = 1 .. Len(objs)
  BY <1>1
<1>3. ASSUME NEW o \in DOMAIN objs
      PROVE  objs[o].level \in DOMAIN Rooms /\ objs[o].msgs \in Seq(Messages)
  <2>1. objs[o] \in Objects
    BY <1>1, <1>2
  <2> QED BY <2>1 DEF Objects
<1>4. ASSUME NEW p \in Procs PROVE list[p] \in Seq([id : Ids, obj : DOMAIN objs])
  BY <1>1, <1>2 DEF Entries
<1>5. BusTypeOK
  BY <1>1, <1>3, <1>4 DEF BusTypeOK, Calls, Places
<1>6. ASSUME NEW p \in Procs, call[p].at # "closed" PROVE list[p] # <<>>
  BY <1>6 DEF Sound, Suits, Fits
<1> QED BY <1>1, <1>5, <1>6 DEF ChainIsSound

(* With one consumer the chain is sound whatever overlaps: the id to get   *)
(* from never passes the one to push to, although can_remove_connector     *)
(* looks at them without the lock and remove_connector does not look       *)
(* again, and no process is left with an empty list.  (Two consumers may   *)
(* both pass the check and both remove.)                                   *)
THEOREM ChainStaysSound ==
    ASSUME OneConsumer
    PROVE  BusSpec => []ChainIsSound
<1>1. BusInv => ChainIsSound
  BY SoundChain DEF BusInv
<1> QED BY <1>1, BusInvariant, PTL

(* Any number of producers and consumers whose calls do not overlap and    *)
(* whose updates are neither missed nor given up hold exactly the          *)
(* connectors of their copy of the control block: base_bus's               *)
(* add_connector and remove_connector and update_connectors keep list and  *)
(* copy together.                                                          *)
THEOREM ListsAreWindows == BusSpec => []ListIsWindow
<1>1. BusInv => ListIsWindow
  BY DEF BusInv, Serial, Follows, IsWindow, ListIsWindow
<1> QED BY <1>1, BusInvariant, PTL
-----------------------------------------------------------------------------
(* Joining nothing.                                                        *)
LEMMA JoinNothing ==
    ASSUME NEW V, NEW s \in Seq(V)
    PROVE  s \o <<>> = s /\ <<>> \o s = s
OBVIOUS

(* A message at the end of the second of two sequences.                    *)
LEMMA JoinAppend ==
    ASSUME NEW V, NEW s \in Seq(V), NEW t \in Seq(V), NEW m \in V
    PROVE  s \o Append(t, m) = Append(s \o t, m)
<1> DEFINE x == s \o Append(t, m)
           y == Append(s \o t, m)
<1>1. x \in Seq(V) /\ y \in Seq(V)
  OBVIOUS
<1>2. Len(x) = Len(s) + Len(t) + 1 /\ Len(y) = Len(s) + Len(t) + 1
  OBVIOUS
<1>3. ASSUME NEW k \in 1 .. Len(s) + Len(t) + 1 PROVE x[k] = y[k]
  <2>1. CASE k <= Len(s)
    BY <2>1
  <2>2. CASE k > Len(s) /\ k <= Len(s) + Len(t)
    BY <2>2
  <2>3. CASE k = Len(s) + Len(t) + 1
    BY <2>3
  <2> QED BY <2>1, <2>2, <2>3
<1> HIDE DEF x, y
<1>4. x = y
  BY <1>1, <1>2, <1>3
<1> QED BY <1>4 DEF x, y

(* The first of a joined sequence is the first of its first part.          *)
LEMMA JoinTail ==
    ASSUME NEW V, NEW s \in Seq(V), NEW t \in Seq(V), s # <<>>
    PROVE  /\ s \o t # <<>> /\ Head(s \o t) = Head(s)
           /\ Tail(s \o t) = Tail(s) \o t
<1> DEFINE x == Tail(s \o t)
           y == Tail(s) \o t
<1>0. s \o t \in Seq(V) /\ Len(s \o t) = Len(s) + Len(t) /\ Len(s) >= 1
  OBVIOUS
<1>1. s \o t # <<>> /\ Head(s \o t) = Head(s)
  BY <1>0
<1>2. /\ x \in Seq(V) /\ y \in Seq(V)
      /\ Len(x) = Len(s) + Len(t) - 1 /\ Len(y) = Len(s) + Len(t) - 1
  BY <1>0, <1>1
<1>3. ASSUME NEW k \in 1 .. Len(s) + Len(t) - 1 PROVE x[k] = y[k]
  <2>0. x[k] = (s \o t)[k + 1]
    BY <1>0, <1>1, <1>2
  <2>1. CASE k <= Len(s) - 1
    BY <1>0, <2>0, <2>1
  <2>2. CASE k > Len(s) - 1
    BY <1>0, <2>0, <2>2
  <2> QED BY <1>0, <2>1, <2>2
<1> HIDE DEF x, y
<1>4. x = y
  BY <1>2, <1>3
<1> QED BY <1>1, <1>4 DEF x, y

(* What FlattenSeq computes, step by step.                                 *)
LEMMA FlattenJoins ==
    ASSUME NEW V, NEW n \in Nat, n >= 1, NEW s \in Seq(Seq(V)), Len(s) = n,
           NEW J \in [0 .. n -> Seq(V)], J[0] = <<>>,
           \A k \in 1 .. n : J[k] = J[k - 1] \o s[k]
    PROVE  FlattenSeq(s) = J[n]
<1> DEFINE Body(f, i) == IF i = 1 THEN s[i] ELSE f[i - 1] \o s[i]
           flatten == CHOOSE f : f = [i \in 1 .. Len(s) |-> Body(f, i)]
<1>1. FlattenSeq(s) = flatten[n]
  BY DEF FlattenSeq
<1>2. J[1] = s[1]
  <2>0. 1 \in 1 .. n /\ 1 - 1 = 0
    OBVIOUS
  <2>1. J[1] = J[1 - 1] \o s[1] /\ s[1] \in Seq(V)
    <3>1. J[1] = J[1 - 1] \o s[1]
      BY <2>0, Zenon
    <3>2. s[1] \in Seq(V)
      BY <2>0
    <3> QED BY <3>1, <3>2
  <2>2. J[1] = <<>> \o s[1]
    BY <2>0, <2>1
  <2> QED BY <2>1, <2>2, JoinNothing
<1>3. \E f : f = [i \in 1 .. Len(s) |-> Body(f, i)]
  <2> DEFINE g == [i \in 1 .. n |-> J[i]]
  <2>1. ASSUME NEW i \in 1 .. n PROVE g[i] = Body(g, i)
    <3>1. CASE i = 1
      BY <1>2, <3>1
    <3>2. CASE i # 1
      <4>1. i - 1 \in 1 .. n
        BY <3>2
      <4>2. g[i - 1] = J[i - 1] /\ g[i] = J[i] /\ J[i] = J[i - 1] \o s[i]
        BY <4>1
      <4> QED BY <3>2, <4>2
    <3> QED BY <3>1, <3>2
  <2>2. g = [i \in 1 .. n |-> g[i]]
    OBVIOUS
  <2> HIDE DEF g, Body
  <2>3. g = [i \in 1 .. n |-> Body(g, i)]
    BY <2>1, <2>2
  <2> QED BY <2>3
<1>4. flatten = [i \in 1 .. n |-> Body(flatten, i)]
  <2> HIDE DEF Body
  <2> QED BY <1>3
<1>5. ASSUME NEW i \in 1 .. n PROVE flatten[i] = Body(flatten, i)
  <2> HIDE DEF Body, flatten
  <2> QED BY <1>4
<1> HIDE DEF flatten
<1> DEFINE S == {k \in Nat : k + 1 <= n => flatten[k + 1] = J[k + 1]}
<1>6. 0 \in S
  <2>1. 0 + 1 = 1 /\ 1 \in 1 .. n
    OBVIOUS
  <2>2. flatten[1] = s[1]
    BY <1>5, <2>1
  <2> QED BY <1>2, <2>1, <2>2
<1>7. ASSUME NEW k \in Nat, k \in S PROVE k + 1 \in S
  <2> SUFFICES ASSUME k + 1 + 1 <= n PROVE flatten[k + 1 + 1] = J[k + 1 + 1]
    OBVIOUS
  <2>1. k + 1 + 1 \in 1 .. n /\ k + 1 + 1 # 1 /\ (k + 1 + 1) - 1 = k + 1 /\ k + 1 <= n
    OBVIOUS
  <2>2. flatten[k + 1] = J[k + 1]
    BY <1>7, <2>1
  <2>3. flatten[k + 1 + 1] = flatten[k + 1] \o s[k + 1 + 1]
    BY <1>5, <2>1
  <2>4. J[k + 1 + 1] = J[k + 1] \o s[k + 1 + 1]
    BY <2>1
  <2> QED BY <2>2, <2>3, <2>4
<1> HIDE DEF S
<1>8. Nat \subseteq S
  BY <1>6, <1>7, NumberInduction
<1>9. n - 1 \in S
  BY <1>8
<1> QED BY <1>1, <1>9 DEF S
-----------------------------------------------------------------------------
(* The object o stands for the connector id i: from the input_id on it is  *)
(* the one the name leads to, and before it is empty and apart.            *)
Stands(o, i, b, d, ob) ==
    /\ i <= b.output_id
    /\ i >= b.input_id => o = d[i]
    /\ i < b.input_id => /\ ob[o].msgs = <<>>
                         /\ \A j \in b.input_id .. b.output_id : o # d[j]

(* Every connector from input_id to output_id has a name and an object of  *)
(* its own.                                                                *)
Names(b, d, ob) ==
    /\ \A i \in Ids : d[i] # 0 => Stands(d[i], i, b, d, ob)
    /\ \A i \in b.input_id .. b.output_id : d[i] # 0
    /\ \A i, j \in b.input_id .. b.output_id : d[i] = d[j] => i = j

Leads(l, b, d, ob) == \A k \in DOMAIN l : Stands(l[k].obj, l[k].id, b, d, ob)

(* What a call relies on: a get or pop that updates has found nothing, and *)
(* after a push nobody has added a connector, so that no push is repeated. *)
Awaits(copy, w, l, b, ob) ==
    /\ (w.at \in {"epoch", "output", "adding", "input", "check", "shrink"}
          /\ w.op \in {"get", "pop"}) => ob[Last(l).obj].msgs = <<>>
    /\ (w.at \notin {"idle", "closed"} /\ w.op = "pushed")
          => /\ w.at \in {"epoch", "output", "input"}
             /\ copy.output_id = b.output_id /\ w.added = FALSE
    /\ w.at \notin {"idle", "closed"} => w.op # "again"
    /\ w.at \notin {"adding", "input"} => w.added = FALSE

(* The messages of the connectors before i, joined, are j[i]; s are all.   *)
Joins(j, b, d, ob, s) ==
    /\ j \in [b.input_id .. b.output_id + 1 -> Seq(Messages)]
    /\ j[b.input_id] = <<>> /\ j[b.output_id + 1] = s
    /\ \A i \in b.input_id .. b.output_id : j[i + 1] = j[i] \o ob[d[i]].msgs

(* The inductive form of SerialFifo.                                       *)
Fifo ==
    /\ Names(cb, dir, objs)
    /\ \A p \in Procs : Leads(list[p], cb, dir, objs)
    /\ \A p \in Procs : Awaits(m_controlblock[p], call[p], list[p], cb, objs)
    /\ \E j : Joins(j, cb, dir, objs, log)

(* What a step may do to the chain: ids grow, a new connector gets a new   *)
(* object, one that is left behind is empty, and no message comes to an    *)
(* object outside the chain.                                               *)
Grows(b, d, ob, b2, d2, ob2) ==
    /\ b.input_id <= b2.input_id /\ b.output_id <= b2.output_id
    /\ \A i \in b2.input_id .. b.output_id : d2[i] = d[i]
    /\ \A i \in b.output_id + 1 .. b2.output_id : d2[i] > Len(ob)
    /\ \A i \in b.input_id .. b2.input_id - 1 : ob[d[i]].msgs = <<>>
    /\ \A o \in 1 .. Len(ob) :
          (ob[o].msgs = <<>> /\ \A j \in b2.input_id .. b2.output_id : o # d2[j])
             => ob2[o].msgs = <<>>

(* An object goes on standing for its connector.                           *)
LEMMA StandsKept ==
    ASSUME NEW b \in CBs, NEW b2 \in CBs, NEW ob \in Seq(Objects), NEW d, NEW d2, NEW ob2,
           Names(b, d, ob), Grows(b, d, ob, b2, d2, ob2),
           NEW o \in 1 .. Len(ob), NEW i \in Ids, Stands(o, i, b, d, ob)
    PROVE  Stands(o, i, b2, d2, ob2)
<1> DEFINE a  == b.input_id
           z  == b.output_id
           a2 == b2.input_id
           z2 == b2.output_id
<1>1. /\ a \in Nat /\ z \in Nat /\ a2 \in Nat /\ z2 \in Nat /\ i \in Nat
      /\ a <= a2 /\ z <= z2 /\ i <= z /\ Len(ob) \in Nat /\ MaxId \in Nat
  BY BusAssumption DEF CBs, Ids, Grows, Stands
<1>2. /\ \A k \in a2 .. z : d2[k] = d[k]
      /\ \A k \in z + 1 .. z2 : d2[k] > Len(ob)
      /\ \A k \in a .. a2 - 1 : ob[d[k]].msgs = <<>>
      /\ (ob[o].msgs = <<>> /\ \A j \in a2 .. z2 : o # d2[j]) => ob2[o].msgs = <<>>
  BY DEF Grows
<1>3. /\ i >= a => o = d[i]
      /\ i < a => ob[o].msgs = <<>> /\ \A j \in a .. z : o # d[j]
  BY DEF Stands
<1>4. \A k, j \in a .. z : d[k] = d[j] => k = j
  BY DEF Names
<1> HIDE DEF a, z, a2, z2
<1>5. i <= z2 /\ (i >= a2 => o = d2[i])
  BY <1>1, <1>2, <1>3
<1>6. ASSUME i < a2 PROVE ob2[o].msgs = <<>> /\ \A j \in a2 .. z2 : o # d2[j]
  <2>1. ASSUME NEW j \in a2 .. z2 PROVE o # d2[j]
    <3>1. CASE j > z
      <4>1. d2[j] > Len(ob) /\ o <= Len(ob)
        BY <1>1, <1>2, <3>1
      <4> QED BY <1>1, <4>1
    <3>2. CASE j <= z
      <4>1. d2[j] = d[j] /\ j \in a .. z /\ i # j
        BY <1>1, <1>2, <1>6, <3>2
      <4>2. CASE i < a
        BY <1>3, <4>1, <4>2
      <4>3. CASE i >= a
        <5>1. o = d[i] /\ i \in a .. z
          BY <1>1, <1>3, <4>3
        <5> QED BY <1>4, <4>1, <5>1
      <4> QED BY <1>1, <4>2, <4>3
    <3> QED BY <1>1, <3>1, <3>2
  <2>2. ob[o].msgs = <<>>
    <3>1. CASE i < a
      BY <1>3, <3>1
    <3>2. CASE i >= a
      <4>1. i \in a .. a2 - 1
        BY <1>1, <1>6, <3>2
      <4> QED BY <1>2, <1>3, <3>2, <4>1
    <3> QED BY <1>1, <3>1, <3>2
  <2> QED BY <1>2, <2>1, <2>2
<1> QED BY <1>5, <1>6 DEF Stands, a2, z2

(* So do the objects of a list.                                            *)
LEMMA LeadsKept ==
    ASSUME NEW b \in CBs, NEW b2 \in CBs, NEW ob \in Seq(Objects), NEW d, NEW d2, NEW ob2,
           Names(b, d, ob), Grows(b, d, ob, b2, d2, ob2),
           NEW l \in Seq(Entries(ob)), Leads(l, b, d, ob)
    PROVE  Leads(l, b2, d2, ob2)
<1> SUFFICES ASSUME NEW k \in DOMAIN l PROVE Stands(l[k].obj, l[k].id, b2, d2, ob2)
  BY DEF Leads
<1>1. l[k] \in Entries(ob)
  OBVIOUS
<1>2. l[k].obj \in 1 .. Len(ob) /\ l[k].id \in Ids
  BY <1>1 DEF Entries
<1>3. Stands(l[k].obj, l[k].id, b, d, ob)
  BY DEF Leads
<1> QED BY <1>2, <1>3, StandsKept

(* The names stay in order when every changed one does.                    *)
LEMMA NamesKept ==
    ASSUME NEW b \in CBs, NEW b2 \in CBs, NEW ob \in Seq(Objects),
           NEW d \in [Ids -> 0 .. Len(ob)], NEW d2, NEW ob2,
           Names(b, d, ob), Grows(b, d, ob, b2, d2, ob2), b2.output_id <= b.output_id + 1,
           \A i \in Ids : d2[i] = 0 \/ d2[i] = d[i] \/ Stands(d2[i], i, b2, d2, ob2)
    PROVE  Names(b2, d2, ob2)
<1>1. ASSUME NEW i \in Ids, d2[i] # 0 PROVE Stands(d2[i], i, b2, d2, ob2)
  <2> SUFFICES ASSUME d2[i] = d[i] PROVE Stands(d[i], i, b2, d2, ob2)
    BY <1>1
  <2>1. d[i] \in 1 .. Len(ob)
    BY <1>1
  <2>2. Stands(d[i], i, b, d, ob)
    BY <1>1 DEF Names
  <2> QED BY <2>1, <2>2, StandsKept
<1> DEFINE a  == b.input_id
           z  == b.output_id
           a2 == b2.input_id
           z2 == b2.output_id
<1>2. /\ a \in Nat /\ z \in Nat /\ a2 \in Nat /\ z2 \in Nat /\ z <= MaxId /\ z2 <= MaxId
      /\ a <= a2 /\ z <= z2 /\ z2 <= z + 1 /\ Len(ob) \in Nat /\ MaxId \in Nat
  BY BusAssumption DEF CBs, Ids, Grows
<1>3. /\ \A k \in a2 .. z : d2[k] = d[k]
      /\ \A k \in z + 1 .. z2 : d2[k] > Len(ob)
      /\ \A k \in a .. z : d[k] # 0
      /\ \A k, j \in a .. z : d[k] = d[j] => k = j
  BY DEF Grows, Names
<1> HIDE DEF a, z, a2, z2
<1>4. \A k \in a .. z : d[k] \in 0 .. Len(ob)
  BY <1>2 DEF Ids
<1>5. ASSUME NEW i \in a2 .. z2 PROVE d2[i] # 0
  <2>1. CASE i <= z
    BY <1>2, <1>3, <2>1
  <2>2. CASE i > z
    BY <1>2, <1>3, <2>2
  <2> QED BY <1>2, <2>1, <2>2
<1>6. ASSUME NEW i \in a2 .. z2, NEW j \in a2 .. z2, d2[i] = d2[j] PROVE i = j
  <2>1. CASE i <= z /\ j <= z
    <3>1. i \in a .. z /\ j \in a .. z /\ d2[i] = d[i] /\ d2[j] = d[j]
      BY <1>2, <1>3, <2>1
    <3> QED BY <1>3, <1>6, <3>1
  <2>2. CASE i > z /\ j > z
    BY <1>2, <2>2
  <2>3. CASE i <= z /\ j > z
    <3>1. d2[i] = d[i] /\ d[i] \in 0 .. Len(ob) /\ d2[j] > Len(ob)
      BY <1>2, <1>3, <1>4, <2>3
    <3> QED BY <1>2, <1>6, <3>1
  <2>4. CASE i > z /\ j <= z
    <3>1. d2[j] = d[j] /\ d[j] \in 0 .. Len(ob) /\ d2[i] > Len(ob)
      BY <1>2, <1>3, <1>4, <2>4
    <3> QED BY <1>2, <1>6, <3>1
  <2> QED BY <1>2, <2>1, <2>2, <2>3, <2>4
<1> QED BY <1>1, <1>5, <1>6 DEF Names, a2, z2

(* A step of p keeps the FIFO when it keeps its own part of it.            *)
LEMMA FifoMoves ==
    ASSUME Sound, Serial, Fifo, NEW p \in Procs, cb' \in CBs,
           \A r \in Procs : r # p => /\ m_controlblock'[r] = m_controlblock[r]
                                     /\ call'[r] = call[r] /\ list'[r] = list[r],
           (\A r \in Busy : r = p) \/ (cb' = cb /\ objs' = objs),
           Grows(cb, dir, objs, cb', dir', objs'), Names(cb', dir', objs'),
           Leads(list'[p], cb', dir', objs'),
           Awaits(m_controlblock'[p], call'[p], list'[p], cb', objs'),
           \E j : Joins(j, cb', dir', objs', log')
    PROVE  Fifo'
<1>1. cb \in CBs /\ objs \in Seq(Objects) /\ list \in [Procs -> Seq(Entries(objs))]
  BY DEF Sound, Stored
<1>2. ASSUME NEW r \in Procs PROVE Leads(list'[r], cb', dir', objs')
  <2>1. CASE r = p
    BY <2>1
  <2>2. CASE r # p
    <3>1. list'[r] = list[r] /\ list[r] \in Seq(Entries(objs)) /\ Leads(list[r], cb, dir, objs)
          /\ Names(cb, dir, objs)
      BY <1>1, <2>2 DEF Fifo
    <3> QED BY <1>1, <3>1, LeadsKept
  <2> QED BY <2>1, <2>2
<1>3. ASSUME NEW r \in Procs
      PROVE  Awaits(m_controlblock'[r], call'[r], list'[r], cb', objs')
  <2>1. CASE r = p
    BY <2>1
  <2>2. CASE r # p
    <3>1. Awaits(m_controlblock[r], call[r], list[r], cb, objs)
      BY DEF Fifo
    <3>2. CASE cb' = cb /\ objs' = objs
      BY <2>2, <3>1, <3>2
    <3>3. CASE \A x \in Busy : x = p
      <4>1. call[r].at \in {"idle", "closed"}
        BY <2>2, <3>3 DEF Busy
      <4> QED BY <2>2, <3>1, <4>1 DEF Awaits
    <3> QED BY <3>2, <3>3
  <2> QED BY <2>1, <2>2
<1> QED BY <1>2, <1>3 DEF Fifo

(* A step that changes nothing of the chain and of its messages.           *)
LEMMA FifoStays ==
    ASSUME Sound, Serial, Fifo, NEW p \in Procs, UNCHANGED <<cb, dir, objs, list, log>>,
           \A r \in Procs : r # p => /\ m_controlblock'[r] = m_controlblock[r]
                                     /\ call'[r] = call[r],
           Awaits(m_controlblock'[p], call'[p], list[p], cb, objs)
    PROVE  Fifo'
<1>1. ASSUME NEW r \in Procs PROVE Awaits(m_controlblock'[r], call'[r], list[r], cb, objs)
  <2>1. CASE r = p
    BY <2>1
  <2>2. CASE r # p
    BY <2>2 DEF Fifo
  <2> QED BY <2>1, <2>2
<1> QED BY <1>1 DEF Fifo
-----------------------------------------------------------------------------
(* What Goto makes of the calls.                                           *)
LEMMA GotoCall ==
    ASSUME Sound, NEW p \in Procs, NEW to, Goto(p, to)
    PROVE  /\ \A r \in Procs : r # p => call'[r] = call[r]
           /\ call'[p].at = to
           /\ to = "idle" => call'[p].added = FALSE
           /\ to # "idle" => call'[p].op = call[p].op /\ call'[p].added = call[p].added
<1> DEFINE w == IF to = "idle" THEN Outside("idle") ELSE [call[p] EXCEPT !.at = to]
<1>1. call \in [Procs -> Calls] /\ call[p] \in Calls
  BY DEF Sound
<1>2. call' = [call EXCEPT ![p] = w]
  BY DEF Goto
<1>3. /\ w.at = to /\ (to = "idle" => w.added = FALSE)
      /\ to # "idle" => w.op = call[p].op /\ w.added = call[p].added
  BY <1>1 DEF Outside, Calls
<1> HIDE DEF w
<1>4. call'[p] = w /\ \A r \in Procs : r # p => call'[r] = call[r]
  BY <1>1, <1>2
<1> QED BY <1>3, <1>4

(* What the end of an update makes of the calls.                           *)
LEMMA UpdatedCall ==
    ASSUME Sound, NEW p \in Procs, call[p].op # "none", NEW bits, Updated(p, bits)
    PROVE  /\ \A r \in Procs : r # p => call'[r] = call[r]
           /\ Leaves(call'[p], call[p].op, bits)
<1>1. call \in [Procs -> Calls] /\ call[p] \in Calls
  BY DEF Sound
<1>2. PICK w \in Calls : call' = [call EXCEPT ![p] = w] /\ Leaves(w, call[p].op, bits)
  BY <1>1, UpdatedLeaves
<1>3. call'[p] = w /\ \A r \in Procs : r # p => call'[r] = call[r]
  BY <1>1, <1>2
<1> QED BY <1>2, <1>3

(* What is known of a process in a call, without a fault.                  *)
LEMMA Inside ==
    ASSUME Sound, Serial, Fifo, NEW p \in Procs, call[p].at \notin {"idle", "closed"}
    PROVE  /\ Fits(p, sent, m_controlblock[p], call[p], list[p], cb, objs)
           /\ Follows(m_controlblock[p], call[p], list[p], cb)
           /\ Awaits(m_controlblock[p], call[p], list[p], cb, objs)
           /\ Leads(list[p], cb, dir, objs)
           /\ call[p] \in Calls /\ call[p].op # "none" /\ list[p] # <<>>
           /\ \A r \in Busy : r = p
<1>1. Fits(p, sent, m_controlblock[p], call[p], list[p], cb, objs)
  BY DEF Sound, Suits
<1>2. call[p] \in Calls /\ call[p].op # "none" /\ list[p] # <<>>
  BY <1>1 DEF Fits
<1> QED BY <1>1, <1>2, BusyAlone DEF Fifo

(* An update that sees equal epochs or goes on to look.                    *)
LEMMA isUpdatedFifo ==
    ASSUME Sound, Serial, Fifo, NEW p \in Procs, is_updated(p)
    PROVE  Fifo'
<1>1. /\ call[p].at = "epoch" /\ UNCHANGED <<cb, dir, objs, list, log>>
      /\ m_controlblock' = [m_controlblock EXCEPT ![p].epoch = cb.epoch]
  BY DEF is_updated, shared
<1>2. /\ Awaits(m_controlblock[p], call[p], list[p], cb, objs) /\ call[p].op # "none"
  BY <1>1, Inside
<1>3. /\ m_controlblock'[p].output_id = m_controlblock[p].output_id
      /\ \A r \in Procs : r # p => m_controlblock'[r] = m_controlblock[r]
  BY <1>1 DEF Sound, CBs
<1>4. /\ \A r \in Procs : r # p => call'[r] = call[r]
      /\ Awaits(m_controlblock'[p], call'[p], list[p], cb, objs)
  <2>1. CASE cb.epoch # m_controlblock[p].epoch
    <3>1. Goto(p, "output")
      BY <2>1 DEF is_updated
    <3>2. /\ \A r \in Procs : r # p => call'[r] = call[r]
          /\ call'[p].at = "output" /\ call'[p].op = call[p].op
          /\ call'[p].added = call[p].added
      BY <3>1, GotoCall
    <3> QED BY <1>1, <1>2, <1>3, <3>2 DEF Awaits
  <2>2. CASE cb.epoch = m_controlblock[p].epoch
    <3>1. Updated(p, {})
      BY <2>2 DEF is_updated
    <3>2. /\ \A r \in Procs : r # p => call'[r] = call[r]
          /\ Leaves(call'[p], call[p].op, {})
      BY <1>2, <3>1, UpdatedCall
    <3> QED BY <1>1, <1>2, <1>3, <3>2 DEF Awaits, Leaves
  <2> QED BY <2>1, <2>2
<1> QED BY <1>1, <1>3, <1>4, FifoStays

(* After a push the output_id read is that of the copy.                    *)
LEMMA ReadOutputIdFifo ==
    ASSUME Sound, Serial, Fifo, NEW p \in Procs, ReadOutputId(p)
    PROVE  Fifo'
<1> DEFINE to == IF cb.output_id = m_controlblock[p].output_id THEN "input" ELSE "adding"
           w  == [call[p] EXCEPT !.target = cb.output_id, !.at = to]
<1>1. /\ call[p].at = "output" /\ UNCHANGED <<cb, dir, objs, list, log, m_controlblock>>
  BY DEF ReadOutputId, shared, hist
<1>2. Awaits(m_controlblock[p], call[p], list[p], cb, objs) /\ call \in [Procs -> Calls]
  BY <1>1, Inside DEF Sound
<1>3. call' = [call EXCEPT ![p] = w]
  BY <1>2 DEF ReadOutputId
<1>4. w.at = to /\ w.op = call[p].op /\ w.added = call[p].added
  BY <1>2 DEF Calls
<1> HIDE DEF w
<1>5. call'[p] = w /\ \A r \in Procs : r # p => call'[r] = call[r]
  BY <1>2, <1>3
<1>6. Awaits(m_controlblock'[p], call'[p], list[p], cb, objs)
  BY <1>1, <1>2, <1>4, <1>5 DEF Awaits
<1> QED BY <1>1, <1>5, <1>6, FifoStays

(* The steps that only decide where a call goes on, and a get that finds a *)
(* message.                                                                *)
LEMMA GoesFifo ==
    ASSUME Sound, Serial, Fifo, NEW p \in Procs,
           PushRefused(p) \/ PushFails(p) \/ FindsNothing(p) \/ can_remove_connector(p)
             \/ GetFinds(p)
    PROVE  Fifo'
<1>1. /\ UNCHANGED <<cb, dir, objs, list, log, m_controlblock>>
      /\ call[p].at \notin {"idle", "closed"}
  BY DEF PushRefused, PushFails, FindsNothing, can_remove_connector, GetFinds, shared, hist
<1>2. /\ Fits(p, sent, m_controlblock[p], call[p], list[p], cb, objs)
      /\ Awaits(m_controlblock[p], call[p], list[p], cb, objs) /\ \A r \in Busy : r = p
  BY <1>1, Inside
<1>3. /\ \A r \in Procs : r # p => call'[r] = call[r]
      /\ Awaits(m_controlblock'[p], call'[p], list[p], cb, objs)
  <2>1. CASE PushRefused(p)
    <3>1. call[p].at = "act" /\ call[p].op \in Pushing /\ Goto(p, "grow")
      BY <2>1 DEF PushRefused
    <3>2. /\ \A r \in Procs : r # p => call'[r] = call[r]
          /\ call'[p].at = "grow" /\ call'[p].op = call[p].op
          /\ call'[p].added = call[p].added
      BY <3>1, GotoCall
    <3> QED BY <1>1, <1>2, <3>1, <3>2 DEF Awaits
  <2>2. CASE PushFails(p) \/ GetFinds(p)
    <3>1. Goto(p, "idle")
      BY <2>2 DEF PushFails, GetFinds
    <3>2. /\ \A r \in Procs : r # p => call'[r] = call[r]
          /\ call'[p].at = "idle" /\ call'[p].added = FALSE
      BY <3>1, GotoCall
    <3> QED BY <3>2 DEF Awaits
  <2>3. CASE FindsNothing(p)
    <3>1. call[p].at = "act" /\ call[p].op \in {"get", "pop"} /\ Goto(p, "epoch")
      BY <2>3 DEF FindsNothing
    <3>2. objs[Last(list[p]).obj].msgs = <<>>
      BY <1>2, <2>3 DEF FindsNothing, Contended, Input
    <3>3. /\ \A r \in Procs : r # p => call'[r] = call[r]
          /\ call'[p].at = "epoch" /\ call'[p].op = call[p].op
          /\ call'[p].added = call[p].added
      BY <3>1, GotoCall
    <3> QED BY <1>2, <3>1, <3>2, <3>3 DEF Awaits
  <2>4. CASE can_remove_connector(p)
    <3> DEFINE to == IF cb.input_id # cb.output_id THEN "shrink" ELSE "idle"
    <3>1. call[p].at = "check" /\ Goto(p, to) /\ to \in {"shrink", "idle"}
      BY <2>4 DEF can_remove_connector
    <3> HIDE DEF to
    <3>2. /\ \A r \in Procs : r # p => call'[r] = call[r]
          /\ call'[p].at = to /\ call[p].op \in {"get", "pop"}
          /\ to = "idle" => call'[p].added = FALSE
          /\ to # "idle" => call'[p].op = call[p].op /\ call'[p].added = call[p].added
      BY <1>2, <3>1, GotoCall DEF Fits
    <3> QED BY <1>1, <1>2, <3>1, <3>2 DEF Awaits
  <2> QED BY <2>1, <2>2, <2>3, <2>4
<1> QED BY <1>1, <1>3, FifoStays

(* A call begins.                                                          *)
LEMMA BeginFifo ==
    ASSUME Sound, Serial, Fifo, NEW p \in Procs, NEW op, NEW to, Begin(p, op, to),
           (op = "push" /\ to = "epoch") \/ (op \in {"get", "pop"} /\ to = "act")
    PROVE  Fifo'
<1> DEFINE w == [call[p] EXCEPT !.op = op, !.at = to]
<1>1. /\ call[p].at = "idle" /\ UNCHANGED <<cb, dir, objs, list, log, m_controlblock>>
  BY DEF Begin, shared
<1>2. call \in [Procs -> Calls] /\ Awaits(m_controlblock[p], call[p], list[p], cb, objs)
  BY DEF Sound, Fifo
<1>3. call' = [call EXCEPT ![p] = w]
  BY <1>2 DEF Begin
<1>4. w.at = to /\ w.op = op /\ w.added = call[p].added
  BY <1>2 DEF Calls
<1> HIDE DEF w
<1>5. call'[p] = w /\ \A r \in Procs : r # p => call'[r] = call[r]
  BY <1>2, <1>3
<1>6. Awaits(m_controlblock'[p], call'[p], list[p], cb, objs)
  BY <1>1, <1>2, <1>4, <1>5 DEF Awaits
<1> QED BY <1>1, <1>5, <1>6, FifoStays
-----------------------------------------------------------------------------
(* What a successful make_connector changes: the connector id is opened,   *)
(* or it gets a new and empty object.                                      *)
Knows(made, d, o, l, id) ==
    /\ \A i \in Ids : (i # id \/ d[i] # 0) => made.dir[i] = d[i]
    /\ made.dir[id] # 0 /\ made.list[1].obj = made.dir[id]
    /\ d[id] # 0 => made.dir = d /\ made.objs = o
    /\ d[id] = 0 => made.dir[id] = Len(o) + 1 /\ made.objs[Len(o) + 1].msgs = <<>>
    /\ \A x \in 1 .. Len(o) : made.objs[x] = o[x]

(* An opened connector keeps its object, a created one has a new one.      *)
LEMMA MakeKnows ==
    ASSUME NEW d, NEW o \in Seq(Objects), d \in [Ids -> 0 .. Len(o)],
           NEW l \in Seq(Entries(o)), NEW id \in Ids,
           d[id] # 0 \/ make_connector(d, o, l, id).ok
    PROVE  /\ make_connector(d, o, l, id).ok
           /\ Knows(make_connector(d, o, l, id), d, o, l, id)
<1> DEFINE made  == make_connector(d, o, l, id)
           level == IF l = <<>> THEN 1 ELSE o[l[1].obj].level + 1
           obj   == IF d[id] # 0 THEN d[id] ELSE Len(o) + 1
           e     == Entry(id, obj)
<1>1. Len(o) \in Nat /\ d[id] \in 0 .. Len(o)
  OBVIOUS
<1>2. made = IF d[id] = 0 /\ level > Len(Rooms)
             THEN [ok |-> FALSE, dir |-> d, objs |-> o, list |-> l]
             ELSE [ok   |-> TRUE,
                   dir  |-> [d EXCEPT ![id] = obj],
                   objs |-> IF d[id] # 0 THEN o
                            ELSE Append(o, [level |-> level, msgs |-> <<>>]),
                   list |-> <<e>> \o l]
  BY DEF make_connector
<1> HIDE DEF level, made
<1>3. ~(d[id] = 0 /\ level > Len(Rooms))
  <2>1. CASE d[id] # 0
    BY <2>1
  <2>2. CASE made.ok
    BY <1>2, <2>2
  <2> QED BY <2>1, <2>2 DEF made
<1>4. /\ made.ok /\ made.dir = [d EXCEPT ![id] = obj] /\ made.list = <<e>> \o l
      /\ made.objs = IF d[id] # 0 THEN o ELSE Append(o, [level |-> level, msgs |-> <<>>])
  BY <1>2, <1>3
<1>5. obj # 0 /\ e.obj = obj
  BY <1>1 DEF Entry
<1>6. made.list[1] = e
  <2>1. Len(l) \in Nat
    OBVIOUS
  <2> HIDE DEF e
  <2> QED BY <1>4, <2>1
<1>7. made.dir[id] = obj /\ \A i \in Ids : i # id => made.dir[i] = d[i]
  BY <1>4
<1>8. CASE d[id] # 0
  <2>1. obj = d[id] /\ made.objs = o
    BY <1>4, <1>8
  <2>2. made.dir = d
    BY <1>4, <2>1
  <2> HIDE DEF obj, e
  <2> QED BY <1>4, <1>5, <1>6, <1>7, <1>8, <2>1, <2>2 DEF Knows, made
<1>9. CASE d[id] = 0
  <2>1. obj = Len(o) + 1 /\ made.objs = Append(o, [level |-> level, msgs |-> <<>>])
    BY <1>4, <1>9
  <2> DEFINE y == [level |-> level, msgs |-> <<>>]
  <2>2. y.msgs = <<>> /\ made.objs = Append(o, y)
    BY <2>1
  <2> HIDE DEF obj, e, y
  <2>3. made.objs[Len(o) + 1] = y /\ \A x \in 1 .. Len(o) : made.objs[x] = o[x]
    BY <1>1, <2>2
  <2> QED BY <1>4, <1>5, <1>6, <1>7, <1>9, <2>1, <2>2, <2>3 DEF Knows, made
<1> QED BY <1>8, <1>9

(* The names and the messages of the connectors of the chain are the same. *)
SameMail(b, d, ob, d2, ob2) ==
    \A i \in b.input_id .. b.output_id : d2[i] = d[i] /\ ob2[d[i]].msgs = ob[d[i]].msgs

(* The joined messages stay when those of every connector stay.            *)
LEMMA JoinsStay ==
    ASSUME NEW j, NEW b, NEW d, NEW ob, NEW s, Joins(j, b, d, ob, s), NEW d2, NEW ob2,
           SameMail(b, d, ob, d2, ob2)
    PROVE  Joins(j, b, d2, ob2, s)
BY DEF Joins, SameMail

(* The list of p gets the connector id, one of the chain or before it.     *)
LEMMA InstallFifo ==
    ASSUME Sound, Serial, Fifo, NEW p \in Procs, list[p] # <<>>,
           NEW id \in Ids, Make(p, id).ok, Install(p, Make(p, id)),
           cb' = cb, id <= cb.output_id, log' = log
    PROVE  /\ Grows(cb, dir, objs, cb', dir', objs') /\ Names(cb', dir', objs')
           /\ Leads(list'[p], cb', dir', objs') /\ \E j : Joins(j, cb', dir', objs', log')
           /\ objs'[Last(list'[p]).obj] = objs[Last(list[p]).obj]
           /\ \A r \in Procs : r # p => list'[r] = list[r]
<1> DEFINE made == Make(p, id)
           l    == list[p]
           l2   == list'[p]
           a    == cb.input_id
           z    == cb.output_id
<1>1. /\ list \in [Procs -> Seq(Entries(objs))] /\ l \in Seq(Entries(objs))
      /\ objs \in Seq(Objects) /\ dir \in [Ids -> 0 .. Len(objs)] /\ Len(objs) \in Nat
      /\ cb \in CBs /\ a \in Nat /\ z \in Nat /\ z <= MaxId /\ MaxId \in Nat
      /\ Names(cb, dir, objs) /\ Leads(l, cb, dir, objs)
  <2>1. cb \in CBs /\ objs \in Seq(Objects)
    BY DEF Sound, Stored
  <2>2. a \in Nat /\ z \in Nat /\ z <= MaxId /\ MaxId \in Nat /\ Len(objs) \in Nat
    BY <2>1, BusAssumption DEF CBs, Ids
  <2> QED BY <2>1, <2>2 DEF Sound, Stored, Fifo
<1>2. Makes(made, objs, l, id) /\ Knows(made, dir, objs, l, id)
  BY <1>1, MakeFits, MakeKnows DEF Make
<1>3. made.ok /\ dir' = made.dir /\ objs' = made.objs /\ list' = [list EXCEPT ![p] = made.list]
  BY DEF Install
<1>4. l2 = made.list /\ \A r \in Procs : r # p => list'[r] = list[r]
  BY <1>1, <1>3
<1> HIDE DEF made, l, l2, a, z
<1>5. /\ Len(l2) = Len(l) + 1 /\ l2[1].id = id /\ l2[1].obj = dir'[id] /\ dir'[id] # 0
      /\ \A k \in 1 .. Len(l) : l2[k + 1] = l[k]
      /\ \A i \in Ids : (i # id \/ dir[i] # 0) => dir'[i] = dir[i]
      /\ dir[id] = 0 => dir'[id] = Len(objs) + 1 /\ objs'[Len(objs) + 1].msgs = <<>>
      /\ \A x \in 1 .. Len(objs) : objs'[x] = objs[x]
      /\ l2 \in Seq(Entries(objs'))
  BY <1>2, <1>3, <1>4 DEF Makes, Knows
<1>6. ASSUME NEW i \in a .. z
      PROVE  dir'[i] = dir[i] /\ dir[i] \in 1 .. Len(objs) /\ objs'[dir[i]] = objs[dir[i]]
  <2>1. i \in Ids
    BY <1>1 DEF Ids
  <2>2. dir[i] # 0
    BY <1>1 DEF Names, a, z
  <2>3. dir[i] \in 1 .. Len(objs)
    BY <1>1, <2>1, <2>2
  <2> QED BY <1>5, <2>1, <2>2, <2>3
<1>7. Grows(cb, dir, objs, cb', dir', objs')
  <2>1. a <= a /\ z <= z /\ a .. a - 1 = {} /\ z + 1 .. z = {}
    BY <1>1
  <2> QED BY <1>5, <1>6, <2>1 DEF Grows, a, z
<1>8. Names(cb', dir', objs')
  <2>1. Stands(dir'[id], id, cb', dir', objs') \/ dir'[id] = dir[id]
    <3> SUFFICES ASSUME dir[id] = 0 PROVE Stands(dir'[id], id, cb', dir', objs')
      BY <1>5
    <3>1. dir'[id] = Len(objs) + 1 /\ objs'[dir'[id]].msgs = <<>>
      BY <1>5
    <3>2. \A i \in a .. z : dir'[id] # dir'[i]
      BY <1>1, <1>6, <3>1
    <3> QED BY <3>1, <3>2 DEF Stands, a, z
  <2>2. \A i \in Ids : dir'[i] = 0 \/ dir'[i] = dir[i] \/ Stands(dir'[i], i, cb', dir', objs')
    BY <1>5, <2>1
  <2>3. cb'.output_id <= cb.output_id + 1 /\ cb' \in CBs
    BY <1>1 DEF z
  <2> QED BY <1>1, <1>7, <2>2, <2>3, NamesKept
<1>9. Leads(l2, cb', dir', objs')
  <2>1. Leads(l, cb', dir', objs')
    BY <1>1, <1>7, LeadsKept
  <2>2. Stands(l2[1].obj, l2[1].id, cb', dir', objs')
    BY <1>5, <1>8 DEF Names
  <2>3. ASSUME NEW k \in DOMAIN l2 PROVE Stands(l2[k].obj, l2[k].id, cb', dir', objs')
    <3>1. CASE k = 1
      BY <2>2, <3>1
    <3>2. CASE k # 1
      <4>1. k - 1 \in 1 .. Len(l) /\ (k - 1) + 1 = k
        BY <1>1, <1>5, <3>2
      <4>2. l2[k] = l[k - 1] /\ k - 1 \in DOMAIN l
        BY <1>1, <1>5, <4>1
      <4> QED BY <2>1, <4>2 DEF Leads
    <3> QED BY <3>1, <3>2
  <2> QED BY <2>3 DEF Leads
<1>10. \E j : Joins(j, cb', dir', objs', log')
  <2>1. PICK j : Joins(j, cb, dir, objs, log)
    BY DEF Fifo
  <2>2. Joins(j, cb, dir', objs', log)
    BY <1>6, <2>1, JoinsStay DEF a, z, SameMail
  <2> QED BY <2>2
<1>11. objs'[Last(l2).obj] = objs[Last(l).obj]
  <2>1. l # <<>>
    BY DEF l
  <2>2. Len(l) \in 1 .. Len(l) /\ l[Len(l)] \in Entries(objs)
    BY <1>1, <2>1
  <2>3. l2[Len(l) + 1] = l[Len(l)]
    BY <1>5, <2>2
  <2>4. Last(l2) = Last(l) /\ Last(l) \in Entries(objs)
    BY <1>5, <2>2, <2>3 DEF Last
  <2>5. Last(l).obj \in 1 .. Len(objs)
    BY <2>4 DEF Entries
  <2> QED BY <1>5, <2>4, <2>5
<1> QED BY <1>4, <1>7, <1>8, <1>9, <1>10, <1>11 DEF l, l2

(* A turn of the loop of additions.                                        *)
LEMMA AddKnownFifo ==
    ASSUME Sound, Serial, Fifo, NEW p \in Procs, AddKnown(p)
    PROVE  Fifo'
<1> DEFINE mine == m_controlblock[p]
           id   == mine.output_id + 1
           to   == IF id = call[p].target THEN "input" ELSE "adding"
           w    == [call[p] EXCEPT !.added = TRUE, !.at = to]
<1>1. /\ call[p].at = "adding" /\ Make(p, id).ok /\ Install(p, Make(p, id))
      /\ cb' = cb /\ log' = log
      /\ m_controlblock' = [m_controlblock EXCEPT ![p] = RaiseOutput(mine, id)]
  BY DEF AddKnown, hist, Sound, RaiseOutput
<1>2. /\ Fits(p, sent, mine, call[p], list[p], cb, objs)
      /\ Awaits(mine, call[p], list[p], cb, objs) /\ list[p] # <<>>
      /\ \A r \in Busy : r = p
      /\ call \in [Procs -> Calls] /\ m_controlblock \in [Procs -> CBs]
  BY <1>1, Inside DEF Sound
<1>3. id \in Ids /\ id <= cb.output_id /\ cb \in CBs
  <2>1. /\ mine \in CBs /\ cb \in CBs /\ call[p] \in Calls
        /\ mine.output_id < call[p].target /\ call[p].target <= cb.output_id
    BY <1>1, <1>2 DEF Fits, Sound, Stored
  <2> DEFINE x == mine.output_id
             t == call[p].target
             z == cb.output_id
  <2>2. /\ x \in Nat /\ t \in Nat /\ z \in Nat /\ x < t /\ t <= z /\ z <= MaxId
        /\ MaxId \in Nat
    BY <2>1, BusAssumption DEF CBs, Calls, Ids
  <2> HIDE DEF x, t, z
  <2>3. x + 1 \in 0 .. MaxId /\ x + 1 <= z
    BY <2>2
  <2> QED BY <2>1, <2>3 DEF Ids, x, z
<1> HIDE DEF id
<1>4. /\ Grows(cb, dir, objs, cb', dir', objs') /\ Names(cb', dir', objs')
      /\ Leads(list'[p], cb', dir', objs') /\ \E j : Joins(j, cb', dir', objs', log')
      /\ objs'[Last(list'[p]).obj] = objs[Last(list[p]).obj]
      /\ \A r \in Procs : r # p => list'[r] = list[r]
  BY <1>1, <1>2, <1>3, InstallFifo
<1>5. call' = [call EXCEPT ![p] = w]
  BY <1>2 DEF AddKnown, id
<1>6. w.at = to /\ w.op = call[p].op /\ to \in {"adding", "input"}
  BY <1>2 DEF Calls
<1> HIDE DEF w, to
<1>7. /\ call'[p] = w /\ \A r \in Procs : r # p => call'[r] = call[r]
      /\ \A r \in Procs : r # p => m_controlblock'[r] = m_controlblock[r]
  BY <1>1, <1>2, <1>5
<1>8. Awaits(m_controlblock'[p], call'[p], list'[p], cb', objs')
  BY <1>1, <1>2, <1>4, <1>6, <1>7 DEF Awaits
<1> QED BY <1>1, <1>2, <1>3, <1>4, <1>7, <1>8, FifoMoves
-----------------------------------------------------------------------------
(* The front of a window is its newest connector, the back its oldest.     *)
LEMMA WindowEnds ==
    ASSUME NEW V, NEW l \in Seq(V), l # <<>>, NEW a \in Nat, NEW b \in Nat, IsWindow(l, a, b)
    PROVE  /\ 1 \in DOMAIN l /\ l[1].id = b
           /\ Len(l) \in DOMAIN l /\ Last(l) = l[Len(l)] /\ Last(l).id = a
<1>1. Len(l) \in Nat /\ Len(l) >= 1 /\ DOMAIN l = 1 .. Len(l)
  OBVIOUS
<1>2. 1 \in DOMAIN l /\ Len(l) \in DOMAIN l
  BY <1>1
<1>3. l[1].id = b + 1 - 1 /\ l[Len(l)].id = b + 1 - Len(l) /\ Len(l) = b - a + 1
  BY <1>2 DEF IsWindow
<1> QED BY <1>1, <1>2, <1>3 DEF Last

(* pop_back of a connector that the chain has left or, empty, leaves now.  *)
LEMMA DropFifo ==
    ASSUME Sound, Serial, Fifo, NEW p \in Procs, list[p] # <<>>, Front(list[p]) # <<>>,
           NEW next \in Ids, DropBack(p, next), cb' \in CBs,
           cb'.output_id = cb.output_id, cb.input_id <= cb'.input_id,
           Last(list[p]).id < cb'.input_id,
           \A i \in cb.input_id .. cb'.input_id - 1 : objs[dir[i]].msgs = <<>>
    PROVE  /\ Grows(cb, dir, objs, cb', dir', objs') /\ Names(cb', dir', objs')
           /\ Leads(list'[p], cb', dir', objs')
           /\ \A r \in Procs : r # p => list'[r] = list[r]
           /\ objs' = objs
           /\ \A i \in cb'.input_id .. cb'.output_id : dir'[i] = dir[i]
<1> DEFINE l == list[p]
           x == Last(l).id
           a == cb.input_id
           z == cb.output_id
           a2 == cb'.input_id
<1>1. /\ list \in [Procs -> Seq(Entries(objs))] /\ l \in Seq(Entries(objs))
      /\ objs \in Seq(Objects) /\ dir \in [Ids -> 0 .. Len(objs)]
      /\ cb \in CBs /\ a \in Nat /\ z \in Nat /\ a2 \in Nat /\ z <= MaxId /\ MaxId \in Nat
      /\ Names(cb, dir, objs) /\ Leads(l, cb, dir, objs)
  <2>1. cb \in CBs /\ objs \in Seq(Objects)
    BY DEF Sound, Stored
  <2>2. a \in Nat /\ z \in Nat /\ z <= MaxId /\ MaxId \in Nat /\ a2 \in Nat
    BY <2>1, BusAssumption DEF CBs, Ids
  <2> QED BY <2>1, <2>2 DEF Sound, Stored, Fifo
<1>2. /\ list' = [list EXCEPT ![p] = list'[p]] /\ list'[p] = Front(l) /\ objs' = objs
      /\ dir' = [dir EXCEPT ![x] = 0]
  <2>1. Stored(cb, dir, objs)
    BY DEF Sound
  <2> QED BY <1>1, <2>1, DropFits
<1>3. x < a2 /\ x \in Nat
  <2>1. Len(l) \in 1 .. Len(l) /\ l[Len(l)] \in Entries(objs)
    BY <1>1
  <2>2. l[Len(l)].id \in Ids
    BY <2>1 DEF Entries
  <2> QED BY <2>2 DEF Last, Ids
<1> HIDE DEF x, l, a, z, a2
<1>4. /\ \A r \in Procs : r # p => list'[r] = list[r]
      /\ \A i \in Ids : dir'[i] = 0 \/ dir'[i] = dir[i]
      /\ \A i \in a2 .. z : dir'[i] = dir[i]
  <2>1. ASSUME NEW i \in a2 .. z PROVE i \in Ids /\ i # x
    BY <1>1, <1>3 DEF Ids
  <2> QED BY <1>1, <1>2, <2>1
<1>5. Grows(cb, dir, objs, cb', dir', objs')
  <2>1. z <= z /\ z + 1 .. z = {} /\ cb'.output_id = z
    BY <1>1 DEF z
  <2> QED BY <1>2, <1>4, <2>1 DEF Grows, a2, z
<1>6. Names(cb', dir', objs')
  <2>1. cb'.output_id <= cb.output_id + 1
    BY <1>1 DEF z
  <2>2. \A i \in Ids : dir'[i] = 0 \/ dir'[i] = dir[i] \/ Stands(dir'[i], i, cb', dir', objs')
    BY <1>4
  <2>3. cb \in CBs /\ objs \in Seq(Objects) /\ dir \in [Ids -> 0 .. Len(objs)] /\ cb' \in CBs
        /\ Names(cb, dir, objs)
    BY <1>1
  <2> QED BY ONLY <1>5, <2>1, <2>2, <2>3, NamesKept
<1>7. Leads(list'[p], cb', dir', objs')
  <2>1. Leads(l, cb', dir', objs')
    BY <1>1, <1>5, LeadsKept
  <2>2. Len(l) \in Nat /\ Len(l) >= 1
    BY <1>1 DEF l
  <2>3. DOMAIN Front(l) = 1 .. Len(l) - 1 /\ \A k \in 1 .. Len(l) - 1 : Front(l)[k] = l[k]
    BY <1>1, <2>2 DEF Front
  <2>4. ASSUME NEW k \in DOMAIN Front(l)
        PROVE  Stands(Front(l)[k].obj, Front(l)[k].id, cb', dir', objs')
    <3>1. k \in 1 .. Len(l) - 1 /\ Front(l)[k] = l[k]
      BY <2>3
    <3>2. k \in 1 .. Len(l) /\ DOMAIN l = 1 .. Len(l)
      BY <1>1, <2>2, <3>1
    <3> QED BY <2>1, <3>2, <3>1 DEF Leads
  <2> QED BY <1>2, <2>4 DEF Leads
<1> QED BY <1>2, <1>4, <1>5, <1>6, <1>7 DEF a2, z

(* The second half of update_connectors.                                   *)
LEMMA RemoveKnownFifo ==
    ASSUME Sound, Serial, Fifo, NEW p \in Procs, RemoveKnown(p), ~fault'
    PROVE  Fifo'
<1> DEFINE mine == m_controlblock[p]
           bits == IF call[p].added THEN {"output"} ELSE {}
<1>1. call[p].at = "input" /\ cb' = cb /\ log' = log
  BY DEF RemoveKnown
<1>2. /\ Fits(p, sent, mine, call[p], list[p], cb, objs)
      /\ Follows(mine, call[p], list[p], cb)
      /\ Awaits(mine, call[p], list[p], cb, objs) /\ list[p] # <<>>
      /\ call[p].op # "none" /\ \A r \in Busy : r = p
  BY <1>1, Inside
<1>3. call[p].op = "pushed" => "output" \notin bits /\ "output" \notin bits \cup {"input"}
  BY <1>1, <1>2 DEF Awaits
<1>4. CASE cb.input_id = mine.input_id
  <2>1. Updated(p, bits) /\ UNCHANGED <<dir, objs, list, m_controlblock>>
    BY <1>4 DEF RemoveKnown
  <2> HIDE DEF bits
  <2>2. /\ \A r \in Procs : r # p => call'[r] = call[r]
        /\ Leaves(call'[p], call[p].op, bits)
    BY <1>2, <2>1, UpdatedCall
  <2>3. Awaits(m_controlblock'[p], call'[p], list[p], cb, objs)
    BY <1>1, <1>2, <1>3, <2>1, <2>2 DEF Awaits, Leaves
  <2> QED BY <1>1, <2>1, <2>2, <2>3, FifoStays
<1>5. CASE cb.input_id # mine.input_id
  <2>1. /\ mine.input_id # mine.output_id /\ DropBack(p, mine.input_id + 1)
        /\ m_controlblock' = [m_controlblock EXCEPT ![p].input_id = @ + 1,
                                                    ![p].epoch = @ + 1]
        /\ Updated(p, bits \cup {"input"})
    BY <1>5 DEF RemoveKnown
  <2> HIDE DEF bits
  <2>2. /\ \A r \in Procs : r # p => call'[r] = call[r]
        /\ Leaves(call'[p], call[p].op, bits \cup {"input"})
    BY <1>2, <2>1, UpdatedCall
  <2>3. \A r \in Procs : r # p => m_controlblock'[r] = m_controlblock[r]
    BY <2>1 DEF Sound
  <2>4. /\ mine \in CBs /\ cb \in CBs /\ mine.input_id \in Nat /\ mine.output_id \in Nat
        /\ cb.input_id \in Nat /\ list[p] \in Seq(Entries(objs))
        /\ mine.input_id < cb.input_id /\ mine.input_id < mine.output_id
    <3>1. /\ mine \in CBs /\ cb \in CBs /\ mine.input_id \in Nat /\ mine.output_id \in Nat
          /\ cb.input_id \in Nat /\ list[p] \in Seq(Entries(objs))
      BY Here
    <3>2. mine.input_id <= cb.input_id /\ mine.input_id <= mine.output_id
      BY <1>2 DEF Fits, Follows
    <3> QED BY <1>5, <2>1, <3>1, <3>2
  <2>5. mine.input_id + 1 \in Ids
    <3>1. cb.input_id <= MaxId /\ MaxId \in Nat
      BY <2>4, BusAssumption DEF CBs, Ids
    <3> QED BY <2>4, <3>1 DEF Ids
  <2>6. IsWindow(list[p], mine.input_id, mine.output_id)
    BY <1>1, <1>2 DEF Follows
  <2>7. Front(list[p]) # <<>> /\ Last(list[p]).id < cb.input_id
    BY <1>2, <2>4, <2>6, WindowShrinks, WindowEnds
  <2>8. /\ Grows(cb, dir, objs, cb', dir', objs') /\ Names(cb', dir', objs')
        /\ Leads(list'[p], cb', dir', objs')
        /\ \A r \in Procs : r # p => list'[r] = list[r]
        /\ objs' = objs /\ \A i \in cb.input_id .. cb.output_id : dir'[i] = dir[i]
    <3>1. cb.input_id .. cb.input_id - 1 = {} /\ cb.input_id <= cb.input_id
      BY <2>4
    <3> HIDE DEF mine
    <3> QED BY <1>1, <1>2, <2>1, <2>4, <2>5, <2>7, <3>1, DropFifo
  <2>9. \E j : Joins(j, cb', dir', objs', log')
    <3>1. PICK j : Joins(j, cb, dir, objs, log)
      BY DEF Fifo
    <3>2. Joins(j, cb, dir', objs', log)
      BY <2>8, <3>1, JoinsStay DEF SameMail
    <3> QED BY <1>1, <3>2
  <2>10. Awaits(m_controlblock'[p], call'[p], list'[p], cb', objs')
    <3>1. /\ call'[p].at \in {"idle", "act"} /\ call'[p].added = FALSE
          /\ call'[p].at # "idle" => call'[p].op = call[p].op
          /\ call[p].op = "pushed" => call'[p].at = "idle"
      BY <1>3, <2>2 DEF Leaves
    <3>2. call[p].op # "again"
      BY <1>1, <1>2 DEF Awaits
    <3> QED BY <3>1, <3>2 DEF Awaits
  <2>11. cb' \in CBs
    BY <1>1, <2>4
  <2> QED BY <1>2, <2>2, <2>3, <2>8, <2>9, <2>10, <2>11, FifoMoves
<1> QED BY <1>4, <1>5

(* The joined messages without the empty connector at their beginning.     *)
LEMMA JoinsShrink ==
    ASSUME NEW j, NEW b \in CBs, NEW b2 \in CBs, NEW d, NEW ob, NEW s, Joins(j, b, d, ob, s),
           b2.input_id = b.input_id + 1, b2.output_id = b.output_id,
           b.input_id < b.output_id, ob[d[b.input_id]].msgs = <<>>, NEW d2,
           \A i \in b2.input_id .. b2.output_id : d2[i] = d[i]
    PROVE  \E j2 : Joins(j2, b2, d2, ob, s)
<1> DEFINE a  == b.input_id
           z  == b.output_id
           j2 == [i \in a + 1 .. z + 1 |-> j[i]]
<1>1. a \in Nat /\ z \in Nat /\ a < z
  BY BusAssumption DEF CBs, Ids
<1>2. /\ j \in [a .. z + 1 -> Seq(Messages)] /\ j[a] = <<>> /\ j[z + 1] = s
      /\ \A i \in a .. z : j[i + 1] = j[i] \o ob[d[i]].msgs
      /\ ob[d[a]].msgs = <<>> /\ \A i \in a + 1 .. z : d2[i] = d[i]
  BY DEF Joins
<1> HIDE DEF a, z
<1>3. j2 \in [a + 1 .. z + 1 -> Seq(Messages)] /\ j2[z + 1] = s
  BY <1>1, <1>2
<1>4. j2[a + 1] = <<>>
  <2>1. a \in a .. z /\ a + 1 \in a + 1 .. z + 1
    BY <1>1
  <2>2. j[a + 1] = <<>> \o <<>>
    BY <1>2, <2>1
  <2> QED BY <2>1, <2>2
<1>5. ASSUME NEW i \in a + 1 .. z PROVE j2[i + 1] = j2[i] \o ob[d2[i]].msgs
  <2>1. i \in a .. z /\ i \in a + 1 .. z + 1 /\ i + 1 \in a + 1 .. z + 1
    BY <1>1
  <2>2. j2[i] = j[i] /\ j2[i + 1] = j[i + 1]
    BY <2>1
  <2> QED BY <1>2, <2>1, <2>2
<1>6. b2.input_id = a + 1 /\ b2.output_id = z
  BY DEF a, z
<1> HIDE DEF j2
<1>7. Joins(j2, b2, d2, ob, s)
  BY <1>3, <1>4, <1>5, <1>6 DEF Joins
<1> QED BY <1>7

(* A get or pop that found nothing leaves an empty connector behind.       *)
LEMMA ShrinkFifo ==
    ASSUME Sound, Serial, Fifo, NEW p \in Procs, Shrink(p)
    PROVE  Fifo'
<1> DEFINE mine == m_controlblock[p]
           id   == cb.input_id + 1
<1>1. /\ call[p].at = "shrink" /\ DropBack(p, id) /\ Goto(p, "act")
      /\ cb' = RaiseInput(cb) /\ log' = log
      /\ m_controlblock' = [m_controlblock EXCEPT ![p].input_id = id]
  BY DEF Shrink, hist, RaiseInput
<1>2. /\ Fits(p, sent, mine, call[p], list[p], cb, objs)
      /\ Follows(mine, call[p], list[p], cb)
      /\ Awaits(mine, call[p], list[p], cb, objs) /\ list[p] # <<>>
      /\ Leads(list[p], cb, dir, objs) /\ \A r \in Busy : r = p
  BY <1>1, Inside
<1>3. /\ cb \in CBs /\ cb.input_id \in Nat /\ cb.output_id \in Nat
      /\ list[p] \in Seq(Entries(objs)) /\ cb.input_id < cb.output_id
      /\ call[p].op \in {"get", "pop"}
  BY <1>1, <1>2, Here DEF Fits
<1>4. id \in Ids /\ cb' \in CBs /\ cb'.input_id = id /\ cb'.output_id = cb.output_id
  <2>1. cb.output_id <= MaxId /\ MaxId \in Nat
    BY <1>3, BusAssumption DEF CBs, Ids
  <2>2. id \in Ids
    BY <1>3, <2>1 DEF Ids
  <2> QED BY <1>1, <1>3, <2>2, Raised
<1>5. IsWindow(list[p], cb.input_id, cb.output_id)
  BY <1>1, <1>2 DEF Follows
<1>6. /\ Front(list[p]) # <<>> /\ Last(list[p]).id = cb.input_id
      /\ Len(list[p]) \in DOMAIN list[p] /\ Last(list[p]) = list[p][Len(list[p])]
  BY <1>2, <1>3, <1>5, WindowShrinks, WindowEnds
<1>7. objs[dir[cb.input_id]].msgs = <<>>
  <2>1. objs[Last(list[p]).obj].msgs = <<>>
    BY <1>1, <1>2, <1>3 DEF Awaits
  <2>2. Stands(Last(list[p]).obj, cb.input_id, cb, dir, objs)
    BY <1>2, <1>6 DEF Leads
  <2>3. Last(list[p]).obj = dir[cb.input_id]
    BY <1>3, <2>2 DEF Stands
  <2> QED BY <2>1, <2>3
<1>8. /\ Grows(cb, dir, objs, cb', dir', objs') /\ Names(cb', dir', objs')
      /\ Leads(list'[p], cb', dir', objs')
      /\ \A r \in Procs : r # p => list'[r] = list[r]
      /\ objs' = objs /\ \A i \in cb'.input_id .. cb'.output_id : dir'[i] = dir[i]
  <2>1. /\ cb.input_id .. cb'.input_id - 1 = {cb.input_id} /\ cb.input_id <= cb'.input_id
        /\ Last(list[p]).id < cb'.input_id
    BY <1>3, <1>4, <1>6
  <2> HIDE DEF id
  <2> QED BY <1>1, <1>2, <1>4, <1>6, <1>7, <2>1, DropFifo
<1>9. \E j : Joins(j, cb', dir', objs', log')
  <2>1. PICK j : Joins(j, cb, dir, objs, log)
    BY DEF Fifo
  <2>2. \E j2 : Joins(j2, cb', dir', objs, log)
    <3>1. /\ cb \in CBs /\ cb' \in CBs /\ cb'.input_id = cb.input_id + 1
          /\ cb'.output_id = cb.output_id /\ cb.input_id < cb.output_id
          /\ \A i \in cb'.input_id .. cb'.output_id : dir'[i] = dir[i]
      BY <1>3, <1>4, <1>8
    <3> QED BY ONLY <1>7, <2>1, <3>1, JoinsShrink, SMTT(40)
  <2> QED BY <1>1, <1>8, <2>2
<1>10. /\ \A r \in Procs : r # p => call'[r] = call[r]
       /\ call'[p].at = "act" /\ call'[p].op = call[p].op /\ call'[p].added = call[p].added
  BY <1>1, GotoCall
<1>11. Awaits(m_controlblock'[p], call'[p], list'[p], cb', objs')
  BY <1>1, <1>2, <1>3, <1>10 DEF Awaits
<1>12. \A r \in Procs : r # p => m_controlblock'[r] = m_controlblock[r]
  BY <1>1 DEF Sound
<1> QED BY <1>2, <1>4, <1>8, <1>9, <1>10, <1>11, <1>12, FifoMoves
-----------------------------------------------------------------------------
(* The joined messages with an empty connector at their end.               *)
LEMMA JoinsGrow ==
    ASSUME NEW j, NEW b \in CBs, NEW b2 \in CBs, NEW d, NEW ob, NEW s, Joins(j, b, d, ob, s),
           b2.input_id = b.input_id, b2.output_id = b.output_id + 1,
           b.input_id <= b.output_id, NEW d2, NEW ob2, SameMail(b, d, ob, d2, ob2),
           ob2[d2[b2.output_id]].msgs = <<>>
    PROVE  \E j2 : Joins(j2, b2, d2, ob2, s)
<1> DEFINE a  == b.input_id
           z  == b.output_id
           j2 == [i \in a .. z + 1 + 1 |-> IF i <= z + 1 THEN j[i] ELSE s]
<1>1. a \in Nat /\ z \in Nat /\ a <= z /\ b2.input_id = a /\ b2.output_id = z + 1
  BY BusAssumption DEF CBs, Ids
<1>2. /\ j \in [a .. z + 1 -> Seq(Messages)] /\ j[a] = <<>> /\ j[z + 1] = s
      /\ \A i \in a .. z : j[i + 1] = j[i] \o ob[d[i]].msgs
  BY DEF Joins
<1>3. \A i \in a .. z : d2[i] = d[i] /\ ob2[d2[i]].msgs = ob[d[i]].msgs
  BY DEF SameMail
<1>4. ob2[d2[z + 1]].msgs = <<>>
  BY <1>1
<1> HIDE DEF a, z
<1>5. s \in Seq(Messages) /\ \A i \in a .. z + 1 : j[i] \in Seq(Messages)
  BY <1>1, <1>2
<1>6. /\ j2 \in [a .. z + 1 + 1 -> Seq(Messages)]
      /\ j2[z + 1 + 1] = s /\ \A i \in a .. z + 1 : j2[i] = j[i]
  BY <1>1, <1>5
<1> HIDE DEF j2
<1>7. j2[a] = <<>>
  BY <1>1, <1>2, <1>6
<1>8. ASSUME NEW i \in a .. z + 1 PROVE j2[i + 1] = j2[i] \o ob2[d2[i]].msgs
  <2>1. CASE i <= z
    <3>1. i \in a .. z /\ i + 1 \in a .. z + 1
      BY <1>1, <2>1
    <3> QED BY <1>2, <1>3, <1>6, <3>1
  <2>2. CASE i = z + 1
    <3>1. j2[i] = s /\ j2[i + 1] = s
      BY <1>1, <1>2, <1>6, <2>2
    <3>2. s \o <<>> = s
      BY <1>5, JoinNothing
    <3> QED BY <1>4, <2>2, <3>1, <3>2
  <2>3. i <= z \/ i = z + 1
    BY <1>1
  <2> QED BY <2>1, <2>2, <2>3
<1>9. Joins(j2, b2, d2, ob2, s)
  BY <1>1, <1>6, <1>7, <1>8 DEF Joins
<1> QED BY <1>9

(* A refused push makes a new connector, empty and with a new object.      *)
LEMMA GrowFifo ==
    ASSUME Sound, Serial, Fifo, NEW p \in Procs, Grow(p)
    PROVE  Fifo'
<1> DEFINE id   == cb.output_id + 1
           made == Make(p, id)
           l    == list[p]
           l2   == list'[p]
           a    == cb.input_id
           z    == cb.output_id
<1>1. /\ call[p].at = "grow" /\ made.ok /\ Install(p, made) /\ id < MaxId
      /\ cb' = RaiseOutput(cb, id) /\ log' = log /\ PushesAgain(p)
      /\ m_controlblock' = [m_controlblock EXCEPT ![p].output_id = id]
  BY DEF Grow, hist, RaiseOutput
<1>2. /\ Fits(p, sent, m_controlblock[p], call[p], l, cb, objs)
      /\ Awaits(m_controlblock[p], call[p], l, cb, objs) /\ \A r \in Busy : r = p
      /\ Leads(l, cb, dir, objs) /\ Names(cb, dir, objs)
  BY <1>1, Inside DEF Fifo
<1>3. /\ list \in [Procs -> Seq(Entries(objs))] /\ l \in Seq(Entries(objs))
      /\ objs \in Seq(Objects) /\ dir \in [Ids -> 0 .. Len(objs)] /\ Len(objs) \in Nat
      /\ cb \in CBs /\ a \in Nat /\ z \in Nat /\ a <= z /\ MaxId \in Nat
  <2>1. cb \in CBs /\ objs \in Seq(Objects) /\ cb.input_id <= cb.output_id
    BY DEF Sound, Stored
  <2>2. a \in Nat /\ z \in Nat /\ MaxId \in Nat /\ Len(objs) \in Nat
    BY <2>1, BusAssumption DEF CBs, Ids
  <2> QED BY <2>1, <2>2 DEF Sound, Stored
<1>4. id \in Ids /\ cb' \in CBs /\ cb'.input_id = a /\ cb'.output_id = id /\ id = z + 1
  <2>1. id \in Ids
    BY <1>1, <1>3 DEF Ids
  <2> QED BY <1>1, <1>3, <2>1, Raised
<1>5. dir[id] = 0
  <2>1. ~(id <= z)
    BY <1>3
  <2> QED BY <1>2, <1>4, <2>1 DEF Names, Stands
<1> HIDE DEF id, l, l2, a, z, made
<1>6. Makes(made, objs, l, id) /\ Knows(made, dir, objs, l, id)
  BY <1>1, <1>3, <1>4, MakeFits, MakeKnows DEF Make, made, l
<1>7. dir' = made.dir /\ objs' = made.objs /\ list' = [list EXCEPT ![p] = made.list]
  BY <1>1 DEF Install
<1>8. l2 = made.list /\ \A r \in Procs : r # p => list'[r] = list[r]
  BY <1>3, <1>7 DEF l2
<1>9. /\ Len(l2) = Len(l) + 1 /\ l2[1].id = id /\ l2[1].obj = dir'[id]
      /\ \A k \in 1 .. Len(l) : l2[k + 1] = l[k]
      /\ \A i \in Ids : i # id => dir'[i] = dir[i]
      /\ dir'[id] = Len(objs) + 1 /\ objs'[dir'[id]].msgs = <<>>
      /\ \A x \in 1 .. Len(objs) : objs'[x] = objs[x]
      /\ l2 \in Seq(Entries(objs'))
  BY <1>1, <1>5, <1>6, <1>7, <1>8 DEF Makes, Knows
<1>10. ASSUME NEW i \in a .. z
       PROVE  dir'[i] = dir[i] /\ dir[i] \in 1 .. Len(objs) /\ objs'[dir[i]] = objs[dir[i]]
  <2>1. i \in Ids /\ i # id
    BY <1>3, <1>4 DEF Ids
  <2>2. dir[i] # 0
    BY <1>2 DEF Names, a, z
  <2>3. dir[i] \in 1 .. Len(objs)
    BY <1>3, <2>1, <2>2
  <2> QED BY <1>9, <2>1, <2>3
<1>11. Grows(cb, dir, objs, cb', dir', objs')
  <2>1. /\ a <= a /\ z <= id /\ a .. a - 1 = {} /\ z + 1 .. id = {id}
        /\ dir'[id] > Len(objs)
    BY <1>3, <1>4, <1>9
  <2>2. \A i \in a .. z : dir'[i] = dir[i]
    BY <1>10
  <2> HIDE DEF Stands
  <2> QED BY <1>4, <1>9, <2>1, <2>2 DEF Grows, a, z
<1>12. Names(cb', dir', objs')
  <2>1. Stands(dir'[id], id, cb', dir', objs')
    BY <1>3, <1>4 DEF Stands
  <2>2. \A i \in Ids : dir'[i] = 0 \/ dir'[i] = dir[i] \/ Stands(dir'[i], i, cb', dir', objs')
    BY <1>9, <2>1
  <2>3. cb'.output_id <= cb.output_id + 1
    BY <1>3, <1>4 DEF z
  <2> QED BY <1>2, <1>3, <1>4, <1>11, <2>2, <2>3, NamesKept
<1>13. Leads(l2, cb', dir', objs')
  <2>1. Leads(l, cb', dir', objs')
    BY <1>2, <1>3, <1>4, <1>11, LeadsKept
  <2>2. Stands(l2[1].obj, l2[1].id, cb', dir', objs')
    BY <1>3, <1>4, <1>9 DEF Stands
  <2>3. ASSUME NEW k \in DOMAIN l2 PROVE Stands(l2[k].obj, l2[k].id, cb', dir', objs')
    <3>1. CASE k = 1
      BY <2>2, <3>1
    <3>2. CASE k # 1
      <4>1. k - 1 \in 1 .. Len(l) /\ (k - 1) + 1 = k
        BY <1>3, <1>9, <3>2
      <4>2. l2[k] = l[k - 1] /\ k - 1 \in DOMAIN l
        BY <1>3, <1>9, <4>1
      <4> QED BY <2>1, <4>2 DEF Leads
    <3> QED BY <3>1, <3>2
  <2> QED BY <2>3 DEF Leads
<1>14. \E j : Joins(j, cb', dir', objs', log')
  <2>1. PICK j : Joins(j, cb, dir, objs, log)
    BY DEF Fifo
  <2>2. /\ cb'.input_id = cb.input_id /\ cb'.output_id = cb.output_id + 1
        /\ cb.input_id <= cb.output_id /\ objs'[dir'[cb'.output_id]].msgs = <<>>
        /\ SameMail(cb, dir, objs, dir', objs')
    BY <1>3, <1>4, <1>9, <1>10 DEF a, z, SameMail
  <2>3. cb \in CBs /\ cb' \in CBs
    BY <1>3, <1>4
  <2>4. \E j2 : Joins(j2, cb', dir', objs', log)
    BY ONLY <2>1, <2>2, <2>3, JoinsGrow
  <2> QED BY <1>1, <2>4
<1>15. /\ \A r \in Procs : r # p => call'[r] = call[r]
       /\ call'[p].at = "epoch" /\ call'[p].op = "push"
       /\ call'[p].added = call[p].added
  <2>1. call[p].op = "push"
    BY <1>1, <1>2 DEF Awaits, Fits
  <2>2. call \in [Procs -> Calls]
    BY DEF Sound
  <2>3. PICK w \in Calls : /\ call' = [call EXCEPT ![p] = w] /\ w.at = "epoch"
                           /\ w.op = "push" /\ w.added = call[p].added
    BY <1>1, <2>1, <2>2, AgainMoves
  <2>4. call'[p] = w /\ \A r \in Procs : r # p => call'[r] = call[r]
    BY <2>2, <2>3
  <2> QED BY <2>3, <2>4
<1>16. Awaits(m_controlblock'[p], call'[p], l2, cb', objs')
  BY <1>1, <1>2, <1>15 DEF Awaits, Fits
<1>17. \A r \in Procs : r # p => m_controlblock'[r] = m_controlblock[r]
  BY <1>1 DEF Sound
<1> QED BY <1>2, <1>4, <1>8, <1>11, <1>12, <1>13, <1>14, <1>15, <1>16, <1>17, FifoMoves DEF l2

(* A step of p that changes the messages of a connector of the chain.      *)
LEMMA MessageFifo ==
    ASSUME Sound, Serial, Fifo, NEW p \in Procs, call[p].at \notin {"idle", "closed"},
           UNCHANGED <<cb, dir, list, m_controlblock>>,
           NEW i \in cb.input_id .. cb.output_id, NEW ms,
           objs' = [objs EXCEPT ![dir[i]].msgs = ms],
           \A r \in Procs : r # p => call'[r] = call[r],
           Awaits(m_controlblock[p], call'[p], list[p], cb, objs'),
           \E j : Joins(j, cb, dir, objs', log')
    PROVE  Fifo'
<1>1. /\ objs \in Seq(Objects) /\ dir \in [Ids -> 0 .. Len(objs)] /\ cb \in CBs
      /\ list[p] \in Seq(Entries(objs))
      /\ cb.input_id \in Nat /\ cb.output_id \in Nat
  BY Here DEF Sound, Stored
<1>2. /\ Names(cb, dir, objs) /\ Leads(list[p], cb, dir, objs) /\ \A r \in Busy : r = p
  BY Inside DEF Fifo
<1>3. \A o \in 1 .. Len(objs) : o # dir[i] => objs'[o] = objs[o]
  <2> DEFINE o2 == dir[i]
  <2>1. objs' = [objs EXCEPT ![o2].msgs = ms]
    OBVIOUS
  <2> HIDE DEF o2
  <2>2. \A o \in 1 .. Len(objs) : o # o2 => objs'[o] = objs[o]
    BY <1>1, <2>1
  <2> QED BY <2>2 DEF o2
<1>4. Grows(cb, dir, objs, cb', dir', objs')
  <2>1. /\ cb.input_id <= cb.input_id /\ cb.output_id <= cb.output_id
        /\ cb.input_id .. cb.input_id - 1 = {} /\ cb.output_id + 1 .. cb.output_id = {}
    BY <1>1
  <2>2. cb' = cb /\ dir' = dir
    OBVIOUS
  <2>3. ASSUME NEW o \in 1 .. Len(objs), objs[o].msgs = <<>>,
               \A k \in cb.input_id .. cb.output_id : o # dir[k]
        PROVE  objs'[o].msgs = <<>>
    BY <1>3, <2>3
  <2> QED BY <2>1, <2>2, <2>3 DEF Grows
<1>5. Names(cb', dir', objs')
  <2>1. cb'.output_id <= cb.output_id + 1 /\ cb' \in CBs /\ dir' = dir
    BY <1>1
  <2>2. \A k \in Ids : dir'[k] = 0 \/ dir'[k] = dir[k] \/ Stands(dir'[k], k, cb', dir', objs')
    BY <2>1
  <2> QED BY ONLY <1>1, <1>2, <1>4, <2>1, <2>2, NamesKept
<1>6. Leads(list'[p], cb', dir', objs')
  <2>1. cb' \in CBs /\ list'[p] = list[p]
    BY <1>1
  <2>2. Leads(list[p], cb', dir', objs')
    BY ONLY <1>1, <1>2, <1>4, <2>1, LeadsKept
  <2> QED BY <2>1, <2>2
<1>7. cb' \in CBs
  BY <1>1
<1> QED BY <1>2, <1>4, <1>5, <1>6, <1>7, FifoMoves
-----------------------------------------------------------------------------
(* The message m comes to the last connector of the chain.                 *)
LEMMA JoinsPush ==
    ASSUME NEW j, NEW b \in CBs, NEW d, NEW ob, NEW s, Joins(j, b, d, ob, s), NEW ob2,
           NEW m \in Messages, b.input_id <= b.output_id,
           ob[d[b.output_id]].msgs \in Seq(Messages),
           ob2[d[b.output_id]].msgs = Append(ob[d[b.output_id]].msgs, m),
           \A i \in b.input_id .. b.output_id - 1 : ob2[d[i]] = ob[d[i]]
    PROVE  \E j2 : Joins(j2, b, d, ob2, Append(s, m))
<1> DEFINE a  == b.input_id
           z  == b.output_id
           t  == Append(s, m)
           j2 == [j EXCEPT ![z + 1] = t]
<1>1. a \in Nat /\ z \in Nat /\ a <= z
  BY BusAssumption DEF CBs, Ids
<1>2. /\ j \in [a .. z + 1 -> Seq(Messages)] /\ j[a] = <<>> /\ j[z + 1] = s
      /\ \A i \in a .. z : j[i + 1] = j[i] \o ob[d[i]].msgs
  BY DEF Joins
<1>3. /\ ob[d[z]].msgs \in Seq(Messages) /\ ob2[d[z]].msgs = Append(ob[d[z]].msgs, m)
      /\ \A i \in a .. z - 1 : ob2[d[i]] = ob[d[i]]
  OBVIOUS
<1> HIDE DEF a, z
<1>4. s \in Seq(Messages) /\ t \in Seq(Messages) /\ \A i \in a .. z : j[i] \in Seq(Messages)
  BY <1>1, <1>2
<1> HIDE DEF t
<1>5. /\ j2 \in [a .. z + 1 -> Seq(Messages)]
      /\ j2[z + 1] = t /\ \A i \in a .. z : j2[i] = j[i]
  BY <1>1, <1>2, <1>4
<1> HIDE DEF j2
<1>6. j2[a] = <<>>
  BY <1>1, <1>2, <1>5
<1>7. ASSUME NEW i \in a .. z PROVE j2[i + 1] = j2[i] \o ob2[d[i]].msgs
  <2>1. CASE i < z
    <3>1. i \in a .. z - 1 /\ i + 1 \in a .. z
      BY <1>1, <2>1
    <3> QED BY <1>2, <1>3, <1>5, <3>1
  <2>2. CASE i = z
    <3>1. j2[i] = j[z] /\ j2[i + 1] = t /\ j[z] \in Seq(Messages)
      BY <1>1, <1>2, <1>4, <1>5, <2>2
    <3>2. s = j[z] \o ob[d[z]].msgs
      <4>1. z \in a .. z
        BY <1>1
      <4> QED BY <1>2, <4>1
    <3>3. t = j[z] \o Append(ob[d[z]].msgs, m)
      <4> DEFINE x == j[z]
                 y == ob[d[z]].msgs
      <4>1. x \in Seq(Messages) /\ y \in Seq(Messages) /\ t = Append(x \o y, m)
        BY <1>3, <3>1, <3>2 DEF t
      <4> HIDE DEF x, y
      <4>2. x \o Append(y, m) = Append(x \o y, m)
        BY <4>1, JoinAppend
      <4> QED BY <4>1, <4>2 DEF x, y
    <3> QED BY <1>3, <2>2, <3>1, <3>3
  <2>3. i < z \/ i = z
    BY <1>1
  <2> QED BY <2>1, <2>2, <2>3
<1>8. Joins(j2, b, d, ob2, t)
  BY <1>5, <1>6, <1>7 DEF Joins, a, z
<1> QED BY <1>8 DEF t

(* When the first connector is not empty, its first message is the first   *)
(* of all that follow.                                                     *)
LEMMA JoinsHead ==
    ASSUME NEW j, NEW b \in CBs, NEW d, NEW ob, NEW s, Joins(j, b, d, ob, s),
           \A i \in b.input_id .. b.output_id : ob[d[i]].msgs \in Seq(Messages),
           b.input_id <= b.output_id, ob[d[b.input_id]].msgs # <<>>
    PROVE  \A i \in b.input_id + 1 .. b.output_id + 1 :
               j[i] # <<>> /\ Head(j[i]) = Head(ob[d[b.input_id]].msgs)
<1> DEFINE a == b.input_id
           z == b.output_id
           h == ob[d[a]].msgs
           S == {n \in Nat : a + 1 + n <= z + 1 =>
                               j[a + 1 + n] # <<>> /\ Head(j[a + 1 + n]) = Head(h)}
<1>1. a \in Nat /\ z \in Nat /\ a <= z
  BY BusAssumption DEF CBs, Ids
<1>2. /\ j \in [a .. z + 1 -> Seq(Messages)] /\ j[a] = <<>>
      /\ \A i \in a .. z : j[i + 1] = j[i] \o ob[d[i]].msgs
      /\ \A i \in a .. z : ob[d[i]].msgs \in Seq(Messages)
      /\ h # <<>> /\ h \in Seq(Messages)
  <2>1. a \in a .. z
    BY <1>1
  <2> QED BY <2>1 DEF Joins
<1>3. j[a + 1] = h
  <2>1. a \in a .. z
    BY <1>1
  <2>2. j[a + 1] = <<>> \o h
    BY <1>2, <2>1
  <2> QED BY <1>2, <2>2, JoinNothing
<1> HIDE DEF a, z, h
<1>4. 0 \in S
  <2>1. a + 1 + 0 = a + 1
    BY <1>1
  <2> QED BY <1>2, <1>3, <2>1
<1>5. ASSUME NEW n \in Nat, n \in S PROVE n + 1 \in S
  <2> DEFINE i == a + 1 + n
  <2> SUFFICES ASSUME a + 1 + (n + 1) <= z + 1
               PROVE  j[a + 1 + (n + 1)] # <<>> /\ Head(j[a + 1 + (n + 1)]) = Head(h)
    OBVIOUS
  <2>1. i \in a .. z /\ i \in a .. z + 1 /\ i <= z + 1 /\ a + 1 + (n + 1) = i + 1
    BY <1>1
  <2>2. j[i] # <<>> /\ Head(j[i]) = Head(h)
    BY <1>5, <2>1
  <2> HIDE DEF i
  <2>3. j[i + 1] = j[i] \o ob[d[i]].msgs
    BY <1>2, <2>1
  <2>4. j[i] \in Seq(Messages) /\ ob[d[i]].msgs \in Seq(Messages)
    BY <1>2, <2>1
  <2>5. j[i + 1] # <<>> /\ Head(j[i + 1]) = Head(j[i])
    <3> DEFINE x == j[i]
               y == ob[d[i]].msgs
    <3>1. x \in Seq(Messages) /\ y \in Seq(Messages) /\ x # <<>> /\ j[i + 1] = x \o y
      BY <2>2, <2>3, <2>4
    <3> HIDE DEF x, y
    <3>2. x \o y # <<>> /\ Head(x \o y) = Head(x)
      BY <3>1, JoinTail
    <3> QED BY <3>1, <3>2 DEF x
  <2> QED BY <2>1, <2>2, <2>5
<1> HIDE DEF S
<1>6. Nat \subseteq S
  BY <1>4, <1>5, NumberInduction
<1>7. ASSUME NEW i \in a + 1 .. z + 1 PROVE j[i] # <<>> /\ Head(j[i]) = Head(h)
  <2>1. i - (a + 1) \in Nat /\ a + 1 + (i - (a + 1)) = i /\ i <= z + 1
    BY <1>1
  <2>2. i - (a + 1) \in S
    BY <1>6, <2>1
  <2> QED BY <2>1, <2>2 DEF S
<1> QED BY <1>7 DEF a, z, h

(* The first message of the chain goes.                                    *)
LEMMA JoinsPop ==
    ASSUME NEW j, NEW b \in CBs, NEW d, NEW ob, NEW s, Joins(j, b, d, ob, s), NEW ob2,
           \A i \in b.input_id .. b.output_id : ob[d[i]].msgs \in Seq(Messages),
           b.input_id <= b.output_id, ob[d[b.input_id]].msgs # <<>>,
           ob2[d[b.input_id]].msgs = Tail(ob[d[b.input_id]].msgs),
           \A i \in b.input_id + 1 .. b.output_id : ob2[d[i]] = ob[d[i]]
    PROVE  \E j2 : Joins(j2, b, d, ob2, Tail(s))
<1> DEFINE a  == b.input_id
           z  == b.output_id
           j2 == [i \in a .. z + 1 |-> IF i = a THEN <<>> ELSE Tail(j[i])]
<1>1. a \in Nat /\ z \in Nat /\ a <= z
  BY BusAssumption DEF CBs, Ids
<1>2. /\ j \in [a .. z + 1 -> Seq(Messages)] /\ j[a] = <<>> /\ j[z + 1] = s
      /\ \A i \in a .. z : j[i + 1] = j[i] \o ob[d[i]].msgs
      /\ \A i \in a .. z : ob[d[i]].msgs \in Seq(Messages)
  BY DEF Joins
<1>3. \A i \in a + 1 .. z + 1 : j[i] # <<>>
  BY JoinsHead
<1>4. /\ ob2[d[a]].msgs = Tail(ob[d[a]].msgs) /\ ob[d[a]].msgs # <<>>
      /\ \A i \in a + 1 .. z : ob2[d[i]] = ob[d[i]]
  OBVIOUS
<1> HIDE DEF a, z
<1>5. ASSUME NEW i \in a + 1 .. z + 1 PROVE Tail(j[i]) \in Seq(Messages) /\ j2[i] = Tail(j[i])
  <2>1. i \in a .. z + 1 /\ i # a
    BY <1>1
  <2>2. j[i] \in Seq(Messages) /\ j[i] # <<>>
    BY <1>2, <1>3, <2>1
  <2> QED BY <2>1, <2>2
<1>6. j2 \in [a .. z + 1 -> Seq(Messages)]
  <2>1. ASSUME NEW i \in a .. z + 1
        PROVE  (IF i = a THEN <<>> ELSE Tail(j[i])) \in Seq(Messages)
    <3>1. i # a => i \in a + 1 .. z + 1
      BY <1>1
    <3>2. <<>> \in Seq(Messages)
      OBVIOUS
    <3> QED BY <1>5, <3>1, <3>2
  <2> QED BY <2>1
<1>7. j2[a] = <<>> /\ j2[z + 1] = Tail(s)
  <2>1. a \in a .. z + 1 /\ z + 1 \in a + 1 .. z + 1
    BY <1>1
  <2> QED BY <1>2, <1>5, <2>1
<1>8. ASSUME NEW i \in a .. z PROVE j2[i + 1] = j2[i] \o ob2[d[i]].msgs
  <2>1. i + 1 \in a + 1 .. z + 1 /\ (i # a => i \in a + 1 .. z + 1 /\ i \in a + 1 .. z)
    BY <1>1
  <2>2. j2[i + 1] = Tail(j[i + 1]) /\ j[i + 1] = j[i] \o ob[d[i]].msgs
        /\ ob[d[i]].msgs \in Seq(Messages)
    BY <1>2, <1>5, <2>1
  <2>3. CASE i = a
    <3>1. j[i + 1] = ob[d[i]].msgs
      BY <1>2, <2>2, <2>3, JoinNothing
    <3>2. Tail(ob[d[i]].msgs) \in Seq(Messages)
      BY <1>4, <2>2, <2>3
    <3>3. <<>> \o Tail(ob[d[i]].msgs) = Tail(ob[d[i]].msgs)
      BY <3>2, JoinNothing
    <3> QED BY <1>4, <1>7, <2>2, <2>3, <3>1, <3>3
  <2>4. CASE i # a
    <3>1. j[i] # <<>> /\ j[i] \in Seq(Messages)
      BY <1>2, <1>3, <2>1, <2>4
    <3>2. Tail(j[i] \o ob[d[i]].msgs) = Tail(j[i]) \o ob[d[i]].msgs
      BY <2>2, <3>1, JoinTail
    <3>3. j2[i] = Tail(j[i]) /\ ob2[d[i]] = ob[d[i]]
      BY <1>4, <1>5, <2>1, <2>4
    <3> QED BY <2>2, <3>2, <3>3
  <2> QED BY <2>3, <2>4
<1> HIDE DEF j2
<1>9. Joins(j2, b, d, ob2, Tail(s))
  BY <1>6, <1>7, <1>8 DEF Joins, a, z
<1> QED BY <1>9

(* Removing the first message.                                             *)
LEMMA RemoveHead ==
    ASSUME NEW s \in Seq(Messages), s # <<>>
    PROVE  RemoveFirst(s, Head(s)) = Tail(s)
<1> DEFINE m == Head(s)
           I == {i \in 1 .. Len(s) : s[i] = m}
<1>1. Len(s) \in Nat /\ Len(s) >= 1 /\ s[1] = m
  OBVIOUS
<1>2. 1 \in I /\ \A i \in I : i \in Nat /\ 1 <= i
  BY <1>1
<1>3. Min(I) = 1
  <2>0. Min(I) = CHOOSE x \in I : \A y \in I : x <= y
    BY DEF Min
  <2> HIDE DEF I
  <2>1. Min(I) \in I /\ \A y \in I : Min(I) <= y
    BY <1>2, <2>0
  <2> QED BY <1>2, <2>1
<1>4. RemoveFirst(s, m) = RemoveAt(s, 1)
  <2>1. (\E i \in 1 .. Len(s) : s[i] = m) /\ I # {}
    BY <1>2
  <2>2. SelectInSeq(s, LAMBDA v : v = m) = Min(I)
    BY <2>1 DEF SelectInSeq
  <2>3. RemoveFirst(s, m) = RemoveAt(s, SelectInSeq(s, LAMBDA v : v = m))
    BY <2>1 DEF RemoveFirst
  <2> QED BY <1>3, <2>2, <2>3
<1>5. RemoveAt(s, 1) = SubSeq(s, 1, 0) \o SubSeq(s, 2, Len(s))
  <2>1. 1 - 1 = 0 /\ 1 + 1 = 2
    OBVIOUS
  <2> QED BY <2>1 DEF RemoveAt
<1>6. SubSeq(s, 1, 0) = <<>> /\ SubSeq(s, 2, Len(s)) = Tail(s) /\ Tail(s) \in Seq(Messages)
  BY <1>1
<1> QED BY <1>4, <1>5, <1>6, JoinNothing
-----------------------------------------------------------------------------
(* The objects of the connectors of the chain.                             *)
LEMMA ChainObjects ==
    ASSUME Sound, Fifo
    PROVE  /\ cb \in CBs /\ cb.input_id \in Nat /\ cb.output_id \in Nat
           /\ cb.input_id <= cb.output_id /\ cb.output_id <= MaxId /\ MaxId \in Nat
           /\ objs \in Seq(Objects) /\ dir \in [Ids -> 0 .. Len(objs)]
           /\ \A o \in 1 .. Len(objs) : objs[o].msgs \in Seq(Messages)
           /\ \A i \in cb.input_id .. cb.output_id : /\ i \in Ids /\ dir[i] \in 1 .. Len(objs)
                                                     /\ objs[dir[i]].msgs \in Seq(Messages)
<1>1. /\ cb \in CBs /\ cb.input_id <= cb.output_id
      /\ objs \in Seq(Objects) /\ dir \in [Ids -> 0 .. Len(objs)]
  BY DEF Sound, Stored
<1>2. /\ cb.input_id \in Nat /\ cb.output_id \in Nat /\ cb.output_id <= MaxId
      /\ MaxId \in Nat /\ Len(objs) \in Nat
  BY <1>1, BusAssumption DEF CBs, Ids
<1>3. ASSUME NEW o \in 1 .. Len(objs) PROVE objs[o].msgs \in Seq(Messages)
  <2>1. objs[o] \in Objects
    BY <1>1
  <2> QED BY <2>1 DEF Objects
<1>4. ASSUME NEW i \in cb.input_id .. cb.output_id
      PROVE  i \in Ids /\ dir[i] \in 1 .. Len(objs)
  <2>1. i \in Ids
    BY <1>2 DEF Ids
  <2>2. dir[i] # 0
    BY DEF Fifo, Names
  <2> QED BY <1>1, <1>2, <2>1, <2>2
<1> QED BY <1>1, <1>2, <1>3, <1>4

(* The messages of an object are replaced, the other objects stay.         *)
LEMMA MailReplaced ==
    ASSUME NEW s \in Seq(Objects), NEW o \in 1 .. Len(s), NEW ms
    PROVE  /\ [s EXCEPT ![o].msgs = ms][o].msgs = ms
           /\ \A x \in 1 .. Len(s) : x # o => [s EXCEPT ![o].msgs = ms][x] = s[x]
<1>1. s[o] \in Objects
  OBVIOUS
<1>2. [s EXCEPT ![o].msgs = ms][o] = [s[o] EXCEPT !.msgs = ms]
  OBVIOUS
<1>3. [s[o] EXCEPT !.msgs = ms].msgs = ms
  BY <1>1 DEF Objects
<1> QED BY <1>2, <1>3

(* output_connector()->push: the message comes to the end of the chain,    *)
(* and the call does not store it a second time.                           *)
LEMMA PushStoresFifo ==
    ASSUME Sound, Serial, Fifo, NEW p \in Procs, PushStores(p)
    PROVE  Fifo' /\ \E m \in Messages : log' = Append(log, m)
<1> DEFINE o  == Output(p)
           z  == cb.output_id
           m  == [from |-> p, n |-> sent[p]]
           ms == Append(objs[o].msgs, m)
           w  == [call[p] EXCEPT !.op = "pushed", !.at = "epoch"]
<1>1. /\ call[p].at = "act" /\ call[p].op \in Pushing
      /\ UNCHANGED <<cb, dir, list, m_controlblock, sent>>
      /\ objs' = [objs EXCEPT ![o].msgs = ms]
      /\ log' = IF call[p].op = "push" THEN Append(log, m) ELSE log
  BY DEF PushStores
<1>2. /\ Fits(p, sent, m_controlblock[p], call[p], list[p], cb, objs)
      /\ Follows(m_controlblock[p], call[p], list[p], cb)
      /\ Awaits(m_controlblock[p], call[p], list[p], cb, objs)
      /\ Leads(list[p], cb, dir, objs) /\ list[p] # <<>> /\ call \in [Procs -> Calls]
  BY <1>1, Inside DEF Sound
<1>3. /\ cb \in CBs /\ cb.input_id \in Nat /\ z \in Nat /\ cb.input_id <= z
      /\ objs \in Seq(Objects)
      /\ \A i \in cb.input_id .. z : /\ dir[i] \in 1 .. Len(objs)
                                     /\ objs[dir[i]].msgs \in Seq(Messages)
  BY ChainObjects
<1>4. o = dir[z] /\ z \in cb.input_id .. z
  <2>1. list[p] \in Seq(Entries(objs)) /\ m_controlblock[p].input_id \in Nat
    BY Here
  <2>2. IsWindow(list[p], m_controlblock[p].input_id, z)
    BY <1>1, <1>2 DEF Follows
  <2>3. 1 \in DOMAIN list[p] /\ list[p][1].id = z
    BY <1>2, <1>3, <2>1, <2>2, WindowEnds
  <2>4. Stands(o, z, cb, dir, objs)
    BY <1>2, <2>3 DEF Leads, Output
  <2> QED BY <1>3, <2>4 DEF Stands
<1>5. m \in Messages
  <2>1. p \in Producers /\ sent[p] >= 1
    BY <1>1, <1>2 DEF Fits
  <2>2. sent[p] \in 0 .. MaxSent
    BY <2>1 DEF Sound, History
  <2>3. sent[p] \in 1 .. MaxSent
    BY <2>1, <2>2, BusAssumption
  <2> QED BY <2>1, <2>3 DEF Messages
<1> HIDE DEF o, m, z
<1>6. call[p].op = "push" /\ log' = Append(log, m)
  BY <1>1, <1>2 DEF Awaits
<1>7. /\ o \in 1 .. Len(objs) /\ objs'[o].msgs = ms
      /\ \A x \in 1 .. Len(objs) : x # o => objs'[x] = objs[x]
  <2>1. o \in 1 .. Len(objs)
    BY <1>3, <1>4
  <2> QED BY <1>1, <1>3, <2>1, MailReplaced
<1>8. \E j : Joins(j, cb, dir, objs', log')
  <2>1. PICK j : Joins(j, cb, dir, objs, log)
    BY DEF Fifo
  <2>2. ASSUME NEW i \in cb.input_id .. z - 1 PROVE objs'[dir[i]] = objs[dir[i]]
    <3>1. i \in cb.input_id .. z /\ i # z
      BY <1>3
    <3>2. dir[i] # dir[z]
      BY <1>4, <3>1 DEF Fifo, Names, z
    <3> QED BY <1>3, <1>4, <1>7, <3>1, <3>2
  <2>3. /\ objs[dir[z]].msgs \in Seq(Messages)
        /\ objs'[dir[z]].msgs = Append(objs[dir[z]].msgs, m)
    BY <1>3, <1>4, <1>7
  <2>4. \E j2 : Joins(j2, cb, dir, objs', Append(log, m))
    BY <1>3, <1>5, <2>1, <2>2, <2>3, JoinsPush DEF z
  <2> QED BY <1>6, <2>4
<1>9. call' = [call EXCEPT ![p] = w]
  BY <1>2 DEF PushStores
<1>10. w.at = "epoch" /\ w.op = "pushed" /\ w.added = call[p].added
  BY <1>2 DEF Calls
<1> HIDE DEF w, ms
<1>11. call'[p] = w /\ \A r \in Procs : r # p => call'[r] = call[r]
  BY <1>2, <1>9
<1>12. Awaits(m_controlblock[p], call'[p], list[p], cb, objs')
  BY <1>1, <1>2, <1>10, <1>11 DEF Awaits, Follows
<1>13. objs' = [objs EXCEPT ![dir[z]].msgs = ms] /\ call[p].at \notin {"idle", "closed"}
       /\ UNCHANGED <<cb, dir, list, m_controlblock>> /\ z \in cb.input_id .. cb.output_id
  BY <1>1, <1>4 DEF z
<1>14. Fifo'
  BY <1>8, <1>11, <1>12, <1>13, MessageFifo
<1> QED BY <1>5, <1>6, <1>14

(* A get or pop that finds a message finds the oldest of the chain.        *)
LEMMA FindsOldest ==
    ASSUME Sound, Serial, Fifo, NEW p \in Procs, call[p].at \notin {"idle", "closed"},
           objs[Input(p)].msgs # <<>>
    PROVE  /\ Input(p) = dir[cb.input_id]
           /\ log # <<>> /\ Head(objs[Input(p)].msgs) = Head(log)
<1> DEFINE a == cb.input_id
           z == cb.output_id
<1>1. /\ Fits(p, sent, m_controlblock[p], call[p], list[p], cb, objs)
      /\ Follows(m_controlblock[p], call[p], list[p], cb)
      /\ Leads(list[p], cb, dir, objs) /\ list[p] # <<>>
  BY Inside
<1>2. /\ cb \in CBs /\ a \in Nat /\ z \in Nat /\ a <= z
      /\ \A i \in a .. z : objs[dir[i]].msgs \in Seq(Messages)
  BY ChainObjects
<1>3. /\ list[p] \in Seq(Entries(objs)) /\ m_controlblock[p].input_id \in Nat
      /\ m_controlblock[p].output_id \in Nat
  BY Here
<1>4. IsWindow(list[p], m_controlblock[p].input_id, m_controlblock[p].output_id)
  BY <1>1 DEF Follows
<1>5. /\ Len(list[p]) \in DOMAIN list[p] /\ Last(list[p]) = list[p][Len(list[p])]
      /\ Last(list[p]).id = m_controlblock[p].input_id
  BY <1>1, <1>3, <1>4, WindowEnds
<1>6. Stands(Input(p), m_controlblock[p].input_id, cb, dir, objs)
  BY <1>1, <1>5 DEF Leads, Input
<1>7. m_controlblock[p].input_id <= a
  BY <1>1 DEF Fits
<1>8. m_controlblock[p].input_id = a
  BY <1>2, <1>3, <1>6, <1>7 DEF Stands
<1>9. Input(p) = dir[a]
  BY <1>2, <1>6, <1>8 DEF Stands
<1>10. PICK j : Joins(j, cb, dir, objs, log)
  BY DEF Fifo
<1>11. \A i \in a + 1 .. z + 1 : j[i] # <<>> /\ Head(j[i]) = Head(objs[dir[a]].msgs)
  BY <1>2, <1>9, <1>10, JoinsHead
<1>12. z + 1 \in a + 1 .. z + 1 /\ j[z + 1] = log
  BY <1>2, <1>10 DEF Joins
<1> QED BY <1>9, <1>11, <1>12

(* input_connector()->pop takes the oldest message of the chain.           *)
LEMMA PopFindsFifo ==
    ASSUME Sound, Serial, Fifo, NEW p \in Procs, PopFinds(p)
    PROVE  Fifo'
<1> DEFINE o  == Input(p)
           a  == cb.input_id
           ms == Tail(objs[o].msgs)
<1>1. /\ call[p].at = "act" /\ objs[o].msgs # <<>> /\ Goto(p, "idle")
      /\ UNCHANGED <<cb, dir, list, m_controlblock>>
      /\ objs' = [objs EXCEPT ![o].msgs = ms]
      /\ log' = RemoveFirst(log, Head(objs[o].msgs))
  BY DEF PopFinds
<1>2. o = dir[a] /\ log # <<>> /\ Head(objs[o].msgs) = Head(log)
  BY <1>1, FindsOldest
<1>3. log' = Tail(log)
  <2>1. log \in Seq(Messages)
    BY DEF Sound, History
  <2> QED BY <1>1, <1>2, <2>1, RemoveHead
<1>4. /\ cb \in CBs /\ a \in Nat /\ cb.output_id \in Nat /\ a <= cb.output_id
      /\ objs \in Seq(Objects)
      /\ \A i \in a .. cb.output_id : /\ dir[i] \in 1 .. Len(objs)
                                      /\ objs[dir[i]].msgs \in Seq(Messages)
  BY ChainObjects
<1>5. a \in a .. cb.output_id
  BY <1>4
<1> HIDE DEF o, a
<1>6. /\ objs'[o].msgs = ms
      /\ \A x \in 1 .. Len(objs) : x # o => objs'[x] = objs[x]
  <2>1. o \in 1 .. Len(objs)
    BY <1>2, <1>4, <1>5
  <2> QED BY <1>1, <1>4, <2>1, MailReplaced
<1>7. \E j : Joins(j, cb, dir, objs', log')
  <2>1. PICK j : Joins(j, cb, dir, objs, log)
    BY DEF Fifo
  <2>2. ASSUME NEW i \in a + 1 .. cb.output_id PROVE objs'[dir[i]] = objs[dir[i]]
    <3>1. i \in a .. cb.output_id /\ i # a
      BY <1>4
    <3>2. dir[i] # dir[a]
      BY <1>5, <3>1 DEF Fifo, Names, a
    <3> QED BY <1>2, <1>4, <1>6, <3>1, <3>2
  <2>3. objs[dir[a]].msgs # <<>> /\ objs'[dir[a]].msgs = Tail(objs[dir[a]].msgs)
    BY <1>1, <1>2, <1>6
  <2>4. \E j2 : Joins(j2, cb, dir, objs', Tail(log))
    BY <1>4, <2>1, <2>2, <2>3, JoinsPop DEF a
  <2> QED BY <1>3, <2>4
<1>8. /\ \A r \in Procs : r # p => call'[r] = call[r]
      /\ call'[p].at = "idle" /\ call'[p].added = FALSE
  BY <1>1, GotoCall
<1>9. Awaits(m_controlblock[p], call'[p], list[p], cb, objs')
  BY <1>8 DEF Awaits
<1> HIDE DEF ms
<1>10. objs' = [objs EXCEPT ![dir[a]].msgs = ms] /\ call[p].at \notin {"idle", "closed"}
       /\ UNCHANGED <<cb, dir, list, m_controlblock>> /\ a \in cb.input_id .. cb.output_id
  BY <1>1, <1>2, <1>5 DEF a
<1> QED BY <1>7, <1>8, <1>9, <1>10, MessageFifo
-----------------------------------------------------------------------------
(* do_open after some turns: it has found the connectors that are there.   *)
Found(r) ==
    /\ r.ok /\ r.dir = dir /\ r.objs = objs /\ r.list \in Seq(Entries(objs))
    /\ Leads(r.list, cb, dir, objs)

(* A turn of do_open finds a connector of the chain.                       *)
LEMMA FindsNext ==
    ASSUME Sound, Fifo, NEW l \in Seq(Entries(objs)), Leads(l, cb, dir, objs),
           NEW i \in cb.input_id .. cb.output_id
    PROVE  Found(make_connector(dir, objs, l, i))
<1> DEFINE made == make_connector(dir, objs, l, i)
           l2   == made.list
<1>1. /\ objs \in Seq(Objects) /\ dir \in [Ids -> 0 .. Len(objs)]
      /\ i \in Ids /\ dir[i] \in 1 .. Len(objs)
  BY ChainObjects
<1>2. dir[i] # 0
  BY <1>1
<1>3. made.ok /\ Knows(made, dir, objs, l, i) /\ Makes(made, objs, l, i)
  BY <1>1, <1>2, MakeKnows, MakeFits
<1> HIDE DEF made
<1>4. /\ made.ok /\ made.dir = dir /\ made.objs = objs /\ l2 \in Seq(Entries(objs))
      /\ Len(l2) = Len(l) + 1 /\ l2[1].id = i /\ l2[1].obj = dir[i]
      /\ \A k \in 1 .. Len(l) : l2[k + 1] = l[k]
  BY <1>2, <1>3 DEF Knows, Makes
<1> HIDE DEF l2
<1>5. Leads(l2, cb, dir, objs)
  <2>1. Stands(l2[1].obj, l2[1].id, cb, dir, objs)
    BY <1>1, <1>2, <1>4 DEF Fifo, Names
  <2>2. ASSUME NEW k \in DOMAIN l2 PROVE Stands(l2[k].obj, l2[k].id, cb, dir, objs)
    <3>1. CASE k = 1
      BY <2>1, <3>1
    <3>2. CASE k # 1
      <4>1. k - 1 \in 1 .. Len(l) /\ (k - 1) + 1 = k
        BY <1>4, <3>2
      <4>2. l2[k] = l[k - 1] /\ k - 1 \in DOMAIN l
        BY <1>4, <4>1
      <4> QED BY <4>2 DEF Leads
    <3> QED BY <3>1, <3>2
  <2> QED BY <2>2 DEF Leads
<1>6. Found(made)
  BY <1>4, <1>5 DEF Found, l2
<1> QED BY <1>6 DEF made

(* do_open creates nothing: every connector of the chain is there.         *)
LEMMA OpenedFound ==
    ASSUME Sound, Fifo
    PROVE  Found(Opened)
<1> DEFINE a == cb.input_id
           z == cb.output_id
<1>1. a \in Nat /\ z \in Nat /\ a <= z /\ z - a \in Nat /\ a + (z - a) = z
  BY ChainObjects
<1>2. PICK open : Turns(open) /\ Opened = open[z]
  BY OpenedTurns DEF Sound
<1>3. Found(open[a])
  <2>1. a \in a .. z
    BY <1>1
  <2>2. open[a] = make_connector(dir, objs, <<>>, a)
    BY <1>2, <2>1 DEF Turns
  <2>3. <<>> \in Seq(Entries(objs)) /\ Leads(<<>>, cb, dir, objs)
    BY DEF Leads
  <2> QED BY <2>1, <2>2, <2>3, FindsNext
<1>4. ASSUME NEW i \in a .. z, i + 1 \in a .. z, Found(open[i])
      PROVE  Found(open[i + 1])
  <2>1. i + 1 # a /\ (i + 1) - 1 = i
    BY <1>1
  <2>2. open[i + 1] = IF ~open[i].ok THEN open[i]
                      ELSE make_connector(open[i].dir, open[i].objs, open[i].list, i + 1)
    BY <1>2, <1>4, <2>1 DEF Turns
  <2>3. open[i + 1] = make_connector(dir, objs, open[i].list, i + 1)
    BY <1>4, <2>2 DEF Found
  <2>4. open[i].list \in Seq(Entries(objs)) /\ Leads(open[i].list, cb, dir, objs)
    BY <1>4 DEF Found
  <2> QED BY <1>4, <2>3, <2>4, FindsNext
<1> DEFINE S == {n \in Nat : a + n <= z => Found(open[a + n])}
<1>5. 0 \in S
  <2>1. a + 0 = a
    BY <1>1
  <2> QED BY <1>3, <2>1
<1>6. ASSUME NEW n \in Nat, n \in S PROVE n + 1 \in S
  <2> SUFFICES ASSUME a + (n + 1) <= z PROVE Found(open[a + (n + 1)])
    OBVIOUS
  <2> DEFINE i == a + n
  <2>1. i \in a .. z /\ i + 1 \in a .. z /\ a + (n + 1) = i + 1 /\ a + n <= z
    BY <1>1
  <2>2. Found(open[i])
    BY <1>6, <2>1
  <2> HIDE DEF i
  <2> QED BY <1>4, <2>1, <2>2
<1> HIDE DEF S
<1>7. Nat \subseteq S
  BY <1>5, <1>6, NumberInduction
<1>8. z - a \in S
  BY <1>1, <1>7
<1> QED BY <1>1, <1>2, <1>8 DEF S

(* A process that opens the bus, even while another is in a call.          *)
LEMMA OpenFifo ==
    ASSUME Sound, Serial, Fifo, NEW p \in Procs, Open(p), ~fault'
    PROVE  Fifo'
<1>1. /\ Install(p, Opened) /\ Goto(p, "idle") /\ cb' = cb /\ log' = log
      /\ m_controlblock' = [m_controlblock EXCEPT ![p] = cb]
  BY DEF Open
<1>2. Opened.dir = dir /\ Opened.objs = objs /\ Leads(Opened.list, cb, dir, objs)
  BY OpenedFound DEF Found
<1>3. /\ dir' = dir /\ objs' = objs /\ list'[p] = Opened.list
      /\ \A r \in Procs : r # p => list'[r] = list[r]
      /\ \A r \in Procs : r # p => m_controlblock'[r] = m_controlblock[r]
  <2>1. dir' = dir /\ objs' = objs /\ list' = [list EXCEPT ![p] = Opened.list]
    BY <1>1, <1>2 DEF Install
  <2>2. list \in [Procs -> Seq(Entries(objs))] /\ m_controlblock \in [Procs -> CBs]
    BY DEF Sound
  <2> QED BY <1>1, <2>1, <2>2
<1>4. /\ cb \in CBs /\ cb.input_id \in Nat /\ cb.output_id \in Nat
  BY ChainObjects
<1>5. Grows(cb, dir, objs, cb', dir', objs')
  <2>1. /\ cb.input_id <= cb.input_id /\ cb.output_id <= cb.output_id
        /\ cb.input_id .. cb.input_id - 1 = {} /\ cb.output_id + 1 .. cb.output_id = {}
    BY <1>4
  <2> QED BY <1>1, <1>3, <2>1 DEF Grows
<1>6. /\ \A r \in Procs : r # p => call'[r] = call[r]
      /\ call'[p].at = "idle" /\ call'[p].added = FALSE
  BY <1>1, GotoCall
<1>7. Awaits(m_controlblock'[p], call'[p], list'[p], cb', objs')
  BY <1>6 DEF Awaits
<1>8. /\ Names(cb', dir', objs') /\ Leads(list'[p], cb', dir', objs')
      /\ \E j : Joins(j, cb', dir', objs', log')
  BY <1>1, <1>2, <1>3 DEF Fifo
<1>9. cb' \in CBs
  BY <1>1, <1>4
<1> QED BY <1>1, <1>3, <1>5, <1>6, <1>7, <1>8, <1>9, FifoMoves

(* Every step without a fault keeps the chain a FIFO.                      *)
LEMMA FifoStep ==
    ASSUME Sound, Serial, Fifo, BusNext, ~fault'
    PROVE  Fifo'
<1>1. ASSUME NEW p \in Procs, Open(p) PROVE Fifo'
  BY <1>1, OpenFifo
<1>2. ASSUME NEW p \in Procs, Close(p) PROVE Fifo'
  BY <1>2 DEF Close
<1>3. ASSUME NEW p \in Procs, Step(p) PROVE Fifo'
  <2>1. CASE is_updated(p)
    BY <2>1, isUpdatedFifo
  <2>2. CASE ReadOutputId(p)
    BY <2>2, ReadOutputIdFifo
  <2>3. CASE AddKnown(p)
    BY <2>3, AddKnownFifo
  <2>4. CASE AddGivesUp(p)
    BY <2>4 DEF AddGivesUp
  <2>5. CASE RemoveKnown(p)
    BY <2>5, RemoveKnownFifo
  <2>6. CASE PushStores(p)
    BY <2>6, PushStoresFifo
  <2>7. CASE Grow(p)
    BY <2>7, GrowFifo
  <2>8. CASE PopFinds(p)
    BY <2>8, PopFindsFifo
  <2>9. CASE Shrink(p)
    BY <2>9, ShrinkFifo
  <2>10. CASE PushRefused(p) \/ PushFails(p) \/ FindsNothing(p) \/ can_remove_connector(p)
                \/ GetFinds(p)
    BY <2>10, GoesFifo
  <2> QED BY <1>3, <2>1, <2>2, <2>3, <2>4, <2>5, <2>6, <2>7, <2>8, <2>9, <2>10 DEF Step
<1>4. ASSUME NEW p \in Procs, BeginPush(p) \/ BeginGet(p) \/ BeginPop(p) PROVE Fifo'
  BY <1>4, BeginFifo DEF BeginPush, BeginGet, BeginPop
<1> QED BY <1>1, <1>2, <1>3, <1>4 DEF BusNext, Procs

(* create leaves a chain of one empty connector.                           *)
LEMMA FifoStarts ==
    ASSUME BusInit, Sound
    PROVE  Fifo
<1> DEFINE e == Entry(0, 1)
           j == [i \in 0 .. 1 |-> <<>>]
<1>1. 0 \in Ids /\ e.id = 0 /\ e.obj = 1
  BY BusAssumption DEF Ids, Entry
<1>2. /\ cb.input_id = 0 /\ cb.output_id = 0 /\ dir = [i \in Ids |-> IF i = 0 THEN 1 ELSE 0]
      /\ objs = <<[level |-> 1, msgs |-> <<>>]>> /\ log = <<>>
      /\ list = [p \in Procs |-> IF p = Creator THEN <<e>> ELSE <<>>]
  BY DEF BusInit, Created
<1>3. objs[1].msgs = <<>> /\ dir[0] = 1 /\ 0 .. 0 = {0} /\ \A i \in Ids : dir[i] # 0 => i = 0
  BY <1>1, <1>2
<1> HIDE DEF e
<1>4. Names(cb, dir, objs)
  BY <1>2, <1>3 DEF Names, Stands
<1>5. ASSUME NEW p \in Procs PROVE Leads(list[p], cb, dir, objs)
  <2>1. list[p] = <<e>> \/ list[p] = <<>>
    BY <1>2
  <2>2. ASSUME NEW k \in DOMAIN list[p] PROVE list[p][k] = e
    BY <2>1
  <2>3. Stands(e.obj, e.id, cb, dir, objs)
    BY <1>1, <1>2, <1>3 DEF Stands
  <2> QED BY <2>2, <2>3 DEF Leads
<1>6. ASSUME NEW p \in Procs
      PROVE  Awaits(m_controlblock[p], call[p], list[p], cb, objs)
  <2>1. call[p] = Outside(IF p = Creator THEN "idle" ELSE "closed")
    BY DEF BusInit
  <2>2. call[p].at \in {"idle", "closed"} /\ call[p].added = FALSE
    BY <2>1 DEF Outside
  <2> QED BY <2>2 DEF Awaits
<1>7. Joins(j, cb, dir, objs, log)
  <2>1. j \in [0 .. 0 + 1 -> Seq(Messages)] /\ j[0] = <<>> /\ j[0 + 1] = <<>>
    OBVIOUS
  <2>2. <<>> \o <<>> = <<>>
    OBVIOUS
  <2> HIDE DEF j
  <2> QED BY <1>2, <1>3, <2>1, <2>2 DEF Joins
<1> QED BY <1>4, <1>5, <1>6, <1>7 DEF Fifo
-----------------------------------------------------------------------------
(* What the consumers have got and not yet popped: with one consumer it is *)
(* the oldest message.                                                     *)
Views ==
    /\ DOMAIN view = Consumers
    /\ \A c \in Consumers : view[c] # <<>> => log # <<>> /\ view[c] = <<Head(log)>>

(* A step after which every view is as before or empty, and the oldest     *)
(* message is as before.                                                   *)
LEMMA ViewsStay ==
    ASSUME Views, DOMAIN view' = Consumers,
           \A c \in Consumers : view'[c] = view[c] \/ view'[c] = <<>>,
           log # <<>> => log' # <<>> /\ Head(log') = Head(log)
    PROVE  Views'
BY DEF Views

(* Every step without a fault keeps what a get has returned the oldest.    *)
LEMMA ViewsStep ==
    ASSUME OneConsumer, Sound, Serial, Fifo, Views, BusNext, ~fault'
    PROVE  Views'
<1>0. DOMAIN view = Consumers /\ log \in Seq(Messages)
  BY DEF Views, Sound, History
<1>1. ASSUME NEW p \in Procs, Open(p) \/ Close(p) PROVE Views'
  <2>1. view' = view /\ log' = log
    BY <1>1 DEF Open, Close
  <2> QED BY <1>0, <2>1, ViewsStay
<1>2. ASSUME NEW p \in Procs, Step(p) PROVE Views'
  <2>1. CASE \/ is_updated(p) \/ ReadOutputId(p) \/ AddKnown(p) \/ AddGivesUp(p)
             \/ RemoveKnown(p) \/ PushRefused(p) \/ Grow(p) \/ PushFails(p)
             \/ FindsNothing(p) \/ Shrink(p)
    <3>1. view' = view /\ log' = log
      BY <2>1 DEF is_updated, ReadOutputId, AddKnown, AddGivesUp, RemoveKnown, PushRefused,
                  Grow, PushFails, FindsNothing, Shrink, hist
    <3> QED BY <1>0, <3>1, ViewsStay
  <2>2. CASE can_remove_connector(p)
    <3>1. log' = log /\ (view' = view \/ view' = [view EXCEPT ![p] = <<>>])
      BY <2>2 DEF can_remove_connector
    <3>2. \A c \in Consumers : view'[c] = view[c] \/ view'[c] = <<>>
      BY <1>0, <3>1
    <3> QED BY <1>0, <3>1, <3>2, ViewsStay
  <2>3. CASE PushStores(p)
    <3>1. PICK m \in Messages : log' = Append(log, m)
      BY <2>3, PushStoresFifo
    <3>2. view' = view
      BY <2>3 DEF PushStores
    <3>3. log # <<>> => log' # <<>> /\ Head(log') = Head(log)
      BY <1>0, <3>1
    <3> QED BY <1>0, <3>2, <3>3, ViewsStay
  <2>4. CASE GetFinds(p)
    <3> DEFINE m == Head(objs[Input(p)].msgs)
    <3>1. /\ call[p].at = "act" /\ objs[Input(p)].msgs # <<>>
          /\ view' = [view EXCEPT ![p] = <<m>>] /\ log' = log
      BY <2>4 DEF GetFinds
    <3>2. log # <<>> /\ m = Head(log)
      BY <3>1, FindsOldest
    <3> HIDE DEF m
    <3>3. \A c \in Consumers : view'[c] = view[c] \/ view'[c] = <<Head(log)>>
      BY <1>0, <3>1, <3>2
    <3>4. DOMAIN view' = Consumers
      BY <1>0, <3>1
    <3> QED BY <3>1, <3>2, <3>3, <3>4 DEF Views
  <2>5. CASE PopFinds(p)
    <3>1. view' = [view EXCEPT ![p] = <<>>] /\ call[p].op = "pop"
      BY <2>5 DEF PopFinds
    <3>2. p \in Consumers
      BY <3>1 DEF Sound, Suits, Fits
    <3>3. \A c \in Consumers : c = p /\ view'[c] = <<>>
      BY <1>0, <3>1, <3>2 DEF OneConsumer
    <3>4. DOMAIN view' = Consumers
      BY <1>0, <3>1
    <3> QED BY <3>3, <3>4 DEF Views
  <2> QED BY <1>2, <2>1, <2>2, <2>3, <2>4, <2>5 DEF Step
<1>3. ASSUME NEW p \in Procs, BeginPush(p) \/ BeginGet(p) \/ BeginPop(p) PROVE Views'
  <2>1. view' = view /\ log' = log
    BY <1>3 DEF BeginPush, BeginGet, BeginPop, Begin
  <2> QED BY <1>0, <2>1, ViewsStay
<1> QED BY <1>1, <1>2, <1>3 DEF BusNext, Procs

(* The connectors a consumer has still to read: k counts from the oldest   *)
(* connector a0 of its list, and those before the input_id are empty.      *)
LEMMA PathReads ==
    ASSUME Sound, Serial, Fifo, NEW c \in Procs,
           NEW a0, a0 = IF call[c].at = "closed" THEN cb.input_id
                        ELSE m_controlblock[c].input_id
    PROVE  /\ a0 \in Nat /\ a0 <= cb.input_id
           /\ DOMAIN Path(c) = 1 .. cb.output_id - a0 + 1
           /\ \A k \in 1 .. cb.output_id - a0 + 1 :
                 (IF Path(c)[k] = 0 THEN <<>> ELSE objs[Path(c)[k]].msgs)
                    = IF a0 + k - 1 < cb.input_id THEN <<>> ELSE objs[dir[a0 + k - 1]].msgs
<1> DEFINE a    == cb.input_id
           z    == cb.output_id
           y    == m_controlblock[c].output_id
           l    == list[c]
           own  == IF call[c].at = "closed" THEN <<>>
                   ELSE [k \in DOMAIN l |-> l[Len(l) + 1 - k].obj]
           from == IF call[c].at = "closed" THEN a ELSE l[1].id + 1
           rest == [k \in 1 .. z - from + 1 |-> dir[from + k - 1]]
           Mail(o) == IF o = 0 THEN <<>> ELSE objs[o].msgs
           Read(i) == IF i < a THEN <<>> ELSE objs[dir[i]].msgs
<1>1. /\ cb \in CBs /\ a \in Nat /\ z \in Nat /\ a <= z /\ z <= MaxId /\ MaxId \in Nat
      /\ objs \in Seq(Objects) /\ dir \in [Ids -> 0 .. Len(objs)] /\ Len(objs) \in Nat
  BY ChainObjects
<1>2. /\ l \in Seq(Entries(objs)) /\ y \in Nat /\ m_controlblock[c].input_id \in Nat
      /\ m_controlblock[c].input_id <= a /\ y <= z
      /\ Leads(l, cb, dir, objs) /\ Names(cb, dir, objs)
      /\ m_controlblock[c].input_id <= y
      /\ call[c].at # "closed" => l # <<>> /\ IsWindow(l, m_controlblock[c].input_id, y)
  <2>1. Fits(c, sent, m_controlblock[c], call[c], l, cb, objs)
    BY DEF Sound, Suits
  <2>2. Follows(m_controlblock[c], call[c], l, cb)
    BY DEF Serial
  <2> QED BY <2>1, <2>2, Here DEF Fits, Follows, Fifo
<1>3. Path(c) = own \o rest
  BY DEF Path
<1>4. a0 \in Nat /\ a0 <= a
  BY <1>1, <1>2
<1>0. /\ \A i \in Ids : dir[i] # 0 => Stands(dir[i], i, cb, dir, objs)
      /\ \A i \in a .. z : dir[i] # 0
  BY <1>2 DEF Names
<1>9. \A o, i : Stands(o, i, cb, dir, objs) =>
                  (i < a => objs[o].msgs = <<>>) /\ (i >= a => o = dir[i])
  BY DEF Stands
<1>10. /\ call[c].at = "closed" => a0 = a
       /\ call[c].at # "closed" => a0 = m_controlblock[c].input_id
  OBVIOUS
<1> HIDE DEF a, z, y, l
<1>5. ASSUME NEW i \in a0 .. z PROVE i \in Ids /\ Mail(dir[i]) = Read(i)
  <2>1. i \in Ids
    BY <1>1, <1>4 DEF Ids
  <2>2. CASE i < a
    <3>1. dir[i] # 0 => objs[dir[i]].msgs = <<>>
      BY <1>0, <1>9, <2>1, <2>2
    <3> QED BY <2>1, <2>2, <3>1
  <2>3. CASE i >= a
    <3>1. dir[i] # 0 /\ ~(i < a)
      <4>1. i \in a .. z
        BY <1>1, <2>3
      <4>2. ~(i < a)
        BY <1>1, <2>3
      <4> QED BY <1>0, <4>1, <4>2
    <3> QED BY <2>1, <3>1
  <2>4. i < a \/ i >= a
    BY <1>1, <1>4
  <2> QED BY <2>2, <2>3, <2>4
<1>6. CASE call[c].at = "closed"
  <2>1. own = <<>> /\ from = a /\ a0 = a
    BY <1>6, <1>10
  <2>2. rest = [k \in 1 .. z - a0 + 1 |-> dir[a0 + k - 1]]
    BY <2>1
  <2>3. rest \in Seq(0 .. Len(objs))
    <3>1. ASSUME NEW k \in 1 .. z - a0 + 1 PROVE dir[a0 + k - 1] \in 0 .. Len(objs)
      <4>1. a0 + k - 1 \in a0 .. z
        BY <1>1, <1>4
      <4> QED BY <1>1, <1>5, <4>1
    <3>2. z - a0 + 1 \in Nat
      BY <1>1, <1>4
    <3> DEFINE n == z - a0 + 1
               f == [k \in 1 .. n |-> dir[a0 + k - 1]]
    <3>3. f = rest /\ f \in [1 .. n -> 0 .. Len(objs)] /\ n \in Nat
      BY <2>2, <3>1, <3>2
    <3> HIDE DEF rest, n, f
    <3> QED BY <3>3
  <2> HIDE DEF rest
  <2>4. Path(c) = rest
    BY <1>3, <2>1, <2>3, JoinNothing
  <2>5. DOMAIN Path(c) = 1 .. z - a0 + 1
    BY <2>2, <2>4
  <2>6. ASSUME NEW k \in 1 .. z - a0 + 1 PROVE Mail(Path(c)[k]) = Read(a0 + k - 1)
    <3>1. a0 + k - 1 \in a0 .. z
      BY <1>1, <1>4
    <3>2. Path(c)[k] = dir[a0 + k - 1]
      BY <2>2, <2>4
    <3> HIDE DEF Mail, Read
    <3> QED BY <1>5, <3>1, <3>2
  <2> QED BY <1>4, <2>5, <2>6 DEF a, z
<1>7. CASE call[c].at # "closed"
  <2>1. /\ l # <<>> /\ IsWindow(l, a0, y) /\ a0 <= y /\ a0 \in Nat
        /\ own = [k \in DOMAIN l |-> l[Len(l) + 1 - k].obj] /\ from = l[1].id + 1
    BY <1>2, <1>4, <1>7, <1>10
  <2>2. l[1].id = y
    BY <1>2, <2>1, WindowEnds
  <2> DEFINE n == Len(l)
  <2>3. n = y - a0 + 1 /\ n \in Nat /\ DOMAIN l = 1 .. n
    BY <1>2, <2>1 DEF IsWindow
  <2>0. /\ a0 \in Nat /\ y \in Nat /\ z \in Nat /\ n \in Nat /\ a0 <= y /\ y <= z
        /\ n = y - a0 + 1
    BY <1>1, <1>2, <2>1, <2>3
  <2>12. own = [k \in 1 .. n |-> l[n + 1 - k].obj]
    BY <2>1, <2>3
  <2> HIDE DEF n, own
  <2>4. from = y + 1 /\ z - from + 1 = z - y /\ z - y \in Nat
    BY <1>1, <1>2, <2>1, <2>2
  <2>5. ASSUME NEW k \in 1 .. n
        PROVE  /\ own[k] \in 1 .. Len(objs)
               /\ Stands(own[k], a0 + k - 1, cb, dir, objs)
    <3> DEFINE h == n + 1 - k
    <3>1. h \in DOMAIN l /\ y + 1 - h = a0 + k - 1
      <4>1. h \in 1 .. n /\ y + 1 - h = a0 + k - 1
        BY <2>0
      <4> QED BY <2>3, <4>1
    <3>2. l[h].id = y + 1 - h
      BY <2>1, <3>1 DEF IsWindow
    <3>3. l[h] \in Entries(objs)
      BY <1>2, <3>1
    <3>4. l[h].obj \in 1 .. Len(objs)
      BY <3>3 DEF Entries
    <3>5. own[k] = l[h].obj
      BY <2>12
    <3>6. Stands(l[h].obj, l[h].id, cb, dir, objs)
      BY <1>2, <3>1 DEF Leads
    <3> QED BY <3>1, <3>2, <3>4, <3>5, <3>6
  <2>6. ASSUME NEW k \in 1 .. z - y PROVE rest[k] = dir[y + k] /\ dir[y + k] \in 0 .. Len(objs)
    <3>1. from + k - 1 = y + k /\ y + k \in a0 .. z /\ k \in 1 .. z - from + 1
      BY <1>1, <1>2, <2>1, <2>4
    <3> HIDE DEF from
    <3> QED BY <1>1, <1>5, <3>1
  <2>7. own \in Seq(0 .. Len(objs)) /\ Len(own) = n
    <3>1. own = [k \in 1 .. n |-> own[k]]
      BY <2>12
    <3>2. ASSUME NEW k \in 1 .. n PROVE own[k] \in 0 .. Len(objs)
      <4>1. own[k] \in 1 .. Len(objs)
        BY <2>5
      <4> QED BY <1>1, <4>1
    <3> DEFINE V == 0 .. Len(objs)
    <3>3. \A k \in 1 .. n : own[k] \in V
      BY <3>2
    <3>4. n \in Nat
      BY <2>3
    <3> HIDE DEF V, from
    <3>5. own \in [1 .. n -> V]
      BY ONLY <3>1, <3>3
    <3>6. own \in Seq(V) /\ Len(own) = n
      BY ONLY <3>4, <3>5
    <3> QED BY ONLY <3>6 DEF V
  <2>8. rest \in Seq(0 .. Len(objs)) /\ Len(rest) = z - y
    <3>1. rest = [k \in 1 .. z - y |-> rest[k]]
      BY <2>4
    <3> HIDE DEF rest
    <3> QED BY <2>4, <2>6, <3>1
  <2> HIDE DEF own, rest, from, l
  <2>9. /\ Path(c) \in Seq(0 .. Len(objs)) /\ Len(Path(c)) = z - a0 + 1
        /\ \A k \in 1 .. Len(own) : Path(c)[k] = own[k]
        /\ \A k \in Len(own) + 1 .. Len(own) + Len(rest) : Path(c)[k] = rest[k - Len(own)]
    <3>1. Len(own) + Len(rest) = z - a0 + 1
      <4>1. Len(own) = n /\ Len(rest) = z - y
        BY <2>7, <2>8
      <4> QED BY ONLY <2>0, <4>1
    <3> DEFINE V == 0 .. Len(objs)
    <3>2. own \in Seq(V) /\ rest \in Seq(V) /\ Path(c) = own \o rest
      BY <1>3, <2>7, <2>8
    <3> HIDE DEF V
    <3>3. /\ Path(c) \in Seq(V) /\ Len(Path(c)) = Len(own) + Len(rest)
          /\ \A k \in 1 .. Len(own) : Path(c)[k] = own[k]
          /\ \A k \in Len(own) + 1 .. Len(own) + Len(rest) : Path(c)[k] = rest[k - Len(own)]
      BY <3>2
    <3> QED BY <3>1, <3>3 DEF V
  <2>10. DOMAIN Path(c) = 1 .. z - a0 + 1
    BY <2>9
  <2>11. ASSUME NEW k \in 1 .. z - a0 + 1 PROVE Mail(Path(c)[k]) = Read(a0 + k - 1)
    <3> DEFINE i == a0 + k - 1
    <3>1. i \in a0 .. z
      BY <1>1, <1>4
    <3>2. CASE k <= n
      <4>1. /\ Path(c)[k] = own[k] /\ own[k] \in 1 .. Len(objs)
            /\ Stands(own[k], i, cb, dir, objs)
        <5>1. k \in 1 .. n
          BY <2>0, <3>2
        <5> QED BY <2>5, <2>7, <2>9, <5>1
      <4>2. own[k] # 0
        BY <1>1, <4>1
      <4>3. i < a => objs[own[k]].msgs = <<>>
        BY <1>9, <4>1
      <4>4. ~(i < a) => own[k] = dir[i]
        BY <1>1, <1>4, <1>9, <4>1
      <4> HIDE DEF i
      <4>5. Mail(own[k]) = Read(i)
        BY <4>2, <4>3, <4>4
      <4> QED BY <4>1, <4>5 DEF i
    <3>3. CASE k > n
      <4>1. k - n \in 1 .. z - y /\ y + (k - n) = i
        BY <2>0, <3>3
      <4>2. Path(c)[k] = rest[k - n]
        <5>1. k \in Len(own) + 1 .. Len(own) + Len(rest)
          <6>1. Len(own) = n /\ Len(rest) = z - y
            BY <2>7, <2>8
          <6>2. k \in 1 .. z - a0 + 1
            OBVIOUS
          <6> QED BY ONLY <2>0, <3>3, <6>1, <6>2
        <5> QED BY <2>7, <2>9, <5>1
      <4>3. Path(c)[k] = dir[i]
        BY <2>6, <4>1, <4>2
      <4> HIDE DEF i, Mail, Read
      <4>4. Mail(Path(c)[k]) = Read(i)
        BY <1>5, <3>1, <4>3
      <4> QED BY <4>4 DEF i
    <3>4. k <= n \/ k > n
      BY <2>0
    <3> QED BY <3>2, <3>3, <3>4
  <2> QED BY <1>4, <2>10, <2>11 DEF a, z
<1> QED BY <1>6, <1>7

(* What a consumer has still to read is what has been pushed and not       *)
(* popped, even in the middle of a call.                                   *)
LEMMA ChainIsLog ==
    ASSUME Sound, Serial, Fifo, NEW c \in Procs
    PROVE  Chain(c) = log
<1> DEFINE a  == cb.input_id
           z  == cb.output_id
           a0 == IF call[c].at = "closed" THEN a ELSE m_controlblock[c].input_id
           n  == z - a0 + 1
           Mail(o) == IF o = 0 THEN <<>> ELSE objs[o].msgs
           Read(i) == IF i < a THEN <<>> ELSE objs[dir[i]].msgs
           s  == [k \in DOMAIN Path(c) |-> Mail(Path(c)[k])]
<1>1. /\ a0 \in Nat /\ a0 <= a /\ DOMAIN Path(c) = 1 .. n
      /\ \A k \in 1 .. n : Mail(Path(c)[k]) = Read(a0 + k - 1)
  BY PathReads
<1>2. /\ a \in Nat /\ z \in Nat /\ a <= z
      /\ \A i \in a .. z : objs[dir[i]].msgs \in Seq(Messages)
  BY ChainObjects
<1>3. Chain(c) = FlattenSeq(s)
  BY DEF Chain
<1>4. PICK j : Joins(j, cb, dir, objs, log)
  BY DEF Fifo
<1>5. /\ j \in [a .. z + 1 -> Seq(Messages)] /\ j[a] = <<>> /\ j[z + 1] = log
      /\ \A i \in a .. z : j[i + 1] = j[i] \o objs[dir[i]].msgs
  BY <1>4 DEF Joins
<1>6. <<>> \in Seq(Messages)
  OBVIOUS
<1> HIDE DEF a, z, a0
<1>7. n \in Nat /\ n >= 1
  BY <1>1, <1>2
<1>8. \A k \in 1 .. n : a0 + k - 1 \in Nat /\ a0 + k - 1 <= z
  BY <1>1, <1>2
<1>9. \A i \in Nat : i <= z => Read(i) \in Seq(Messages)
  <2> TAKE i \in Nat
  <2> HAVE i <= z
  <2>1. CASE i < a
    BY <1>6, <2>1
  <2>2. CASE ~(i < a)
    <3>1. i \in a .. z
      BY <1>2, <2>2
    <3> QED BY <1>2, <2>2, <3>1
  <2> QED BY <2>1, <2>2
<1> DEFINE t == [k \in 1 .. n |-> Read(a0 + k - 1)]
<1>10. s = t
  <2> HIDE DEF Mail, Read, n
  <2> QED BY <1>1
<1>11. t \in Seq(Seq(Messages)) /\ Len(t) = n
  <2>1. \A k \in 1 .. n : Read(a0 + k - 1) \in Seq(Messages)
    BY <1>8, <1>9
  <2> DEFINE W == Seq(Messages)
  <2> HIDE DEF Read, n, W
  <2>2. t \in [1 .. n -> W]
    BY <2>1 DEF W
  <2> HIDE DEF t
  <2>3. t \in Seq(W) /\ Len(t) = n
    BY ONLY <1>7, <2>2
  <2> QED BY ONLY <2>3 DEF W
<1> DEFINE Read0(i) == IF i <= a THEN <<>> ELSE j[i]
           J == [k \in 0 .. n |-> Read0(a0 + k)]
<1>12. \A k \in 0 .. n : Read0(a0 + k) \in Seq(Messages)
  <2> TAKE k \in 0 .. n
  <2>1. CASE a0 + k <= a
    BY <1>6, <2>1
  <2>2. CASE ~(a0 + k <= a)
    <3>1. a0 + k \in a .. z + 1
      BY <1>1, <1>2, <2>2
    <3> QED BY <1>5, <2>2, <3>1
  <2> QED BY <2>1, <2>2
<1>13. J \in [0 .. n -> Seq(Messages)]
  <2> HIDE DEF Read0, n
  <2> QED BY <1>12
<1>14. J[0] = <<>>
  BY <1>1, <1>7
<1>15. J[n] = log
  <2>1. a0 + n = z + 1 /\ ~(z + 1 <= a) /\ n \in 0 .. n
    BY <1>1, <1>2, <1>7
  <2> HIDE DEF n
  <2> QED BY <1>5, <2>1
<1>16. ASSUME NEW k \in 1 .. n PROVE J[k] = J[k - 1] \o t[k]
  <2> DEFINE i == a0 + k - 1
  <2>1. /\ k \in 0 .. n /\ k - 1 \in 0 .. n /\ a0 + k = i + 1 /\ a0 + (k - 1) = i
        /\ i \in Nat /\ i <= z
    BY <1>1, <1>2, <1>7
  <2> HIDE DEF i, n, Read, Read0
  <2>2. J[k] = Read0(i + 1) /\ J[k - 1] = Read0(i) /\ t[k] = Read(i)
    BY <2>1 DEF i
  <2>3. CASE i < a
    <3>1. i + 1 <= a /\ i <= a
      BY <1>2, <2>1, <2>3
    <3>2. Read0(i + 1) = <<>> /\ Read0(i) = <<>> /\ Read(i) = <<>>
      BY <2>3, <3>1 DEF Read, Read0
    <3>3. <<>> \o <<>> = <<>>
      BY <1>6, JoinNothing
    <3> QED BY <2>2, <3>2, <3>3
  <2>4. CASE ~(i < a)
    <3>1. i \in a .. z /\ ~(i + 1 <= a) /\ (i <= a => i = a)
      BY <1>2, <2>1, <2>4
    <3>2. Read0(i + 1) = j[i + 1] /\ Read(i) = objs[dir[i]].msgs
      BY <2>4, <3>1 DEF Read, Read0
    <3>3. Read0(i) = j[i]
      BY <1>5, <3>1 DEF Read0
    <3> QED BY <1>5, <2>2, <3>1, <3>2, <3>3
  <2> QED BY <2>3, <2>4
<1> HIDE DEF n, t, J, s, Mail
<1>17. FlattenSeq(t) = J[n]
  BY <1>7, <1>11, <1>13, <1>14, <1>16, FlattenJoins
<1> QED BY <1>3, <1>10, <1>15, <1>17
-----------------------------------------------------------------------------
(* What has been pushed and not popped is in the connectors that every     *)
(* consumer has still to read, once and in the order of the pushes, at     *)
(* every moment of a call, until a call overlaps with another one or an    *)
(* update is missed or given up.                                           *)
ChainHoldsLog == ~fault => \A c \in Consumers : Chain(c) = log

FifoInv == ~fault => Fifo /\ (OneConsumer => Views)

(* The bus is made with nothing returned yet.                              *)
LEMMA FifoInvStarts ==
    ASSUME BusInit
    PROVE  FifoInv
<1>1. Fifo
  BY BusStarts, FifoStarts
<1>2. Views
  BY DEF BusInit, Views
<1> QED BY <1>1, <1>2 DEF FifoInv

(* The messages stay in line, for any number of processes, connectors and  *)
(* messages.                                                               *)
THEOREM FifoInvariant == BusSpec => []FifoInv
<1>1. BusInit => FifoInv
  BY FifoInvStarts
<1>2. ASSUME BusInv, FifoInv, [BusNext]_busVars PROVE FifoInv'
  <2>1. CASE BusNext
    <3> SUFFICES ASSUME ~fault' PROVE Fifo' /\ (OneConsumer => Views')
      BY DEF FifoInv, OneConsumer
    <3>1. ~fault
      BY <1>2, <2>1, FaultStays DEF BusInv
    <3>2. Sound /\ Serial /\ Fifo /\ (OneConsumer => Views)
      BY <1>2, <3>1 DEF BusInv, FifoInv
    <3> QED BY <2>1, <3>2, FifoStep, ViewsStep
  <2>2. CASE UNCHANGED busVars
    <3>1. /\ cb' = cb /\ dir' = dir /\ objs' = objs /\ list' = list /\ log' = log
          /\ m_controlblock' = m_controlblock /\ call' = call /\ view' = view
          /\ fault' = fault
      BY <2>2 DEF busVars, shared, local, hist
    <3>2. Fifo => Fifo'
      BY <3>1 DEF Fifo
    <3>3. Views => Views'
      BY <3>1 DEF Views
    <3> QED BY <1>2, <3>1, <3>2, <3>3 DEF FifoInv, OneConsumer
  <2> QED BY <1>2, <2>1, <2>2
<1> QED BY <1>1, <1>2, BusInvariant, PTL DEF BusSpec

(* For any number of producers and consumers: what is pushed is never      *)
(* lost, doubled or put out of order by add_connector, remove_connector    *)
(* and update_connectors, which make, leave and take over connectors in    *)
(* the middle of a call, as long as calls take turns.                      *)
THEOREM ChainsHoldLog == BusSpec => []ChainHoldsLog
<1>1. BusInv /\ FifoInv => ChainHoldsLog
  BY ChainIsLog DEF BusInv, FifoInv, ChainHoldsLog, Procs
<1> QED BY <1>1, BusInvariant, FifoInvariant, PTL

(* With one consumer a get returns the oldest message as well.  (Two       *)
(* consumers may both get it, and one of them pop it.)                     *)
THEOREM SerialFifoHolds ==
    ASSUME OneConsumer
    PROVE  BusSpec => []SerialFifo
<1>1. BusInv /\ FifoInv => SerialFifo
  BY ChainIsLog DEF BusInv, FifoInv, Views, SerialFifo, Procs
<1> QED BY <1>1, BusInvariant, FifoInvariant, PTL
=============================================================================
