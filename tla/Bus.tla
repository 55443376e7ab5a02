-------------------------------- MODULE Bus ---------------------------------
(***************************************************************************)
(* The bus (bus.cpp, bus.h) over single_* connectors: a chain of           *)
(* connectors with consecutive ids.  Shared memory holds the control block *)
(* cb: the ids of the connectors to get from and to push to, and an epoch  *)
(* that every change of them raises.  Every process keeps a list of the    *)
(* connectors it has opened (pushed at the front, read at the back) and a  *)
(* copy of the control block, which it brings up to date when the epoch    *)
(* differs from that of its copy.  A push that is refused adds a           *)
(* connector, a get that finds nothing removes one.                        *)
(*                                                                         *)
(* A connector is an object in memory, a FIFO with room for a number of    *)
(* messages, and a name (its id) in the file system: opening finds the     *)
(* object by the name, destroying a handle removes the name (memory.cpp),  *)
(* whoever else uses the object.  A section under m_plocker is one step,   *)
(* and so is a call of a connector, which has a lock of its own and is     *)
(* refused when somebody else is inside; a timed call polls and adds no    *)
(* outcome.  keepalive_timeout is 0 and capacity_factor positive.          *)
(***************************************************************************)
EXTENDS Integers, Sequences, SequencesExt

CONSTANTS Producers, Consumers,
          Creator,      \* the process that has created the bus
          Leavers,      \* the processes that may close their bus
          Polite,       \* the processes whose calls overlap with no others
          Rooms,        \* the room, in messages, of a connector of
                        \* min_capacity, of the next larger one, and so on
          MaxSent,      \* bound of the pushes of each producer
          MaxId         \* bound of the connector ids

Procs == Producers \cup Consumers

ASSUME BusAssumption ==
    /\ Producers \cap Consumers = {}
    /\ Creator \in Procs /\ Leavers \subseteq Procs /\ Polite \subseteq Procs
    /\ Rooms \in Seq(Nat \ {0}) /\ Rooms # <<>>
    /\ \A l \in 2 .. Len(Rooms) : Rooms[l - 1] <= Rooms[l]
    /\ MaxSent \in Nat /\ MaxId \in Nat

VARIABLES cb,           \* the shared control block
          named,        \* the bus still has its name
          dir,          \* the object each connector name leads to, 0 if none
          objs,         \* the connector objects, in the order of creation
          list,         \* m_pconnectors of each process, front first
          m_controlblock,   \* the copy each process keeps
          call,         \* where each process is in its call: at; the call op:
                        \* push, pushed (its message has just been stored),
                        \* again (do_push has been called again with a message
                        \* stored before), get or pop; the output_id an update
                        \* has read: target; m_status & US_OUTPUT of a running
                        \* update: added
          sent,         \* history: the number of pushes of each producer
          log,          \* history: the messages stored and not yet popped
          view,         \* what the consumer's last get returned, until its pop
          seen,         \* history: the last number get returned per producer
          fault         \* history: two calls have overlapped, or an update has
                        \* seen equal epochs although the ids differ or given
                        \* up (the todo of bus.cpp:731), or somebody has
                        \* closed the bus or failed to open it

shared == <<cb, named, dir, objs>>
local  == <<list, m_controlblock, call>>
hist   == <<sent, log, view, seen, fault>>
busVars == <<shared, local, hist>>

Ids == 0 .. MaxId

-----------------------------------------------------------------------------
Entry(id, obj) == [id |-> id, obj |-> obj]

(* make_connector opens the connector id, or creates it, larger than the   *)
(* front of the list lst; a made connector comes to the front.  d and o    *)
(* are the names and the objects.                                          *)
make_connector(d, o, lst, id) ==
    LET level == IF lst = <<>> THEN 1 ELSE o[lst[1].obj].level + 1
        obj   == IF d[id] # 0 THEN d[id] ELSE Len(o) + 1
    IN  IF d[id] = 0 /\ level > Len(Rooms)
        THEN [ok |-> FALSE, dir |-> d, objs |-> o, list |-> lst]
        ELSE [ok   |-> TRUE,
              dir  |-> [d EXCEPT ![id] = obj],
              objs |-> IF d[id] # 0 THEN o
                       ELSE Append(o, [level |-> level, msgs |-> <<>>]),
              list |-> <<Entry(id, obj)>> \o lst]

Make(p, id) == make_connector(dir, objs, list[p], id)

Install(p, made) ==
    /\ dir' = made.dir /\ objs' = made.objs
    /\ list' = [list EXCEPT ![p] = made.list]

(* pop_back, which destroys the handle and with it the name; a list left   *)
(* empty gets the connector next, whose making cannot fail: there is none  *)
(* that it must be larger than.                                            *)
DropBack(p, next) ==
    LET cleared == [dir EXCEPT ![Last(list[p]).id] = 0]
        rest    == Front(list[p])
    IN  Install(p, IF rest = <<>> THEN make_connector(cleared, objs, rest, next)
                   ELSE [dir |-> cleared, objs |-> objs, list |-> rest])

Output(p) == list[p][1].obj
Input(p)  == Last(list[p]).obj

Outside(where) == [at |-> where, op |-> "none", target |-> 0, added |-> FALSE]

Goto(p, to) ==
    call' = [call EXCEPT ![p] = IF to = "idle" THEN Outside("idle")
                                               ELSE [@ EXCEPT !.at = to]]

-----------------------------------------------------------------------------
(* create, open and destruction.                                           *)

Created == [epoch |-> 0, input_id |-> 0, output_id |-> 0]

BusInit ==
    /\ cb = Created
    /\ named = TRUE
    /\ dir = [i \in Ids |-> IF i = 0 THEN 1 ELSE 0]
    /\ objs = <<[level |-> 1, msgs |-> <<>>]>>
    /\ list = [p \in Procs |-> IF p = Creator THEN <<Entry(0, 1)>> ELSE <<>>]
    /\ m_controlblock = [p \in Procs |-> cb]
    /\ call = [p \in Procs |->
                 Outside(IF p = Creator THEN "idle" ELSE "closed")]
    /\ sent = [p \in Producers |-> 0]
    /\ log = <<>> /\ view = [c \in Consumers |-> <<>>]
    /\ seen = [p \in Producers |-> 0]
    /\ fault = FALSE

(* do_open: the connectors from input_id to output_id.                     *)
Opened ==
    LET open[i \in cb.input_id .. cb.output_id] ==
            IF i = cb.input_id THEN make_connector(dir, objs, <<>>, i)
            ELSE LET before == open[i - 1]
                 IN  IF ~before.ok THEN before
                     ELSE make_connector(before.dir, before.objs, before.list, i)
    IN  open[cb.output_id]

Cleared(d, lst) ==
    [i \in Ids |-> IF \E k \in DOMAIN lst : lst[k].id = i THEN 0 ELSE d[i]]

(* attach_body and the local copy; without the name of the bus open_memory *)
(* fails and nothing changes.  When a connector cannot be made, those made *)
(* so far and the shared memory of the bus lose their names.               *)
Open(p) ==
    /\ call[p].at = "closed" /\ named
    /\ IF Opened.ok
       THEN /\ Install(p, Opened)
            /\ m_controlblock' = [m_controlblock EXCEPT ![p] = cb]
            /\ Goto(p, "idle")
            /\ UNCHANGED <<named, fault>>
       ELSE /\ dir' = Cleared(Opened.dir, Opened.list)
            /\ objs' = Opened.objs
            /\ named' = FALSE
            /\ fault' = TRUE
            /\ UNCHANGED local
    /\ UNCHANGED <<cb, sent, log, view, seen>>

(* The destructors: every connector of the list and the bus lose their     *)
(* names.                                                                  *)
Close(p) ==
    /\ call[p].at = "idle" /\ p \in Leavers
    /\ dir' = Cleared(dir, list[p])
    /\ named' = FALSE
    /\ list' = [list EXCEPT ![p] = <<>>]
    /\ m_controlblock' = [m_controlblock EXCEPT ![p] = Created]
    /\ call' = [call EXCEPT ![p] = Outside("closed")]
    /\ view' = [c \in Consumers |-> IF c = p THEN <<>> ELSE view[c]]
    /\ fault' = TRUE
    /\ UNCHANGED <<cb, objs, sent, log, seen>>

-----------------------------------------------------------------------------
(* Slip: a get that has found nothing tries again.                         *)
UpdatedSlip(p, bits) ==
    LET op   == call[p].op
        next == IF op = "pushed" /\ "output" \notin bits THEN "idle" ELSE "act"
    IN  call' = [call EXCEPT ![p] = IF next = "idle" THEN Outside("idle")
                                    ELSE [Outside(next) EXCEPT !.op = op]]

Calling == {"push", "again"}
Pushing == Calling \cup {"pushed"}

(* update_connectors, called at the start of do_push, whose first push it  *)
(* cannot prevent, after each push, and by a get or pop that found         *)
(* nothing.  bits is what it returns.                                      *)
Updated(p, bits) ==
    LET op   == call[p].op
        next == CASE op \in Calling -> "act"
                  [] op = "pushed" -> IF "output" \in bits THEN "act" ELSE "idle"
                  [] OTHER         -> IF "input" \in bits THEN "act" ELSE "check"
    IN  call' = [call EXCEPT ![p] =
                    IF next = "idle" THEN Outside("idle")
                    ELSE [Outside(next) EXCEPT !.op = op]]

IdsDiffer(p) == \/ m_controlblock[p].output_id # cb.output_id
                \/ m_controlblock[p].input_id # cb.input_id

is_updated(p) ==
    /\ call[p].at = "epoch"
    /\ IF cb.epoch # m_controlblock[p].epoch
       THEN Goto(p, "output") /\ UNCHANGED fault
       ELSE /\ Updated(p, {})
            /\ fault' = (fault \/ IdsDiffer(p))
    /\ m_controlblock' = [m_controlblock EXCEPT ![p].epoch = cb.epoch]
    /\ UNCHANGED <<shared, list, sent, log, view, seen>>

(* Slip: the connectors added by others are not looked for.                *)
ReadOutputIdSlip(p) ==
    /\ call[p].at = "output"
    /\ Goto(p, "input")
    /\ UNCHANGED <<shared, list, m_controlblock, hist>>

ReadOutputId(p) ==
    /\ call[p].at = "output"
    /\ call' = [call EXCEPT ![p].target = cb.output_id,
                            ![p].at = IF cb.output_id = m_controlblock[p].output_id
                                      THEN "input" ELSE "adding"]
    /\ UNCHANGED <<shared, list, m_controlblock, hist>>

(* A turn of the loop of additions.  add_connector counts in the copy: its *)
(* epoch too is raised.                                                    *)
AddKnown(p) ==
    LET mine == m_controlblock[p]
        id   == mine.output_id + 1
        made == Make(p, id)
    IN  /\ call[p].at = "adding"
        /\ id # mine.input_id /\ made.ok
        /\ Install(p, made)
        /\ m_controlblock' = [m_controlblock EXCEPT ![p].output_id = id,
                                                    ![p].epoch = @ + 1]
        /\ call' = [call EXCEPT ![p].added = TRUE,
                                ![p].at = IF id = call[p].target THEN "input"
                                                                 ELSE "adding"]
        /\ UNCHANGED <<cb, named, hist>>

(* The loop cannot add: US_NONE.                                           *)
AddGivesUp(p) ==
    LET mine == m_controlblock[p]
        id   == mine.output_id + 1
    IN  /\ call[p].at = "adding"
        /\ id = mine.input_id \/ ~Make(p, id).ok
        /\ Updated(p, {})
        /\ fault' = TRUE
        /\ UNCHANGED <<shared, list, m_controlblock, sent, log, view, seen>>

(* The second half: at most one connector is removed, counted in the copy. *)
RemoveKnown(p) ==
    LET mine == m_controlblock[p]
        bits == IF call[p].added THEN {"output"} ELSE {}
    IN  /\ call[p].at = "input"
        /\ IF cb.input_id = mine.input_id
           THEN /\ Updated(p, bits)
                /\ UNCHANGED <<dir, objs, list, m_controlblock, fault>>
           ELSE IF mine.input_id = mine.output_id
           THEN /\ Updated(p, {})
                /\ fault' = TRUE
                /\ UNCHANGED <<dir, objs, list, m_controlblock>>
           ELSE /\ DropBack(p, mine.input_id + 1)
                /\ m_controlblock' = [m_controlblock EXCEPT ![p].input_id = @ + 1,
                                                            ![p].epoch = @ + 1]
                /\ Updated(p, bits \cup {"input"})
                /\ UNCHANGED fault
        /\ UNCHANGED <<cb, named, sent, log, view, seen>>

-----------------------------------------------------------------------------
Busy == {p \in Procs : call[p].at \notin {"idle", "closed"}}

(* A call begins.  The client pops what its get has returned.              *)
Begin(p, op, to) ==
    /\ call[p].at = "idle"
    /\ Busy # {} => p \notin Polite /\ Busy \cap Polite = {}
    /\ call' = [call EXCEPT ![p].op = op, ![p].at = to]
    /\ fault' = (fault \/ Busy # {})
    /\ UNCHANGED <<shared, list, m_controlblock, log, view, seen>>

BeginPush(p) ==
    /\ p \in Producers /\ sent[p] < MaxSent
    /\ sent' = [sent EXCEPT ![p] = @ + 1]
    /\ Begin(p, "push", "epoch")

BeginGet(c) == Begin(c, "get", "act") /\ UNCHANGED sent

BeginPop(c) == view[c] # <<>> /\ Begin(c, "pop", "act") /\ UNCHANGED sent

(* Where a process can be inside the lock of the connector object o: its   *)
(* push, get or pop, the opening and the destruction of a handle.          *)
MayHold(r, o) ==
    CASE call[r].at = "act"    -> o = IF r \in Producers THEN Output(r) ELSE Input(r)
      [] call[r].at = "adding" -> o = dir[m_controlblock[r].output_id + 1]
      [] call[r].at \in {"input", "shrink"} -> o = Input(r)
      [] OTHER -> FALSE

Contended(p, o) == \E r \in Busy \ {p} : MayHold(r, o)

HasRoom(o) == Len(objs[o].msgs) < Rooms[objs[o].level]

(* output_connector()->push.  After it the update is asked again, and a    *)
(* changed output makes do_push push the same message once more.           *)
PushStores(p) ==
    LET o == Output(p)
        m == [from |-> p, n |-> sent[p]]
    IN  /\ call[p].at = "act" /\ call[p].op \in Pushing
        /\ HasRoom(o)
        /\ objs' = [objs EXCEPT ![o].msgs = Append(@, m)]
        /\ log' = IF call[p].op = "push" THEN Append(log, m) ELSE log
        /\ call' = [call EXCEPT ![p].op = "pushed", ![p].at = "epoch"]
        /\ UNCHANGED <<cb, named, dir, list, m_controlblock, sent, view, seen, fault>>

PushRefused(p) ==
    /\ call[p].at = "act" /\ call[p].op \in Pushing
    /\ ~HasRoom(Output(p)) \/ Contended(p, Output(p))
    /\ Goto(p, "grow")
    /\ UNCHANGED <<shared, list, m_controlblock, hist>>

(* do_push is called again, with its first update and its first push.      *)
PushesAgain(p) ==
    call' = [call EXCEPT ![p].at = "epoch",
                         ![p].op = IF @ = "push" THEN "push" ELSE "again"]

(* Slip: the copy does not learn of the new connector.                     *)
GrowSlip(p) ==
    LET id   == cb.output_id + 1
        made == Make(p, id)
    IN  /\ call[p].at = "grow"
        /\ id # cb.input_id /\ made.ok /\ id < MaxId
        /\ Install(p, made)
        /\ cb' = [cb EXCEPT !.output_id = id, !.epoch = @ + 1]
        /\ PushesAgain(p)
        /\ UNCHANGED <<named, m_controlblock, hist>>

(* base_bus::push: can_add_connector and add_connector on the shared       *)
(* control block, and do_push again; otherwise the push returns false.     *)
(* The copy learns the new output_id but not the epoch.                    *)
Grow(p) ==
    LET id   == cb.output_id + 1
        made == Make(p, id)
    IN  /\ call[p].at = "grow"
        /\ id # cb.input_id /\ made.ok
        /\ id < MaxId
        /\ Install(p, made)
        /\ cb' = [cb EXCEPT !.output_id = id, !.epoch = @ + 1]
        /\ m_controlblock' = [m_controlblock EXCEPT ![p].output_id = id]
        /\ PushesAgain(p)
        /\ UNCHANGED <<named, hist>>

PushFails(p) ==
    LET id == cb.output_id + 1
    IN  /\ call[p].at = "grow"
        /\ id = cb.input_id \/ ~Make(p, id).ok \/ id = MaxId
        /\ Goto(p, "idle")
        /\ UNCHANGED <<shared, list, m_controlblock, hist>>

-----------------------------------------------------------------------------
Messages == [from : Producers, n : 1 .. MaxSent]

(* input_connector()->get or ->pop.                                        *)
GetFinds(c) ==
    LET m == Head(objs[Input(c)].msgs)
    IN  /\ call[c].at = "act" /\ call[c].op = "get"
        /\ objs[Input(c)].msgs # <<>>
        /\ view' = [view EXCEPT ![c] = <<m>>]
        /\ seen' = [seen EXCEPT ![m.from] = m.n]
        /\ Goto(c, "idle")
        /\ UNCHANGED <<shared, list, m_controlblock, sent, log, fault>>

PopFinds(c) ==
    LET m == Head(objs[Input(c)].msgs)
    IN  /\ call[c].at = "act" /\ call[c].op = "pop"
        /\ objs[Input(c)].msgs # <<>>
        /\ objs' = [objs EXCEPT ![Input(c)].msgs = Tail(@)]
        /\ log' = RemoveFirst(log, m)
        /\ view' = [view EXCEPT ![c] = <<>>]
        /\ Goto(c, "idle")
        /\ UNCHANGED <<cb, named, dir, list, m_controlblock, sent, seen, fault>>

FindsNothing(c) ==
    /\ call[c].at = "act" /\ call[c].op \in {"get", "pop"}
    /\ objs[Input(c)].msgs = <<>> \/ Contended(c, Input(c))
    /\ Goto(c, "epoch")
    /\ UNCHANGED <<shared, list, m_controlblock, hist>>

(* Slip: the last connector may be removed as well.                        *)
can_remove_connector_slip(c) ==
    /\ call[c].at = "check"
    /\ Goto(c, "shrink")
    /\ UNCHANGED <<shared, list, m_controlblock, hist>>

(* base_bus::get and pop: can_remove_connector looks without the lock.     *)
can_remove_connector(c) ==
    /\ call[c].at = "check"
    /\ Goto(c, IF cb.input_id # cb.output_id THEN "shrink" ELSE "idle")
    /\ view' = IF call'[c].at = "idle" THEN [view EXCEPT ![c] = <<>>] ELSE view
    /\ UNCHANGED <<shared, list, m_controlblock, sent, log, seen, fault>>

(* remove_connector on the shared control block, then do_get again.        *)
Shrink(c) ==
    /\ call[c].at = "shrink"
    /\ DropBack(c, cb.input_id + 1)
    /\ cb' = [cb EXCEPT !.input_id = @ + 1, !.epoch = @ + 1]
    /\ m_controlblock' = [m_controlblock EXCEPT ![c].input_id = cb.input_id + 1]
    /\ Goto(c, "act")
    /\ UNCHANGED <<named, hist>>

-----------------------------------------------------------------------------
Step(p) ==
    \/ is_updated(p) \/ ReadOutputId(p) \/ AddKnown(p) \/ AddGivesUp(p)
    \/ RemoveKnown(p)
    \/ PushStores(p) \/ PushRefused(p) \/ Grow(p) \/ PushFails(p)
    \/ GetFinds(p) \/ PopFinds(p) \/ FindsNothing(p)
    \/ can_remove_connector(p) \/ Shrink(p)

BusNext ==
    \/ \E p \in Procs : Open(p) \/ Close(p) \/ Step(p)
    \/ \E p \in Producers : BeginPush(p)
    \/ \E c \in Consumers : BeginGet(c) \/ BeginPop(c)

BusSpec == BusInit /\ [][BusNext]_busVars

(* A call that has begun goes on: it runs in its caller's thread, and the  *)
(* locks it takes are held for one step.                                   *)
FairBusSpec == BusSpec /\ \A p \in Procs : WF_busVars(Step(p))
-----------------------------------------------------------------------------
CBs == [epoch : Nat, input_id : Ids, output_id : Ids]

(* The types of the shared state and of the copies.                        *)
BusTypeOK ==
    /\ cb \in CBs /\ m_controlblock \in [Procs -> CBs]
    /\ dir \in [Ids -> 0 .. Len(objs)]
    /\ \A o \in DOMAIN objs : /\ objs[o].level \in DOMAIN Rooms
                              /\ objs[o].msgs \in Seq(Messages)
    /\ \A p \in Procs : list[p] \in Seq([id : Ids, obj : DOMAIN objs])
    /\ call \in [Procs -> [at : {"closed", "idle", "epoch", "output", "adding",
                                 "input", "act", "grow", "check", "shrink"},
                           op : {"none", "get", "pop"} \cup Pushing,
                           target : Ids, added : BOOLEAN]]
    /\ log \in Seq(Messages) /\ seen \in [Producers -> 0 .. MaxSent]
    /\ fault \in BOOLEAN

(* The shared state and the copies keep their types, the connector to get  *)
(* from is never ahead of the one to push to, and no process uses an empty *)
(* list, whose front and back are undefined.                               *)
ChainIsSound ==
    /\ BusTypeOK
    /\ cb.input_id <= cb.output_id
    /\ \A p \in Procs : call[p].at # "closed" => list[p] # <<>>

(* As long as calls do not overlap and no update is missed or given up,    *)
(* the connectors a process holds are those from the input_id to the       *)
(* output_id of its copy, newest first, although a list changes in four    *)
(* ways: growing or shrinking the chain and following what others did.     *)
ListIsWindow ==
    ~fault =>
        \A p \in Procs : call[p].at # "closed" =>
            LET mine == m_controlblock[p]
            IN  /\ Len(list[p]) = mine.output_id - mine.input_id + 1
                /\ \A k \in DOMAIN list[p] : list[p][k].id = mine.output_id + 1 - k

(* The connectors the consumer c has still to read: its list from the      *)
(* back, then those with higher names.                                     *)
Path(c) ==
    LET own  == IF call[c].at = "closed" THEN <<>>
                ELSE [k \in DOMAIN list[c] |->
                         list[c][Len(list[c]) + 1 - k].obj]
        from == IF call[c].at = "closed" THEN cb.input_id ELSE list[c][1].id + 1
    IN  own \o [k \in 1 .. cb.output_id - from + 1 |-> dir[from + k - 1]]

Chain(c) ==
    FlattenSeq([k \in DOMAIN Path(c) |->
                  IF Path(c)[k] = 0 THEN <<>> ELSE objs[Path(c)[k]].msgs])

(* As long as calls do not overlap and no update is missed or given up,    *)
(* the chain is one FIFO: it holds the accepted messages once and in the   *)
(* order of the pushes, across connectors that come and go, and a get      *)
(* returns the oldest (bus.h:52-55).                                       *)
SerialFifo ==
    (~fault /\ Busy = {}) =>
        \A c \in Consumers :
            /\ Chain(c) = log
            /\ view[c] # <<>> => view[c] = <<Head(log)>>

(* get returns the next message of the bus (bus.h:52): it never goes back  *)
(* behind what it has returned of the same producer, though it may return  *)
(* a message again.  That holds of one producer, whatever overlaps: its    *)
(* list has no gaps, so it pushes to ever later connectors, and these are  *)
(* left in the order of their ids.  Of two producers it does not hold, so  *)
(* it is no property of the run.                                           *)
InOrder ==
    [][\A c \in Consumers :
          (view'[c] # view[c] /\ view'[c] # <<>>) =>
              view'[c][1].n >= seen[view'[c][1].from]
      ]_busVars

(* No message is twice in the connectors that a consumer has still to read *)
(* (bus_test.cpp:78-91 gets as many messages as it has pushed and then     *)
(* none).  It does not hold: do_push stores a message again when it finds, *)
(* after storing it, that another process has added a connector.           *)
StoredOnce == \A c \in Consumers : IsInjective(Chain(c))

(* Everything stored and not popped is in a connector that the consumer    *)
(* has still to read (bus_test.cpp:78-89 gets what it has pushed).         *)
NothingLost ==
    \A c \in Consumers : \A k \in DOMAIN log :
        \E i \in DOMAIN Chain(c) : Chain(c)[i] = log[k]

(* Every call returns: the loop that pushes again, the loop that adds      *)
(* connectors and the one that removes them end.  (Pushes are bounded and  *)
(* one that never returned would keep Busy non-empty.)                     *)
CallsReturn == []<>(Busy = {})
=============================================================================
