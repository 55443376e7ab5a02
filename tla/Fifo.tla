-------------------------------- MODULE Fifo --------------------------------
(***************************************************************************)
(* What simple_queue promises: messages leave in the order they came in,   *)
(* unchanged.  A push may be refused; when a keepalive timeout is set it   *)
(* may also discard the oldest message.  A consumer that looks at the      *)
(* oldest message keeps seeing exactly that message until it pops it.      *)
(***************************************************************************)
EXTENDS Integers, Sequences

CONSTANTS Messages,     \* what can be pushed
          Consumers,
          KeepAlive     \* whether a push may discard old messages

VARIABLES queue,        \* the messages, oldest first
          view          \* what each consumer is looking at, as a sequence of
                        \* no or one message

fifoVars == <<queue, view>>

FifoInit == queue = <<>> /\ view = [c \in Consumers |-> <<>>]

Accepted(s) == {s} \cup {Append(s, m) : m \in Messages}

FifoPush ==
    /\ queue' \in Accepted(queue)
    /\ UNCHANGED view

FifoDiscard ==
    /\ KeepAlive /\ queue # <<>>
    /\ queue' \in Accepted(Tail(queue))
    /\ UNCHANGED view

FifoGet(c) ==
    /\ queue # <<>>
    /\ view' = [view EXCEPT ![c] = <<Head(queue)>>]
    /\ UNCHANGED queue

FifoPop(c) ==
    /\ queue # <<>>
    /\ view[c] \in {<<>>, <<Head(queue)>>}
    /\ queue' = Tail(queue)
    /\ view' = [view EXCEPT ![c] = <<>>]

FifoNext == \/ FifoPush \/ FifoDiscard
            \/ \E c \in Consumers : FifoGet(c) \/ FifoPop(c)

FifoSpec == FifoInit /\ [][FifoNext]_fifoVars
=============================================================================
