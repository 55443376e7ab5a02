----------------------------- MODULE Broadcast ------------------------------
(***************************************************************************)
(* What the shared queue promises: every message reaches every reader that *)
(* is subscribed when it is pushed, once, in the order of the pushes and   *)
(* unchanged.  A push may be refused, and then it reaches nobody.          *)
(***************************************************************************)
EXTENDS Sequences

CONSTANTS Messages, Readers

VARIABLES members,      \* the subscribed readers
          inbox,        \* for each reader the messages it has not popped
          view          \* for each reader what it is looking at: a sequence
                        \* of no or one message

castVars == <<members, inbox, view>>

CastInit ==
    /\ members \in SUBSET Readers
    /\ inbox = [r \in Readers |-> <<>>]
    /\ view = [r \in Readers |-> <<>>]

CastJoin(r) ==
    /\ r \notin members
    /\ members' = members \cup {r}
    /\ UNCHANGED <<inbox, view>>

CastLeave(r) ==
    /\ r \in members
    /\ members' = members \ {r}
    /\ inbox' = [inbox EXCEPT ![r] = <<>>]
    /\ view' = [view EXCEPT ![r] = <<>>]

CastPush(m) ==
    /\ inbox' = [r \in Readers |-> IF r \in members THEN Append(inbox[r], m)
                                                    ELSE inbox[r]]
    /\ UNCHANGED <<members, view>>

CastGet(r) ==
    /\ inbox[r] # <<>>
    /\ view' = [view EXCEPT ![r] = <<Head(inbox[r])>>]
    /\ UNCHANGED <<members, inbox>>

CastPop(r) ==
    /\ inbox[r] # <<>>
    /\ view[r] \in {<<>>, <<Head(inbox[r])>>}
    /\ inbox' = [inbox EXCEPT ![r] = Tail(inbox[r])]
    /\ view' = [view EXCEPT ![r] = <<>>]
    /\ UNCHANGED members

CastNext ==
    \/ \E r \in Readers : CastJoin(r) \/ CastLeave(r) \/ CastGet(r) \/ CastPop(r)
    \/ \E m \in Messages : CastPush(m)

CastSpec == CastInit /\ [][CastNext]_castVars
=============================================================================
