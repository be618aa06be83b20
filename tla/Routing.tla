------------------------------- MODULE Routing -------------------------------
(***************************************************************************)
(* What the routing table promises those who publish, without locks,       *)
(* copies, calls or time.  The audience of a message is fixed at one       *)
(* instant: the members its topic has then, all of them, all but one (the  *)
(* sender) or one alone (the target).  Each of them is given the message   *)
(* once, before its publisher's next one, and misses it only if its inbox  *)
(* is full.  A client that has left is a member of nothing, for ever.      *)
(*                                                                         *)
(* StreamSession is the same service as a client sees it.                  *)
(***************************************************************************)
EXTENDS Naturals, Sequences

CONSTANTS Clients, Topics, Publishers,
          Greeting,   \* what an inbox may begin with
          Capacity    \* of an inbox, 0 for unbounded

VARIABLES members,  \* the clients of each topic
          left,     \* clients that have left
          inbox,    \* everything each client was ever given, in order
          read,     \* how much of it the client has taken out
          count,    \* messages each publisher has published
          pending   \* who has not yet been given a publisher's latest message

vars == <<members, left, inbox, read, count, pending>>

Full(c) == Capacity > 0 /\ Len(inbox[c]) - read[c] >= Capacity
Message(p) == [from |-> p, n |-> count[p]]

Audiences(t) == {members[t]} \cup {members[t] \ {c} : c \in Clients}
                             \cup {members[t] \cap {c} : c \in Clients}

Init ==
    /\ members = [t \in Topics |-> {}]
    /\ left = {}
    /\ inbox = [c \in Clients |-> <<>>]
    /\ read = [c \in Clients |-> 0]
    /\ count = [p \in Publishers |-> 0]
    /\ pending = [p \in Publishers |-> {}]

Greet(c) ==
    /\ c \notin left
    /\ inbox[c] = <<>>
    /\ \A t \in Topics : c \notin members[t]
    /\ inbox' = [inbox EXCEPT ![c] = <<Greeting>>]
    /\ UNCHANGED <<members, left, read, count, pending>>

Join(c, t) ==
    /\ c \notin left
    /\ members' = [members EXCEPT ![t] = @ \cup {c}]
    /\ UNCHANGED <<left, inbox, read, count, pending>>

Leave(c, t) ==
    /\ members' = [members EXCEPT ![t] = @ \ {c}]
    /\ UNCHANGED <<left, inbox, read, count, pending>>

\* A message published before may still reach a client that has left.
Depart(c) ==
    /\ \A t \in Topics : c \notin members[t]
    /\ left' = left \cup {c}
    /\ UNCHANGED <<members, inbox, read, count, pending>>

Publish(p, t) ==
    /\ pending[p] = {}
    /\ count' = [count EXCEPT ![p] = @ + 1]
    /\ \E audience \in Audiences(t) : pending' = [pending EXCEPT ![p] = audience]
    /\ UNCHANGED <<members, left, inbox, read>>

Give(p, c) ==
    /\ c \in pending[p]
    /\ ~Full(c)
    /\ inbox' = [inbox EXCEPT ![c] = Append(@, Message(p))]
    /\ pending' = [pending EXCEPT ![p] = @ \ {c}]
    /\ UNCHANGED <<members, left, read, count>>

Miss(p, c) ==
    /\ c \in pending[p]
    /\ Full(c)
    /\ pending' = [pending EXCEPT ![p] = @ \ {c}]
    /\ UNCHANGED <<members, left, inbox, read, count>>

Read(c) ==
    /\ read[c] < Len(inbox[c])
    /\ read' = [read EXCEPT ![c] = @ + 1]
    /\ UNCHANGED <<members, left, inbox, count, pending>>

Next ==
    \/ \E c \in Clients :
          \/ Greet(c) \/ Depart(c) \/ Read(c)
          \/ \E t \in Topics : Join(c, t) \/ Leave(c, t)
    \/ \E p \in Publishers :
          \/ \E t \in Topics : Publish(p, t)
          \/ \E c \in Clients : Give(p, c) \/ Miss(p, c)

Spec == Init /\ [][Next]_vars
=============================================================================
