---------------------------- MODULE StreamSession ----------------------------
(***************************************************************************)
(* What the broker promises a client, without threads, locks, queues or    *)
(* transport.  A stream is idle until it is opened by a welcome, then it   *)
(* joins topics and receives what others publish; when it is closed it     *)
(* leaves its topics, and once it is released it belongs to none for ever. *)
(* What a stream receives from one publisher is the message that publisher *)
(* published last, at most once; messages may be lost.                     *)
(***************************************************************************)
EXTENDS Naturals, Sequences

CONSTANTS Streams, Topics, Publishers, WelcomeMessage

VARIABLES phase,      \* "idle", "open", "closed" or "released"
          topics,     \* the topics each stream belongs to
          inflow,     \* what each stream has been handed, in order
          count       \* messages each publisher has published

vars == <<phase, topics, inflow, count>>

From(p, k) == [from |-> p, n |-> k]

Init ==
    /\ phase = [s \in Streams |-> "idle"]
    /\ topics = [s \in Streams |-> {}]
    /\ inflow = [s \in Streams |-> <<>>]
    /\ count = [p \in Publishers |-> 0]

Open(s) ==
    /\ phase[s] = "idle"
    /\ phase' = [phase EXCEPT ![s] = "open"]
    /\ inflow' = [inflow EXCEPT ![s] = <<WelcomeMessage>>]
    /\ UNCHANGED <<topics, count>>

Join(s, t) ==
    /\ phase[s] = "open"
    /\ topics' = [topics EXCEPT ![s] = @ \cup {t}]
    /\ UNCHANGED <<phase, inflow, count>>

Publish(p) ==
    /\ count' = [count EXCEPT ![p] = @ + 1]
    /\ UNCHANGED <<phase, topics, inflow>>

\* A fan-out begun before the stream left may still reach it.
Receive(s, p) ==
    /\ inflow[s] # <<>>
    /\ p # s
    /\ \A i \in 1..Len(inflow[s]) : inflow[s][i].from = p => inflow[s][i].n < count[p]
    /\ inflow' = [inflow EXCEPT ![s] = Append(@, From(p, count[p]))]
    /\ UNCHANGED <<phase, topics, count>>

Close(s) ==
    /\ phase[s] \in {"idle", "open"}
    /\ phase' = [phase EXCEPT ![s] = "closed"]
    /\ UNCHANGED <<topics, inflow, count>>

Leave(s, t) ==
    /\ phase[s] = "closed"
    /\ topics' = [topics EXCEPT ![s] = @ \ {t}]
    /\ UNCHANGED <<phase, inflow, count>>

Release(s) ==
    /\ phase[s] \in {"idle", "closed"}
    /\ topics[s] = {}
    /\ phase' = [phase EXCEPT ![s] = "released"]
    /\ UNCHANGED <<topics, inflow, count>>

Next ==
    \/ \E p \in Publishers : Publish(p)
    \/ \E s \in Streams :
          \/ Open(s) \/ Close(s) \/ Release(s)
          \/ \E t \in Topics : Join(s, t) \/ Leave(s, t)
          \/ \E p \in Publishers : Receive(s, p)

Spec == Init /\ [][Next]_vars
=============================================================================
