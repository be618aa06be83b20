--------------------------- MODULE MessageHistory ---------------------------
(***************************************************************************)
(* The history that a message of send_data(add_history=True) collects on   *)
(* its way through clients and server, and what evaluate_history makes of  *)
(* it.                                                                     *)
(*                                                                         *)
(* A hop appends an entry when it receives the message and completes the   *)
(* last entry when it sends it on: perf, the performance counter at        *)
(* receipt, is replaced by the time that has passed since.  Between        *)
(* processes a message is copied.  Inside the server the queues of all     *)
(* subscribers hold the same object, the entry of which every sender       *)
(* completes.                                                              *)
(*                                                                         *)
(* Every client provides and requires the one topic.  All clocks agree, as *)
(* transit times need (they would be N/A or nonsense otherwise), and a     *)
(* thread completes an entry within one tick.                              *)
(***************************************************************************)
EXTENDS Integers, Sequences

CONSTANTS Clients,  \* BaseClients, by name
          Server,   \* "server", the name in the server's entries
          Uptime,   \* what a performance counter reads when the wall clock reads 0
          MaxHops,  \* bound: a history with as many entries is not relayed
          MaxSent,  \* bound: messages sent with add_history
          MaxTime   \* bound: the clock

VARIABLES
    now,       \* the wall clock
    sent,      \* messages sent with add_history
    sendQ,     \* send_queue of each client: histories
    up,        \* what its generator has yielded
    objects,   \* histories of the message objects in the server
    notifyQ,   \* each client's notification queue: objects
    holds,     \* the object its sender has completed and gRPC not serialized, 0 for none
    down,      \* what was serialized for it
    received   \* its receive_queue: histories, none forgotten

clientVars == <<sent, sendQ, up, received>>
serverVars == <<objects, notifyQ, holds, down>>
vars == <<now, clientVars, serverVars>>

NotSent == -1

Init ==
    /\ now = 0
    /\ sent = 0
    /\ sendQ = [c \in Clients |-> <<>>]
    /\ up = [c \in Clients |-> <<>>]
    /\ objects = <<>>
    /\ notifyQ = [c \in Clients |-> <<>>]
    /\ holds = [c \in Clients |-> 0]
    /\ down = [c \in Clients |-> <<>>]
    /\ received = [c \in Clients |-> <<>>]

\* The performance counter: it keeps time like the wall clock, from an origin of its own.
PerfCounter == now + Uptime

\* A new entry: DataPoint(name, receiveTimestamp, perfCounter).
Arrive(history, name) ==
    Append(history, [name |-> name, recv |-> now, send |-> NotSent, perf |-> PerfCounter])

\* The last entry is completed: perfCounter becomes a difference, sendTimestamp is set.
Complete(history) ==
    [history EXCEPT ![Len(history)].perf = PerfCounter - @, ![Len(history)].send = now]

-----------------------------------------------------------------------------
(* BaseClient.                                                             *)

\* send_data(data, add_history=True) of a message without history.
SendData(c) ==
    /\ sent < MaxSent
    /\ sent' = sent + 1
    /\ sendQ' = [sendQ EXCEPT ![c] = Append(@, Arrive(<<>>, c))]
    /\ UNCHANGED <<now, up, received, serverVars>>

\* send_data of a message that was received, without add_history, which would raise.
Relay(c) ==
    \E i \in 1..Len(received[c]) :
        /\ Len(received[c][i]) < MaxHops
        /\ sendQ' = [sendQ EXCEPT ![c] = Append(@, received[c][i])]
        /\ received' = [received EXCEPT ![c] = SubSeq(@, 1, i - 1) \o SubSeq(@, i + 1, Len(@))]
        /\ UNCHANGED <<now, sent, up, serverVars>>

\* _request_generator completes the client's entry and yields.
Generate(c) ==
    /\ sendQ[c] # <<>>
    /\ up' = [up EXCEPT ![c] = Append(@, Complete(Head(sendQ[c])))]
    /\ sendQ' = [sendQ EXCEPT ![c] = Tail(@)]
    /\ UNCHANGED <<now, sent, received, serverVars>>

\* _receive_loop adds the receiver's entry.
Receive(c) ==
    /\ down[c] # <<>>
    /\ received' = [received EXCEPT ![c] = Append(@, Arrive(Head(down[c]), c))]
    /\ down' = [down EXCEPT ![c] = Tail(@)]
    /\ UNCHANGED <<now, sent, sendQ, up, objects, notifyQ, holds>>

-----------------------------------------------------------------------------
(* BaseServer.                                                             *)

\* The receive worker adds the server's entry and fans the object out to all others.
ServerReceive(c) ==
    /\ up[c] # <<>>
    /\ up' = [up EXCEPT ![c] = Tail(@)]
    /\ objects' = Append(objects, Arrive(Head(up[c]), Server))
    /\ notifyQ' = [d \in Clients |-> IF d = c THEN notifyQ[d] ELSE Append(notifyQ[d], Len(objects'))]
    /\ UNCHANGED <<now, sent, sendQ, received, holds, down>>

\* The sender of a stream takes the object and completes the entry in place ...
SenderCompletes(c) ==
    /\ notifyQ[c] # <<>> /\ holds[c] = 0
    /\ holds' = [holds EXCEPT ![c] = Head(notifyQ[c])]
    /\ notifyQ' = [notifyQ EXCEPT ![c] = Tail(@)]
    /\ objects' = [objects EXCEPT ![Head(notifyQ[c])] = Complete(@)]
    /\ UNCHANGED <<now, clientVars, down>>

\* ... and yields it; gRPC serializes what the object holds by then.
SenderYields(c) ==
    /\ holds[c] # 0
    /\ down' = [down EXCEPT ![c] = Append(@, objects[holds[c]])]
    /\ holds' = [holds EXCEPT ![c] = 0]
    /\ UNCHANGED <<now, clientVars, objects, notifyQ>>

-----------------------------------------------------------------------------
Tick == now < MaxTime /\ now' = now + 1 /\ UNCHANGED <<clientVars, serverVars>>

Next ==
    \/ \E c \in Clients :
          \/ SendData(c) \/ Relay(c) \/ Generate(c) \/ Receive(c)
          \/ ServerReceive(c) \/ SenderCompletes(c) \/ SenderYields(c)
    \/ Tick

Spec == Init /\ [][Next]_vars

-----------------------------------------------------------------------------
(* evaluate_history, the figures it logs of a received message.            *)

\* The processing time of every hop that has sent the message on.
Process(history) ==
    [i \in {j \in DOMAIN history : history[j].send # NotSent} |-> history[i].perf]

\* _log_transit_times: from one hop's send to the next hop's receipt.
Transit(history) ==
    [i \in {j \in 1..(Len(history) - 1) : history[j].send # NotSent} |->
        history[i + 1].recv - history[i].send]

EndToEnd(history) == history[Len(history)].recv - history[1].recv
=============================================================================
