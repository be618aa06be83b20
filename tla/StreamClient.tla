---------------------------- MODULE StreamClient ----------------------------
(***************************************************************************)
(* One BaseClient of pookiepy/baseclient.py over several connections.      *)
(*                                                                         *)
(* The APP thread connects, sends, waits, reads and disconnects.  Each     *)
(* connection g has a request GENERATOR that a gRPC thread iterates and a  *)
(* RECEIVE thread.  The queues, the stream and the run event are read      *)
(* through self, so a generator or receive thread of an earlier connection *)
(* that is still alive works on the queues of the current one.  (A put     *)
(* that blocks stays with the queue it began on: a bounded receive queue,  *)
(* MaxRecv > 0, is meant to be checked with one connection.)               *)
(*                                                                         *)
(* Server and transport are external: they may refuse a connection, end a  *)
(* stream at any time with or without an error, and answer what was sent.  *)
(* disconnect() is not thread safe by its own doc, so it has one caller.   *)
(***************************************************************************)
EXTENDS Integers, Sequences, FiniteSets

CONSTANTS MaxGen,   \* bound: connections
          MaxSend,  \* bound: send_data calls until the end of each connection
          MaxIn,    \* bound: data messages the server sends on each stream
          MaxRecv   \* ClientConfig.receive_queue_maxsize, 0 for unbounded

ASSUME ConstantsAssumption ==
    /\ MaxGen \in Nat \ {0} /\ MaxRecv \in Nat
    /\ MaxSend \in [1..MaxGen -> Nat] /\ MaxIn \in [1..MaxGen -> Nat]

VARIABLES
    app,        \* where the application thread is
    cur,        \* the connection whose queues self refers to
    stream,     \* the connection self.stream and self.receive_thread belong to, 0 for None
    runEvent,   \* run_event
    checked,    \* connections whose welcome _check_connection has validated
    sendQ,      \* the send_queue of each connection
    unfinished, \* its unfinished_tasks
    recvQ,      \* the receive_queue of each connection
    got,        \* of each stream's responses, the last one taken out of a receive_queue
    sendCount,  \* send_data calls so far
    gen,        \* where each connection's request generator is
    target,     \* the send_queue it is blocked on, 0 for none
    item,       \* the message it holds
    wire,       \* what it has yielded into its live stream
    recv,       \* where each connection's receive thread is
    inCount,    \* responses it has taken from its stream, the welcome included
    ended       \* how each connection's stream ended: "no" while it is up

appVars  == <<app, cur, stream, runEvent, checked, got, sendCount>>
genVars  == <<gen, target, item, wire>>
recvVars == <<recv, inCount>>
vars == <<appVars, sendQ, unfinished, recvQ, genVars, recvVars, ended>>

Gens == 1..MaxGen
\* The connect message of a connection, and the messages of the application.
First(g)    == [kind |-> "first", of |-> g, n |-> 0]
Sent(k)     == [kind |-> "data", of |-> 0, n |-> k]
\* What the receive thread of a connection puts: welcome, data, a stream error.
Response(g, k) == [kind |-> IF k = 1 THEN "welcome" ELSE "response", of |-> g, n |-> k]
Failure(g)  == [kind |-> "error", of |-> g, n |-> MaxIn[g] + 2]
NoItem      == [kind |-> "none", of |-> 0, n |-> 0]

\* The constructor returned: the application has a client to call.
Constructed == 1 \in checked

Took(m) == [got EXCEPT ![m.of] = m.n]

Up(g) == ended[g] = "no"
RecvRoom == MaxRecv = 0 \/ Len(recvQ[cur]) < MaxRecv
AppAt(from, to) == app = from /\ app' = to
GenAt(g, from, to) == gen[g] = from /\ gen' = [gen EXCEPT ![g] = to]
RecvAt(g, from, to) == recv[g] = from /\ recv' = [recv EXCEPT ![g] = to]

Init ==
    /\ app = "idle"
    /\ cur = 0
    /\ stream = 0
    /\ runEvent = FALSE
    /\ checked = {}
    /\ sendQ = [g \in Gens |-> <<>>]
    /\ unfinished = [g \in Gens |-> 0]
    /\ recvQ = [g \in Gens |-> <<>>]
    /\ got = [g \in Gens |-> 0]
    /\ sendCount = 0
    /\ gen = [g \in Gens |-> "off"]
    /\ target = [g \in Gens |-> 0]
    /\ item = [g \in Gens |-> NoItem]
    /\ wire = [g \in Gens |-> <<>>]
    /\ recv = [g \in Gens |-> "off"]
    /\ inCount = [g \in Gens |-> 0]
    /\ ended = [g \in Gens |-> "never"]

-----------------------------------------------------------------------------
(* Connecting: __init__ or __enter__, then _setup_connection.              *)

\* New queues, then the run event.
SetupConnection ==
    /\ ~runEvent
    /\ cur < MaxGen
    /\ cur = 0 \/ Constructed
    /\ AppAt("idle", "connect")
    /\ cur' = cur + 1
    /\ runEvent' = TRUE
    /\ UNCHANGED <<stream, checked, got, sendCount, sendQ, unfinished, recvQ,
                   genVars, recvVars, ended>>

\* channel_ready_future times out: GrpcConnectionError, and nothing is undone.
ConnectTimeout ==
    /\ AppAt("connect", "idle")
    /\ UNCHANGED <<cur, stream, runEvent, checked, got, sendCount, sendQ, unfinished,
                   recvQ, genVars, recvVars, ended>>

\* stub.DataChannel starts iterating the generator in a thread of gRPC.
OpenStream ==
    /\ AppAt("connect", "first")
    /\ stream' = cur
    /\ ended' = [ended EXCEPT ![cur] = "no"]
    /\ gen' = [gen EXCEPT ![cur] = "test"]
    /\ UNCHANGED <<cur, runEvent, checked, got, sendCount, sendQ, unfinished, recvQ,
                   target, item, wire, recvVars>>

\* The connect message is queued, then the receive thread starts.
PutFirst ==
    /\ AppAt("first", "check")
    /\ sendQ' = [sendQ EXCEPT ![cur] = Append(@, First(cur))]
    /\ unfinished' = [unfinished EXCEPT ![cur] = @ + 1]
    /\ recv' = [recv EXCEPT ![cur] = "welcome"]
    /\ UNCHANGED <<cur, stream, runEvent, checked, got, sendCount, recvQ, genVars,
                   inCount, ended>>

\* _check_connection takes the first response; what is no welcome disconnects and raises.
CheckConnection ==
    /\ app = "check" /\ recvQ[cur] # <<>>
    /\ app' = IF Head(recvQ[cur]).kind = "welcome" THEN "idle" ELSE "disconnect"
    /\ checked' = IF Head(recvQ[cur]).kind = "welcome" THEN checked \cup {cur} ELSE checked
    /\ got' = Took(Head(recvQ[cur]))
    /\ recvQ' = [recvQ EXCEPT ![cur] = Tail(@)]
    /\ UNCHANGED <<cur, stream, runEvent, sendCount, sendQ, unfinished, genVars, recvVars, ended>>

CheckTimeout ==
    /\ AppAt("check", "disconnect")
    /\ recvQ[cur] = <<>>
    /\ UNCHANGED <<cur, stream, runEvent, checked, got, sendCount, sendQ, unfinished,
                   recvQ, genVars, recvVars, ended>>

-----------------------------------------------------------------------------
(* The application's calls on a client.                                    *)

\* From the application thread, or from a hook of the receive thread.
SendData ==
    /\ Constructed
    /\ sendCount < MaxSend[cur]
    /\ sendCount' = sendCount + 1
    /\ sendQ' = [sendQ EXCEPT ![cur] = Append(@, Sent(sendCount + 1))]
    /\ unfinished' = [unfinished EXCEPT ![cur] = @ + 1]
    /\ UNCHANGED <<app, cur, stream, runEvent, checked, recvQ, got, genVars, recvVars, ended>>

\* wait_done raises without the run event and otherwise joins the queue.
WaitDone ==
    /\ runEvent /\ Constructed
    /\ AppAt("idle", "joinQueue")
    /\ UNCHANGED <<cur, stream, runEvent, checked, got, sendCount, sendQ, unfinished,
                   recvQ, genVars, recvVars, ended>>

QueueJoined ==
    /\ AppAt("joinQueue", "idle")
    /\ unfinished[cur] = 0
    /\ UNCHANGED <<cur, stream, runEvent, checked, got, sendCount, sendQ, unfinished,
                   recvQ, genVars, recvVars, ended>>

\* Mutant: get_data leaves the message it returns in the queue.
GetDataPeek ==
    /\ app = "idle" /\ Constructed
    /\ recvQ[cur] # <<>>
    /\ got' = Took(Head(recvQ[cur]))
    /\ UNCHANGED <<app, cur, stream, runEvent, checked, sendCount, sendQ, unfinished,
                   recvQ, genVars, recvVars, ended>>

\* get_data returns a message or raises the error that took its place.  With timeout 0 it
\* does not look at the run event.
GetData ==
    /\ app = "idle" /\ Constructed
    /\ recvQ[cur] # <<>>
    /\ got' = Took(Head(recvQ[cur]))
    /\ recvQ' = [recvQ EXCEPT ![cur] = Tail(@)]
    /\ UNCHANGED <<app, cur, stream, runEvent, checked, sendCount, sendQ, unfinished,
                   genVars, recvVars, ended>>

\* disconnect(), also from __exit__ and from __del__ after a failed constructor; it returns
\* at once when the run event is clear.
Disconnect ==
    /\ runEvent
    /\ AppAt("idle", "disconnect")
    /\ UNCHANGED <<cur, stream, runEvent, checked, got, sendCount, sendQ, unfinished,
                   recvQ, genVars, recvVars, ended>>

ClearRunEvent ==
    /\ AppAt("disconnect", "cancel")
    /\ runEvent' = FALSE
    /\ UNCHANGED <<cur, stream, checked, got, sendCount, sendQ, unfinished,
                   recvQ, genVars, recvVars, ended>>

\* Mutant: the channel is closed but the stream is not cancelled.
CancelNothing ==
    /\ AppAt("cancel", "joinThread")
    /\ UNCHANGED <<cur, stream, runEvent, checked, got, sendCount, sendQ, unfinished,
                   recvQ, genVars, recvVars, ended>>

\* stream.cancel() and channel.close().
CancelStream ==
    /\ AppAt("cancel", "joinThread")
    /\ ended' = [g \in Gens |-> IF g = stream /\ Up(g) THEN "cancelled" ELSE ended[g]]
    /\ UNCHANGED <<cur, stream, runEvent, checked, got, sendCount, sendQ, unfinished,
                   recvQ, genVars, recvVars>>

\* Mutant: the join has no timeout.
ThreadJoinedOnly ==
    /\ stream > 0 => recv[stream] \in {"off", "dead"}
    /\ AppAt("joinThread", "idle")
    /\ UNCHANGED <<cur, stream, runEvent, checked, got, sendCount, sendQ, unfinished,
                   recvQ, genVars, recvVars, ended>>

\* receive_thread.join(timeout=5), then on_shutdown.  The timeout is for a thread that
\* user code or a full queue holds: any other is gone long before.
ThreadJoined ==
    /\ AppAt("joinThread", "idle")
    /\ stream > 0 => \/ recv[stream] \in {"off", "dead", "hook"}
                     \/ recv[stream] \in {"put", "error"} /\ ~RecvRoom
    /\ UNCHANGED <<cur, stream, runEvent, checked, got, sendCount, sendQ, unfinished,
                   recvQ, genVars, recvVars, ended>>

-----------------------------------------------------------------------------
(* The request generator.                                                  *)

\* The loop test; get() then blocks on the queue self refers to now.
GenTest(g) ==
    /\ GenAt(g, "test", IF runEvent THEN "wait" ELSE "drain")
    /\ target' = [target EXCEPT ![g] = IF runEvent THEN cur ELSE @]
    /\ UNCHANGED <<appVars, sendQ, unfinished, recvQ, item, wire, recvVars, ended>>

\* Mutant: the queue is a stack.
GenTakeLatest(g) ==
    /\ GenAt(g, "wait", "hook")
    /\ sendQ[target[g]] # <<>>
    /\ LET last == Len(sendQ[target[g]])
       IN  /\ item' = [item EXCEPT ![g] = sendQ[target[g]][last]]
           /\ sendQ' = [sendQ EXCEPT ![target[g]] = SubSeq(@, 1, last - 1)]
    /\ target' = [target EXCEPT ![g] = 0]
    /\ UNCHANGED <<appVars, unfinished, recvQ, wire, recvVars, ended>>

GenTake(g) ==
    /\ GenAt(g, "wait", "hook")
    /\ sendQ[target[g]] # <<>>
    /\ item' = [item EXCEPT ![g] = Head(sendQ[target[g]])]
    /\ sendQ' = [sendQ EXCEPT ![target[g]] = Tail(@)]
    /\ target' = [target EXCEPT ![g] = 0]
    /\ UNCHANGED <<appVars, unfinished, recvQ, wire, recvVars, ended>>

\* queue.Empty after a second.
GenEmpty(g) ==
    /\ GenAt(g, "wait", "test")
    /\ sendQ[target[g]] = <<>>
    /\ target' = [target EXCEPT ![g] = 0]
    /\ UNCHANGED <<appVars, sendQ, unfinished, recvQ, item, wire, recvVars, ended>>

\* on_data_yield accepts the message, suppresses it by False, or raises; then task_done
\* is called at once and the loop is left.
GenHook(g) ==
    /\ \/ GenAt(g, "hook", "yield") /\ UNCHANGED unfinished
       \/ GenAt(g, "hook", "done") /\ UNCHANGED unfinished
       \/ /\ GenAt(g, "hook", "drain")
          /\ unfinished' = [unfinished EXCEPT ![cur] = IF @ > 0 THEN @ - 1 ELSE 0]
    /\ UNCHANGED <<appVars, sendQ, recvQ, target, item, wire, recvVars, ended>>

\* gRPC takes the message while the stream is up.
GenYield(g) ==
    /\ Up(g)
    /\ GenAt(g, "yield", "sent")
    /\ wire' = [wire EXCEPT ![g] = Append(@, item[g])]
    /\ UNCHANGED <<appVars, sendQ, unfinished, recvQ, target, item, recvVars, ended>>

GenResume(g) ==
    /\ Up(g)
    /\ GenAt(g, "sent", "done")
    /\ UNCHANGED <<appVars, sendQ, unfinished, recvQ, target, item, wire, recvVars, ended>>

\* The stream has ended: gRPC drops the generator suspended at its yield.  GeneratorExit
\* is no Exception, so neither task_done nor the drain below the loop runs.
GenDropped(g) ==
    /\ ~Up(g)
    /\ \E at \in {"yield", "sent"} : GenAt(g, at, "dead")
    /\ item' = [item EXCEPT ![g] = NoItem]
    /\ UNCHANGED <<appVars, sendQ, unfinished, recvQ, target, wire, recvVars, ended>>

\* Mutant: task_done is forgotten for a message.
GenForgets(g) ==
    /\ GenAt(g, "done", "test")
    /\ item' = [item EXCEPT ![g] = NoItem]
    /\ UNCHANGED <<appVars, sendQ, unfinished, recvQ, target, wire, recvVars, ended>>

\* Mutant: task_done of a queue that does not mind having nothing unfinished.
GenTaskDoneBlindly(g) ==
    /\ GenAt(g, "done", "test")
    /\ unfinished' = [unfinished EXCEPT ![cur] = @ - 1]
    /\ item' = [item EXCEPT ![g] = NoItem]
    /\ UNCHANGED <<appVars, sendQ, recvQ, target, wire, recvVars, ended>>

\* task_done on the queue self refers to now; ValueError, when it has nothing
\* unfinished, leaves the loop.
GenTaskDone(g) ==
    /\ GenAt(g, "done", IF unfinished[cur] > 0 THEN "test" ELSE "drain")
    /\ unfinished' = [unfinished EXCEPT ![cur] = IF @ > 0 THEN @ - 1 ELSE 0]
    /\ item' = [item EXCEPT ![g] = NoItem]
    /\ UNCHANGED <<appVars, sendQ, recvQ, target, wire, recvVars, ended>>

\* task_done until ValueError.
GenDrain(g) ==
    /\ GenAt(g, "drain", "dead")
    /\ unfinished' = [unfinished EXCEPT ![cur] = 0]
    /\ item' = [item EXCEPT ![g] = NoItem]
    /\ UNCHANGED <<appVars, sendQ, recvQ, target, wire, recvVars, ended>>

Generator(g) ==
    \/ GenTest(g) \/ GenTake(g) \/ GenEmpty(g) \/ GenHook(g) \/ GenYield(g)
    \/ GenResume(g) \/ GenDropped(g) \/ GenTaskDone(g) \/ GenDrain(g)

-----------------------------------------------------------------------------
(* The receive thread.                                                     *)

\* The first response goes into the queue without on_receive.
RecvFirst(g) ==
    /\ Up(g) /\ wire[g] # <<>>
    /\ RecvAt(g, "welcome", "open")
    /\ RecvRoom
    /\ inCount' = [inCount EXCEPT ![g] = 1]
    /\ recvQ' = [recvQ EXCEPT ![cur] = Append(@, Response(g, 1))]
    /\ UNCHANGED <<appVars, sendQ, unfinished, genVars, ended>>

\* Every later one is shown to on_receive first.
RecvNext(g) ==
    /\ Up(g) /\ inCount[g] <= MaxIn[g]
    /\ RecvAt(g, "open", "hook")
    /\ inCount' = [inCount EXCEPT ![g] = @ + 1]
    /\ UNCHANGED <<appVars, sendQ, unfinished, recvQ, genVars, ended>>

\* on_receive keeps the message, discards it by False, or raises.
RecvHook(g) ==
    /\ \E to \in {"put", "open", "error"} : RecvAt(g, "hook", to)
    /\ UNCHANGED <<appVars, sendQ, unfinished, recvQ, genVars, inCount, ended>>

\* receive_queue.put blocks while the queue is full.
RecvPut(g) ==
    /\ RecvAt(g, "put", "open")
    /\ RecvRoom
    /\ recvQ' = [recvQ EXCEPT ![cur] = Append(@, Response(g, inCount[g]))]
    /\ UNCHANGED <<appVars, sendQ, unfinished, genVars, inCount, ended>>

\* The stream ended: normally or by cancel the thread just ends, otherwise the error
\* is put where the main thread raises it.
RecvEnd(g) ==
    /\ ~Up(g)
    /\ \E at \in {"welcome", "open"} :
          RecvAt(g, at, IF ended[g] = "error" THEN "error" ELSE "dead")
    /\ UNCHANGED <<appVars, sendQ, unfinished, recvQ, genVars, inCount, ended>>

\* Mutant: the error is put without waiting, and a full queue ignored.
RecvErrorNoWait(g) ==
    /\ RecvAt(g, "error", "dead")
    /\ recvQ' = IF RecvRoom THEN [recvQ EXCEPT ![cur] = Append(@, Failure(g))] ELSE recvQ
    /\ UNCHANGED <<appVars, sendQ, unfinished, genVars, inCount, ended>>

RecvError(g) ==
    /\ RecvAt(g, "error", "dead")
    /\ RecvRoom
    /\ recvQ' = [recvQ EXCEPT ![cur] = Append(@, Failure(g))]
    /\ UNCHANGED <<appVars, sendQ, unfinished, genVars, inCount, ended>>

Receive(g) == RecvFirst(g) \/ RecvHook(g) \/ RecvPut(g) \/ RecvEnd(g) \/ RecvError(g)

\* The server ends the RPC, with OK or a code, or the transport fails.  One code is
\* CANCELLED, which the receive thread takes for the client's own disconnect.
ServerEnds(g) ==
    /\ Up(g)
    /\ \E how \in {"ok", "error", "cancelled"} : ended' = [ended EXCEPT ![g] = how]
    /\ UNCHANGED <<appVars, sendQ, unfinished, recvQ, genVars, recvVars>>

-----------------------------------------------------------------------------
App ==
    \/ ConnectTimeout \/ OpenStream \/ PutFirst \/ CheckConnection \/ CheckTimeout
    \/ QueueJoined \/ ClearRunEvent \/ CancelStream \/ ThreadJoined

AppCalls == SetupConnection \/ SendData \/ WaitDone \/ GetData \/ Disconnect

Next ==
    \/ App \/ AppCalls
    \/ \E g \in Gens : Generator(g) \/ Receive(g) \/ RecvNext(g) \/ ServerEnds(g)

Spec == Init /\ [][Next]_vars

\* A call the application has made goes on, and so do the threads; hooks return.  The
\* application need not make another call, nor the server send or end anything.
FairSpec == /\ Spec
            /\ WF_vars(App)
            /\ \A g \in Gens : WF_vars(Generator(g)) /\ WF_vars(Receive(g))
=============================================================================
