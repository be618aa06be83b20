---------------------------- MODULE StreamServer ----------------------------
(***************************************************************************)
(* The broker of pookiepy/baseserver.py: one BaseServer, the streams its   *)
(* clients open, and the routing table they share.                         *)
(*                                                                         *)
(* Every admitted DataChannel RPC runs two threads.  The SENDER is the     *)
(* executor worker that iterates the DataChannel generator: it counts the  *)
(* connection, starts the receiver, yields notifications to the client and *)
(* cleans up.  The RECEIVER runs _handle_client_receive: the handshake,    *)
(* the user hooks, and the fan-out of what the client publishes.  A third  *)
(* thread runs serve_forever, and a server-side thread (Pusher) publishes  *)
(* on its own, as the comment above the welcome message expects.           *)
(*                                                                         *)
(* A client id is fresh for every connection (BaseClient draws a uuid4 in  *)
(* _setup_connection), so a stream stands for its client id.  User hooks   *)
(* return or raise nondeterministically.  gRPC is external: it admits an   *)
(* RPC, may end it at any time, and takes the generator's values.          *)
(***************************************************************************)
EXTENDS Integers, Sequences, FiniteSets

CONSTANTS Streams,     \* the RPCs clients may open, each with its own client id
          Topics,      \* message names
          Requires,    \* the requires list each client sends in its first message
          Pusher,      \* the server-side thread that publishes with client id ""
          MaxWorkers,  \* ServerConfig.effective_max_workers
          MaxQueue,    \* ServerConfig.max_queue_elements, 0 for unbounded
          MaxData      \* bound: how many messages each publisher publishes

ASSUME ConstantsAssumption ==
    /\ Requires \in [Streams -> Seq(Topics)]
    /\ Pusher \notin Streams /\ "welcome" \notin Streams \cup {Pusher}
    /\ MaxWorkers \in Nat \ {0}
    /\ MaxQueue \in Nat
    /\ MaxData \in [Streams \cup {Pusher} -> Nat]

VARIABLES
    main,        \* where serve_forever is
    listening,   \* the transport accepts RPCs: started and not stopped
    globalExit,  \* _global_exit_event
    connected,   \* __connected_clients
    lock,        \* the thread that holds __connected_clients_lock
    sender,      \* where each stream's DataChannel generator is
    receiver,    \* where each stream's receive worker is
    exitEvent,   \* each stream's exit_event
    rpcUp,       \* each stream's RPC is active in the transport
    identified,  \* peer.client_id has been set from the first message
    enrolled,    \* requires of the first message handled so far
    unsubscribe, \* topics the disconnect cleanup has still to visit
    subs,        \* DataRegister._register: the subscribers of each topic
    queue,       \* each stream's notification_queue
    sent,        \* what the sender has yielded to the transport
    fan,         \* subscribers a publisher has still to notify
    published,   \* messages each publisher has published
    status,      \* the code set on the RPC context
    failed,      \* how the handshake or the receive worker failed, if it did
    final        \* the status the RPC completed with

serveVars  == <<main, listening, globalExit, connected, lock>>
senderVars == <<sender, unsubscribe, sent, final>>
workVars   == <<receiver, identified, enrolled, fan, published>>
codeVars   == <<status, failed>>
sharedVars == <<exitEvent, rpcUp, subs, queue, codeVars>>
vars == <<serveVars, senderVars, workVars, sharedVars>>

Publishers == Streams \cup {Pusher}
Welcome    == [from |-> "welcome", n |-> 0]
Data(p, k) == [from |-> p, n |-> k]
Messages   == [from : Publishers \cup {"welcome"}, n : Nat]

NoThread         == <<>>
SenderThread(s)   == <<"sender", s>>
ReceiverThread(s) == <<"receiver", s>>

SenderStates == {"absent", "count", "callback", "check", "schema", "loop", "get",
                 "yield", "clean", "remove", "hook", "uncount", "done"}
ReceiverStates == {"off", "iter", "got", "name", "connect", "accepted", "enroll", "topics",
                   "receive", "fan", "fin", "dead"}
Codes == {"OK", "PERMISSION_DENIED", "INTERNAL", "FAILED_PRECONDITION", "UNKNOWN"}
Failures == {"no", "rejected", "raised", "rpcError"}

\* The exit test both threads make: the stream's event or the server's.
Exiting(s) == exitEvent[s] \/ globalExit

\* Streams that occupy an executor worker.
Busy == {s \in Streams : sender[s] \notin {"absent", "done"}}

\* Mutant: a queue with one place left counts as full.
RoomForTwo(s) == MaxQueue = 0 \/ Len(queue[s]) + 1 < MaxQueue

Room(s) == MaxQueue = 0 \/ Len(queue[s]) < MaxQueue

SenderAt(s, from, to) == sender[s] = from /\ sender' = [sender EXCEPT ![s] = to]
ReceiverAt(s, from, to) == receiver[s] = from /\ receiver' = [receiver EXCEPT ![s] = to]

\* A failure is marked on the RPC.
Fail(s, how, code) ==
    /\ failed' = [failed EXCEPT ![s] = how]
    /\ status' = [status EXCEPT ![s] = code]

Init ==
    /\ main = "starting"
    /\ listening = FALSE
    /\ globalExit = FALSE
    /\ connected = 0
    /\ lock = NoThread
    /\ sender = [s \in Streams |-> "absent"]
    /\ receiver = [s \in Streams |-> "off"]
    /\ exitEvent = [s \in Streams |-> FALSE]
    /\ rpcUp = [s \in Streams |-> FALSE]
    /\ identified = [s \in Streams |-> FALSE]
    /\ enrolled = [s \in Streams |-> 0]
    /\ unsubscribe = [s \in Streams |-> {}]
    /\ subs = [t \in Topics |-> {}]
    /\ queue = [s \in Streams |-> <<>>]
    /\ sent = [s \in Streams |-> <<>>]
    /\ fan = [p \in Publishers |-> {}]
    /\ published = [p \in Publishers |-> 0]
    /\ status = [s \in Streams |-> "OK"]
    /\ failed = [s \in Streams |-> "no"]
    /\ final = [s \in Streams |-> "none"]

-----------------------------------------------------------------------------
(* gRPC: admission, cancellation and the termination callback.             *)

\* The transport admits an RPC while fewer than MaxWorkers are being served
\* (maximum_concurrent_rpcs); the generator starts on its own worker.
Admit(s) ==
    /\ listening
    /\ Cardinality(Busy) < MaxWorkers
    /\ SenderAt(s, "absent", "count")
    /\ rpcUp' = [rpcUp EXCEPT ![s] = TRUE]
    /\ UNCHANGED <<serveVars, workVars, unsubscribe, sent, final,
                   exitEvent, subs, queue, codeVars>>

\* An RPC in excess is refused at once and runs no server code.
Refuse(s) ==
    /\ listening
    /\ Cardinality(Busy) >= MaxWorkers
    /\ SenderAt(s, "absent", "done")
    /\ final' = [final EXCEPT ![s] = "RESOURCE_EXHAUSTED"]
    /\ UNCHANGED <<serveVars, workVars, sharedVars, unsubscribe, sent>>

\* The client disconnects or the transport fails.
RpcEnds(s) ==
    /\ rpcUp[s]
    /\ rpcUp' = [rpcUp EXCEPT ![s] = FALSE]
    /\ UNCHANGED <<serveVars, senderVars, workVars, exitEvent, subs, queue, codeVars>>

\* context.add_callback(exit_event.set): fired some time after the RPC ends.
TerminationCallback(s) ==
    /\ ~rpcUp[s] /\ ~exitEvent[s]
    /\ sender[s] \notin {"absent", "count", "callback"}
    /\ exitEvent' = [exitEvent EXCEPT ![s] = TRUE]
    /\ UNCHANGED <<serveVars, senderVars, workVars, rpcUp, subs, queue, codeVars>>

-----------------------------------------------------------------------------
(* The sender: DataChannel.                                                *)

CountConnection(s) ==
    /\ lock = NoThread
    /\ SenderAt(s, "count", "callback")
    /\ connected' = connected + 1
    /\ UNCHANGED <<main, listening, globalExit, lock, unsubscribe, sent, final,
                   workVars, sharedVars>>

\* Registration fails when the RPC has already terminated.
AddCallback(s) ==
    /\ SenderAt(s, "callback", "check")
    /\ exitEvent' = [exitEvent EXCEPT ![s] = @ \/ ~rpcUp[s]]
    /\ UNCHANGED <<serveVars, unsubscribe, sent, final, workVars,
                   rpcUp, subs, queue, codeVars>>

SkipStopped(s) ==
    /\ Exiting(s)
    /\ SenderAt(s, "check", "uncount")
    /\ UNCHANGED <<serveVars, unsubscribe, sent, final, workVars, sharedVars>>

KeepStream(s) ==
    /\ ~Exiting(s)
    /\ SenderAt(s, "check", "schema")
    /\ UNCHANGED <<serveVars, unsubscribe, sent, final, workVars, sharedVars>>

\* Mutant: the RPC ends with a code that is none of the broker's.
SchemaMismatchOtherCode(s) ==
    /\ SenderAt(s, "schema", "uncount")
    /\ Fail(s, "rejected", "INVALID_ARGUMENT")
    /\ UNCHANGED <<serveVars, unsubscribe, sent, final, workVars,
                   exitEvent, rpcUp, subs, queue>>

\* Mutant: the early return leaves DataChannel without the outer finally.
SchemaMismatchUncounted(s) ==
    /\ SenderAt(s, "schema", "done")
    /\ Fail(s, "rejected", "FAILED_PRECONDITION")
    /\ UNCHANGED <<serveVars, unsubscribe, sent, final, workVars,
                   exitEvent, rpcUp, subs, queue>>

\* The schema versions differ: context.abort raises.
SchemaMismatch(s) ==
    /\ SenderAt(s, "schema", "uncount")
    /\ Fail(s, "rejected", "FAILED_PRECONDITION")
    /\ UNCHANGED <<serveVars, unsubscribe, sent, final, workVars,
                   exitEvent, rpcUp, subs, queue>>

StartReceiver(s) ==
    /\ SenderAt(s, "schema", "loop")
    /\ ReceiverAt(s, "off", "iter")
    /\ UNCHANGED <<serveVars, unsubscribe, sent, final, identified, enrolled,
                   fan, published, sharedVars>>

\* Mutant: the loop watches the server's exit event only.
LoopTestGlobalOnly(s) ==
    /\ SenderAt(s, "loop", IF globalExit THEN "clean" ELSE "get")
    /\ UNCHANGED <<serveVars, unsubscribe, sent, final, workVars, sharedVars>>

LoopTest(s) ==
    /\ SenderAt(s, "loop", IF Exiting(s) THEN "clean" ELSE "get")
    /\ UNCHANGED <<serveVars, unsubscribe, sent, final, workVars, sharedVars>>

\* Mutant: an on_data_yield that raises skips the yield.
GetMessageHookSkips(s) ==
    /\ queue[s] # <<>>
    /\ \/ /\ SenderAt(s, "get", "yield")
          /\ sent' = [sent EXCEPT ![s] = Append(@, Head(queue[s]))]
       \/ /\ SenderAt(s, "get", "loop")
          /\ UNCHANGED sent
    /\ queue' = [queue EXCEPT ![s] = Tail(@)]
    /\ UNCHANGED <<serveVars, unsubscribe, final, workVars,
                   exitEvent, rpcUp, subs, codeVars>>

\* notification_queue.get(timeout=1) returns a message; on_data_yield, whose
\* exceptions are swallowed, and the yield follow without another test.
GetMessage(s) ==
    /\ queue[s] # <<>>
    /\ SenderAt(s, "get", "yield")
    /\ sent' = [sent EXCEPT ![s] = Append(@, Head(queue[s]))]
    /\ queue' = [queue EXCEPT ![s] = Tail(@)]
    /\ UNCHANGED <<serveVars, unsubscribe, final, workVars,
                   exitEvent, rpcUp, subs, codeVars>>

\* ... or queue.Empty after the polling interval.
GetTimeout(s) ==
    /\ queue[s] = <<>>
    /\ SenderAt(s, "get", "loop")
    /\ UNCHANGED <<serveVars, unsubscribe, sent, final, workVars, sharedVars>>

\* gRPC asks for the next value while the RPC is active, once flow control has let
\* the last one go ...
Resume(s) ==
    /\ rpcUp[s]
    /\ SenderAt(s, "yield", "loop")
    /\ UNCHANGED <<serveVars, unsubscribe, sent, final, workVars, sharedVars>>

\* ... and otherwise drops the suspended generator, whose finally runs.
DropGenerator(s) ==
    /\ ~rpcUp[s]
    /\ SenderAt(s, "yield", "clean")
    /\ UNCHANGED <<serveVars, unsubscribe, sent, final, workVars, sharedVars>>

\* Mutant: the cleanup does not take the registration lock.
BeginCleanupUnlocked(s) ==
    /\ SenderAt(s, "clean", "remove")
    /\ exitEvent' = [exitEvent EXCEPT ![s] = TRUE]
    /\ unsubscribe' = [unsubscribe EXCEPT ![s] = IF identified[s] THEN Topics ELSE {}]
    /\ UNCHANGED <<serveVars, sent, final, workVars, rpcUp, subs, queue, codeVars>>

\* Exit is marked under the registration lock; remove_notification_queues_for_client
\* then visits the topics.  A client that never identified itself has none.
BeginCleanup(s) ==
    /\ lock = NoThread
    /\ SenderAt(s, "clean", "remove")
    /\ lock' = SenderThread(s)
    /\ exitEvent' = [exitEvent EXCEPT ![s] = TRUE]
    /\ unsubscribe' = [unsubscribe EXCEPT ![s] = IF identified[s] THEN Topics ELSE {}]
    /\ UNCHANGED <<main, listening, globalExit, connected, sent, final, workVars,
                   rpcUp, subs, queue, codeVars>>

RemoveSubscription(s) ==
    /\ sender[s] = "remove"
    /\ \E t \in unsubscribe[s] :
          /\ subs' = [subs EXCEPT ![t] = @ \ {s}]
          /\ unsubscribe' = [unsubscribe EXCEPT ![s] = @ \ {t}]
    /\ UNCHANGED <<serveVars, sender, sent, final, workVars,
                   exitEvent, rpcUp, queue, codeVars>>

EndCleanup(s) ==
    /\ unsubscribe[s] = {}
    /\ SenderAt(s, "remove", "hook")
    /\ lock' = NoThread
    /\ UNCHANGED <<main, listening, globalExit, connected, unsubscribe, sent, final,
                   workVars, sharedVars>>

\* on_client_disconnect returns, or raises and fails an RPC that had no code yet.
DisconnectHook(s) ==
    /\ SenderAt(s, "hook", "uncount")
    /\ \E raises \in BOOLEAN :
          status' = IF raises /\ status[s] = "OK"
                    THEN [status EXCEPT ![s] = "UNKNOWN"] ELSE status
    /\ UNCHANGED <<serveVars, unsubscribe, sent, final, workVars,
                   exitEvent, rpcUp, subs, queue, failed>>

\* The outer finally; the generator ends and gRPC completes the RPC.
UncountConnection(s) ==
    /\ lock = NoThread
    /\ SenderAt(s, "uncount", "done")
    /\ connected' = connected - 1
    /\ final' = [final EXCEPT ![s] = IF rpcUp[s] THEN status[s] ELSE "CANCELLED"]
    /\ rpcUp' = [rpcUp EXCEPT ![s] = FALSE]
    /\ UNCHANGED <<main, listening, globalExit, lock, unsubscribe, sent, workVars,
                   exitEvent, subs, queue, codeVars>>

Sender(s) ==
    \/ CountConnection(s) \/ AddCallback(s) \/ SkipStopped(s) \/ KeepStream(s)
    \/ SchemaMismatch(s) \/ StartReceiver(s)
    \/ LoopTest(s) \/ GetMessage(s) \/ GetTimeout(s) \/ Resume(s) \/ DropGenerator(s)
    \/ BeginCleanup(s) \/ RemoveSubscription(s) \/ EndCleanup(s)
    \/ DisconnectHook(s) \/ UncountConnection(s)

-----------------------------------------------------------------------------
(* The receiver: _handle_client_receive.                                   *)

\* The iterator hands over a request.  It may do so after cancellation or
\* shutdown began, so rpcUp is no guard.
Request(s) ==
    /\ published[s] < MaxData[s] \/ ~identified[s]
    /\ ReceiverAt(s, "iter", "got")
    /\ UNCHANGED <<serveVars, senderVars, identified, enrolled, fan, published, sharedVars>>

\* The client closes its side: the loop ends normally.
HalfClose(s) ==
    /\ ReceiverAt(s, "iter", "fin")
    /\ UNCHANGED <<serveVars, senderVars, identified, enrolled, fan, published, sharedVars>>

\* The RPC ended: the iterator stops or raises grpc.RpcError, which is ignored.
IteratorEnds(s) ==
    /\ ~rpcUp[s]
    /\ HalfClose(s)

\* The test at the head of the loop body, then the test for a first message.
TakeRequest(s) ==
    /\ ReceiverAt(s, "got", IF Exiting(s) THEN "fin"
                            ELSE IF identified[s] THEN "receive" ELSE "name")
    /\ UNCHANGED <<serveVars, senderVars, identified, enrolled, fan, published, sharedVars>>

\* The first message names the client.
Identify(s) ==
    /\ ReceiverAt(s, "name", "connect")
    /\ identified' = [identified EXCEPT ![s] = TRUE]
    /\ UNCHANGED <<serveVars, senderVars, enrolled, fan, published, sharedVars>>

\* A hook raises, which ends the loop.
LeaveHook(s) == \E at \in {"connect", "accepted", "receive"} : ReceiverAt(s, at, "fin")

\* Mutant: the worker's finally runs before the code is set on the RPC.
HookRaisesLate(s) ==
    /\ \/ /\ LeaveHook(s)
          /\ failed' = [failed EXCEPT ![s] = "raised"]
          /\ UNCHANGED status
       \/ /\ receiver[s] = "dead" /\ failed[s] = "raised"
          /\ Fail(s, "raised", "INTERNAL")
          /\ UNCHANGED receiver
    /\ UNCHANGED <<serveVars, senderVars, identified, enrolled, fan, published,
                   exitEvent, rpcUp, subs, queue>>

\* The catch-all handler marks the RPC before the thread ends ...
HookRaises(s) ==
    /\ LeaveHook(s)
    /\ Fail(s, "raised", "INTERNAL")
    /\ UNCHANGED <<serveVars, senderVars, identified, enrolled, fan, published,
                   exitEvent, rpcUp, subs, queue>>

\* ... but a hook's own grpc.RpcError is taken for a disconnect and sets no code.
HookRaisesRpcError(s) ==
    /\ LeaveHook(s)
    /\ failed' = [failed EXCEPT ![s] = "rpcError"]
    /\ UNCHANGED <<serveVars, senderVars, identified, enrolled, fan, published,
                   exitEvent, rpcUp, subs, queue, status>>

RejectClient(s) ==
    /\ ReceiverAt(s, "connect", "fin")
    /\ Fail(s, "rejected", "PERMISSION_DENIED")
    /\ UNCHANGED <<serveVars, senderVars, identified, enrolled, fan, published,
                   exitEvent, rpcUp, subs, queue>>

\* on_client_connect returned True; on_client_accepted runs next, before enrolment.
AcceptClient(s) ==
    /\ ReceiverAt(s, "connect", "accepted")
    /\ UNCHANGED <<serveVars, senderVars, identified, enrolled, fan, published, sharedVars>>

\* Mutant: the first subscription precedes the welcome.
AcceptedHookSubscribes(s) ==
    /\ ReceiverAt(s, "accepted", "enroll")
    /\ subs' = [subs EXCEPT ![Requires[s][1]] = @ \cup {s}]
    /\ UNCHANGED <<serveVars, senderVars, identified, enrolled, fan, published,
                   exitEvent, rpcUp, queue, codeVars>>

AcceptedHook(s) ==
    /\ ReceiverAt(s, "accepted", "enroll")
    /\ UNCHANGED <<serveVars, senderVars, identified, enrolled, fan, published, sharedVars>>

\* Under the lock, a stream that is ending gets neither welcome nor subscriptions.
EnrollTooLate(s) ==
    /\ lock = NoThread
    /\ Exiting(s)
    /\ ReceiverAt(s, "enroll", "fin")
    /\ UNCHANGED <<serveVars, senderVars, identified, enrolled, fan, published, sharedVars>>

\* Mutant: a hook that returned late enrols its stream all the same.
SendWelcomeUnchecked(s) ==
    /\ lock = NoThread
    /\ ReceiverAt(s, "enroll", "topics")
    /\ lock' = ReceiverThread(s)
    /\ queue' = [queue EXCEPT ![s] = Append(@, Welcome)]
    /\ UNCHANGED <<main, listening, globalExit, connected, senderVars, identified, enrolled,
                   fan, published, exitEvent, rpcUp, subs, codeVars>>

\* ... and any other stream gets its welcome before the first subscription.
\* put_nowait cannot fail: nothing else puts into the queue of an unsubscribed stream.
SendWelcome(s) ==
    /\ lock = NoThread
    /\ ~Exiting(s)
    /\ ReceiverAt(s, "enroll", "topics")
    /\ lock' = ReceiverThread(s)
    /\ queue' = [queue EXCEPT ![s] = Append(@, Welcome)]
    /\ UNCHANGED <<main, listening, globalExit, connected, senderVars, identified, enrolled, fan,
                   published, exitEvent, rpcUp, subs, codeVars>>

Subscribe(s) ==
    /\ receiver[s] = "topics"
    /\ enrolled[s] < Len(Requires[s])
    /\ LET t == Requires[s][enrolled[s] + 1]
       IN  /\ s \notin subs[t]
           /\ subs' = [subs EXCEPT ![t] = @ \cup {s}]
    /\ enrolled' = [enrolled EXCEPT ![s] = @ + 1]
    /\ UNCHANGED <<serveVars, senderVars, receiver, identified, fan, published,
                   exitEvent, rpcUp, queue, codeVars>>

\* A message name listed twice: add_notification_queue_for_message_name raises
\* ValueError with the names before it already subscribed.
SubscribeTwice(s) ==
    /\ enrolled[s] < Len(Requires[s])
    /\ s \in subs[Requires[s][enrolled[s] + 1]]
    /\ ReceiverAt(s, "topics", "fin")
    /\ lock' = NoThread
    /\ Fail(s, "raised", "INTERNAL")
    /\ UNCHANGED <<main, listening, globalExit, connected, senderVars, identified, enrolled, fan,
                   published, exitEvent, rpcUp, subs, queue>>

EndEnroll(s) ==
    /\ enrolled[s] = Len(Requires[s])
    /\ ReceiverAt(s, "topics", "iter")
    /\ lock' = NoThread
    /\ UNCHANGED <<main, listening, globalExit, connected, senderVars, identified, enrolled, fan,
                   published, sharedVars>>

\* on_receive returned False: the message is not routed.
SuppressData(s) ==
    /\ ReceiverAt(s, "receive", "iter")
    /\ UNCHANGED <<serveVars, senderVars, identified, enrolled, fan, published, sharedVars>>

\* Mutant: the publisher is notified of its own message.
SnapshotWithSelf(p, t) ==
    /\ published[p] < MaxData[p]
    /\ published' = [published EXCEPT ![p] = @ + 1]
    /\ fan' = [fan EXCEPT ![p] = subs[t]]

\* add_data_for_message_name takes its snapshot under the topic's lock; the
\* publisher itself is skipped.
Snapshot(p, t) ==
    /\ published[p] < MaxData[p]
    /\ published' = [published EXCEPT ![p] = @ + 1]
    /\ fan' = [fan EXCEPT ![p] = subs[t] \ {p}]

RouteData(s) ==
    /\ ReceiverAt(s, "receive", "fan")
    /\ \E t \in Topics : Snapshot(s, t)
    /\ UNCHANGED <<serveVars, senderVars, identified, enrolled, sharedVars>>

\* One nonblocking put of the fan-out, outside every lock; a full queue drops it.
Notify(p) ==
    /\ \E s \in fan[p] :
          /\ fan' = [fan EXCEPT ![p] = @ \ {s}]
          /\ queue' = IF Room(s) THEN [queue EXCEPT ![s] = Append(@, Data(p, published[p]))]
                                 ELSE queue
    /\ UNCHANGED <<serveVars, senderVars, receiver, identified, enrolled, published,
                   exitEvent, rpcUp, subs, codeVars>>

EndFan(s) ==
    /\ fan[s] = {}
    /\ ReceiverAt(s, "fan", "iter")
    /\ UNCHANGED <<serveVars, senderVars, identified, enrolled, fan, published, sharedVars>>

\* The finally of the receive worker.
ReceiverFinally(s) ==
    /\ ReceiverAt(s, "fin", "dead")
    /\ exitEvent' = [exitEvent EXCEPT ![s] = TRUE]
    /\ UNCHANGED <<serveVars, senderVars, identified, enrolled, fan, published,
                   rpcUp, subs, queue, codeVars>>

\* The steps the receive worker takes by itself.
Receiver(s) ==
    \/ IteratorEnds(s) \/ TakeRequest(s) \/ Identify(s) \/ HookRaises(s)
    \/ HookRaisesRpcError(s) \/ RejectClient(s) \/ AcceptClient(s) \/ AcceptedHook(s) \/ EnrollTooLate(s) \/ SendWelcome(s)
    \/ Subscribe(s) \/ SubscribeTwice(s) \/ EndEnroll(s) \/ SuppressData(s)
    \/ RouteData(s) \/ Notify(s) \/ EndFan(s) \/ ReceiverFinally(s)

-----------------------------------------------------------------------------
(* serve_forever, shutdown, and a server-side publisher.                   *)

MainAt(from, to) == main = from /\ main' = to

ServerStarts ==
    /\ MainAt("starting", "serving")
    /\ listening' = TRUE
    /\ UNCHANGED <<globalExit, connected, lock, senderVars, workVars, sharedVars>>

\* Creating or binding the transport fails: the cleanup below still runs.
StartFails ==
    /\ MainAt("starting", "shutdown")
    /\ UNCHANGED <<listening, globalExit, connected, lock, senderVars, workVars, sharedVars>>

\* Mutant: serve_forever waits for an interrupt and polls no event.
ServeEndsUnpolled ==
    /\ FALSE
    /\ UNCHANGED vars

\* The watchdog loop sees the exit event.
ServeEnds ==
    /\ globalExit
    /\ MainAt("serving", "shutdown")
    /\ UNCHANGED <<listening, globalExit, connected, lock, senderVars, workVars, sharedVars>>

\* KeyboardInterrupt leaves the loop without the event.
Interrupt ==
    /\ MainAt("serving", "shutdown")
    /\ UNCHANGED <<listening, globalExit, connected, lock, senderVars, workVars, sharedVars>>

\* shutdown() from the finally; on_shutdown may raise, the teardown goes on.
Shutdown ==
    /\ MainAt("shutdown", "stopping")
    /\ globalExit' = TRUE
    /\ UNCHANGED <<listening, connected, lock, senderVars, workVars, sharedVars>>

\* server.stop(grace=None) ends every RPC at once.
StopTransport ==
    /\ MainAt("stopping", "draining")
    /\ listening' = FALSE
    /\ rpcUp' = [s \in Streams |-> FALSE]
    /\ UNCHANGED <<globalExit, connected, lock, senderVars, workVars,
                   exitEvent, subs, queue, codeVars>>

\* Mutant: executor.shutdown(wait=False).
ServeReturnsEarly ==
    /\ MainAt("draining", "returned")
    /\ UNCHANGED <<listening, globalExit, connected, lock, senderVars, workVars, sharedVars>>

\* executor.shutdown(wait=True) returns when no worker runs a generator.
ServeReturns ==
    /\ Busy = {}
    /\ MainAt("draining", "returned")
    /\ UNCHANGED <<listening, globalExit, connected, lock, senderVars, workVars, sharedVars>>

\* shutdown() called by another thread or a hook.
RequestShutdown ==
    /\ ~globalExit
    /\ globalExit' = TRUE
    /\ UNCHANGED <<main, listening, connected, lock, senderVars, workVars, sharedVars>>

\* add_data_for_message_name("", topic, message) from server code.
Push ==
    /\ fan[Pusher] = {}
    /\ \E t \in Topics : Snapshot(Pusher, t)
    /\ UNCHANGED <<serveVars, senderVars, receiver, identified, enrolled, sharedVars>>

Main == ServerStarts \/ StartFails \/ ServeEnds \/ Shutdown \/ StopTransport \/ ServeReturns

Finished ==
    /\ main = "returned"
    /\ \A s \in Streams : receiver[s] \in {"off", "dead"}
    /\ UNCHANGED vars

Next ==
    \/ Main \/ Interrupt \/ RequestShutdown \/ Push \/ Notify(Pusher)
    \/ \E s \in Streams :
          \/ Admit(s) \/ Refuse(s) \/ RpcEnds(s) \/ TerminationCallback(s)
          \/ Sender(s)
          \/ Request(s) \/ HalfClose(s) \/ Receiver(s)
    \/ Finished

\* Threads that can run do run, hooks return, gRPC fires its callback and closes the
\* generator of an RPC that ended.  Clients promise nothing: one that stops reading keeps
\* the generator at its yield.  Nor do shutdown requests and server-side publishing.
Fairness ==
    /\ WF_vars(Main)
    /\ WF_vars(Notify(Pusher))
    /\ \A s \in Streams : /\ WF_vars(TerminationCallback(s))
                          /\ WF_vars(sender[s] # "yield" /\ Sender(s))
                          /\ WF_vars(DropGenerator(s))
                          /\ WF_vars(Receiver(s))

Spec == Init /\ [][Next]_vars
FairSpec == Spec /\ Fairness
=============================================================================
