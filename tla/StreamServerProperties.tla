---------------------- MODULE StreamServerProperties ----------------------
(***************************************************************************)
(* What makes the broker of StreamServer correct, and the session it       *)
(* implements.                                                             *)
(***************************************************************************)
EXTENDS StreamServer

\* Everything handed to a stream so far, in order: yielded, then still queued.
Inflow(s) == sent[s] \o queue[s]

\* Streams counted by __connected_clients.
Counted == {s \in Streams : /\ sender[s] \notin {"absent", "count", "done"}}

\* Streams whose DataChannel generator has finished its disconnect cleanup.
CleanedUp(s) == sender[s] \in {"hook", "uncount", "done"}

\* Every variable ranges over the values its Python counterpart can take.
TypeOK ==
    /\ main \in {"starting", "serving", "shutdown", "stopping", "draining", "returned"}
    /\ listening \in BOOLEAN
    /\ globalExit \in BOOLEAN
    /\ connected \in Int
    /\ lock \in {NoThread} \cup {SenderThread(s) : s \in Streams}
                           \cup {ReceiverThread(s) : s \in Streams}
    /\ sender \in [Streams -> SenderStates]
    /\ receiver \in [Streams -> ReceiverStates]
    /\ exitEvent \in [Streams -> BOOLEAN]
    /\ rpcUp \in [Streams -> BOOLEAN]
    /\ identified \in [Streams -> BOOLEAN]
    /\ enrolled \in [Streams -> Nat]
    /\ unsubscribe \in [Streams -> SUBSET Topics]
    /\ subs \in [Topics -> SUBSET Streams]
    /\ queue \in [Streams -> Seq(Messages)]
    /\ sent \in [Streams -> Seq(Messages)]
    /\ fan \in [Publishers -> SUBSET Streams]
    /\ published \in [Publishers -> Nat]
    /\ status \in [Streams -> Codes]
    /\ failed \in [Streams -> Failures]
    /\ final \in [Streams -> Codes \cup {"none", "CANCELLED", "RESOURCE_EXHAUSTED"}]

\* A stream that finished its disconnect cleanup is subscribed to nothing, and stays
\* so: an acceptance hook that returns late cannot bring its subscriptions back.
NoSubscriptionAfterCleanup ==
    \A s \in Streams : CleanedUp(s) => \A t \in Topics : s \notin subs[t]

\* The first thing a client can read is the welcome, and it is sent once, whatever
\* other threads publish while the client is being enrolled.
WelcomeFirst ==
    \A s \in Streams : \A i \in 1..Len(Inflow(s)) : Inflow(s)[i] = Welcome <=> i = 1

\* A client never gets its own message, nor one publisher's messages out of order or
\* twice, although fan-outs put outside every lock and drop at a full queue.
PublisherOrder ==
    \A s \in Streams : \A i, j \in 1..Len(Inflow(s)) :
        /\ Inflow(s)[i].from # s
        /\ i < j /\ Inflow(s)[i].from = Inflow(s)[j].from => Inflow(s)[i].n < Inflow(s)[j].n

\* A stream that was refused in the handshake, or whose worker met an exception other
\* than the grpc.RpcError it takes for a disconnect.
Failed(s) == failed[s] \in {"rejected", "raised"}

\* A failure of the receive worker must not look like a successful completion: its code is
\* on the RPC before the sender can end it, so OK is possible only when the server is going down.
FailureNeverOK ==
    \A s \in Streams : final[s] = "OK" /\ Failed(s) => globalExit

\* __connected_clients counts the streams between their increment and their decrement,
\* on every path out of DataChannel, and admission keeps it within the worker pool.
ConnectedIsExact ==
    connected = Cardinality(Counted) /\ connected <= MaxWorkers

\* When serve_forever has returned nothing is subscribed, though receive workers
\* (daemon threads) may still be running user hooks.
ReturnedMeansReleased ==
    main = "returned" => connected = 0 /\ \A t \in Topics : subs[t] = {}

\* shutdown() is enough: once the exit event is set, serve_forever returns.
ShutdownCompletes == globalExit ~> main = "returned"

\* An RPC that ended frees its worker, and its receive worker ends too, whatever hook
\* or queue either was in.
EndedStreamFreed ==
    \A s \in Streams :
        (sender[s] \notin {"absent", "done"} /\ ~rpcUp[s])
            ~> (sender[s] = "done" /\ receiver[s] \in {"off", "dead"})

\* Every message the broker can queue within the budgets.
Sendable == {Welcome} \cup UNION {{Data(p, k) : k \in 1..MaxData[p]} : p \in Publishers}

\* The peers keep reading: flow control lets every yielded value go, or the RPC ends.
PeersRead == \A s \in Streams : WF_vars(Resume(s))

\* Whatever is queued for a client that keeps reading is yielded to it, unless its stream is
\* being torn down: no exception of a hook, idle poll or late subscription loses it.
QueueDrains ==
    PeersRead =>
        \A s \in Streams, m \in Sendable :
            (\E i \in 1..Len(queue[s]) : queue[s][i] = m)
                ~> (Exiting(s) \/ \E i \in 1..Len(sent[s]) : sent[s][i] = m)

\* The stages of a stream's two threads, as far as its subscriptions depend on them.
Leaving(s) == sender[s] \in {"remove", "hook", "uncount", "done"}

\* The registration lock is held exactly by a worker that subscribes or a sender that cleans up.
LockInv ==
    \A s \in Streams : /\ receiver[s] = "topics" <=> lock = ReceiverThread(s)
                       /\ sender[s] = "remove" <=> lock = SenderThread(s)

StageInv ==
    \A s \in Streams :
        /\ sender[s] \in {"absent", "count", "callback", "check", "schema"} => receiver[s] = "off"
        /\ receiver[s] = "off" => ~identified[s]
        /\ receiver[s] \in {"connect", "accepted", "enroll", "topics"} => identified[s]
        /\ Leaving(s) => (exitEvent[s] \/ receiver[s] = "off") /\ receiver[s] # "topics"

SubscriptionInv ==
    \A s \in Streams : \A k \in Topics :
        s \in subs[k] =>
            /\ identified[s] /\ ~CleanedUp(s)
            /\ sender[s] = "remove" => k \in unsubscribe[s]

\* The inductive invariant behind NoSubscriptionAfterCleanup: what the registration lock,
\* the exit event and the first-message test guarantee together, at every step.
RegistrationInv == LockInv /\ StageInv /\ SubscriptionInv

\* The inductive invariant behind FailureNeverOK: while the RPC is up and the server too,
\* an exit event is a dead receive worker, so the code is on the RPC before the RPC completes.
CompletionInv ==
    \A s \in Streams :
        /\ Failed(s) => status[s] # "OK"
        /\ sender[s] \in {"absent", "count", "callback"} => ~exitEvent[s]
        /\ final[s] = "OK" => sender[s] = "done"
        /\ rpcUp[s] /\ ~globalExit =>
              /\ exitEvent[s] => receiver[s] = "dead"
              /\ sender[s] = "clean" => exitEvent[s]
              /\ sender[s] = "uncount" => receiver[s] \in {"off", "dead"}
        /\ final[s] = "OK" /\ ~globalExit => ~Failed(s) /\ receiver[s] \in {"off", "dead"}

\* The refinement mapping: a stream's phase is where its sender and its welcome are.
Phase(s) == CASE CleanedUp(s) -> "released"
              [] sender[s] = "remove" -> "closed"
              [] sender[s] # "remove" /\ ~CleanedUp(s) ->
                    IF Inflow(s) = <<>> THEN "idle" ELSE "open"

Session == INSTANCE StreamSession
               WITH WelcomeMessage <- Welcome,
                    phase  <- [s \in Streams |-> Phase(s)],
                    topics <- [s \in Streams |-> {t \in Topics : s \in subs[t]}],
                    inflow <- [s \in Streams |-> Inflow(s)],
                    count  <- published

\* The threads, locks and queues of the broker implement the session every client is promised.
ImplementsSession == Session!Spec

\* The same table for those who publish: a snapshot fixes the audience, and every put of the
\* fan-out gives the message or finds the queue full.
Table == INSTANCE Routing
             WITH Clients  <- Streams,
                  Greeting <- Welcome,
                  Capacity <- MaxQueue,
                  members  <- subs,
                  left     <- {s \in Streams : CleanedUp(s)},
                  inbox    <- [s \in Streams |-> Inflow(s)],
                  read     <- [s \in Streams |-> Len(sent[s])],
                  count    <- published,
                  pending  <- fan

\* The broker's threads use the table as DataRegister provides it.
ImplementsRouting == Table!Spec
=============================================================================
