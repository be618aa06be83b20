----------------------- MODULE StreamClientProperties -----------------------
(* What a client promises its application, across connections.             *)
EXTENDS StreamClient, SequencesExt

Kinds == {"first", "data", "welcome", "response", "error", "none"}
Items == [kind : Kinds, of : Nat, n : Nat]

\* Every variable ranges over the values its Python counterpart can take.
TypeOK ==
    /\ app \in {"idle", "connect", "first", "check", "joinQueue", "disconnect", "cancel",
                "joinThread"}
    /\ cur \in 0..MaxGen
    /\ stream \in 0..cur
    /\ runEvent \in BOOLEAN
    /\ checked \subseteq Gens
    /\ sendQ \in [Gens -> Seq(Items)]
    /\ unfinished \in [Gens -> Nat]
    /\ recvQ \in [Gens -> Seq(Items)]
    /\ got \in [Gens -> Nat]
    /\ sendCount \in Nat
    /\ gen \in [Gens -> {"off", "test", "wait", "hook", "yield", "sent", "done", "drain", "dead"}]
    /\ target \in [Gens -> 0..MaxGen]
    /\ item \in [Gens -> Items]
    /\ wire \in [Gens -> Seq(Items)]
    /\ recv \in [Gens -> {"off", "welcome", "open", "hook", "put", "error", "dead"}]
    /\ inCount \in [Gens -> Nat]
    /\ ended \in [Gens -> {"never", "no", "ok", "error", "cancelled"}]

\* No two streams are ever up, and none survives disconnect(), in whatever state the
\* connection attempt, the server or the threads were.
OneStream ==
    \A g \in Gens : Up(g) => /\ g = stream
                             /\ app = "idle" => runEvent

\* A message is yielded at most once, into one stream, and the application's messages on
\* a stream in the order it sent them, although an old generator may share the queue of the
\* new connection.
SentOnce ==
    \A g, h \in Gens : \A i \in 1..Len(wire[g]), j \in 1..Len(wire[h]) :
        /\ wire[g][i] = wire[h][j] => g = h /\ i = j
        /\ g = h /\ i < j /\ wire[g][i].kind = "data" /\ wire[g][j].kind = "data"
               => wire[g][i].n < wire[g][j].n

\* What the application reads of one stream it reads once and in the stream's order, the
\* error last, although an old receive thread may put into the queue of the new connection.
ReadInOrder ==
    cur > 0 => \A i \in 1..Len(recvQ[cur]) :
        LET m == recvQ[cur][i]
        IN  /\ got[m.of] < m.n
            /\ \A j \in 1..(i - 1) : recvQ[cur][j].of = m.of => recvQ[cur][j].n < m.n

\* As long as the generator of the first connection runs and no other connection was begun,
\* the queue's unfinished count is what has not been handed over: wait_done returns neither
\* early nor late.
HandedOver ==
    cur = 1 /\ gen[1] \notin {"off", "drain", "dead"} =>
        unfinished[1] = Len(sendQ[1]) + (IF gen[1] \in {"hook", "yield", "sent", "done"} THEN 1 ELSE 0)

\* Connecting and disconnecting return, whatever server, hooks and queues do.
CallsReturn ==
    app \notin {"idle", "joinQueue"} ~> app = "idle"

\* The error of a connection is where the application reads it, or was read.
Reported(g) == cur > 0 /\ (got[g] = Failure(g).n \/ Failure(g) \in Range(recvQ[cur]))

\* A stream that fails, other than by CANCELLED, under a waiting receive thread puts the error
\* where the application reads it, unless the queue is full from some time on: room that comes
\* late, or only once, is enough.
ErrorReachesApp ==
    \/ \A g \in Gens : ended[g] = "error" /\ recv[g] \in {"welcome", "open"} ~> Reported(g)
    \/ <>[](cur > 0 /\ ~RecvRoom)

-----------------------------------------------------------------------------
(* What comments and docs of the code say and the code does not do.        *)

\* "The old ones will be garbage collected after disconnect and should not cause any
\* issues": the connect message of a connection is only ever taken by its own generator.
ConnectMessageKept ==
    \A g, h \in Gens : item[g] = First(h) => g = h

\* "drain all unfinished_tasks so wait_done() never deadlocks".
WaitDoneReturns == app = "joinQueue" ~> app # "joinQueue"
=============================================================================
