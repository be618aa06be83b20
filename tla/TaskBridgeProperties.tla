------------------------ MODULE TaskBridgeProperties ------------------------
(* What the mcp_server example relies on.                                  *)
EXTENDS TaskBridge

Ids == Agents \X (Nat \ {0})
Requests == [id : Ids, tool : Tools]
Responses == [id : Ids, ok : BOOLEAN]

TypeOK ==
    /\ loop \in [Agents -> {"top", "llm", "tools", "wait", "leave", "done", "raised",
                          "gone"}]
    /\ runEvent \in [Agents -> BOOLEAN]
    /\ iteration \in [Agents -> 0..(MaxIterations + 1)]
    /\ deadTurns \in [Agents -> 0..MaxDeadTurns]
    /\ todo \in [Agents -> Seq(Tools)]
    /\ asked \in [Agents -> Nat]
    /\ told \in [Agents -> SUBSET Responses]
    /\ setup \in [Agents -> {"on_init", "queues", "connecting", "connected", "failed"}]
    /\ receiving \in [Agents -> BOOLEAN]
    /\ inbox \in [Agents -> Seq(Responses \cup {StreamError})]
    /\ up \in [Executors -> BOOLEAN]
    /\ work \in [Executors -> Seq(Requests)]
    /\ busy \in [Executors -> Requests \cup {Idle}]
    /\ served \in SUBSET Responses
    /\ faults \in 0..MaxFaults

Elements(s) == {s[i] : i \in 1..Len(s)}

\* The requests of an agent that are on their way to an executor or with one.
Underway(a) ==
    {r \in UNION {Elements(work[e]) \cup ({busy[e]} \ {Idle}) : e \in Executors} : r.id[1] = a}

\* "Call exactly one tool per reply", "read each result before the next step": while an agent
\* that is connected thinks or is about to call a tool, no request of its is still being worked
\* on, whatever the other agents do; otherwise only the one it waits for is.
OneAtATime ==
    \A a \in Agents :
        /\ \A r \in Underway(a) : r.id = <<a, asked[a]>>
        /\ runEvent[a] /\ loop[a] \in {"top", "llm", "tools"} => Underway(a) = {}

\* What an agent tells the model about a request is what the executor did with that request,
\* although every response reaches every agent; and no request has two outcomes.
AnswersAreOwn ==
    /\ \A a \in Agents : told[a] \subseteq served
    /\ \A r, q \in served : r.id = q.id => r = q

\* An executor whose on_receive() is running.
Busy(e) == busy[e] # Idle

\* A loop that goes on is within its caps.
CapsInv ==
    \A a \in Agents : loop[a] \in {"top", "llm", "tools", "wait"} =>
        iteration[a] <= MaxIterations /\ deadTurns[a] < MaxDeadTurns

\* An agent that has not set run_event yet has asked for nothing.
StartInv ==
    \A a \in Agents : setup[a] \in {"on_init", "queues"} => ~runEvent[a] /\ asked[a] = 0

\* A request is in one place at most: one position of one queue, or with one executor.
PlaceInv ==
    \A e, f \in Executors :
        /\ Busy(e) /\ Busy(f) /\ busy[e].id = busy[f].id => e = f
        /\ \A i \in 1..Len(work[e]) :
              /\ Busy(f) => work[e][i].id # busy[f].id
              /\ \A j \in 1..Len(work[f]) : work[e][i].id = work[f][j].id => e = f /\ i = j

\* The request an agent has underway is its last one, and while it is connected it waits for it.
Awaited(id) ==
    /\ id[2] = asked[id[1]]
    /\ ~(runEvent[id[1]] /\ loop[id[1]] \in {"top", "llm", "tools"})

PendingInv ==
    \A e \in Executors : /\ Busy(e) => Awaited(busy[e].id)
                         /\ \A i \in 1..Len(work[e]) : Awaited(work[e][i].id)

\* A request that was answered was sent, and is on no queue and with no executor any more; what
\* agents are sent is what executors answered.
ServedInv ==
    /\ \A r \in served :
          /\ r.id[2] <= asked[r.id[1]]
          /\ \A e \in Executors : /\ Busy(e) => busy[e].id # r.id
                                  /\ \A i \in 1..Len(work[e]) : work[e][i].id # r.id
    /\ \A a \in Agents : \A i \in 1..Len(inbox[a]) : inbox[a][i] \in served \cup {StreamError}

\* The inductive invariant behind OneAtATime and AnswersAreOwn: a request moves from queue to
\* executor to answer, is in one of them only, and is its agent's last.
BridgeInv == CapsInv /\ StartInv /\ PlaceInv /\ PendingInv /\ ServedInv /\ AnswersAreOwn

\* The loop thread was lost, and with it the disconnect() the main thread polls for: an exception
\* ended it, or its first look at run_event came before the main thread had set it.
Orphaned(a) == loop[a] = "raised" \/ (loop[a] = "done" /\ iteration[a] = 0)

\* Whatever executors, broker, stream and model do, an agent whose loop thread is not lost comes
\* to its end, by <done/>, a failure, the caps or an interrupt, and is disconnected for good, so
\* that its main thread stops waiting.  A lost one never takes another step.
AgentFinishes ==
    \A a \in Agents : \/ <>[](loop[a] \in {"done", "gone"} /\ ~runEvent[a])
                      \/ <>[]Orphaned(a)
=============================================================================
