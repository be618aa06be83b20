----------------------------- MODULE TaskBridge -----------------------------
(***************************************************************************)
(* The mcp_server example: AGENTS (LlmBridgeClient) let a language model   *)
(* drive tools that two EXECUTORS run, FileOperationClient ("files") and   *)
(* RunnerClient ("runner").  All are clients of one broker; a request goes *)
(* to the executor that requires its name, a response to every agent, and  *)
(* an agent knows its own by responseToId.  The broker is StreamServer's:  *)
(* what it has of a message is part of the receiver's queue here.          *)
(*                                                                         *)
(* An agent has a loop thread, its receive queue and its main thread,      *)
(* which starts the loop in on_init(), connects after it, waits for        *)
(* run_event to be cleared and disconnects on Ctrl-C.  An executor handles *)
(* one request at a time in on_receive(), on its receive thread.           *)
(* What the model writes is abstract: a reply is a sequence of tool calls. *)
(* The texts fed back to it, the trimming of its context, run_succeeded    *)
(* (printed at the end) and the files below BASE_DIR, of which a message   *)
(* shows no more than whether the operation succeeded, are left out.       *)
(***************************************************************************)
EXTENDS Integers, Sequences

CONSTANTS Agents,        \* the LlmBridgeClients
          Replies,       \* what replies to an agent may ask for: sequences of tool calls
          MaxIterations, \* MAX_ITERATIONS
          MaxDeadTurns,  \* MAX_DEAD_TURNS
          MaxFaults      \* bound: faults in a behaviour

Tools == {"create_file", "edit_file", "delete_file", "run_program", "other"}

ASSUME ConstantsAssumption ==
    /\ Replies \in [Agents -> SUBSET Seq(Tools)]
    /\ MaxIterations \in Nat /\ MaxDeadTurns \in Nat \ {0} /\ MaxFaults \in Nat
    /\ Agents \cap {"files", "runner"} = {}

Executors == {"files", "runner"}
ExecutorOf(t) == IF t = "run_program" THEN "runner" ELSE "files"
Idle == [id |-> <<>>]            \* no request
StreamError == [id |-> <<>>]     \* the item a failed stream leaves in the receive queue

VARIABLES
    loop,        \* where _run_agentic_loop is
    runEvent,    \* run_event of each agent
    iteration,   \* iterations begun
    deadTurns,   \* consecutive replies without a tool
    todo,        \* tool calls of the last reply not made yet
    asked,       \* requests sent; <<a, asked[a]>> is the messageId waited for
    setup,       \* how far the main thread is with _setup_connection()
    receiving,   \* the agent's receive loop runs
    inbox,       \* responses on their way to an agent, up to its receive_queue
    up,          \* the executor is connected and its receive loop runs
    work,        \* requests on their way to an executor
    busy,        \* the request its on_receive() is handling
    served,      \* history: responses made, one per request executed
    faults,      \* faults so far
    told         \* history: results an agent's loop accepted, by the request it had asked

loopVars == <<runEvent, iteration, deadTurns, todo, asked, told>>
linkVars == <<setup, receiving, inbox>>
execVars == <<up, work, busy, served>>
vars == <<loop, loopVars, linkVars, execVars, faults>>

Init ==
    /\ loop = [a \in Agents |-> "top"]
    /\ runEvent = [a \in Agents |-> FALSE]
    /\ iteration = [a \in Agents |-> 0]
    /\ deadTurns = [a \in Agents |-> 0]
    /\ todo = [a \in Agents |-> <<>>]
    /\ asked = [a \in Agents |-> 0]
    /\ told = [a \in Agents |-> {}]
    /\ setup = [a \in Agents |-> "on_init"]
    /\ receiving = [a \in Agents |-> TRUE]
    /\ inbox = [a \in Agents |-> <<>>]
    /\ up = [e \in Executors |-> TRUE]
    /\ work = [e \in Executors |-> <<>>]
    /\ busy = [e \in Executors |-> Idle]
    /\ served = {}
    /\ faults = 0

\* One of the faults the bound allows: a failed connection or stream, a Ctrl-C, an executor
\* that fails.
Fault == faults < MaxFaults /\ faults' = faults + 1

LoopAt(a, from, to) == loop[a] = from /\ loop' = [loop EXCEPT ![a] = to]
SetupAt(a, from, to) == setup[a] = from /\ setup' = [setup EXCEPT ![a] = to]

-----------------------------------------------------------------------------
(* The agent's main thread: _setup_connection(), whose on_init() starts the loop thread.     *)

\* send_queue and receive_queue come after on_init() ...
MakeQueues(a) ==
    /\ SetupAt(a, "on_init", "queues")
    /\ UNCHANGED <<loop, loopVars, receiving, inbox, execVars, faults>>

\* ... run_event after them ...
SetRunEvent(a) ==
    /\ SetupAt(a, "queues", "connecting")
    /\ runEvent' = [runEvent EXCEPT ![a] = TRUE]
    /\ UNCHANGED <<loop, iteration, deadTurns, todo, asked, told, receiving, inbox, execVars,
                   faults>>

\* ... and then the handshake.
Connected(a) ==
    /\ SetupAt(a, "connecting", "connected")
    /\ UNCHANGED <<loop, loopVars, receiving, inbox, execVars, faults>>

\* No channel, no welcome, or the loop thread takes the welcome or sends a request ahead of the
\* connect message: the constructor raises, and the process ends with its loop thread, a daemon.
ConnectFails(a) ==
    /\ SetupAt(a, "connecting", "failed")
    /\ Fault
    /\ loop' = [loop EXCEPT ![a] = "gone"]
    /\ runEvent' = [runEvent EXCEPT ![a] = FALSE]
    /\ UNCHANGED <<iteration, deadTurns, todo, asked, told, receiving, inbox, execVars>>

Setup(a) == MakeQueues(a) \/ SetRunEvent(a) \/ Connected(a) \/ ConnectFails(a)

-----------------------------------------------------------------------------
(* The agent: _run_agentic_loop and _execute_tool.                         *)

\* Mutant: the cap is tested with an off-by-one.
TopOneMore(a) ==
    /\ LoopAt(a, "top", IF runEvent[a] /\ iteration[a] <= MaxIterations THEN "llm" ELSE "leave")
    /\ iteration' = [iteration EXCEPT ![a] = IF runEvent[a] THEN @ + 1 ELSE @]
    /\ UNCHANGED <<runEvent, deadTurns, todo, asked, told, linkVars, execVars, faults>>

\* The head of the loop: run_event, then the safety cap.
Top(a) ==
    /\ LoopAt(a, "top", IF runEvent[a] /\ iteration[a] < MaxIterations THEN "llm" ELSE "leave")
    /\ iteration' = [iteration EXCEPT ![a] = IF runEvent[a] THEN @ + 1 ELSE @]
    /\ UNCHANGED <<runEvent, deadTurns, todo, asked, told, linkVars, execVars, faults>>

\* _call_llm fails or times out, or the reply says <done/>: the loop is left.  The endpoint is
\* taken to speak its protocol: what it sends has the structure _call_llm reads.
LlmStops(a) ==
    /\ LoopAt(a, "llm", "leave")
    /\ UNCHANGED <<loopVars, linkVars, execVars, faults>>

\* A reply without a tool: a dead turn, and too many of them end the loop.
LlmTalks(a) ==
    /\ <<>> \in Replies[a]
    /\ deadTurns' = [deadTurns EXCEPT ![a] = @ + 1]
    /\ LoopAt(a, "llm", IF deadTurns[a] + 1 >= MaxDeadTurns THEN "leave" ELSE "top")
    /\ UNCHANGED <<runEvent, iteration, todo, asked, told, linkVars, execVars, faults>>

LlmCalls(a) ==
    /\ LoopAt(a, "llm", "tools")
    /\ todo' \in {[todo EXCEPT ![a] = r] : r \in Replies[a] \ {<<>>}}
    /\ deadTurns' = [deadTurns EXCEPT ![a] = 0]
    /\ UNCHANGED <<runEvent, iteration, asked, told, linkVars, execVars, faults>>

\* No tool call left, or the client was disconnected: the results go into the context.
EndTools(a) ==
    /\ todo[a] = <<>> \/ ~runEvent[a]
    /\ LoopAt(a, "tools", "top")
    /\ UNCHANGED <<loopVars, linkVars, execVars, faults>>

\* A tool the client does not know is answered without a message.
UnknownTool(a) ==
    /\ todo[a] # <<>> /\ runEvent[a]
    /\ Head(todo[a]) = "other"
    /\ LoopAt(a, "tools", "tools")
    /\ todo' = [todo EXCEPT ![a] = Tail(@)]
    /\ UNCHANGED <<runEvent, iteration, deadTurns, asked, told, linkVars, execVars, faults>>

\* send_data() of a request under a fresh messageId.  The broker hands it to the executor, or
\* it is lost: no subscriber, a full queue, a stream that ends before it is out.
Ask(a) ==
    /\ todo[a] # <<>> /\ runEvent[a]
    /\ Head(todo[a]) # "other"
    /\ LoopAt(a, "tools", "wait")
    /\ todo' = [todo EXCEPT ![a] = Tail(@)]
    /\ asked' = [asked EXCEPT ![a] = @ + 1]
    /\ LET request == [id |-> <<a, asked[a] + 1>>, tool |-> Head(todo[a])]
           e == ExecutorOf(request.tool)
       IN  work' \in {work} \cup
               IF up[e] THEN {[work EXCEPT ![e] = Append(@, request)]} ELSE {}
    /\ UNCHANGED <<runEvent, iteration, deadTurns, told, linkVars,
                   up, busy, served, faults>>

\* get_data() tests run_event before each slice: ClientExit becomes the result of the tool.
ClientExits(a) ==
    /\ ~runEvent[a]
    /\ LoopAt(a, "wait", "tools")
    /\ UNCHANGED <<loopVars, linkVars, execVars, faults>>

\* Mutant: a timeout is reported to the model like ClientExit, and the loop goes on.
TimeoutReported(a) ==
    /\ runEvent[a]
    /\ LoopAt(a, "wait", "tools")
    /\ UNCHANGED <<loopVars, linkVars, execVars, faults>>

\* GRPC_TIMEOUT has passed: GrpcEmpty, which nothing catches, ends the thread.  The deadline
\* is tested before the queue, so a response may already be there.
Timeout(a) ==
    /\ runEvent[a]
    /\ LoopAt(a, "wait", "raised")
    /\ UNCHANGED <<loopVars, linkVars, execVars, faults>>

\* A slice under way may still get an item after run_event was cleared; an empty one is no
\* step.  A stream error in the queue is raised, and nothing catches it either.
GetRaises(a) ==
    /\ inbox[a] # <<>>
    /\ Head(inbox[a]) = StreamError
    /\ inbox' = [inbox EXCEPT ![a] = Tail(@)]
    /\ LoopAt(a, "wait", "raised")
    /\ UNCHANGED <<loopVars, setup, receiving, execVars, faults>>

\* A response to somebody else is skipped, and the wait begins anew.
Skip(a) ==
    /\ inbox[a] # <<>>
    /\ Head(inbox[a]) # StreamError
    /\ Head(inbox[a]).id # <<a, asked[a]>>
    /\ inbox' = [inbox EXCEPT ![a] = Tail(@)]
    /\ LoopAt(a, "wait", "wait")
    /\ UNCHANGED <<loopVars, setup, receiving, execVars, faults>>

\* Mutant: the first response is taken for the awaited one.
AcceptAny(a) ==
    /\ inbox[a] # <<>>
    /\ Head(inbox[a]) # StreamError
    /\ told' = [told EXCEPT ![a] =
                  @ \cup {[id |-> <<a, asked[a]>>, ok |-> Head(inbox[a]).ok]}]
    /\ inbox' = [inbox EXCEPT ![a] = Tail(@)]
    /\ LoopAt(a, "wait", "tools")
    /\ UNCHANGED <<runEvent, iteration, deadTurns, todo, asked, setup, receiving, execVars, faults>>

Accept(a) ==
    /\ inbox[a] # <<>>
    /\ Head(inbox[a]) # StreamError
    /\ Head(inbox[a]).id = <<a, asked[a]>>
    /\ told' = [told EXCEPT ![a] =
                  @ \cup {[id |-> <<a, asked[a]>>, ok |-> Head(inbox[a]).ok]}]
    /\ inbox' = [inbox EXCEPT ![a] = Tail(@)]
    /\ LoopAt(a, "wait", "tools")
    /\ UNCHANGED <<runEvent, iteration, deadTurns, todo, asked, setup, receiving, execVars, faults>>

\* Mutant: the safety cap returns, so that the client stays connected.
LeaveAtCap(a) ==
    /\ LoopAt(a, "leave", IF setup[a] = "on_init" THEN "raised" ELSE "done")
    /\ runEvent' = [runEvent EXCEPT ![a] = @ /\ iteration[a] > MaxIterations]
    /\ UNCHANGED <<iteration, deadTurns, todo, asked, told, linkVars, execVars, faults>>

\* The end of the loop: disconnect(), which raises while there is no send_queue and returns
\* early while run_event is clear, also when it is not set yet.
Leave(a) ==
    /\ LoopAt(a, "leave", IF setup[a] = "on_init" THEN "raised" ELSE "done")
    /\ runEvent' = [runEvent EXCEPT ![a] = FALSE]
    /\ UNCHANGED <<iteration, deadTurns, todo, asked, told, linkVars, execVars, faults>>

Agent(a) ==
    \/ Top(a) \/ LlmStops(a) \/ LlmTalks(a) \/ LlmCalls(a)
    \/ EndTools(a) \/ UnknownTool(a) \/ Ask(a)
    \/ ClientExits(a) \/ Timeout(a) \/ GetRaises(a) \/ Skip(a) \/ Accept(a) \/ Leave(a)

\* Ctrl-C in the agent's main thread: disconnect(), whatever the loop thread is doing.
Interrupt(a) ==
    /\ setup[a] = "connected" /\ runEvent[a]
    /\ Fault
    /\ runEvent' = [runEvent EXCEPT ![a] = FALSE]
    /\ UNCHANGED <<loop, iteration, deadTurns, todo, asked, told, linkVars, execVars>>

-----------------------------------------------------------------------------
(* The executors: on_receive of FileOperationClient and RunnerClient.      *)

Begin(e) ==
    /\ up[e] /\ busy[e] = Idle /\ work[e] # <<>>
    /\ busy' = [busy EXCEPT ![e] = Head(work[e])]
    /\ work' = [work EXCEPT ![e] = Tail(@)]
    /\ UNCHANGED <<loop, loopVars, linkVars, up, served, faults>>

\* The operation, which succeeds or not, then send_data() of the response under the id of the
\* request.  The broker fans it out to every agent; an executor that has left sends nothing.  A
\* response that gets lost on the way is one the agent does not read before its deadline.
Respond(e) ==
    /\ busy[e] # Idle
    /\ \E ok \in BOOLEAN :
          LET response == [id |-> busy[e].id, ok |-> ok]
          IN  /\ served' = served \cup {response}
              /\ inbox' = [a \in Agents |-> IF up[e] /\ receiving[a] /\ runEvent[a]
                                            THEN Append(inbox[a], response) ELSE inbox[a]]
    /\ busy' = [busy EXCEPT ![e] = Idle]
    /\ UNCHANGED <<loop, loopVars, setup, receiving, up, work, faults>>

\* An exception in on_receive() ends the executor's receive loop: nothing is handled any more.
HandlerRaises(e) ==
    /\ busy[e] # Idle
    /\ Fault
    /\ busy' = [busy EXCEPT ![e] = Idle]
    /\ up' = [up EXCEPT ![e] = FALSE]
    /\ work' = [work EXCEPT ![e] = <<>>]
    /\ UNCHANGED <<loop, loopVars, linkVars, served>>

\* The executor disconnects or loses its stream; a request it is handling is still carried out.
ExecutorLeaves(e) ==
    /\ up[e]
    /\ Fault
    /\ up' = [up EXCEPT ![e] = FALSE]
    /\ work' = [work EXCEPT ![e] = <<>>]
    /\ UNCHANGED <<loop, loopVars, linkVars, busy, served>>

Executor(e) == Begin(e) \/ Respond(e) \/ HandlerRaises(e) \/ ExecutorLeaves(e)

\* An agent's stream fails: its receive loop ends and leaves the error in the queue.
StreamFails(a) ==
    /\ receiving[a] /\ runEvent[a]
    /\ Fault
    /\ receiving' = [receiving EXCEPT ![a] = FALSE]
    /\ inbox' = [inbox EXCEPT ![a] = Append(@, StreamError)]
    /\ UNCHANGED <<loop, loopVars, setup, execVars>>

-----------------------------------------------------------------------------
Next ==
    \/ \E a \in Agents : Setup(a) \/ Agent(a) \/ Interrupt(a) \/ StreamFails(a)
    \/ \E e \in Executors : Executor(e)

Spec == Init /\ [][Next]_vars

\* Both threads of an agent are scheduled, and the handshake, requests.post() and get_data() have
\* timeouts.  Nothing is assumed of the executors, of the broker or of the model.
Fairness == \A a \in Agents : WF_vars(Setup(a)) /\ WF_vars(Agent(a))

FairSpec == Spec /\ Fairness
=============================================================================
