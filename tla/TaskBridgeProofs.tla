-------------------------- MODULE TaskBridgeProofs --------------------------
(***************************************************************************)
(* Theorems about the agents and their executors, for every number of      *)
(* agents, every reply, every bound.                                       *)
(***************************************************************************)
EXTENDS TaskBridgeProperties, TLAPS

\* Every step of an agent's loop keeps every variable in its type, and the loop in its caps.
LEMMA AgentType ==
    ASSUME TypeOK, CapsInv, NEW a \in Agents, Agent(a) PROVE TypeOK' /\ CapsInv'
<1> USE ConstantsAssumption DEF TypeOK, CapsInv, LoopAt, loopVars, linkVars, execVars
<1>1. CASE Top(a)
  <2>1. /\ iteration[a] \in 0..(MaxIterations + 1) /\ iteration[a] <= MaxIterations
        /\ iteration[a] + 1 \in 0..(MaxIterations + 1)
    <3>1. iteration[a] \in 0..(MaxIterations + 1) OBVIOUS
    <3>2. iteration[a] <= MaxIterations BY <1>1 DEF Top
    <3> HIDE DEF TypeOK, CapsInv
    <3> QED BY <3>1, <3>2
  <2>2. iteration' \in [Agents -> 0..(MaxIterations + 1)]
    BY <1>1, <2>1 DEF Top
  <2>3. TypeOK' BY <1>1, <2>2 DEF Top
  <2>4. CapsInv'
    <3> SUFFICES ASSUME NEW b \in Agents, (loop[b] \in {"top", "llm", "tools", "wait"})'
                 PROVE (iteration[b] <= MaxIterations /\ deadTurns[b] < MaxDeadTurns)'
      OBVIOUS
    <3>1. deadTurns' = deadTurns BY <1>1 DEF Top
    <3>2. CASE b # a BY <1>1, <3>1, <3>2 DEF Top
    <3>3. CASE b = a
      <4>1. iteration'[a] <= MaxIterations BY <1>1, <3>3, <2>1 DEF Top
      <4>2. loop[a] \in {"top", "llm", "tools", "wait"} BY <1>1 DEF Top
      <4> QED BY <3>1, <3>3, <4>1, <4>2
    <3> QED BY <3>2, <3>3
  <2> QED BY <2>3, <2>4
<1>2. CASE LlmStops(a) BY <1>2 DEF LlmStops
<1>3. CASE LlmTalks(a)
  <2>1. deadTurns[a] \in 0..MaxDeadTurns /\ deadTurns[a] + 1 \in 0..MaxDeadTurns
    <3>1. deadTurns[a] \in 0..MaxDeadTurns OBVIOUS
    <3>2. deadTurns[a] < MaxDeadTurns BY <1>3 DEF LlmTalks
    <3> HIDE DEF TypeOK, CapsInv
    <3> QED BY <3>1, <3>2
  <2>2. deadTurns' \in [Agents -> 0..MaxDeadTurns] BY <1>3, <2>1 DEF LlmTalks
  <2>3. TypeOK' BY <1>3, <2>2 DEF LlmTalks
  <2>4. CapsInv'
    <3> SUFFICES ASSUME NEW b \in Agents, (loop[b] \in {"top", "llm", "tools", "wait"})'
                 PROVE (iteration[b] <= MaxIterations /\ deadTurns[b] < MaxDeadTurns)'
      OBVIOUS
    <3>1. CASE b = a
      <4>1. deadTurns'[a] = deadTurns[a] + 1 /\ iteration'[a] = iteration[a] BY <1>3 DEF LlmTalks
      <4>2. ~(deadTurns[a] + 1 >= MaxDeadTurns) BY <1>3, <3>1 DEF LlmTalks
      <4>3. iteration[a] <= MaxIterations BY <1>3 DEF LlmTalks
      <4>4. deadTurns[a] + 1 < MaxDeadTurns BY <2>1, <4>2
      <4> QED BY <3>1, <4>1, <4>3, <4>4
    <3>2. CASE b # a BY <1>3, <3>2 DEF LlmTalks
    <3> QED BY <3>1, <3>2
  <2> QED BY <2>3, <2>4
<1>4. CASE LlmCalls(a)
  <2>1. Replies[a] \subseteq Seq(Tools) OBVIOUS
  <2>2. todo' \in [Agents -> Seq(Tools)] BY <1>4, <2>1 DEF LlmCalls
  <2>3. TypeOK'
    <3>1. /\ loop' \in [Agents -> {"top", "llm", "tools", "wait", "leave", "done", "raised",
                                    "gone"}]
          /\ deadTurns' \in [Agents -> 0..MaxDeadTurns]
      BY <1>4 DEF LlmCalls
    <3>2. UNCHANGED <<runEvent, iteration, asked, told, linkVars, execVars, faults>>
      BY <1>4 DEF LlmCalls
    <3> QED BY <2>2, <3>1, <3>2
  <2>4. CapsInv' BY <1>4 DEF LlmCalls
  <2> QED BY <2>3, <2>4
<1>5. CASE EndTools(a) BY <1>5 DEF EndTools
<1>6. CASE UnknownTool(a)
  <2>1. todo' \in [Agents -> Seq(Tools)] BY <1>6 DEF UnknownTool
  <2> QED BY <1>6, <2>1 DEF UnknownTool
<1>7. CASE Ask(a)
  <2> DEFINE request == [id |-> <<a, asked[a] + 1>>, tool |-> Head(todo[a])]
  <2>1. Head(todo[a]) \in Tools /\ Tail(todo[a]) \in Seq(Tools) BY <1>7 DEF Ask
  <2>2. request \in Requests BY <2>1 DEF Requests, Ids
  <2>3. \A e \in Executors : Append(work[e], request) \in Seq(Requests) BY <2>2
  <2> HIDE DEF request
  <2>a. PICK e \in Executors : work' = work \/ work' = [work EXCEPT ![e] = Append(@, request)]
    BY <1>7 DEF Ask, request, ExecutorOf, Executors
  <2>4. work' \in [Executors -> Seq(Requests)] BY <2>3, <2>a
  <2>5. todo' \in [Agents -> Seq(Tools)] /\ asked' \in [Agents -> Nat]
    BY SMTT(30), <1>7, <2>1 DEF Ask
  <2> QED BY <1>7, <2>4, <2>5 DEF Ask
<1>8. CASE ClientExits(a) BY <1>8 DEF ClientExits
<1>9. CASE Timeout(a) BY <1>9 DEF Timeout
<1>10. CASE GetRaises(a)
  <2>1. inbox' \in [Agents -> Seq(Responses \cup {StreamError})] BY SMTT(30), <1>10 DEF GetRaises
  <2> QED BY <1>10, <2>1 DEF GetRaises
<1>11. CASE Skip(a)
  <2>1. inbox' \in [Agents -> Seq(Responses \cup {StreamError})] BY SMTT(30), <1>11 DEF Skip
  <2> QED BY <1>11, <2>1 DEF Skip
<1>12. CASE Accept(a)
  <2>1. /\ Head(inbox[a]) \in Responses
        /\ Tail(inbox[a]) \in Seq(Responses \cup {StreamError})
    BY <1>12 DEF Accept
  <2>2. [id |-> <<a, asked[a]>>, ok |-> Head(inbox[a]).ok] \in Responses
    BY <1>12, <2>1 DEF Accept, Responses
  <2>3. inbox' \in [Agents -> Seq(Responses \cup {StreamError})] BY <1>12, <2>1 DEF Accept
  <2>4. told' \in [Agents -> SUBSET Responses] BY <1>12, <2>2 DEF Accept
  <2> QED BY <1>12, <2>3, <2>4 DEF Accept
<1>13. CASE Leave(a) BY <1>13 DEF Leave
<1> QED BY <1>1, <1>2, <1>3, <1>4, <1>5, <1>6, <1>7, <1>8, <1>9, <1>10, <1>11, <1>12, <1>13
        DEF Agent

\* So does every step of an executor.
LEMMA ExecutorType ==
    ASSUME TypeOK, CapsInv, NEW e \in Executors, Executor(e) PROVE TypeOK' /\ CapsInv'
<1> USE ConstantsAssumption DEF TypeOK, CapsInv, Fault, loopVars, linkVars, execVars
<1>1. CASE Begin(e)
  <2>1. Head(work[e]) \in Requests /\ Tail(work[e]) \in Seq(Requests) BY <1>1 DEF Begin
  <2>2. /\ work' \in [Executors -> Seq(Requests)]
        /\ busy' \in [Executors -> Requests \cup {Idle}]
    BY <1>1, <2>1 DEF Begin
  <2> QED BY <1>1, <2>2 DEF Begin
<1>2. CASE Respond(e)
  <2>1. PICK ok \in BOOLEAN :
          LET response == [id |-> busy[e].id, ok |-> ok]
          IN  /\ served' = served \cup {response}
              /\ inbox' = [a \in Agents |-> IF up[e] /\ receiving[a] /\ runEvent[a]
                                            THEN Append(inbox[a], response) ELSE inbox[a]]
    BY <1>2 DEF Respond
  <2> DEFINE response == [id |-> busy[e].id, ok |-> ok]
  <2>2. busy[e] \in Requests BY <1>2 DEF Respond
  <2>4. response \in Responses BY <2>2 DEF Responses, Requests
  <2> HIDE DEF response
  <2>5. ASSUME NEW a \in Agents
        PROVE Append(inbox[a], response) \in Seq(Responses \cup {StreamError})
    <3>1. inbox[a] \in Seq(Responses \cup {StreamError}) OBVIOUS
    <3> HIDE DEF TypeOK, CapsInv
    <3> QED BY <2>4, <3>1
  <2>6. inbox' \in [Agents -> Seq(Responses \cup {StreamError})] BY <2>1, <2>5 DEF response
  <2>7. served' \in SUBSET Responses BY <2>1, <2>4 DEF response
  <2>8. busy' \in [Executors -> Requests \cup {Idle}] BY <1>2 DEF Respond
  <2> QED BY <1>2, <2>6, <2>7, <2>8 DEF Respond
<1>3. CASE HandlerRaises(e)
  <2>1. /\ work' \in [Executors -> Seq(Requests)]
        /\ busy' \in [Executors -> Requests \cup {Idle}]
        /\ up' \in [Executors -> BOOLEAN]
    BY <1>3 DEF HandlerRaises
  <2> QED BY <1>3, <2>1 DEF HandlerRaises
<1>4. CASE ExecutorLeaves(e)
  <2>1. work' \in [Executors -> Seq(Requests)] /\ up' \in [Executors -> BOOLEAN]
    BY <1>4 DEF ExecutorLeaves
  <2> QED BY <1>4, <2>1 DEF ExecutorLeaves
<1> QED BY <1>1, <1>2, <1>3, <1>4 DEF Executor

\* Every step keeps every variable in its type, and every loop in its caps.
LEMMA TypeStep == TypeOK /\ CapsInv /\ [Next]_vars => TypeOK' /\ CapsInv'
<1> SUFFICES ASSUME TypeOK, CapsInv, [Next]_vars PROVE TypeOK' /\ CapsInv'
    OBVIOUS
<1> USE ConstantsAssumption DEF TypeOK, CapsInv, Fault, loopVars, linkVars, execVars
<1>1. ASSUME NEW a \in Agents, Agent(a) PROVE TypeOK' /\ CapsInv' BY <1>1, AgentType
<1>2. ASSUME NEW e \in Executors, Executor(e) PROVE TypeOK' /\ CapsInv' BY <1>2, ExecutorType
<1>3. ASSUME NEW a \in Agents, Interrupt(a) PROVE TypeOK' /\ CapsInv'
  BY SMTT(30), <1>3 DEF Interrupt
<1>4. ASSUME NEW a \in Agents, StreamFails(a) PROVE TypeOK' /\ CapsInv'
  <2>1. Append(inbox[a], StreamError) \in Seq(Responses \cup {StreamError}) OBVIOUS
  <2>2. inbox' \in [Agents -> Seq(Responses \cup {StreamError})] BY <1>4, <2>1 DEF StreamFails
  <2>3. TypeOK'
    <3>1. receiving' \in [Agents -> BOOLEAN] BY <1>4 DEF StreamFails
    <3>2. faults' \in 0..MaxFaults BY <1>4 DEF StreamFails
    <3>3. UNCHANGED <<loop, loopVars, setup, execVars>> BY <1>4 DEF StreamFails
    <3> QED BY <2>2, <3>1, <3>2, <3>3
  <2>4. CapsInv' BY <1>4 DEF StreamFails
  <2> QED BY <2>3, <2>4
<1>5. ASSUME NEW a \in Agents, Setup(a) PROVE TypeOK' /\ CapsInv'
  <2>1. UNCHANGED <<iteration, deadTurns, todo, asked, told, receiving, inbox, execVars>>
    BY <1>5 DEF Setup, MakeQueues, SetRunEvent, Connected, ConnectFails
  <2>2. setup' \in [Agents -> {"on_init", "queues", "connecting", "connected", "failed"}]
    <3>1. PICK to \in {"queues", "connecting", "connected", "failed"} :
             setup' = [setup EXCEPT ![a] = to]
      BY <1>5 DEF Setup, SetupAt, MakeQueues, SetRunEvent, Connected, ConnectFails
    <3> QED BY <3>1
  <2>3. runEvent' \in [Agents -> BOOLEAN] /\ faults' \in 0..MaxFaults
    <3>1. CASE SetRunEvent(a) BY <3>1 DEF SetRunEvent
    <3>2. CASE ConnectFails(a) BY <3>2 DEF ConnectFails
    <3>3. CASE MakeQueues(a) \/ Connected(a) BY <3>3 DEF MakeQueues, Connected
    <3> QED BY <1>5, <3>1, <3>2, <3>3 DEF Setup
  <2>4. loop' = loop \/ loop' = [loop EXCEPT ![a] = "gone"]
    BY <1>5 DEF Setup, MakeQueues, SetRunEvent, Connected, ConnectFails
  <2> QED BY <2>1, <2>2, <2>3, <2>4
<1>6. CASE UNCHANGED vars BY <1>6 DEF vars
<1> QED BY <1>1, <1>2, <1>3, <1>4, <1>5, <1>6 DEF Next

\* Nothing is asked before the main thread has set run_event.
LEMMA StartStep == TypeOK /\ StartInv /\ [Next]_vars => StartInv'
<1> SUFFICES ASSUME TypeOK, StartInv, [Next]_vars PROVE StartInv'
    OBVIOUS
<1> USE DEF TypeOK, StartInv, loopVars, linkVars, execVars
<1>1. ASSUME NEW a \in Agents, Agent(a) PROVE StartInv'
  <2>1. setup' = setup
    BY <1>1 DEF Agent, Top, LlmStops, LlmTalks, LlmCalls, EndTools, UnknownTool, Ask,
                ClientExits, Timeout, GetRaises, Skip, Accept, Leave
  <2>2. CASE Ask(a) BY <2>1, <2>2 DEF Ask
  <2>3. CASE Leave(a) BY <2>1, <2>3 DEF Leave
  <2>4. CASE ~Ask(a) /\ ~Leave(a)
    <3>1. UNCHANGED <<runEvent, asked>>
      BY <1>1, <2>4 DEF Agent, Top, LlmStops, LlmTalks, LlmCalls, EndTools, UnknownTool,
                        ClientExits, Timeout, GetRaises, Skip, Accept
    <3> QED BY <2>1, <3>1
  <2> QED BY <2>2, <2>3, <2>4
<1>2. ASSUME NEW e \in Executors, Executor(e) PROVE StartInv'
  BY <1>2 DEF Executor, Begin, Respond, HandlerRaises, ExecutorLeaves
<1>3. ASSUME NEW a \in Agents, Interrupt(a) PROVE StartInv' BY <1>3 DEF Interrupt
<1>4. ASSUME NEW a \in Agents, StreamFails(a) PROVE StartInv' BY <1>4 DEF StreamFails
<1>5. ASSUME NEW a \in Agents, Setup(a) PROVE StartInv'
  BY <1>5 DEF Setup, SetupAt, MakeQueues, SetRunEvent, Connected, ConnectFails
<1>6. CASE UNCHANGED vars BY <1>6 DEF vars
<1> QED BY <1>1, <1>2, <1>3, <1>4, <1>5, <1>6 DEF Next

-----------------------------------------------------------------------------
\* What Tail() and Append() leave at which index.
LEMMA TailIndex ==
    ASSUME NEW S, NEW s \in Seq(S), s # <<>>
    PROVE /\ Head(s) = s[1] /\ 1 \in 1..Len(s)
          /\ \A i \in 1..Len(Tail(s)) : i + 1 \in 1..Len(s) /\ Tail(s)[i] = s[i + 1]
OBVIOUS

LEMMA AppendIndex ==
    ASSUME NEW S, NEW s \in Seq(S), NEW x \in S
    PROVE \A i \in 1..Len(Append(s, x)) :
             \/ i \in 1..Len(s) /\ Append(s, x)[i] = s[i]
             \/ i = Len(s) + 1 /\ Append(s, x)[i] = x
OBVIOUS

\* A request an executor has, or is sent, was sent by an agent.
LEMMA RequestIds ==
    ASSUME TypeOK, NEW e \in Executors
    PROVE /\ Busy(e) => busy[e] \in Requests /\ busy[e].id \in Ids
          /\ \A i \in 1..Len(work[e]) : work[e][i] \in Requests /\ work[e][i].id \in Ids
<1>1. busy[e] \in Requests \cup {Idle} /\ work[e] \in Seq(Requests) BY DEF TypeOK
<1>2. \A r \in Requests : r.id \in Ids BY DEF Requests
<1> QED BY <1>1, <1>2 DEF Busy

\* What the requests and the answers have to do with each other.
Custody == PlaceInv /\ PendingInv /\ ServedInv /\ AnswersAreOwn

\* A step that moves no request and makes no response, and at which no agent that has asked for
\* something stops to wait while it is connected, keeps everything in place.
LEMMA QuietStep ==
    ASSUME TypeOK, Custody,
           UNCHANGED <<work, busy, asked, served, told>>,
           \A a \in Agents : (runEvent[a] /\ loop[a] \in {"top", "llm", "tools"})'
                                => (runEvent[a] /\ loop[a] \in {"top", "llm", "tools"})
                                     \/ asked[a] = 0,
           \A a \in Agents : \A i \in 1..Len(inbox'[a]) :
                inbox'[a][i] \in served \cup {StreamError}
    PROVE Custody'
<1> USE DEF Custody
<1>1. PlaceInv' BY DEF PlaceInv, Busy
<1>2. PendingInv'
  <2>1. \A id \in Ids : Awaited(id) => Awaited(id)' BY DEF Awaited, Ids
  <2>2. \A e \in Executors : /\ Busy(e) => busy[e].id \in Ids
                             /\ \A i \in 1..Len(work[e]) : work[e][i].id \in Ids
    BY RequestIds
  <2> QED BY <2>1, <2>2 DEF PendingInv, Busy
<1>3. ServedInv' BY DEF ServedInv, Busy
<1>4. AnswersAreOwn' BY DEF AnswersAreOwn
<1> QED BY <1>1, <1>2, <1>3, <1>4

\* An item taken out of an agent's queue leaves only items that were there.
LEMMA InboxTail ==
    ASSUME TypeOK, ServedInv, NEW a \in Agents, inbox[a] # <<>>,
           inbox' = [inbox EXCEPT ![a] = Tail(@)]
    PROVE /\ Head(inbox[a]) \in served \cup {StreamError}
          /\ \A b \in Agents : \A i \in 1..Len(inbox'[b]) :
                inbox'[b][i] \in served \cup {StreamError}
<1>1. inbox[a] \in Seq(Responses \cup {StreamError}) /\ inbox'[a] = Tail(inbox[a])
  BY DEF TypeOK
<1>2. /\ Head(inbox[a]) = inbox[a][1] /\ 1 \in 1..Len(inbox[a])
      /\ \A i \in 1..Len(inbox'[a]) : i + 1 \in 1..Len(inbox[a]) /\ inbox'[a][i] = inbox[a][i + 1]
  BY <1>1, TailIndex
<1>3. \A b \in Agents \ {a} : inbox'[b] = inbox[b] BY DEF TypeOK
<1> QED BY <1>2, <1>3 DEF ServedInv

\* An agent that takes the answer it waits for has no request underway any more.
LEMMA AcceptCustody == ASSUME TypeOK, Custody, NEW a \in Agents, Accept(a) PROVE Custody'
<1> USE DEF Custody, Accept
<1>1. UNCHANGED <<work, busy, asked, served, runEvent>> BY DEF execVars
<1>2. \A b \in Agents \ {a} : loop'[b] = loop[b] BY DEF LoopAt, TypeOK
<1>3. /\ Head(inbox[a]) \in served
      /\ \A b \in Agents : \A i \in 1..Len(inbox'[b]) : inbox'[b][i] \in served \cup {StreamError}
  BY InboxTail
<1>4. PlaceInv' BY <1>1 DEF PlaceInv, Busy
<1>5. PendingInv'
  <2>1. \A id \in Ids : Awaited(id) /\ id # <<a, asked[a]>> => Awaited(id)'
    <3> SUFFICES ASSUME NEW id \in Ids, Awaited(id), id # <<a, asked[a]>> PROVE Awaited(id)'
      OBVIOUS
    <3>1. id = <<id[1], id[2]>> /\ id[1] \in Agents BY DEF Ids
    <3>2. id[1] # a BY <3>1 DEF Awaited
    <3> QED BY <1>1, <1>2, <3>1, <3>2 DEF Awaited
  <2>2. ASSUME NEW e \in Executors
        PROVE /\ Busy(e) => busy[e].id # <<a, asked[a]>>
              /\ \A i \in 1..Len(work[e]) : work[e][i].id # <<a, asked[a]>>
    <3>1. PICK r \in served : r.id = <<a, asked[a]>> BY <1>3
    <3> HIDE DEF Accept
    <3> QED BY SMTT(30), <3>1 DEF ServedInv
  <2> QED BY <1>1, <2>1, <2>2, RequestIds DEF PendingInv, Busy
<1>6. ServedInv' BY <1>1, <1>3 DEF ServedInv, Busy
<1>7. AnswersAreOwn'
  <2>1. Head(inbox[a]) \in Responses BY <1>3 DEF TypeOK
  <2>2. Head(inbox[a]) = [id |-> <<a, asked[a]>>, ok |-> Head(inbox[a]).ok]
    BY <2>1 DEF Responses
  <2>3. told' = [told EXCEPT ![a] = @ \cup {Head(inbox[a])}] BY <2>2
  <2> QED BY <1>1, <1>3, <2>3 DEF AnswersAreOwn, TypeOK
<1> QED BY <1>4, <1>5, <1>6, <1>7

\* An agent asks only when nothing of its is underway, and under an id nobody has.
LEMMA AskCustody == ASSUME TypeOK, Custody, NEW a \in Agents, Ask(a) PROVE Custody'
<1>0. PICK request \in Requests : request = [id |-> <<a, asked[a] + 1>>, tool |-> Head(todo[a])]
  <2>1. todo[a] \in Seq(Tools) /\ todo[a] # <<>> /\ asked[a] \in Nat BY DEF Ask, TypeOK
  <2>2. Head(todo[a]) \in Tools BY <2>1
  <2>3. <<a, asked[a] + 1>> \in Ids BY <2>1 DEF Ids
  <2>4. [id |-> <<a, asked[a] + 1>>, tool |-> Head(todo[a])] \in Requests
    BY <2>2, <2>3 DEF Requests
  <2> QED BY <2>4
<1>1. /\ request.id = <<a, asked[a] + 1>> /\ request.id \in Ids
      /\ asked[a] \in Nat /\ asked' = [asked EXCEPT ![a] = @ + 1]
  BY <1>0 DEF Requests, Ids, Ask, TypeOK
<1>2. PICK x \in Executors : work' = work \/ work' = [work EXCEPT ![x] = Append(@, request)]
  BY <1>0 DEF Ask, ExecutorOf, Executors
<1>3. UNCHANGED <<busy, served, told, runEvent, inbox>> BY DEF Ask, linkVars
<1>4. \A e \in Executors : \A i \in 1..Len(work'[e]) :
         \/ i \in 1..Len(work[e]) /\ work'[e][i] = work[e][i]
         \/ e = x /\ i = Len(work[e]) + 1 /\ work'[e][i] = request
  <2> SUFFICES ASSUME NEW e \in Executors, NEW i \in 1..Len(work'[e])
               PROVE \/ i \in 1..Len(work[e]) /\ work'[e][i] = work[e][i]
                     \/ e = x /\ i = Len(work[e]) + 1 /\ work'[e][i] = request
    OBVIOUS
  <2>1. work \in [Executors -> Seq(Requests)] /\ work[e] \in Seq(Requests) BY DEF TypeOK
  <2>2. CASE work'[e] = work[e] BY <2>2
  <2>3. CASE work'[e] # work[e]
    <3>1. e = x /\ work'[e] = Append(work[e], request) BY <1>2, <2>1, <2>3
    <3> QED BY <2>1, <3>1, AppendIndex
  <2> QED BY <2>2, <2>3
<1>5. runEvent[a] /\ loop[a] = "tools" /\ loop'[a] = "wait"
      /\ \A b \in Agents \ {a} : loop'[b] = loop[b]
  BY DEF Ask, LoopAt, TypeOK
<1>6. ASSUME NEW e \in Executors
      PROVE /\ Busy(e) => busy[e].id[1] # a
            /\ \A i \in 1..Len(work[e]) : work[e][i].id[1] # a
  BY <1>5 DEF Custody, PendingInv, Awaited
<1>7. \A id \in Ids : id[1] # a => id # request.id BY <1>1
<1>8. PlaceInv'
  <2> SUFFICES ASSUME NEW e \in Executors, NEW f \in Executors
               PROVE /\ Busy(e) /\ Busy(f) /\ busy[e].id = busy[f].id => e = f
                     /\ \A i \in 1..Len(work'[e]) :
                          /\ Busy(f) => work'[e][i].id # busy[f].id
                          /\ \A j \in 1..Len(work'[f]) :
                                work'[e][i].id = work'[f][j].id => e = f /\ i = j
    BY <1>3 DEF PlaceInv, Busy
  <2>1. Busy(f) => busy[f].id # request.id BY <1>6, <1>7, RequestIds
  <2>2. \A j \in 1..Len(work[f]) : work[f][j].id # request.id BY <1>6, <1>7, RequestIds
  <2>3. \A j \in 1..Len(work[e]) : work[e][j].id # request.id BY <1>6, <1>7, RequestIds
  <2>4. Busy(e) /\ Busy(f) /\ busy[e].id = busy[f].id => e = f BY DEF Custody, PlaceInv
  <2>5. ASSUME NEW i \in 1..Len(work'[e]), Busy(f) PROVE work'[e][i].id # busy[f].id
    BY <1>4, <2>1, <2>5 DEF Custody, PlaceInv
  <2>6. ASSUME NEW i \in 1..Len(work'[e]), NEW j \in 1..Len(work'[f]),
               work'[e][i].id = work'[f][j].id
        PROVE e = f /\ i = j
    <3>1. CASE i \in 1..Len(work[e]) /\ work'[e][i] = work[e][i]
      <4>1. work'[f][j] # request BY <2>3, <2>6, <3>1
      <4>2. j \in 1..Len(work[f]) /\ work'[f][j] = work[f][j] BY <1>4, <4>1
      <4> QED BY <2>6, <3>1, <4>2 DEF Custody, PlaceInv
    <3>2. CASE e = x /\ i = Len(work[e]) + 1 /\ work'[e][i] = request
      <4>1. f = x /\ j = Len(work[f]) + 1 BY <1>4, <2>2, <2>6, <3>2
      <4> QED BY <3>2, <4>1
    <3> QED BY <1>4, <3>1, <3>2
  <2> QED BY <2>4, <2>5, <2>6
<1>9. PendingInv'
  <2>1. ASSUME NEW id \in Ids, id[1] # a, Awaited(id) PROVE Awaited(id)'
    BY <2>1, <1>1, <1>3, <1>5 DEF Awaited, Ids, TypeOK
  <2>2. Awaited(request.id)' BY <1>1, <1>5 DEF Awaited, TypeOK
  <2> QED BY <1>3, <1>4, <1>6, <2>1, <2>2, RequestIds DEF Custody, PendingInv, Busy
<1>10. ServedInv'
  <2>1. \A r \in served : r.id \in Ids BY DEF TypeOK, Responses
  <2>2. \A r \in served : r.id # request.id BY <1>1, <2>1 DEF Custody, ServedInv, Ids
  <2>3. \A r \in served : r.id[2] <= asked'[r.id[1]]
    BY SMTT(30), <1>1, <2>1 DEF Custody, ServedInv, Ids, TypeOK
  <2> QED BY <1>3, <1>4, <2>2, <2>3 DEF Custody, ServedInv, Busy
<1>11. AnswersAreOwn' BY <1>3 DEF Custody, AnswersAreOwn
<1> QED BY <1>8, <1>9, <1>10, <1>11 DEF Custody

\* Requests that are finished or dropped leave the others in their places.
LEMMA DropPlaces ==
    ASSUME TypeOK, Custody, UNCHANGED <<asked, loop, runEvent>>,
           \A e \in Executors : /\ busy'[e] \in {busy[e], Idle}
                                /\ work'[e] \in {work[e], <<>>}
    PROVE /\ PlaceInv' /\ PendingInv'
          /\ \A e \in Executors :
                /\ Busy(e)' => Busy(e) /\ busy'[e] = busy[e]
                /\ \A i \in 1..Len(work'[e]) : i \in 1..Len(work[e]) /\ work'[e][i] = work[e][i]
<1>1. ASSUME NEW e \in Executors
      PROVE /\ Busy(e)' => Busy(e) /\ busy'[e] = busy[e]
            /\ \A i \in 1..Len(work'[e]) : i \in 1..Len(work[e]) /\ work'[e][i] = work[e][i]
  BY DEF Busy
<1>2. PlaceInv'
  <2> SUFFICES ASSUME NEW e \in Executors, NEW f \in Executors
               PROVE /\ Busy(e)' /\ Busy(f)' /\ busy'[e].id = busy'[f].id => e = f
                     /\ \A i \in 1..Len(work'[e]) :
                          /\ Busy(f)' => work'[e][i].id # busy'[f].id
                          /\ \A j \in 1..Len(work'[f]) :
                                work'[e][i].id = work'[f][j].id => e = f /\ i = j
    BY DEF PlaceInv
  <2> QED BY SMTT(30), <1>1 DEF Custody, PlaceInv
<1>3. PendingInv'
  <2>1. \A id : Awaited(id)' <=> Awaited(id) BY DEF Awaited
  <2> QED BY <1>1, <2>1 DEF Custody, PendingInv
<1> QED BY <1>1, <1>2, <1>3

\* An executor that takes a request off its queue has it in its hands.
LEMMA BeginCustody == ASSUME TypeOK, Custody, NEW e \in Executors, Begin(e) PROVE Custody'
<1>1. UNCHANGED <<asked, loop, runEvent, served, told, inbox>> BY DEF Begin, loopVars, linkVars
<1>2. /\ busy' = [busy EXCEPT ![e] = work[e][1]] /\ work' = [work EXCEPT ![e] = Tail(@)]
      /\ 1 \in 1..Len(work[e]) /\ ~Busy(e)
      /\ \A i \in 1..Len(work'[e]) : i + 1 \in 1..Len(work[e]) /\ work'[e][i] = work[e][i + 1]
  BY TailIndex DEF Begin, Busy, TypeOK
<1>3. \A f \in Executors \ {e} : busy'[f] = busy[f] /\ work'[f] = work[f]
  BY <1>2 DEF TypeOK
<1>4. busy'[e] = work[e][1] BY <1>2 DEF TypeOK
<1>5. PlaceInv'
  <2> SUFFICES ASSUME NEW f \in Executors, NEW g \in Executors
               PROVE /\ Busy(f)' /\ Busy(g)' /\ busy'[f].id = busy'[g].id => f = g
                     /\ \A i \in 1..Len(work'[f]) :
                          /\ Busy(g)' => work'[f][i].id # busy'[g].id
                          /\ \A j \in 1..Len(work'[g]) :
                                work'[f][i].id = work'[g][j].id => f = g /\ i = j
    BY DEF PlaceInv
  <2>1. CASE f = e /\ g = e
    <3>1. \A i, j \in 1..Len(work[e]) : work[e][i].id = work[e][j].id => i = j
      BY DEF Custody, PlaceInv
    <3>2. ASSUME NEW i \in 1..Len(work'[e]) PROVE work'[e][i].id # busy'[e].id
      <4>1. i + 1 \in 1..Len(work[e]) /\ work'[e][i] = work[e][i + 1] BY <1>2
      <4>2. i + 1 # 1 OBVIOUS
      <4>3. 1 \in 1..Len(work[e]) BY <1>2
      <4> QED BY <1>4, <3>1, <4>1, <4>2, <4>3
    <3>3. ASSUME NEW i \in 1..Len(work'[e]), NEW j \in 1..Len(work'[e]),
                 work'[e][i].id = work'[e][j].id
          PROVE i = j
      <4>1. /\ i + 1 \in 1..Len(work[e]) /\ work'[e][i] = work[e][i + 1]
            /\ j + 1 \in 1..Len(work[e]) /\ work'[e][j] = work[e][j + 1]
        BY <1>2
      <4>2. i + 1 = j + 1 BY <3>1, <3>3, <4>1
      <4> QED BY <4>2
    <3> QED BY <2>1, <3>2, <3>3
  <2>2. CASE f = e /\ g # e BY SMTT(30), <1>2, <1>3, <1>4, <2>2 DEF Custody, PlaceInv, Busy
  <2>3. CASE f # e /\ g = e
    <3>1. Busy(f)' => busy'[f].id # busy'[e].id
      BY <1>2, <1>3, <1>4, <2>3 DEF Custody, PlaceInv, Busy
    <3>2. ASSUME NEW i \in 1..Len(work'[f])
          PROVE /\ work'[f][i].id # busy'[e].id
                /\ \A j \in 1..Len(work'[e]) : work'[f][i].id # work'[e][j].id
      BY <1>2, <1>3, <1>4, <2>3 DEF Custody, PlaceInv
    <3> QED BY <2>3, <3>1, <3>2
  <2>4. CASE f # e /\ g # e BY <1>3, <2>4 DEF Custody, PlaceInv, Busy
  <2> QED BY <2>1, <2>2, <2>3, <2>4
<1>6. PendingInv'
  <2>1. \A id : Awaited(id)' <=> Awaited(id) BY <1>1 DEF Awaited
  <2>2. ASSUME NEW f \in Executors
        PROVE /\ Busy(f)' => Awaited(busy'[f].id)
              /\ \A i \in 1..Len(work'[f]) : Awaited(work'[f][i].id)
    <3>1. CASE f = e BY <1>2, <1>4, <3>1 DEF Custody, PendingInv
    <3>2. CASE f # e BY <1>3, <3>2 DEF Custody, PendingInv, Busy
    <3> QED BY <3>1, <3>2
  <2> QED BY <2>1, <2>2 DEF PendingInv
<1>7. ServedInv'
  <2>1. ASSUME NEW r \in served, NEW f \in Executors
        PROVE /\ Busy(f)' => busy'[f].id # r.id
              /\ \A i \in 1..Len(work'[f]) : work'[f][i].id # r.id
    <3>1. CASE f = e BY <1>2, <1>4, <3>1 DEF Custody, ServedInv
    <3>2. CASE f # e BY <1>3, <3>2 DEF Custody, ServedInv, Busy
    <3> QED BY <3>1, <3>2
  <2> QED BY <1>1, <2>1 DEF Custody, ServedInv
<1>8. AnswersAreOwn' BY <1>1 DEF Custody, AnswersAreOwn
<1> QED BY <1>5, <1>6, <1>7, <1>8 DEF Custody

\* An executor that answers had the request, so no answer to it was made before.
LEMMA RespondCustody == ASSUME TypeOK, Custody, NEW e \in Executors, Respond(e) PROVE Custody'
<1>1. PICK response : /\ response.id = busy[e].id
                      /\ served' = served \cup {response}
                      /\ inbox' = [a \in Agents |-> IF up[e] /\ receiving[a] /\ runEvent[a]
                                              THEN Append(inbox[a], response) ELSE inbox[a]]
  BY DEF Respond
<1>2. /\ UNCHANGED <<asked, loop, runEvent, told, work>> /\ Busy(e)
      /\ busy' = [busy EXCEPT ![e] = Idle]
  BY DEF Respond, loopVars, Busy
<1>3. \A f \in Executors : busy'[f] \in {busy[f], Idle} /\ work'[f] \in {work[f], <<>>}
  BY <1>2 DEF TypeOK
<1>4. /\ PlaceInv' /\ PendingInv'
      /\ \A f \in Executors :
            /\ Busy(f)' => Busy(f) /\ busy'[f] = busy[f]
            /\ \A i \in 1..Len(work'[f]) : i \in 1..Len(work[f]) /\ work'[f][i] = work[f][i]
  BY <1>2, <1>3, DropPlaces
<1>5. ASSUME NEW f \in Executors
      PROVE /\ Busy(f)' => busy'[f].id # response.id
            /\ \A i \in 1..Len(work'[f]) : work'[f][i].id # response.id
  <2>1. ~Busy(e)' BY <1>2 DEF Busy, TypeOK
  <2> QED BY <1>1, <1>2, <1>4, <2>1 DEF Custody, PlaceInv
<1>6. ServedInv'
  <2>1. \A r \in served' : r.id[2] <= asked'[r.id[1]]
    <3>1. busy[e].id[2] = asked[busy[e].id[1]] /\ busy[e].id \in Ids
      BY <1>2, RequestIds DEF Custody, PendingInv, Awaited
    <3>2. response.id[2] <= asked[response.id[1]] BY <1>1, <3>1 DEF Ids
    <3> QED BY <1>1, <1>2, <3>2 DEF Custody, ServedInv
  <2>2. ASSUME NEW r \in served', NEW f \in Executors
        PROVE /\ Busy(f)' => busy'[f].id # r.id
              /\ \A i \in 1..Len(work'[f]) : work'[f][i].id # r.id
    BY <1>1, <1>4, <1>5 DEF Custody, ServedInv
  <2>3. ASSUME NEW a \in Agents, NEW i \in 1..Len(inbox'[a])
        PROVE inbox'[a][i] \in served' \cup {StreamError}
    <3>1. CASE inbox'[a] = inbox[a] BY <1>1, <3>1 DEF Custody, ServedInv
    <3>2. CASE inbox'[a] = Append(inbox[a], response)
      <4>1. inbox[a] \in Seq(Responses \cup {StreamError} \cup {response}) BY DEF TypeOK
      <4>2. \/ i \in 1..Len(inbox[a]) /\ inbox'[a][i] = inbox[a][i]
            \/ inbox'[a][i] = response
        BY <3>2, <4>1, AppendIndex
      <4> QED BY <1>1, <4>2 DEF Custody, ServedInv
    <3> QED BY <1>1, <3>1, <3>2
  <2> QED BY <2>1, <2>2, <2>3 DEF ServedInv
<1>7. AnswersAreOwn'
  <2>1. \A r \in served : r.id # response.id BY <1>1, <1>2 DEF Custody, ServedInv
  <2> QED BY <1>1, <1>2, <2>1 DEF Custody, AnswersAreOwn
<1> QED BY <1>4, <1>6, <1>7 DEF Custody

\* An executor that fails or leaves drops what it has.
LEMMA DropCustody ==
    ASSUME TypeOK, Custody, NEW e \in Executors, HandlerRaises(e) \/ ExecutorLeaves(e)
    PROVE Custody'
<1>1. UNCHANGED <<asked, loop, runEvent, served, told, inbox>>
  BY DEF HandlerRaises, ExecutorLeaves, loopVars, linkVars
<1>2. \A f \in Executors : busy'[f] \in {busy[f], Idle} /\ work'[f] \in {work[f], <<>>}
  BY DEF HandlerRaises, ExecutorLeaves, TypeOK
<1>3. /\ PlaceInv' /\ PendingInv'
      /\ \A f \in Executors :
            /\ Busy(f)' => Busy(f) /\ busy'[f] = busy[f]
            /\ \A i \in 1..Len(work'[f]) : i \in 1..Len(work[f]) /\ work'[f][i] = work[f][i]
  BY <1>1, <1>2, DropPlaces
<1>4. ServedInv' BY <1>1, <1>3 DEF Custody, ServedInv
<1>5. AnswersAreOwn' BY <1>1 DEF Custody, AnswersAreOwn
<1> QED BY <1>3, <1>4, <1>5 DEF Custody

-----------------------------------------------------------------------------
\* Every step of an agent's loop keeps requests and answers in place.
LEMMA AgentCustody == ASSUME TypeOK, Custody, NEW a \in Agents, Agent(a) PROVE Custody'
<1> USE DEF loopVars, linkVars, execVars, LoopAt, TypeOK
<1> DEFINE quiet == /\ UNCHANGED <<work, busy, asked, served, told>>
                    /\ \A b \in Agents : (runEvent[b] /\ loop[b] \in {"top", "llm", "tools"})'
                                         => runEvent[b] /\ loop[b] \in {"top", "llm", "tools"}
<1>1. ASSUME quiet, UNCHANGED inbox PROVE Custody'
  <2> HIDE DEF TypeOK
  <2> QED BY <1>1, QuietStep DEF Custody, ServedInv
<1>2. ASSUME quiet, inbox[a] # <<>>, inbox' = [inbox EXCEPT ![a] = Tail(@)] PROVE Custody'
  <2> HIDE DEF TypeOK
  <2>1. \A b \in Agents : \A i \in 1..Len(inbox'[b]) : inbox'[b][i] \in served \cup {StreamError}
    BY <1>2, InboxTail DEF Custody
  <2> QED BY <1>2, <2>1, QuietStep
<1>3. CASE Top(a) BY <1>3, <1>1 DEF Top
<1>4. CASE LlmStops(a) BY <1>4, <1>1 DEF LlmStops
<1>5. CASE LlmTalks(a) BY <1>5, <1>1 DEF LlmTalks
<1>6. CASE LlmCalls(a) BY <1>6, <1>1 DEF LlmCalls
<1>7. CASE EndTools(a) BY <1>7, <1>1 DEF EndTools
<1>8. CASE UnknownTool(a) BY <1>8, <1>1 DEF UnknownTool
<1>9. CASE ClientExits(a) BY <1>9, <1>1 DEF ClientExits
<1>10. CASE Timeout(a) BY <1>10, <1>1 DEF Timeout
<1>11. CASE GetRaises(a) BY <1>11, <1>2 DEF GetRaises
<1>12. CASE Skip(a) BY <1>12, <1>2 DEF Skip
<1>13. CASE Leave(a) BY <1>13, <1>1 DEF Leave
<1>14. CASE Ask(a) BY <1>14, AskCustody
<1>15. CASE Accept(a) BY <1>15, AcceptCustody
<1> QED BY <1>3, <1>4, <1>5, <1>6, <1>7, <1>8, <1>9, <1>10, <1>11, <1>12, <1>13, <1>14, <1>15
        DEF Agent

\* So does every other step.
LEMMA CustodyStep == TypeOK /\ StartInv /\ Custody /\ [Next]_vars => Custody'
<1> SUFFICES ASSUME TypeOK, StartInv, Custody, [Next]_vars PROVE Custody'
    OBVIOUS
<1>1. ASSUME NEW a \in Agents, Agent(a) PROVE Custody' BY <1>1, AgentCustody
<1>2. ASSUME NEW e \in Executors, Executor(e) PROVE Custody'
  BY <1>2, BeginCustody, RespondCustody, DropCustody DEF Executor
<1>3. ASSUME NEW a \in Agents, Interrupt(a) PROVE Custody'
  <2>1. /\ UNCHANGED <<loop, inbox, work, busy, asked, served, told>>
        /\ \A b \in Agents : runEvent'[b] => runEvent[b]
    BY <1>3 DEF Interrupt, linkVars, execVars, TypeOK
  <2> QED BY <2>1, QuietStep DEF Custody, ServedInv
<1>4. ASSUME NEW a \in Agents, StreamFails(a) PROVE Custody'
  <2>1. /\ UNCHANGED <<loop, runEvent, work, busy, asked, served, told>>
        /\ inbox' = [inbox EXCEPT ![a] = Append(@, StreamError)]
    BY <1>4 DEF StreamFails, loopVars, execVars
  <2>2. ASSUME NEW b \in Agents, NEW i \in 1..Len(inbox'[b])
        PROVE inbox'[b][i] \in served \cup {StreamError}
    <3>1. inbox[b] \in Seq(Responses \cup {StreamError}) BY DEF TypeOK
    <3>2. inbox'[b] = inbox[b] \/ inbox'[b] = Append(inbox[b], StreamError) BY <2>1 DEF TypeOK
    <3>3. \/ i \in 1..Len(inbox[b]) /\ inbox'[b][i] = inbox[b][i]
          \/ inbox'[b][i] = StreamError
      BY <3>1, <3>2, AppendIndex
    <3> QED BY <3>3 DEF Custody, ServedInv
  <2> QED BY <2>1, <2>2, QuietStep
<1>5. ASSUME NEW a \in Agents, Setup(a) PROVE Custody'
  <2>1. UNCHANGED <<inbox, work, busy, asked, served, told>>
    BY <1>5 DEF Setup, MakeQueues, SetRunEvent, Connected, ConnectFails, loopVars, execVars
  <2>2. ASSUME NEW b \in Agents, (runEvent[b] /\ loop[b] \in {"top", "llm", "tools"})'
        PROVE (runEvent[b] /\ loop[b] \in {"top", "llm", "tools"}) \/ asked[b] = 0
    <3>1. CASE SetRunEvent(a) BY <2>2, <3>1 DEF SetRunEvent, SetupAt, StartInv, TypeOK
    <3>2. CASE ConnectFails(a) BY <2>2, <3>2 DEF ConnectFails, TypeOK
    <3>3. CASE MakeQueues(a) \/ Connected(a)
      BY <2>2, <3>3 DEF MakeQueues, Connected, loopVars
    <3> QED BY <1>5, <3>1, <3>2, <3>3 DEF Setup
  <2> QED BY <2>1, <2>2, QuietStep DEF Custody, ServedInv
<1>6. CASE UNCHANGED vars
  <2>1. UNCHANGED <<loop, runEvent, inbox, work, busy, asked, served, told>>
    BY <1>6 DEF vars, loopVars, linkVars, execVars
  <2> QED BY <2>1, QuietStep DEF Custody, ServedInv
<1> QED BY <1>1, <1>2, <1>3, <1>4, <1>5, <1>6 DEF Next

\* In the beginning no request has been sent.
LEMMA BridgeInit == Init => TypeOK /\ CapsInv /\ StartInv /\ Custody
<1> SUFFICES ASSUME Init PROVE TypeOK /\ CapsInv /\ StartInv /\ Custody OBVIOUS
<1> USE ConstantsAssumption DEF Init
<1>1. TypeOK
  <2>1. /\ work \in [Executors -> Seq(Requests)]
        /\ todo \in [Agents -> Seq(Tools)]
        /\ inbox \in [Agents -> Seq(Responses \cup {StreamError})]
    OBVIOUS
  <2>2. /\ iteration \in [Agents -> 0..(MaxIterations + 1)]
        /\ deadTurns \in [Agents -> 0..MaxDeadTurns]
        /\ asked \in [Agents -> Nat] /\ faults \in 0..MaxFaults
    OBVIOUS
  <2> QED BY <2>1, <2>2 DEF TypeOK
<1>2. CapsInv BY DEF CapsInv
<1>3. \A e \in Executors : ~Busy(e) /\ Len(work[e]) = 0 BY DEF Busy
<1>4. \A a \in Agents : Len(inbox[a]) = 0 /\ told[a] = {} OBVIOUS
<1>5. Custody
  BY <1>3, <1>4 DEF Custody, PlaceInv, PendingInv, ServedInv, AnswersAreOwn
<1>6. StartInv BY DEF StartInv
<1> QED BY <1>1, <1>2, <1>5, <1>6

\* All of it together is inductive.
LEMMA BridgeCorrect == Spec => [](TypeOK /\ CapsInv /\ StartInv /\ Custody)
<1>1. Init => TypeOK /\ CapsInv /\ StartInv /\ Custody BY BridgeInit
<1>2. TypeOK /\ CapsInv /\ StartInv /\ Custody /\ [Next]_vars
         => (TypeOK /\ CapsInv /\ StartInv /\ Custody)'
  BY TypeStep, StartStep, CustodyStep
<1> QED BY <1>1, <1>2, PTL DEF Spec

\* Every variable stays in its type: the caps of _run_agentic_loop bound its counters.
THEOREM TypeCorrect == Spec => []TypeOK
BY BridgeCorrect, PTL

\* The inductive invariant: a request is in one place, is its agent's last, and
\* is answered once.
THEOREM BridgeInvHolds == Spec => []BridgeInv
<1>1. TypeOK /\ CapsInv /\ StartInv /\ Custody => BridgeInv BY DEF BridgeInv, Custody
<1> QED BY <1>1, BridgeCorrect, PTL

\* The executors work for an agent on one request at a time, and only while it waits.
THEOREM OneAtATimeHolds == Spec => []OneAtATime
<1>1. TypeOK /\ CapsInv /\ StartInv /\ Custody => OneAtATime
  <2> SUFFICES ASSUME TypeOK, Custody, NEW a \in Agents, NEW r \in Underway(a)
               PROVE r.id = <<a, asked[a]>> /\ ~(runEvent[a] /\ loop[a] \in {"top", "llm", "tools"})
    BY DEF OneAtATime
  <2>1. r.id[1] = a BY DEF Underway
  <2>2. PICK e \in Executors : r \in Elements(work[e]) \/ (Busy(e) /\ r = busy[e])
    BY DEF Underway, Busy
  <2>3. r.id \in Ids /\ Awaited(r.id)
    <3>1. CASE r \in Elements(work[e])
      BY <3>1, RequestIds DEF Elements, Custody, PendingInv
    <3>2. CASE Busy(e) /\ r = busy[e] BY <3>2, RequestIds DEF Custody, PendingInv
    <3> QED BY <2>2, <3>1, <3>2
  <2> QED BY <2>1, <2>3 DEF Ids, Awaited
<1> QED BY <1>1, BridgeCorrect, PTL

\* What an agent tells its model is what the executor did with that request of its.
THEOREM AnswersAreOwnHolds == Spec => []AnswersAreOwn
<1>1. TypeOK /\ CapsInv /\ StartInv /\ Custody => AnswersAreOwn BY DEF Custody
<1> QED BY <1>1, BridgeCorrect, PTL
=============================================================================
