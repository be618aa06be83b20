-------------------------- MODULE StreamClientProofs --------------------------
(***************************************************************************)
(* Theorems about a client, for every number of connections and messages   *)
(* and every bound of the receive queue.                                   *)
(***************************************************************************)
EXTENDS StreamClientProperties, SequenceTheorems, TLAPS

\* Only connections that were begun have threads, queued messages or a validated welcome.
ConnectionInv ==
    /\ app # "idle" \/ runEvent => cur \in Gens
    /\ checked \subseteq 1..cur
    /\ \A g \in Gens :
          /\ gen[g] # "off" \/ recv[g] # "off" => g <= cur
          /\ gen[g] = "wait" => target[g] \in 1..cur
          /\ g > cur => sendQ[g] = <<>> /\ recvQ[g] = <<>>

\* A stream that is up is the current one, and whoever ends the run event has it cancelled.
StreamInv ==
    /\ app = "connect" => runEvent
    /\ \A g \in Gens : Up(g) => /\ g = stream
                                /\ app \notin {"connect", "joinThread"}
                                /\ app # "cancel" => runEvent

\* What a generator has taken and not yet yielded.
Held(g) == IF gen[g] \in {"hook", "yield"} THEN {item[g]} ELSE {}

\* The first of the queues a generator can still take from.
From(g) == IF gen[g] = "wait" THEN target[g] ELSE cur

\* A message that was sent: by send_data, or as the connect message of a connection.
WasSent(m) ==
    \/ m.kind = "data" /\ m.n <= sendCount
    \/ m.kind = "first" /\ m.of <= cur /\ (m.of = cur => app \notin {"connect", "first"})

Ascending(s) ==
    \A i, j \in 1..Len(s) : i < j /\ s[i].kind = "data" /\ s[j].kind = "data" => s[i].n < s[j].n

\* Every message of the application in S was sent before every one in T.
Before(S, T) == \A m \in S, k \in T : m.kind = "data" /\ k.kind = "data" => m.n < k.n

\* A message is in one place at most: queued, held or yielded.
UniqueInv ==
    /\ \A g \in Gens : IsInjective(sendQ[g]) /\ IsInjective(wire[g])
    /\ \A g, h \in Gens :
          /\ Range(sendQ[g]) \cap (Held(h) \cup Range(wire[h])) = {}
          /\ Held(g) \cap Range(wire[h]) = {}
          /\ g # h => /\ Range(sendQ[g]) \cap Range(sendQ[h]) = {}
                      /\ Held(g) \cap Held(h) = {}
                      /\ Range(wire[g]) \cap Range(wire[h]) = {}
    /\ \A g \in Gens : \A m \in Range(sendQ[g]) \cup Held(g) \cup Range(wire[g]) : WasSent(m)

\* Whatever a generator can still take was sent after all it has taken.
OrderInv ==
    /\ \A g \in Gens : /\ Ascending(sendQ[g]) /\ Ascending(wire[g])
                       /\ Before(Range(wire[g]), Held(g))
    /\ \A g, h \in Gens :
          /\ g < h => Before(Range(sendQ[g]), Range(sendQ[h]))
          /\ From(g) <= h => Before(Held(g) \cup Range(wire[g]), Range(sendQ[h]))

\* A connection has no thread before it is made, a stream no response before its receive
\* thread starts, and the server's last response comes last.
CountInv ==
    /\ app = "connect" => gen[cur] = "off"
    /\ app \in {"connect", "first"} => recv[cur] = "off"
    /\ \A g \in Gens : /\ inCount[g] <= MaxIn[g] + 1
                       /\ recv[g] \in {"off", "welcome"} => inCount[g] = 0

\* The last response of a stream that its receive thread has put or discarded.
Passed(g) == IF recv[g] = "dead" THEN MaxIn[g] + 2
             ELSE IF recv[g] \in {"hook", "put"} THEN inCount[g] - 1 ELSE inCount[g]

\* The application reads and finds queued only what a receive thread has put.
ReadInv ==
    /\ \A g \in Gens : got[g] <= Passed(g)
    /\ cur > 0 => \A i \in 1..Len(recvQ[cur]) :
          recvQ[cur][i].of \in Gens /\ recvQ[cur][i].n <= Passed(recvQ[cur][i].of)

\* The count of the first connection, its generator running or not yet started, until there
\* is a second one.
HandedInv ==
    cur <= 1 /\ gen[1] \notin {"drain", "dead"} =>
        unfinished[1] = Len(sendQ[1]) + (IF gen[1] \in {"hook", "yield", "sent", "done"} THEN 1 ELSE 0)

-----------------------------------------------------------------------------
(* Types.                                                                  *)

\* Whatever is queued, held or yielded is a message.
LEMMA ItemTypes ==
    /\ NoItem \in Items
    /\ \A k \in Nat : Sent(k) \in Items
    /\ \A g \in Gens : First(g) \in Items /\ Failure(g) \in Items
    /\ \A g \in Gens, k \in Nat : Response(g, k) \in Items
<1>1. \A g \in Gens : g \in Nat /\ MaxIn[g] + 2 \in Nat BY ConstantsAssumption DEF Gens
<1> QED BY <1>1 DEF NoItem, Sent, First, Failure, Response, Items, Kinds

\* Queues that grow or shrink remain queues of messages.
LEMMA QueueTypes ==
    ASSUME NEW Q \in [Gens -> Seq(Items)], NEW g \in Gens
    PROVE  /\ \A m \in Items : [Q EXCEPT ![g] = Append(@, m)] \in [Gens -> Seq(Items)]
           /\ Q[g] # <<>> => /\ Head(Q[g]) \in Items
                             /\ [Q EXCEPT ![g] = Tail(@)] \in [Gens -> Seq(Items)]
<1>1. PICK s \in Seq(Items) : s = Q[g] OBVIOUS
<1>2. ASSUME NEW m \in Items PROVE [Q EXCEPT ![g] = Append(@, m)] \in [Gens -> Seq(Items)]
  <2>1. Append(s, m) \in Seq(Items) BY AppendProperties
  <2> QED BY <1>1, <2>1
<1>3. ASSUME s # <<>> PROVE Head(s) \in Items /\ Tail(s) \in Seq(Items)
  BY <1>3, HeadTailProperties
<1> QED BY <1>1, <1>2, <1>3

\* Counts that go up, down or back to a start remain counts.
LEMMA CountTypes ==
    ASSUME NEW F \in [Gens -> Nat], NEW g
    PROVE  /\ [F EXCEPT ![g] = @ + 1] \in [Gens -> Nat]
           /\ [F EXCEPT ![g] = IF @ > 0 THEN @ - 1 ELSE 0] \in [Gens -> Nat]
           /\ [F EXCEPT ![g] = 0] \in [Gens -> Nat]
           /\ [F EXCEPT ![g] = 1] \in [Gens -> Nat]
<1>1. \A h \in Gens : F[h] \in Nat /\ F[h] + 1 \in Nat /\ (F[h] > 0 => F[h] - 1 \in Nat) OBVIOUS
<1>2. [F EXCEPT ![g] = @ + 1] \in [Gens -> Nat] BY <1>1
<1>3. [F EXCEPT ![g] = IF @ > 0 THEN @ - 1 ELSE 0] \in [Gens -> Nat] BY <1>1
<1>4. [F EXCEPT ![g] = 0] \in [Gens -> Nat] /\ [F EXCEPT ![g] = 1] \in [Gens -> Nat] OBVIOUS
<1> QED BY <1>2, <1>3, <1>4

\* Every step of the application's thread keeps every variable in its type.
LEMMA AppType == ASSUME TypeOK, ConnectionInv, App \/ AppCalls PROVE TypeOK'
<1> USE DEF TypeOK, AppAt, appVars, genVars, recvVars, Gens
<1>0. MaxGen \in Nat BY ConstantsAssumption
<1>1. CASE SetupConnection
  <2>1. cur' \in 0..MaxGen /\ stream' \in 0..cur'
    <3>1. PICK c \in 0..MaxGen : c = cur OBVIOUS
    <3>2. c + 1 \in 0..MaxGen /\ 0..c \subseteq 0..(c + 1)
      BY <1>0, <1>1, <3>1 DEF SetupConnection
    <3>3. cur' = c + 1 /\ stream' = stream BY <1>1, <3>1 DEF SetupConnection
    <3> QED BY <3>1, <3>2, <3>3
  <2>2. app' = "connect" /\ runEvent' = TRUE BY <1>1 DEF SetupConnection
  <2> QED BY <1>1, <2>1, <2>2 DEF SetupConnection
<1>2. CASE ConnectTimeout \/ CheckTimeout \/ WaitDone \/ QueueJoined \/ Disconnect \/ ThreadJoined
  BY <1>2 DEF ConnectTimeout, CheckTimeout, WaitDone, QueueJoined, Disconnect, ThreadJoined
<1>3. CASE OpenStream
  <2>1. stream' \in 0..cur' /\ app' = "first" BY <1>3 DEF OpenStream
  <2>2. /\ gen' \in [Gens -> {"off", "test", "wait", "hook", "yield", "sent", "done", "drain", "dead"}]
        /\ ended' \in [Gens -> {"never", "no", "ok", "error", "cancelled"}]
    BY <1>3 DEF OpenStream
  <2> QED BY <1>3, <2>1, <2>2 DEF OpenStream
<1>4. CASE PutFirst
  <2>1. cur \in Gens BY <1>4 DEF PutFirst, ConnectionInv
  <2>2. sendQ' \in [Gens -> Seq(Items)] BY <1>4, <2>1, ItemTypes, QueueTypes DEF PutFirst
  <2>3. unfinished' \in [Gens -> Nat] BY <1>4, CountTypes DEF PutFirst
  <2>4. recv' \in [Gens -> {"off", "welcome", "open", "hook", "put", "error", "dead"}]
    BY <1>4 DEF PutFirst
  <2> QED BY <1>4, <2>2, <2>3, <2>4 DEF PutFirst
<1>5. CASE CheckConnection \/ GetData
  <2>1. cur \in Gens BY <1>5 DEF CheckConnection, GetData, Constructed, ConnectionInv
  <2>2. PICK m \in Items : m = Head(recvQ[cur])
    BY <1>5, <2>1, QueueTypes DEF CheckConnection, GetData
  <2>3. recvQ' \in [Gens -> Seq(Items)]
    <3>1. recvQ[cur] # <<>> /\ recvQ' = [recvQ EXCEPT ![cur] = Tail(@)]
      BY <1>5 DEF CheckConnection, GetData
    <3> QED BY <2>1, <3>1, QueueTypes
  <2>4. m.n \in Nat BY DEF Items
  <2>5. got' \in [Gens -> Nat]
    <3>1. got' = [got EXCEPT ![m.of] = m.n] BY <1>5, <2>2 DEF CheckConnection, GetData, Took
    <3> QED BY <2>4, <3>1
  <2>6. app' \in {"idle", "disconnect"} /\ checked' \subseteq Gens
    BY <1>5, <2>1 DEF CheckConnection, GetData
  <2> QED BY <1>5, <2>3, <2>5, <2>6 DEF CheckConnection, GetData
<1>6. CASE SendData
  <2>1. cur \in Gens BY <1>6 DEF SendData, Constructed, ConnectionInv
  <2>2. sendQ' \in [Gens -> Seq(Items)]
    <3>1. Sent(sendCount + 1) \in Items BY ItemTypes
    <3> QED BY <1>6, <2>1, <3>1, QueueTypes DEF SendData
  <2>3. unfinished' \in [Gens -> Nat] BY <1>6, CountTypes DEF SendData
  <2>4. sendCount' \in Nat BY <1>6 DEF SendData
  <2> QED BY <1>6, <2>2, <2>3, <2>4 DEF SendData
<1>7. CASE ClearRunEvent BY <1>7 DEF ClearRunEvent
<1>8. CASE CancelStream BY <1>8 DEF CancelStream
<1> QED BY <1>1, <1>2, <1>3, <1>4, <1>5, <1>6, <1>7, <1>8 DEF App, AppCalls

\* Every step of a generator keeps every variable in its type.
LEMMA GeneratorType ==
    ASSUME TypeOK, ConnectionInv, NEW g \in Gens, Generator(g) PROVE TypeOK'
<1> USE DEF TypeOK, GenAt, appVars, recvVars
<1>1. CASE GenTest(g)
  <2>1. gen' \in [Gens -> {"off", "test", "wait", "hook", "yield", "sent", "done", "drain", "dead"}]
    BY <1>1 DEF GenTest
  <2>2. target' \in [Gens -> 0..MaxGen] BY <1>1 DEF GenTest
  <2> QED BY <1>1, <2>1, <2>2 DEF GenTest
<1>2. CASE GenTake(g)
  <2>1. PICK h \in Gens : h = target[g] BY <1>2 DEF GenTake, ConnectionInv, Gens
  <2>2. PICK m \in Items : m = Head(sendQ[h]) BY <1>2, <2>1, QueueTypes DEF GenTake
  <2>3. sendQ' \in [Gens -> Seq(Items)] BY <1>2, <2>1, QueueTypes DEF GenTake
  <2>4. item' \in [Gens -> Items] BY <1>2, <2>1, <2>2 DEF GenTake
  <2>5. gen' \in [Gens -> {"off", "test", "wait", "hook", "yield", "sent", "done", "drain", "dead"}]
    BY <1>2 DEF GenTake
  <2>6. target' \in [Gens -> 0..MaxGen] BY <1>2, ConstantsAssumption DEF GenTake
  <2> QED BY <1>2, <2>3, <2>4, <2>5, <2>6 DEF GenTake
<1>3. CASE GenEmpty(g)
  <2>1. target' \in [Gens -> 0..MaxGen] BY <1>3, ConstantsAssumption DEF GenEmpty
  <2>2. gen' \in [Gens -> {"off", "test", "wait", "hook", "yield", "sent", "done", "drain", "dead"}]
    BY <1>3 DEF GenEmpty
  <2> QED BY <1>3, <2>1, <2>2 DEF GenEmpty
<1>4. CASE GenHook(g) \/ GenTaskDone(g) \/ GenDrain(g)
  <2>1. unfinished' \in [Gens -> Nat]
    <3>1. \/ UNCHANGED unfinished
          \/ unfinished' = [unfinished EXCEPT ![cur] = IF @ > 0 THEN @ - 1 ELSE 0]
          \/ unfinished' = [unfinished EXCEPT ![cur] = 0]
      <4>1. CASE GenHook(g) BY <4>1 DEF GenHook
      <4>2. CASE GenTaskDone(g) BY <4>2 DEF GenTaskDone
      <4>3. CASE GenDrain(g) BY <4>3 DEF GenDrain
      <4> QED BY <1>4, <4>1, <4>2, <4>3
    <3>2. PICK F \in [Gens -> Nat], c \in 0..MaxGen : F = unfinished /\ c = cur OBVIOUS
    <3>3. /\ [F EXCEPT ![c] = IF @ > 0 THEN @ - 1 ELSE 0] \in [Gens -> Nat]
          /\ [F EXCEPT ![c] = 0] \in [Gens -> Nat]
      BY CountTypes
    <3> QED BY <3>1, <3>2, <3>3
  <2>2. gen' \in [Gens -> {"off", "test", "wait", "hook", "yield", "sent", "done", "drain", "dead"}]
    <3>1. CASE GenHook(g)
      <4>1. CASE GenAt(g, "hook", "yield") BY <4>1 DEF GenAt
      <4>2. CASE GenAt(g, "hook", "done") BY <4>2 DEF GenAt
      <4>3. CASE GenAt(g, "hook", "drain") BY <4>3 DEF GenAt
      <4> QED BY <3>1, <4>1, <4>2, <4>3 DEF GenHook
    <3>2. CASE GenTaskDone(g) BY <3>2 DEF GenTaskDone
    <3>3. CASE GenDrain(g) BY <3>3 DEF GenDrain
    <3> QED BY <1>4, <3>1, <3>2, <3>3
  <2>3. item' \in [Gens -> Items] BY <1>4, ItemTypes DEF GenHook, GenTaskDone, GenDrain
  <2>4. UNCHANGED <<appVars, sendQ, recvQ, target, wire, recvVars, ended>>
    BY <1>4 DEF GenHook, GenTaskDone, GenDrain
  <2> QED BY <2>1, <2>2, <2>3, <2>4
<1>5. CASE GenYield(g)
  <2>1. wire' \in [Gens -> Seq(Items)] BY <1>5, QueueTypes DEF GenYield
  <2>2. gen' \in [Gens -> {"off", "test", "wait", "hook", "yield", "sent", "done", "drain", "dead"}]
    BY <1>5 DEF GenYield
  <2> QED BY <1>5, <2>1, <2>2 DEF GenYield
<1>6. CASE GenResume(g) BY <1>6 DEF GenResume
<1>7. CASE GenDropped(g)
  <2>1. item' \in [Gens -> Items] BY <1>7, ItemTypes DEF GenDropped
  <2>2. gen' \in [Gens -> {"off", "test", "wait", "hook", "yield", "sent", "done", "drain", "dead"}]
    BY <1>7 DEF GenDropped
  <2> QED BY <1>7, <2>1, <2>2 DEF GenDropped
<1> QED BY <1>1, <1>2, <1>3, <1>4, <1>5, <1>6, <1>7 DEF Generator

\* Every step of a receive thread or a server keeps every variable in its type.
LEMMA ReceiveType ==
    ASSUME TypeOK, ConnectionInv, NEW g \in Gens, Receive(g) \/ RecvNext(g) \/ ServerEnds(g)
    PROVE  TypeOK'
<1> USE DEF TypeOK, RecvAt, appVars, genVars
<1> DEFINE States == {"off", "welcome", "open", "hook", "put", "error", "dead"}
<1>1. CASE RecvFirst(g) \/ RecvPut(g) \/ RecvError(g)
  <2>1. cur \in Gens
    <3>1. recv[g] # "off" BY <1>1 DEF RecvFirst, RecvPut, RecvError
    <3> QED BY <3>1, ConstantsAssumption DEF ConnectionInv, Gens
  <2>2. PICK m \in Items : recvQ' = [recvQ EXCEPT ![cur] = Append(@, m)]
    BY <1>1, ItemTypes DEF RecvFirst, RecvPut, RecvError
  <2>3. recvQ' \in [Gens -> Seq(Items)] BY <2>1, <2>2, QueueTypes
  <2>4. inCount' \in [Gens -> Nat]
    <3>1. UNCHANGED inCount \/ inCount' = [inCount EXCEPT ![g] = 1]
      BY <1>1 DEF RecvFirst, RecvPut, RecvError
    <3>2. PICK F \in [Gens -> Nat] : F = inCount OBVIOUS
    <3>3. [F EXCEPT ![g] = 1] \in [Gens -> Nat] BY CountTypes
    <3> QED BY <3>1, <3>2, <3>3
  <2>5. recv' \in [Gens -> States] BY <1>1 DEF RecvFirst, RecvPut, RecvError
  <2>6. UNCHANGED <<appVars, sendQ, unfinished, genVars, ended>>
    BY <1>1 DEF RecvFirst, RecvPut, RecvError
  <2> QED BY <2>3, <2>4, <2>5, <2>6
<1>2. CASE RecvNext(g)
  <2>1. inCount' \in [Gens -> Nat] BY <1>2, CountTypes DEF RecvNext
  <2>2. recv' \in [Gens -> States] BY <1>2 DEF RecvNext
  <2> QED BY <1>2, <2>1, <2>2 DEF RecvNext
<1>3. CASE RecvHook(g) \/ RecvEnd(g)
  <2>1. recv' \in [Gens -> States] BY <1>3 DEF RecvHook, RecvEnd
  <2> QED BY <1>3, <2>1 DEF RecvHook, RecvEnd
<1>4. CASE ServerEnds(g)
  <2>1. ended' \in [Gens -> {"never", "no", "ok", "error", "cancelled"}] BY <1>4 DEF ServerEnds
  <2> QED BY <1>4, <2>1 DEF ServerEnds, recvVars
<1> QED BY <1>1, <1>2, <1>3, <1>4 DEF Receive

\* Every step keeps every variable in its type.
LEMMA TypeStep == TypeOK /\ ConnectionInv /\ [Next]_vars => TypeOK'
<1> SUFFICES ASSUME TypeOK, ConnectionInv, [Next]_vars PROVE TypeOK'
    OBVIOUS
<1>1. CASE App \/ AppCalls BY <1>1, AppType
<1>2. ASSUME NEW g \in Gens, Generator(g) PROVE TypeOK' BY <1>2, GeneratorType
<1>3. ASSUME NEW g \in Gens, Receive(g) \/ RecvNext(g) \/ ServerEnds(g) PROVE TypeOK'
  BY <1>3, ReceiveType
<1>4. CASE UNCHANGED vars BY <1>4 DEF vars, appVars, genVars, recvVars, TypeOK
<1> QED BY <1>1, <1>2, <1>3, <1>4 DEF Next

-----------------------------------------------------------------------------
(* Who touches what.                                                       *)

\* A generator concerns its own message, and the queues.
LEMMA GeneratorFrame ==
    ASSUME TypeOK, NEW g \in Gens, Generator(g)
    PROVE  /\ gen[g] # "off"
           /\ UNCHANGED <<app, cur, stream, runEvent, checked, got, sendCount>>
           /\ UNCHANGED <<recvQ, recv, inCount, ended>>
           /\ \A h \in Gens \ {g} : /\ gen'[h] = gen[h] /\ target'[h] = target[h]
                                    /\ item'[h] = item[h] /\ wire'[h] = wire[h]
<1> USE DEF TypeOK, GenAt, appVars, recvVars
<1>1. CASE GenTest(g) BY <1>1 DEF GenTest
<1>2. CASE GenTake(g) BY <1>2 DEF GenTake
<1>3. CASE GenEmpty(g) BY <1>3 DEF GenEmpty
<1>4. CASE GenHook(g) BY <1>4 DEF GenHook
<1>5. CASE GenYield(g) BY <1>5 DEF GenYield
<1>6. CASE GenResume(g) BY <1>6 DEF GenResume
<1>7. CASE GenDropped(g) BY <1>7 DEF GenDropped
<1>8. CASE GenTaskDone(g) BY <1>8 DEF GenTaskDone
<1>9. CASE GenDrain(g) BY <1>9 DEF GenDrain
<1> QED BY <1>1, <1>2, <1>3, <1>4, <1>5, <1>6, <1>7, <1>8, <1>9 DEF Generator

\* A receive thread concerns its own responses, and the queue of the current connection.
LEMMA ReceiveFrame ==
    ASSUME TypeOK, NEW g \in Gens, Receive(g) \/ RecvNext(g) \/ ServerEnds(g)
    PROVE  /\ UNCHANGED <<app, cur, stream, runEvent, checked, got, sendCount>>
           /\ UNCHANGED <<sendQ, unfinished, gen, target, item, wire>>
           /\ \A h \in Gens \ {g} : recv'[h] = recv[h] /\ inCount'[h] = inCount[h]
<1> USE DEF TypeOK, RecvAt, appVars, genVars, recvVars
<1>1. CASE RecvFirst(g) BY <1>1 DEF RecvFirst
<1>2. CASE RecvHook(g) BY <1>2 DEF RecvHook
<1>3. CASE RecvPut(g) BY <1>3 DEF RecvPut
<1>4. CASE RecvEnd(g) BY <1>4 DEF RecvEnd
<1>5. CASE RecvError(g) BY <1>5 DEF RecvError
<1>6. CASE RecvNext(g) BY <1>6 DEF RecvNext
<1>7. CASE ServerEnds(g) BY <1>7 DEF ServerEnds
<1> QED BY <1>1, <1>2, <1>3, <1>4, <1>5, <1>6, <1>7 DEF Receive

-----------------------------------------------------------------------------
(* Connections.                                                            *)

\* Whoever has a client, or is making one, has a connection.
LEMMA HasConnection ==
    ASSUME TypeOK, ConnectionInv, Constructed \/ app # "idle" \/ runEvent PROVE cur \in Gens
<1>1. MaxGen \in Nat /\ cur \in 0..MaxGen BY ConstantsAssumption DEF TypeOK
<1>2. CASE Constructed
  <2>1. 1 \in 1..cur BY <1>2 DEF Constructed, ConnectionInv
  <2> QED BY <1>1, <2>1 DEF Gens
<1>3. CASE app # "idle" \/ runEvent BY <1>3 DEF ConnectionInv
<1> QED BY <1>2, <1>3

\* Nothing is begun for a connection but by SetupConnection.
LEMMA ConnectionStep == TypeOK /\ ConnectionInv /\ [Next]_vars => ConnectionInv'
<1> SUFFICES ASSUME TypeOK, ConnectionInv, [Next]_vars PROVE ConnectionInv'
    OBVIOUS
<1> USE DEF AppAt, GenAt, RecvAt, appVars, genVars, recvVars, Gens, Constructed
<1>0. MaxGen \in Nat /\ cur \in Nat BY ConstantsAssumption DEF TypeOK
<1>1. CASE SetupConnection
  <2>1. /\ cur' = cur + 1 /\ cur' \in Gens
        /\ UNCHANGED <<checked, sendQ, recvQ, gen, target, recv>>
    BY <1>0, <1>1 DEF SetupConnection
  <2> QED BY <1>0, <2>1 DEF ConnectionInv
<1>2. CASE ConnectTimeout \/ CheckTimeout \/ WaitDone \/ QueueJoined \/ Disconnect
           \/ ThreadJoined \/ ClearRunEvent \/ CancelStream
  <2>1. UNCHANGED <<cur, checked, sendQ, recvQ, gen, target, recv>>
    BY <1>2 DEF ConnectTimeout, CheckTimeout, WaitDone, QueueJoined, Disconnect, ThreadJoined,
                ClearRunEvent, CancelStream
  <2>2. app' # "idle" \/ runEvent' => cur \in Gens
    BY <1>0, <1>2 DEF ConnectTimeout, CheckTimeout, WaitDone, QueueJoined, Disconnect, ThreadJoined,
                ClearRunEvent, CancelStream, ConnectionInv
  <2> QED BY <2>1, <2>2 DEF ConnectionInv
<1>3. CASE OpenStream
  <2>1. cur \in Gens BY <1>3 DEF OpenStream, ConnectionInv
  <2>2. /\ \A g \in Gens : gen'[g] # "off" => g <= cur
        /\ \A g \in Gens : gen'[g] = "wait" => gen[g] = "wait"
    BY <1>3, <2>1 DEF OpenStream, ConnectionInv, TypeOK
  <2>3. UNCHANGED <<cur, checked, sendQ, recvQ, target, recv, runEvent>> BY <1>3 DEF OpenStream
  <2> QED BY <2>1, <2>2, <2>3 DEF ConnectionInv
<1>4. CASE PutFirst
  <2>1. cur \in Gens BY <1>4 DEF PutFirst, ConnectionInv
  <2>2. \A g \in Gens : recv'[g] # "off" => g <= cur
    BY <1>4, <2>1 DEF PutFirst, ConnectionInv, TypeOK
  <2>3. \A g \in Gens : g > cur => sendQ'[g] = sendQ[g] BY <1>4, <2>1 DEF PutFirst
  <2>4. UNCHANGED <<cur, checked, recvQ, gen, target, runEvent>> BY <1>4 DEF PutFirst
  <2> QED BY <2>1, <2>2, <2>3, <2>4 DEF ConnectionInv
<1>5. CASE CheckConnection \/ GetData
  <2>1. cur \in Gens BY <1>5, HasConnection DEF CheckConnection, GetData
  <2>2. \A g \in Gens : g > cur => recvQ'[g] = recvQ[g]
    <3>1. recvQ' = [recvQ EXCEPT ![cur] = Tail(@)] BY <1>5 DEF CheckConnection, GetData
    <3> QED BY <1>0, <2>1, <3>1 DEF TypeOK
  <2>3. checked' \subseteq 1..cur
    <3>1. checked' \subseteq checked \cup {cur} BY <1>5 DEF CheckConnection, GetData
    <3> QED BY <1>0, <2>1, <3>1 DEF ConnectionInv
  <2>4. UNCHANGED <<cur, sendQ, gen, target, recv, runEvent>>
    BY <1>5 DEF CheckConnection, GetData
  <2> QED BY <2>1, <2>2, <2>3, <2>4 DEF ConnectionInv
<1>6. CASE SendData
  <2>1. cur \in Gens BY <1>6, HasConnection DEF SendData
  <2>2. \A g \in Gens : g > cur => sendQ'[g] = sendQ[g] BY <1>6, <2>1 DEF SendData
  <2>3. UNCHANGED <<app, cur, checked, recvQ, gen, target, recv, runEvent>> BY <1>6 DEF SendData
  <2> QED BY <2>1, <2>2, <2>3 DEF ConnectionInv
<1>7. ASSUME NEW g \in Gens, Generator(g) PROVE ConnectionInv'
  <2>0. UNCHANGED <<app, cur, checked, recvQ, recv, runEvent>> BY <1>7, GeneratorFrame
  <2>1. gen[g] # "off" /\ cur \in Gens /\ g <= cur
    <3>1. gen[g] # "off" BY <1>7, GeneratorFrame
    <3>2. g <= cur BY <3>1 DEF ConnectionInv
    <3>3. g \in 1..MaxGen /\ cur \in 0..MaxGen BY DEF TypeOK
    <3> QED BY <1>0, <3>1, <3>2, <3>3
  <2>2. \A h \in Gens \ {g} : gen'[h] = gen[h] /\ target'[h] = target[h] BY <1>7, GeneratorFrame
  <2>3. gen'[g] = "wait" => target'[g] = cur
    BY <1>7 DEF TypeOK, Generator, GenTest, GenTake, GenEmpty, GenHook, GenYield, GenResume,
                GenDropped, GenTaskDone, GenDrain
  <2>4. \A h \in Gens : h > cur => sendQ'[h] = sendQ[h]
    <3>1. CASE GenTake(g)
      <4>1. target[g] \in 1..cur BY <3>1 DEF GenTake, ConnectionInv
      <4> QED BY <1>0, <3>1, <4>1 DEF GenTake
    <3>2. CASE ~GenTake(g)
      BY <1>7, <3>2 DEF Generator, GenTest, GenEmpty, GenHook, GenYield, GenResume, GenDropped,
                        GenTaskDone, GenDrain
    <3> QED BY <3>1, <3>2
  <2>5. \A h \in Gens : gen'[h] # "off" => h <= cur BY <2>1, <2>2 DEF ConnectionInv
  <2>6. \A h \in Gens : gen'[h] = "wait" => target'[h] \in 1..cur
    BY <1>0, <2>1, <2>2, <2>3 DEF ConnectionInv
  <2> QED BY <2>0, <2>4, <2>5, <2>6 DEF ConnectionInv
<1>8. ASSUME NEW g \in Gens, Receive(g) \/ RecvNext(g) \/ ServerEnds(g) PROVE ConnectionInv'
  <2>0. UNCHANGED <<app, cur, checked, sendQ, gen, target, runEvent>> BY <1>8, ReceiveFrame
  <2>1. \A h \in Gens : recv'[h] # "off" => recv[h] # "off"
    <3>1. \/ UNCHANGED recv
          \/ recv[g] # "off" /\ \E to : recv' = [recv EXCEPT ![g] = to]
      BY <1>8 DEF Receive, RecvFirst, RecvHook, RecvPut, RecvEnd, RecvError, RecvNext, ServerEnds
    <3> QED BY <3>1 DEF TypeOK
  <2>2. \A h \in Gens : h > cur => recvQ'[h] = recvQ[h]
    <3>1. \/ UNCHANGED recvQ
          \/ \E m : recvQ' = [recvQ EXCEPT ![cur] = Append(@, m)]
      BY <1>8 DEF Receive, RecvFirst, RecvHook, RecvPut, RecvEnd, RecvError, RecvNext, ServerEnds
    <3> QED BY <1>0, <3>1 DEF TypeOK
  <2> QED BY <2>0, <2>1, <2>2 DEF ConnectionInv
<1>9. CASE UNCHANGED vars BY <1>9 DEF vars, ConnectionInv
<1> QED BY <1>1, <1>2, <1>3, <1>4, <1>5, <1>6, <1>7, <1>8, <1>9 DEF Next, App, AppCalls

\* A connection is begun only when no stream is up.
LEMMA StreamStep == TypeOK /\ StreamInv /\ [Next]_vars => StreamInv'
<1> SUFFICES ASSUME TypeOK, StreamInv, [Next]_vars PROVE StreamInv'
    OBVIOUS
<1> USE DEF AppAt, appVars, genVars, recvVars, Up
<1>1. CASE App
  <2>1. CASE OpenStream BY <2>1 DEF OpenStream, StreamInv, TypeOK
  <2>2. CASE CancelStream BY <2>2 DEF CancelStream, StreamInv, TypeOK
  <2>3. CASE ClearRunEvent BY <2>3 DEF ClearRunEvent, StreamInv
  <2>4. CASE ConnectTimeout \/ PutFirst \/ CheckTimeout \/ QueueJoined \/ ThreadJoined
    BY <2>4 DEF ConnectTimeout, PutFirst, CheckTimeout, QueueJoined, ThreadJoined, StreamInv
  <2>5. CASE CheckConnection BY <2>5 DEF CheckConnection, StreamInv
  <2> QED BY <1>1, <2>1, <2>2, <2>3, <2>4, <2>5 DEF App
<1>2. CASE AppCalls
  BY <1>2 DEF AppCalls, SetupConnection, SendData, WaitDone, GetData, Disconnect, StreamInv
<1>3. ASSUME NEW g \in Gens, Generator(g) PROVE StreamInv' BY <1>3, GeneratorFrame DEF StreamInv
<1>4. ASSUME NEW g \in Gens, Receive(g) \/ RecvNext(g) PROVE StreamInv'
  <2>1. UNCHANGED ended
    BY <1>4 DEF Receive, RecvFirst, RecvHook, RecvPut, RecvEnd, RecvError, RecvNext
  <2> QED BY <1>4, <2>1, ReceiveFrame DEF StreamInv
<1>5. ASSUME NEW g \in Gens, ServerEnds(g) PROVE StreamInv' BY <1>5 DEF ServerEnds, StreamInv, TypeOK
<1>6. CASE UNCHANGED vars BY <1>6 DEF vars, StreamInv
<1> QED BY <1>1, <1>2, <1>3, <1>4, <1>5, <1>6 DEF Next

-----------------------------------------------------------------------------
(* Messages.                                                               *)

\* A message put into a sequence that did not hold it.
LEMMA AppendItem ==
    ASSUME NEW s \in Seq(Items), NEW m \in Items
    PROVE  /\ Range(Append(s, m)) = Range(s) \cup {m}
           /\ IsInjective(s) /\ m \notin Range(s) => IsInjective(Append(s, m))
           /\ Ascending(s) /\ Before(Range(s), {m}) => Ascending(Append(s, m))
<1> DEFINE t == Append(s, m)
<1>1. PICK l \in Nat : l = Len(s) BY LenProperties
<1>2. /\ t \in Seq(Items) /\ Len(t) = l + 1
      /\ \A i \in 1..l : t[i] = s[i]
      /\ t[l + 1] = m
  BY <1>1, AppendProperties
<1>3. DOMAIN s = 1..l /\ DOMAIN t = 1..(l + 1) BY <1>1, <1>2, LenProperties
<1> HIDE DEF t
<1>4. \A i \in 1..(l + 1) : i \in 1..l \/ i = l + 1 BY <1>1
<1>5. \A i \in 1..l : i \in 1..(l + 1) BY <1>1
<1>6. Range(s) = {s[i] : i \in 1..l} /\ Range(t) = {t[i] : i \in 1..(l + 1)} BY <1>3 DEF Range
<1>7. Range(t) = Range(s) \cup {m}
  <2>1. l + 1 \in 1..(l + 1) BY <1>1
  <2> QED BY <1>2, <1>4, <1>5, <1>6, <2>1
<1>8. ASSUME IsInjective(s), m \notin Range(s) PROVE IsInjective(t)
  <2> SUFFICES ASSUME NEW i \in 1..(l + 1), NEW j \in 1..(l + 1), t[i] = t[j] PROVE i = j
      BY <1>3 DEF IsInjective
  <2>1. \A k \in 1..l : t[k] # m BY <1>2, <1>6, <1>8
  <2> QED BY <1>2, <1>3, <1>4, <1>8, <2>1 DEF IsInjective
<1>9. ASSUME Ascending(s), Before(Range(s), {m}) PROVE Ascending(t)
  <2> SUFFICES ASSUME NEW i \in 1..(l + 1), NEW j \in 1..(l + 1), i < j,
                      t[i].kind = "data", t[j].kind = "data"
               PROVE  t[i].n < t[j].n
      BY <1>2 DEF Ascending
  <2>1. i \in 1..l BY <1>1
  <2>2. CASE j \in 1..l BY <1>1, <1>2, <1>9, <2>1, <2>2 DEF Ascending
  <2>3. CASE j = l + 1 BY <1>2, <1>6, <1>9, <2>1, <2>3 DEF Before
  <2> QED BY <1>4, <2>2, <2>3
<1> QED BY <1>7, <1>8, <1>9 DEF t

\* The message taken from the front of a sequence.
LEMMA TakeItem ==
    ASSUME NEW s \in Seq(Items), s # <<>>
    PROVE  /\ Head(s) \in Range(s)
           /\ Range(Tail(s)) \subseteq Range(s)
           /\ IsInjective(s) => IsInjective(Tail(s)) /\ Head(s) \notin Range(Tail(s))
           /\ Ascending(s) => Ascending(Tail(s)) /\ Before({Head(s)}, Range(Tail(s)))
<1> DEFINE t == Tail(s)
<1>1. PICK l \in Nat : l = Len(s) /\ l > 0 BY EmptySeq
<1>2. /\ t \in Seq(Items) /\ Len(t) = l - 1
      /\ \A i \in 1..(l - 1) : t[i] = s[i + 1]
  BY <1>1, HeadTailProperties
<1>3. DOMAIN s = 1..l /\ DOMAIN t = 1..(l - 1) BY <1>1, <1>2, LenProperties
<1>4. Head(s) = s[1] /\ 1 \in 1..l BY <1>1
<1> HIDE DEF t
<1>5. \A i \in 1..(l - 1) : i + 1 \in 1..l /\ i + 1 # 1 BY <1>1
<1>6. Range(s) = {s[i] : i \in 1..l} /\ Range(t) = {t[i] : i \in 1..(l - 1)} BY <1>3 DEF Range
<1>7. Head(s) \in Range(s) /\ Range(t) \subseteq Range(s) BY <1>2, <1>4, <1>5, <1>6
<1>8. ASSUME IsInjective(s) PROVE IsInjective(t) /\ Head(s) \notin Range(t)
  <2>1. ASSUME NEW i \in 1..(l - 1), NEW j \in 1..(l - 1), t[i] = t[j] PROVE i = j
    <3>1. i + 1 = j + 1 BY <1>2, <1>3, <1>5, <1>8, <2>1 DEF IsInjective
    <3> QED BY <3>1
  <2>2. \A i \in 1..(l - 1) : t[i] # s[1]
    BY <1>2, <1>3, <1>4, <1>5, <1>8 DEF IsInjective
  <2>3. IsInjective(t) BY <1>3, <2>1 DEF IsInjective
  <2> QED BY <1>4, <1>6, <2>2, <2>3
<1>9. ASSUME Ascending(s) PROVE Ascending(t) /\ Before({Head(s)}, Range(t))
  <2>1. ASSUME NEW i \in 1..(l - 1), NEW j \in 1..(l - 1), i < j,
               t[i].kind = "data", t[j].kind = "data"
        PROVE  t[i].n < t[j].n
    <3>1. i + 1 < j + 1 BY <2>1
    <3> QED BY <1>1, <1>2, <1>5, <1>9, <2>1, <3>1 DEF Ascending
  <2>2. ASSUME NEW i \in 1..(l - 1), s[1].kind = "data", t[i].kind = "data"
        PROVE  s[1].n < t[i].n
    <3>1. 1 < i + 1 OBVIOUS
    <3> QED BY <1>1, <1>2, <1>4, <1>5, <1>9, <2>2, <3>1 DEF Ascending
  <2>3. Ascending(t) BY <1>2, <2>1 DEF Ascending
  <2> QED BY <1>4, <1>6, <2>2, <2>3 DEF Before
<1> QED BY <1>7, <1>8, <1>9 DEF t

\* What was sent stays sent.
LEMMA WasSentStep ==
    ASSUME TypeOK, [Next]_vars, NEW m \in Items, WasSent(m) PROVE WasSent(m)'
<1> USE DEF WasSent, AppAt, appVars, genVars, recvVars
<1>0. m.of \in Nat /\ m.n \in Nat /\ cur \in Nat /\ sendCount \in Nat
  BY ConstantsAssumption DEF TypeOK, Items
<1>1. CASE App
  <2>1. UNCHANGED <<cur, sendCount>>
    BY <1>1 DEF App, ConnectTimeout, OpenStream, PutFirst, CheckConnection, CheckTimeout, QueueJoined,
                ClearRunEvent, CancelStream, ThreadJoined
  <2>2. app' \in {"connect", "first"} => app = "connect"
    BY <1>1 DEF App, ConnectTimeout, OpenStream, PutFirst, CheckConnection, CheckTimeout, QueueJoined,
                ClearRunEvent, CancelStream, ThreadJoined
  <2> QED BY <1>0, <2>1, <2>2
<1>2. CASE SetupConnection BY <1>0, <1>2 DEF SetupConnection
<1>3. CASE SendData BY <1>0, <1>3 DEF SendData
<1>4. CASE WaitDone \/ GetData \/ Disconnect BY <1>0, <1>4 DEF WaitDone, GetData, Disconnect
<1>5. ASSUME NEW g \in Gens, Generator(g) PROVE WasSent(m)' BY <1>5, GeneratorFrame
<1>6. ASSUME NEW g \in Gens, Receive(g) \/ RecvNext(g) \/ ServerEnds(g) PROVE WasSent(m)'
  BY <1>6, ReceiveFrame
<1>7. CASE UNCHANGED vars BY <1>7 DEF vars
<1> QED BY <1>1, <1>2, <1>3, <1>4, <1>5, <1>6, <1>7 DEF Next, AppCalls

\* What is queued, held or yielded is a message.
LEMMA MessageTypes ==
    ASSUME TypeOK, NEW g \in Gens
    PROVE  /\ Range(sendQ[g]) \subseteq Items /\ Held(g) \subseteq Items
           /\ Range(wire[g]) \subseteq Items
<1>1. \A s \in Seq(Items) : Range(s) \subseteq Items BY RangeOfSeq
<1> QED BY <1>1 DEF TypeOK, Held

\* Nothing is queued or yielded, something held may be dropped, and the queues a generator
\* can still take from become fewer.
LEMMA MessagesStay ==
    ASSUME TypeOK, UniqueInv, OrderInv, [Next]_vars, UNCHANGED <<sendQ, wire>>,
           \A g \in Gens : Held(g)' \subseteq Held(g) /\ From(g)' \in Nat /\ From(g) <= From(g)'
    PROVE  UniqueInv' /\ OrderInv'
<1>1. ASSUME NEW g \in Gens, NEW m \in Range(sendQ[g]) \cup Held(g)' \cup Range(wire[g])
      PROVE  WasSent(m)'
  <2>1. m \in Range(sendQ[g]) \cup Held(g) \cup Range(wire[g]) OBVIOUS
  <2>2. WasSent(m) BY <2>1 DEF UniqueInv
  <2>3. m \in Items BY <2>1, MessageTypes
  <2> QED BY <2>2, <2>3, WasSentStep
<1>2. ASSUME NEW g \in Gens, NEW h \in Gens
      PROVE  /\ Range(sendQ[g]) \cap (Held(h)' \cup Range(wire[h])) = {}
             /\ Held(g)' \cap Range(wire[h]) = {}
             /\ g # h => /\ Range(sendQ[g]) \cap Range(sendQ[h]) = {}
                         /\ Held(g)' \cap Held(h)' = {}
                         /\ Range(wire[g]) \cap Range(wire[h]) = {}
  BY DEF UniqueInv
<1>3. UniqueInv' BY <1>1, <1>2 DEF UniqueInv
<1>4. ASSUME NEW g \in Gens, NEW h \in Gens, From(g)' <= h
      PROVE  Before(Held(g)' \cup Range(wire[g]), Range(sendQ[h]))
  <2>1. From(g) \in Nat /\ h \in Nat
    BY ConstantsAssumption DEF From, TypeOK, Gens
  <2>2. From(g) <= h BY <1>4, <2>1
  <2> QED BY <2>2 DEF OrderInv, Before
<1>5. \A g \in Gens : Before(Range(wire[g]), Held(g)') BY DEF OrderInv, Before
<1>6. OrderInv' BY <1>4, <1>5 DEF OrderInv
<1> QED BY <1>3, <1>6

\* A message that was not sent before everything that was is queued on the current connection.
LEMMA MessageQueued ==
    ASSUME TypeOK, ConnectionInv, UniqueInv, OrderInv, [Next]_vars, cur \in Gens,
           NEW x \in Items, ~WasSent(x), WasSent(x)',
           \A m \in Items : WasSent(m) => Before({m}, {x}),
           sendQ' = [sendQ EXCEPT ![cur] = Append(@, x)], UNCHANGED <<cur, gen, target, item, wire>>
    PROVE  UniqueInv' /\ OrderInv'
<1>1. \A g \in Gens : Held(g)' = Held(g) /\ From(g)' = From(g) BY DEF Held, From
<1>2. PICK c \in Gens : c = cur OBVIOUS
<1>3. PICK s \in Seq(Items) : s = sendQ[c] BY DEF TypeOK
<1>4. \A g \in Gens \ {c} : sendQ'[g] = sendQ[g] BY <1>2 DEF TypeOK
<1>5. sendQ'[c] = Append(s, x) BY <1>2, <1>3 DEF TypeOK
<1>6. \A g \in Gens : x \notin Range(sendQ[g]) \cup Held(g) \cup Range(wire[g]) BY DEF UniqueInv
<1>7. Range(sendQ'[c]) = Range(sendQ[c]) \cup {x} BY <1>3, <1>5, AppendItem
<1>8. IsInjective(sendQ'[c])
  <2>1. IsInjective(s) /\ x \notin Range(s) BY <1>3, <1>6 DEF UniqueInv
  <2> QED BY <1>5, <2>1, AppendItem
<1>9. ASSUME NEW g \in Gens, NEW m \in Range(sendQ[g]) \cup Held(g) \cup Range(wire[g])
      PROVE  WasSent(m)' /\ Before({m}, {x})
  <2>1. WasSent(m) BY DEF UniqueInv
  <2>2. m \in Items BY MessageTypes
  <2> QED BY <2>1, <2>2, WasSentStep
<1>10. ASSUME NEW g \in Gens, NEW h \in Gens
       PROVE  /\ Range(sendQ'[g]) \cap (Held(h) \cup Range(wire[h])) = {}
              /\ g # h => Range(sendQ'[g]) \cap Range(sendQ'[h]) = {}
  <2>1. /\ Range(sendQ[g]) \cap (Held(h) \cup Range(wire[h])) = {}
        /\ g # h => Range(sendQ[g]) \cap Range(sendQ[h]) = {}
    BY DEF UniqueInv
  <2>2. \A k \in {g, h} : \/ Range(sendQ'[k]) = Range(sendQ[k])
                          \/ k = c /\ Range(sendQ'[k]) = Range(sendQ[k]) \cup {x}
    BY <1>4, <1>7
  <2>3. x \notin Held(h) \cup Range(wire[h]) \cup Range(sendQ[g]) \cup Range(sendQ[h]) BY <1>6
  <2> QED BY <2>1, <2>2, <2>3
<1>11. ASSUME NEW g \in Gens, NEW m \in Range(sendQ'[g]) \cup Held(g) \cup Range(wire[g])
       PROVE  WasSent(m)'
  BY <1>4, <1>7, <1>9
<1>12. ASSUME NEW g \in Gens PROVE IsInjective(sendQ'[g]) BY <1>4, <1>8 DEF UniqueInv
<1>13. UniqueInv'
  <2>1. \A g \in Gens, h \in Gens :
          /\ Held(g)' \cap Range(wire'[h]) = {}
          /\ g # h => Held(g)' \cap Held(h)' = {} /\ Range(wire'[g]) \cap Range(wire'[h]) = {}
    BY <1>1 DEF UniqueInv
  <2>2. \A g \in Gens, h \in Gens :
          /\ Range(sendQ'[g]) \cap (Held(h)' \cup Range(wire'[h])) = {}
          /\ g # h => Range(sendQ'[g]) \cap Range(sendQ'[h]) = {}
    BY <1>1, <1>10
  <2>3. \A g \in Gens : IsInjective(sendQ'[g]) /\ IsInjective(wire'[g]) BY <1>12 DEF UniqueInv
  <2>4. \A g \in Gens : \A m \in Range(sendQ'[g]) \cup Held(g)' \cup Range(wire'[g]) : WasSent(m)'
    BY <1>1, <1>11
  <2> QED BY <2>1, <2>2, <2>3, <2>4 DEF UniqueInv
<1>14. Ascending(sendQ'[c])
  <2>1. Ascending(s) BY <1>3 DEF OrderInv
  <2>2. Before(Range(s), {x}) BY <1>3, <1>9 DEF Before
  <2> QED BY <1>5, <2>1, <2>2, AppendItem
<1>15. \A h \in Gens : h > c => Range(sendQ[h]) = {}
  <2>1. Range(<<>>) = {} BY DEF Range
  <2> QED BY <1>2, <2>1 DEF ConnectionInv
<1>16. ASSUME NEW g \in Gens, NEW h \in Gens, g < h
       PROVE  Before(Range(sendQ'[g]), Range(sendQ'[h]))
  <2>1. Before(Range(sendQ[g]), Range(sendQ[h])) BY <1>16 DEF OrderInv
  <2>2. CASE g = c
    <3>0. h > c /\ h # c BY <1>16, <2>2 DEF Gens
    <3>1. Range(sendQ'[h]) = {} BY <1>4, <1>15, <3>0
    <3> QED BY <3>1 DEF Before
  <2>3. CASE g # c /\ h = c
    <3>1. Range(sendQ'[g]) = Range(sendQ[g]) /\ Range(sendQ'[h]) = Range(sendQ[h]) \cup {x}
      BY <1>4, <1>7, <2>3
    <3>2. Before(Range(sendQ[g]), {x}) BY <1>9 DEF Before
    <3> QED BY <2>1, <3>1, <3>2 DEF Before
  <2>4. CASE g # c /\ h # c BY <1>4, <2>1, <2>4
  <2> QED BY <2>2, <2>3, <2>4
<1>17. ASSUME NEW g \in Gens, NEW h \in Gens, From(g) <= h
       PROVE  Before(Held(g) \cup Range(wire[g]), Range(sendQ'[h]))
  <2>1. Before(Held(g) \cup Range(wire[g]), Range(sendQ[h])) BY <1>17 DEF OrderInv
  <2>2. Before(Held(g) \cup Range(wire[g]), {x}) BY <1>9 DEF Before
  <2>3. Range(sendQ'[h]) \subseteq Range(sendQ[h]) \cup {x} BY <1>4, <1>7
  <2> QED BY <2>1, <2>2, <2>3 DEF Before
<1>18. \A g \in Gens : Ascending(sendQ'[g]) BY <1>4, <1>14 DEF OrderInv
<1>19. OrderInv' BY <1>1, <1>16, <1>17, <1>18 DEF OrderInv
<1> QED BY <1>13, <1>19

\* A generator takes the next message of the queue it is blocked on.
LEMMA MessageTaken ==
    ASSUME TypeOK, ConnectionInv, UniqueInv, OrderInv, [Next]_vars, NEW g \in Gens, GenTake(g)
    PROVE  UniqueInv' /\ OrderInv'
<1>1. PICK c \in Gens : c = target[g] /\ c <= cur
  BY DEF GenTake, GenAt, ConnectionInv, Gens, TypeOK
<1>2. PICK s \in Seq(Items) : s = sendQ[c] /\ s # <<>> BY <1>1 DEF GenTake, TypeOK
<1>3. PICK x \in Items : x = Head(s) BY <1>2, HeadTailProperties
<1>4. /\ \A h \in Gens \ {c} : sendQ'[h] = sendQ[h]
      /\ sendQ'[c] = Tail(s)
  <2>1. sendQ' = [sendQ EXCEPT ![c] = Tail(@)] BY <1>1 DEF GenTake
  <2> QED BY <1>2, <2>1 DEF TypeOK
<1>5. /\ gen[g] = "wait" /\ gen'[g] = "hook" /\ item'[g] = x
      /\ UNCHANGED <<cur, wire>>
  BY <1>1, <1>2, <1>3 DEF GenTake, GenAt, TypeOK, appVars
<1>6. \A h \in Gens \ {g} : gen'[h] = gen[h] /\ item'[h] = item[h] /\ target'[h] = target[h]
  BY GeneratorFrame DEF Generator
<1>7. /\ Held(g) = {} /\ Held(g)' = {x}
      /\ From(g) = c /\ From(g)' = cur
  BY <1>1, <1>5 DEF Held, From
<1>8. \A h \in Gens \ {g} : Held(h)' = Held(h) /\ From(h)' = From(h) BY <1>5, <1>6 DEF Held, From
<1>9. /\ x \in Range(s) /\ Range(Tail(s)) \subseteq Range(s)
      /\ IsInjective(Tail(s)) /\ x \notin Range(Tail(s))
      /\ Ascending(Tail(s)) /\ Before({x}, Range(Tail(s)))
  <2>1. IsInjective(s) /\ Ascending(s) BY <1>2 DEF UniqueInv, OrderInv
  <2> QED BY <1>2, <1>3, <2>1, TakeItem
<1>10. \A h \in Gens : Range(sendQ'[h]) \subseteq Range(sendQ[h]) /\ x \notin Range(sendQ'[h])
  BY <1>2, <1>4, <1>9 DEF UniqueInv
<1>11. x \in Range(sendQ[c]) BY <1>2, <1>9
<1>12. ASSUME NEW h \in Gens, NEW m \in Range(sendQ'[h]) \cup Held(h)' \cup Range(wire[h])
       PROVE  WasSent(m)'
  <2>1. WasSent(m) /\ m \in Items
    <3>1. CASE m = x BY <1>11, <3>1 DEF UniqueInv
    <3>2. CASE m # x
      <4>1. m \in Range(sendQ[h]) \cup Held(h) \cup Range(wire[h])
        BY <1>7, <1>8, <1>10, <3>2
      <4> QED BY <4>1, MessageTypes DEF UniqueInv
    <3> QED BY <3>1, <3>2
  <2> QED BY <2>1, WasSentStep
<1>13. \A h \in Gens : x \notin Held(h) \cup Range(wire[h]) BY <1>11 DEF UniqueInv
<1>14. ASSUME NEW h \in Gens, NEW k \in Gens
       PROVE  /\ Range(sendQ'[h]) \cap (Held(k)' \cup Range(wire[k])) = {}
              /\ Held(h)' \cap Range(wire[k]) = {}
              /\ h # k => /\ Range(sendQ'[h]) \cap Range(sendQ'[k]) = {}
                          /\ Held(h)' \cap Held(k)' = {}
  <2>1. /\ Range(sendQ[h]) \cap (Held(k) \cup Range(wire[k])) = {}
        /\ Held(h) \cap Range(wire[k]) = {}
        /\ h # k => /\ Range(sendQ[h]) \cap Range(sendQ[k]) = {}
                    /\ Held(h) \cap Held(k) = {}
    BY DEF UniqueInv
  <2>2. /\ IF h = g THEN Held(h)' = {x} ELSE Held(h)' = Held(h)
        /\ IF k = g THEN Held(k)' = {x} ELSE Held(k)' = Held(k)
    BY <1>7, <1>8
  <2>3. x \notin Range(sendQ'[h]) \cup Held(h) \cup Held(k) \cup Range(wire[k]) BY <1>10, <1>13
  <2>4. Range(sendQ'[h]) \subseteq Range(sendQ[h]) /\ Range(sendQ'[k]) \subseteq Range(sendQ[k])
    BY <1>10
  <2> QED BY <2>1, <2>2, <2>3, <2>4
<1>15. \A h \in Gens : IsInjective(sendQ'[h]) BY <1>4, <1>9 DEF UniqueInv
<1>16. UniqueInv' BY <1>5, <1>12, <1>14, <1>15 DEF UniqueInv
<1>17. \A h \in Gens : Ascending(sendQ'[h]) BY <1>4, <1>9 DEF OrderInv
<1>18. \A h \in Gens : Before(Range(wire[h]), Held(h)')
  <2>1. From(g) <= c BY <1>1, <1>7 DEF Gens
  <2>2. Before(Range(wire[g]), {x}) BY <1>11, <2>1 DEF OrderInv, Before
  <2> QED BY <1>7, <1>8, <2>2 DEF OrderInv
<1>19. ASSUME NEW h \in Gens, NEW k \in Gens, h < k
       PROVE  Before(Range(sendQ'[h]), Range(sendQ'[k]))
  BY <1>10, <1>19 DEF OrderInv, Before
<1>20. ASSUME NEW h \in Gens, NEW k \in Gens, From(h)' <= k
       PROVE  Before(Held(h)' \cup Range(wire[h]), Range(sendQ'[k]))
  <2>1. CASE h = g
    <3>1. From(g) <= k /\ c <= k BY <1>1, <1>7, <1>20, <2>1, ConstantsAssumption DEF Gens, TypeOK
    <3>2. Before(Range(wire[g]), Range(sendQ[k])) BY <3>1 DEF OrderInv, Before
    <3>3. Before({x}, Range(sendQ'[k]))
      <4>1. CASE k = c BY <1>4, <1>9, <4>1
      <4>2. CASE k # c
        <5>1. c < k BY <3>1, <4>2 DEF Gens
        <5>2. Before(Range(sendQ[c]), Range(sendQ[k])) BY <5>1 DEF OrderInv
        <5> QED BY <1>10, <1>11, <5>2 DEF Before
      <4> QED BY <4>1, <4>2
    <3> QED BY <1>7, <1>10, <2>1, <3>2, <3>3 DEF Before
  <2>2. CASE h # g
    <3>1. Before(Held(h) \cup Range(wire[h]), Range(sendQ[k])) BY <1>8, <1>20, <2>2 DEF OrderInv
    <3> QED BY <1>8, <1>10, <2>2, <3>1 DEF Before
  <2> QED BY <2>1, <2>2
<1>21. OrderInv' BY <1>5, <1>17, <1>18, <1>19, <1>20 DEF OrderInv
<1> QED BY <1>16, <1>21

\* A generator yields the message it holds into its own stream.
LEMMA MessageYielded ==
    ASSUME TypeOK, UniqueInv, OrderInv, [Next]_vars, NEW g \in Gens, GenYield(g)
    PROVE  UniqueInv' /\ OrderInv'
<1>1. PICK x \in Items : x = item[g] BY DEF TypeOK
<1>2. PICK w \in Seq(Items) : w = wire[g] BY DEF TypeOK
<1>3. /\ gen[g] = "yield" /\ gen'[g] = "sent"
      /\ wire'[g] = Append(w, x)
      /\ UNCHANGED <<cur, sendQ, target>>
  BY <1>1, <1>2 DEF GenYield, GenAt, TypeOK, appVars
<1>4. \A h \in Gens \ {g} : gen'[h] = gen[h] /\ item'[h] = item[h] /\ wire'[h] = wire[h]
  BY GeneratorFrame DEF Generator
<1>5. Held(g) = {x} /\ Held(g)' = {} BY <1>1, <1>3 DEF Held
<1>6. /\ \A h \in Gens \ {g} : Held(h)' = Held(h)
      /\ \A h \in Gens : From(h)' = From(h)
  BY <1>3, <1>4 DEF Held, From
<1>7. /\ Range(wire'[g]) = Range(wire[g]) \cup {x}
      /\ IsInjective(wire'[g]) /\ Ascending(wire'[g])
  <2>1. x \notin Range(w) /\ IsInjective(w) BY <1>2, <1>5 DEF UniqueInv
  <2>2. Ascending(w) /\ Before(Range(w), {x}) BY <1>2, <1>5 DEF OrderInv
  <2> QED BY <1>2, <1>3, <2>1, <2>2, AppendItem
<1>8. \A h \in Gens : Held(h)' \cup Range(wire'[h]) = Held(h) \cup Range(wire[h])
  BY <1>4, <1>5, <1>6, <1>7
<1>9. ASSUME NEW h \in Gens, NEW m \in Range(sendQ[h]) \cup Held(h)' \cup Range(wire'[h])
      PROVE  WasSent(m)'
  <2>1. m \in Range(sendQ[h]) \cup Held(h) \cup Range(wire[h]) BY <1>8
  <2>2. WasSent(m) BY <2>1 DEF UniqueInv
  <2>3. m \in Items BY <2>1, MessageTypes
  <2> QED BY <2>2, <2>3, WasSentStep
<1>10. ASSUME NEW h \in Gens, NEW k \in Gens
       PROVE  /\ Range(sendQ[h]) \cap (Held(k)' \cup Range(wire'[k])) = {}
              /\ Held(h)' \cap Range(wire'[k]) = {}
              /\ h # k => /\ Held(h)' \cap Held(k)' = {}
                          /\ Range(wire'[h]) \cap Range(wire'[k]) = {}
  <2>1. /\ Range(sendQ[h]) \cap (Held(k) \cup Range(wire[k])) = {}
        /\ Held(h) \cap Range(wire[k]) = {} /\ Held(k) \cap Range(wire[h]) = {}
        /\ h # k => /\ Held(h) \cap Held(k) = {}
                    /\ Range(wire[h]) \cap Range(wire[k]) = {}
    BY DEF UniqueInv
  <2>2. \A l \in {h, k} :
          \/ l = g /\ Held(l) = {x} /\ Held(l)' = {} /\ Range(wire'[l]) = Range(wire[l]) \cup {x}
          \/ l # g /\ Held(l)' = Held(l) /\ wire'[l] = wire[l]
    BY <1>4, <1>5, <1>6, <1>7
  <2> QED BY <1>8, <2>1, <2>2
<1>11. \A h \in Gens : IsInjective(wire'[h]) BY <1>4, <1>7 DEF UniqueInv
<1>12. UniqueInv' BY <1>3, <1>9, <1>10, <1>11 DEF UniqueInv
<1>13. \A h \in Gens : Ascending(wire'[h]) /\ Before(Range(wire'[h]), Held(h)')
  <2>1. Before(Range(wire'[g]), Held(g)') BY <1>5 DEF Before
  <2> QED BY <1>4, <1>6, <1>7, <2>1 DEF OrderInv
<1>14. OrderInv' BY <1>3, <1>6, <1>8, <1>13 DEF OrderInv
<1> QED BY <1>12, <1>14

\* Every step keeps each message in one place and in its order.
LEMMA MessageStep ==
    TypeOK /\ ConnectionInv /\ UniqueInv /\ OrderInv /\ [Next]_vars => UniqueInv' /\ OrderInv'
<1> SUFFICES ASSUME TypeOK, ConnectionInv, UniqueInv, OrderInv, [Next]_vars
             PROVE  UniqueInv' /\ OrderInv'
    OBVIOUS
<1> USE DEF AppAt, appVars, genVars, recvVars
<1>0. /\ cur \in Nat /\ sendCount \in Nat
      /\ \A g \in Gens : From(g) \in Nat
  BY ConstantsAssumption DEF TypeOK, From
<1>1. ASSUME UNCHANGED <<cur, sendQ, gen, target, item, wire>> PROVE UniqueInv' /\ OrderInv'
  <2>1. \A g \in Gens : Held(g)' = Held(g) /\ From(g)' = From(g) BY <1>1 DEF Held, From
  <2> QED BY <1>0, <1>1, <2>1, MessagesStay
<1>2. CASE SetupConnection
  <2>1. cur' = cur + 1 /\ UNCHANGED <<sendQ, gen, target, item, wire>> BY <1>2 DEF SetupConnection
  <2>2. \A g \in Gens : Held(g)' = Held(g) BY <2>1 DEF Held
  <2>3. \A g \in Gens : From(g)' \in Nat /\ From(g) <= From(g)' BY <1>0, <2>1 DEF From
  <2> QED BY <2>1, <2>2, <2>3, MessagesStay
<1>3. CASE OpenStream
  <2>1. gen' = [gen EXCEPT ![cur] = "test"] /\ UNCHANGED <<cur, sendQ, target, item, wire>>
    BY <1>3 DEF OpenStream
  <2>2. \A g \in Gens : gen'[g] = gen[g] \/ gen'[g] = "test" BY <2>1 DEF TypeOK
  <2>3. \A g \in Gens : Held(g)' \subseteq Held(g) BY <2>1, <2>2 DEF Held
  <2>4. \A g \in Gens : From(g)' \in Nat /\ From(g) <= From(g)'
    BY <1>0, <2>1, <2>2 DEF From, ConnectionInv
  <2> QED BY <2>1, <2>3, <2>4, MessagesStay
<1>4. CASE PutFirst
  <2>1. cur \in Gens BY <1>4, HasConnection DEF PutFirst
  <2>2. PICK x \in Items : x = First(cur) BY <2>1, ItemTypes
  <2>3. ~WasSent(x) /\ WasSent(x)' BY <1>0, <1>4, <2>2 DEF PutFirst, WasSent, First
  <2>4. \A m \in Items : WasSent(m) => Before({m}, {x}) BY <2>2 DEF Before, First
  <2>5. /\ sendQ' = [sendQ EXCEPT ![cur] = Append(@, x)]
        /\ UNCHANGED <<cur, gen, target, item, wire>>
    BY <1>4, <2>2 DEF PutFirst
  <2> QED BY <2>1, <2>3, <2>4, <2>5, MessageQueued
<1>5. CASE SendData
  <2>1. cur \in Gens BY <1>5, HasConnection DEF SendData
  <2>2. PICK x \in Items : x = Sent(sendCount + 1) BY <1>0, ItemTypes
  <2>3. x.kind = "data" /\ x.n = sendCount + 1 BY <2>2 DEF Sent
  <2>4. ~WasSent(x) /\ WasSent(x)' BY <1>0, <1>5, <2>3 DEF SendData, WasSent
  <2>5. \A m \in Items : WasSent(m) => Before({m}, {x}) BY <1>0, <2>3 DEF WasSent, Before, Items
  <2>6. /\ sendQ' = [sendQ EXCEPT ![cur] = Append(@, x)]
        /\ UNCHANGED <<cur, gen, target, item, wire>>
    BY <1>5, <2>2 DEF SendData
  <2> QED BY <2>1, <2>4, <2>5, <2>6, MessageQueued
<1>6. CASE ConnectTimeout \/ CheckConnection \/ CheckTimeout \/ QueueJoined \/ ClearRunEvent
           \/ CancelStream \/ ThreadJoined
  <2>1. UNCHANGED <<cur, sendQ, gen, target, item, wire>>
    BY <1>6 DEF ConnectTimeout, CheckConnection, CheckTimeout, QueueJoined, ClearRunEvent,
                CancelStream, ThreadJoined
  <2> QED BY <1>1, <2>1
<1>7. CASE WaitDone \/ GetData \/ Disconnect BY <1>1, <1>7 DEF WaitDone, GetData, Disconnect
<1>8. ASSUME NEW g \in Gens, Generator(g) PROVE UniqueInv' /\ OrderInv'
  <2> USE DEF GenAt
  <2>0. /\ cur \in Gens /\ UNCHANGED cur
        /\ \A h \in Gens \ {g} : Held(h)' = Held(h) /\ From(h)' = From(h)
    <3>1. UNCHANGED cur /\ gen[g] # "off" BY <1>8, GeneratorFrame
    <3>2. g <= cur BY <3>1 DEF ConnectionInv
    <3>3. cur \in Gens BY <1>0, <3>2, ConstantsAssumption DEF Gens, TypeOK
    <3> QED BY <1>8, <3>1, <3>3, GeneratorFrame DEF Held, From
  <2>1. CASE GenTake(g) BY <2>1, MessageTaken
  <2>2. CASE GenYield(g) BY <2>2, MessageYielded
  <2>3. ASSUME UNCHANGED <<sendQ, wire>>, Held(g)' \subseteq Held(g), From(g)' = cur
        PROVE  UniqueInv' /\ OrderInv'
    <3>1. From(g) <= cur BY <1>0 DEF From, ConnectionInv, Gens
    <3>2. \A h \in Gens : /\ Held(h)' \subseteq Held(h)
                          /\ From(h)' \in Nat /\ From(h) <= From(h)'
      BY <1>0, <2>0, <2>3, <3>1
    <3> QED BY <2>3, <3>2, MessagesStay
  <2>4. CASE GenTest(g)
    <3>1. UNCHANGED <<sendQ, wire>> /\ Held(g)' = {} /\ From(g)' = cur
      BY <2>0, <2>4 DEF GenTest, Held, From, TypeOK
    <3> QED BY <2>3, <3>1
  <2>5. CASE GenEmpty(g)
    <3>1. UNCHANGED <<sendQ, wire>> /\ Held(g)' = {} /\ From(g)' = cur
      BY <2>0, <2>5 DEF GenEmpty, Held, From, TypeOK
    <3> QED BY <2>3, <3>1
  <2>6. CASE GenHook(g)
    <3>1. UNCHANGED <<sendQ, wire, item>> /\ gen[g] = "hook" /\ gen'[g] \in {"yield", "done", "drain"}
      BY <2>6 DEF GenHook, TypeOK
    <3>2. Held(g)' \subseteq Held(g) /\ From(g)' = cur BY <2>0, <3>1 DEF Held, From
    <3> QED BY <2>3, <3>1, <3>2
  <2>7. CASE GenResume(g) \/ GenDropped(g) \/ GenTaskDone(g) \/ GenDrain(g)
    <3>1. UNCHANGED <<sendQ, wire>> /\ gen'[g] \in {"done", "dead", "test", "drain"}
      BY <2>7 DEF GenResume, GenDropped, GenTaskDone, GenDrain, TypeOK
    <3>2. Held(g)' = {} /\ From(g)' = cur BY <2>0, <3>1 DEF Held, From
    <3> QED BY <2>3, <3>1, <3>2
  <2> QED BY <1>8, <2>1, <2>2, <2>4, <2>5, <2>6, <2>7 DEF Generator
<1>9. ASSUME NEW g \in Gens, Receive(g) \/ RecvNext(g) \/ ServerEnds(g)
      PROVE  UniqueInv' /\ OrderInv'
  BY <1>1, <1>9, ReceiveFrame
<1>10. CASE UNCHANGED vars BY <1>1, <1>10 DEF vars
<1> QED BY <1>2, <1>3, <1>4, <1>5, <1>6, <1>7, <1>8, <1>9, <1>10 DEF Next, App, AppCalls

-----------------------------------------------------------------------------
(* Responses.                                                              *)

\* Responses are counted from the start of their receive thread.
LEMMA CountStep == TypeOK /\ ConnectionInv /\ CountInv /\ [Next]_vars => CountInv'
<1> SUFFICES ASSUME TypeOK, ConnectionInv, CountInv, [Next]_vars PROVE CountInv'
    OBVIOUS
<1> USE DEF AppAt, appVars, genVars, recvVars
<1>0. /\ MaxGen \in Nat /\ cur \in 0..MaxGen
      /\ \A g \in Gens : MaxIn[g] \in Nat /\ inCount[g] \in Nat
  BY ConstantsAssumption DEF TypeOK, Gens
<1>1. CASE SetupConnection
  <2>1. /\ cur' = cur + 1 /\ cur' \in Gens /\ cur' > cur
        /\ UNCHANGED <<recv, inCount, gen>>
    BY <1>0, <1>1 DEF SetupConnection, Gens
  <2>2. recv[cur'] = "off" /\ gen[cur'] = "off" BY <1>0, <2>1 DEF ConnectionInv
  <2> QED BY <2>1, <2>2 DEF CountInv
<1>2. CASE PutFirst
  <2>1. cur \in Gens BY <1>2, HasConnection DEF PutFirst
  <2>2. recv' = [recv EXCEPT ![cur] = "welcome"] /\ UNCHANGED <<cur, inCount>> /\ app' = "check"
    BY <1>2 DEF PutFirst
  <2>3. recv[cur] = "off" BY <1>2 DEF PutFirst, CountInv
  <2> QED BY <2>1, <2>2, <2>3 DEF CountInv, TypeOK
<1>3. CASE OpenStream
  <2>1. app = "connect" /\ app' = "first" /\ UNCHANGED <<cur, recv, inCount>>
    BY <1>3 DEF OpenStream
  <2> QED BY <2>1 DEF CountInv
<1>4. CASE /\ UNCHANGED <<cur, recv, inCount, gen>>
           /\ app' \in {"connect", "first"} => UNCHANGED app
  BY <1>4 DEF CountInv
<1>5. CASE App /\ ~PutFirst /\ ~OpenStream
  <2>1. UNCHANGED <<cur, recv, inCount, gen>>
    BY <1>5 DEF App, ConnectTimeout, CheckConnection, CheckTimeout, QueueJoined,
                ClearRunEvent, CancelStream, ThreadJoined
  <2>2. app' \notin {"connect", "first"}
    BY <1>5 DEF App, ConnectTimeout, CheckConnection, CheckTimeout, QueueJoined,
                ClearRunEvent, CancelStream, ThreadJoined
  <2> QED BY <1>4, <2>1, <2>2
<1>6. CASE SendData \/ WaitDone \/ GetData \/ Disconnect
  BY <1>4, <1>6 DEF SendData, WaitDone, GetData, Disconnect
<1>7. ASSUME NEW g \in Gens, Generator(g) PROVE CountInv'
  <2>1. /\ UNCHANGED <<app, cur, recv, inCount>> /\ gen[g] # "off"
        /\ \A h \in Gens \ {g} : gen'[h] = gen[h]
    BY <1>7, GeneratorFrame
  <2>2. app = "connect" => cur \in Gens \ {g} BY <2>1 DEF CountInv, ConnectionInv
  <2> QED BY <2>1, <2>2 DEF CountInv
<1>8. ASSUME NEW g \in Gens, Receive(g) \/ RecvNext(g) \/ ServerEnds(g) PROVE CountInv'
  <2>1. /\ UNCHANGED <<app, cur, gen>>
        /\ \A h \in Gens \ {g} : recv'[h] = recv[h] /\ inCount'[h] = inCount[h]
    BY <1>8, ReceiveFrame
  <2>2. CASE ServerEnds(g) BY <1>4, <2>1, <2>2 DEF ServerEnds
  <2>3. CASE ~ServerEnds(g)
    <3>1. recv[g] # "off" /\ recv'[g] \notin {"off", "welcome"}
      BY <1>8, <2>3 DEF Receive, RecvFirst, RecvHook, RecvPut, RecvEnd, RecvError, RecvNext, RecvAt, TypeOK
    <3>2. inCount'[g] <= MaxIn[g] + 1
      <4>1. CASE RecvFirst(g)
        <5>1. inCount'[g] = 1 BY <4>1 DEF RecvFirst, TypeOK
        <5> QED BY <1>0, <5>1
      <4>2. CASE RecvNext(g)
        <5>1. inCount[g] <= MaxIn[g] /\ inCount'[g] = inCount[g] + 1 BY <4>2 DEF RecvNext, TypeOK
        <5> QED BY <1>0, <5>1
      <4>3. CASE RecvHook(g) \/ RecvPut(g) \/ RecvEnd(g) \/ RecvError(g)
        BY <4>3 DEF RecvHook, RecvPut, RecvEnd, RecvError, CountInv
      <4> QED BY <1>8, <2>3, <4>1, <4>2, <4>3 DEF Receive
    <3>3. app \in {"connect", "first"} => cur \in Gens /\ cur # g /\ recv'[cur] = "off"
      <4>1. app \in {"connect", "first"} => cur \in Gens BY DEF ConnectionInv
      <4> QED BY <2>1, <3>1, <4>1 DEF CountInv
    <3> QED BY <2>1, <3>1, <3>2, <3>3 DEF CountInv
  <2> QED BY <2>2, <2>3
<1>9. CASE UNCHANGED vars BY <1>4, <1>9 DEF vars
<1> QED BY <1>1, <1>2, <1>3, <1>5, <1>6, <1>7, <1>8, <1>9 DEF Next, AppCalls

\* The application takes the first response out of the queue.
LEMMA ResponseRead ==
    ASSUME TypeOK, ReadInv, ReadInOrder, cur \in Gens, recvQ[cur] # <<>>,
           got' = Took(Head(recvQ[cur])), recvQ' = [recvQ EXCEPT ![cur] = Tail(@)],
           UNCHANGED <<cur, recv, inCount>>
    PROVE  ReadInv' /\ ReadInOrder'
<1>1. PICK q \in Seq(Items) : q = recvQ[cur] /\ q # <<>> BY DEF TypeOK
<1>2. PICK l \in Nat : l = Len(q) /\ l > 0 BY <1>1, EmptySeq
<1>3. PICK x \in Items : x = Head(q) /\ x = q[1] BY <1>1, HeadTailProperties
<1>4. recvQ'[cur] = Tail(q) BY <1>1 DEF TypeOK
<1>5. PICK r \in Seq(Items) : r = Tail(q) BY <1>1, HeadTailProperties
<1>6. Len(r) = l - 1 /\ \A i \in 1..(l - 1) : r[i] = q[i + 1]
  BY <1>1, <1>2, <1>5, HeadTailProperties
<1>7. \A g \in Gens : Passed(g)' = Passed(g) BY DEF Passed
<1>8. \A i \in 1..l : /\ q[i] \in Items /\ q[i].of \in Gens /\ q[i].n <= Passed(q[i].of)
                      /\ got[q[i].of] < q[i].n
                      /\ \A j \in 1..(i - 1) : q[j].of = q[i].of => q[j].n < q[i].n
  <2>1. \A i \in 1..l : q[i] \in Items BY <1>2, ElementOfSeq
  <2>2. cur > 0 BY ConstantsAssumption DEF Gens
  <2> QED BY <1>1, <1>2, <2>1, <2>2 DEF ReadInv, ReadInOrder
<1>9. x.of \in Gens /\ x.n \in Nat /\ x.n <= Passed(x.of)
  <2>1. 1 \in 1..l BY <1>2
  <2> QED BY <1>3, <1>8, <2>1 DEF Items
<1>10. got'[x.of] = x.n /\ \A g \in Gens \ {x.of} : got'[g] = got[g]
  BY <1>1, <1>3, <1>9 DEF Took, TypeOK
<1>11. \A g \in Gens : got'[g] <= Passed(g) BY <1>9, <1>10 DEF ReadInv
<1>12. ASSUME NEW i \in 1..(l - 1)
       PROVE  /\ r[i].of \in Gens /\ r[i].n <= Passed(r[i].of)
              /\ got'[r[i].of] < r[i].n
              /\ \A j \in 1..(i - 1) : r[j].of = r[i].of => r[j].n < r[i].n
  <2>1. i + 1 \in 1..l /\ 1 \in 1..((i + 1) - 1) BY <1>2
  <2>2. PICK y \in Items : y = q[i + 1] /\ y = r[i] BY <1>6, <1>8, <2>1
  <2>3. y.of \in Gens /\ y.n <= Passed(y.of) /\ got[y.of] < y.n BY <1>8, <2>1, <2>2
  <2>4. got'[y.of] < y.n
    <3>1. CASE y.of = x.of
      <4>1. x.n < y.n BY <1>3, <1>8, <2>1, <2>2, <3>1
      <4> QED BY <1>10, <3>1, <4>1
    <3>2. CASE y.of # x.of BY <1>10, <2>3, <3>2
    <3> QED BY <3>1, <3>2
  <2>5. ASSUME NEW j \in 1..(i - 1), r[j].of = r[i].of PROVE r[j].n < r[i].n
    <3>1. j \in 1..(l - 1) /\ j + 1 \in 1..((i + 1) - 1) OBVIOUS
    <3>2. r[j] = q[j + 1] BY <1>6, <3>1
    <3> QED BY <1>8, <2>1, <2>2, <2>5, <3>1, <3>2
  <2> QED BY <2>2, <2>3, <2>4, <2>5
<1>13. ReadInv' BY <1>4, <1>5, <1>6, <1>7, <1>11, <1>12 DEF ReadInv
<1>14. ReadInOrder'
  <2>1. cur' = cur /\ recvQ'[cur] = r /\ Len(r) = l - 1 BY <1>4, <1>5, <1>6
  <2> QED BY <1>12, <2>1 DEF ReadInOrder
<1> QED BY <1>13, <1>14

\* A receive thread puts a response that comes after all it has put or discarded.
LEMMA ResponsePut ==
    ASSUME TypeOK, ReadInv, ReadInOrder, cur \in Gens, NEW g \in Gens, NEW x \in Items,
           x.of = g, Passed(g) < x.n, x.n <= Passed(g)', UNCHANGED <<cur, got>>,
           Passed(g) \in Int, Passed(g)' \in Int,
           \A h \in Gens \ {g} : Passed(h)' = Passed(h),
           recvQ' = [recvQ EXCEPT ![cur] = Append(@, x)]
    PROVE  ReadInv' /\ ReadInOrder'
<1>1. PICK q \in Seq(Items) : q = recvQ[cur] BY DEF TypeOK
<1>2. PICK l \in Nat : l = Len(q) BY LenProperties
<1>3. recvQ'[cur] = Append(q, x) BY <1>1 DEF TypeOK
<1>4. PICK r \in Seq(Items) : r = Append(q, x) BY AppendProperties
<1>5. /\ Len(r) = l + 1 /\ r[l + 1] = x
      /\ \A i \in 1..l : r[i] = q[i]
  BY <1>2, <1>4, AppendProperties
<1>6. \A i \in 1..l : /\ q[i] \in Items /\ q[i].of \in Gens /\ q[i].n <= Passed(q[i].of)
                      /\ got[q[i].of] < q[i].n
                      /\ \A j \in 1..(i - 1) : q[j].of = q[i].of => q[j].n < q[i].n
  <2>1. \A i \in 1..l : q[i] \in Items BY <1>2, ElementOfSeq
  <2>2. cur > 0 BY ConstantsAssumption DEF Gens
  <2> QED BY <1>1, <1>2, <2>1, <2>2 DEF ReadInv, ReadInOrder
<1>7. \A h \in Gens : got[h] \in Nat /\ got[h] <= Passed(h) BY DEF ReadInv, TypeOK
<1>8. x.n \in Nat BY DEF Items
<1>9. \A h \in Gens : got[h] <= Passed(h)' BY <1>7, <1>8
<1>10. ASSUME NEW i \in 1..(l + 1)
       PROVE  /\ r[i].of \in Gens /\ r[i].n <= Passed(r[i].of)'
              /\ got[r[i].of] < r[i].n
              /\ \A j \in 1..(i - 1) : r[j].of = r[i].of => r[j].n < r[i].n
  <2>1. \A j \in 1..(i - 1) : j \in 1..l BY <1>2
  <2>2. CASE i \in 1..l
    <3>1. PICK y \in Items : y = q[i] /\ y = r[i] BY <1>5, <1>6, <2>2
    <3>2. /\ y.of \in Gens /\ y.n <= Passed(y.of) /\ y.n \in Nat /\ got[y.of] < y.n
      BY <1>6, <2>2, <3>1 DEF Items
    <3>3. y.n <= Passed(y.of)'
      <4>1. CASE y.of = g BY <1>8, <3>2, <4>1
      <4>2. CASE y.of # g BY <3>2, <4>2
      <4> QED BY <4>1, <4>2
    <3> QED BY <1>5, <1>6, <2>1, <2>2, <3>1, <3>2, <3>3
  <2>3. CASE i = l + 1
    <3>1. r[i] = x BY <1>5, <2>3
    <3>2. got[g] < x.n BY <1>7, <1>8
    <3>3. ASSUME NEW j \in 1..(i - 1), r[j].of = g PROVE r[j].n < x.n
      <4>1. PICK y \in Items : y = q[j] /\ y = r[j] BY <1>5, <1>6, <2>1
      <4>2. y.n <= Passed(g) /\ y.n \in Nat BY <1>6, <2>1, <3>3, <4>1 DEF Items
      <4> QED BY <1>8, <4>1, <4>2
    <3> QED BY <3>1, <3>2, <3>3
  <2>4. i \in 1..l \/ i = l + 1 BY <1>2
  <2> QED BY <2>2, <2>3, <2>4
<1>11. ReadInv' BY <1>3, <1>4, <1>5, <1>9, <1>10 DEF ReadInv
<1>12. ReadInOrder'
  <2>1. cur' = cur /\ got' = got /\ recvQ'[cur] = r /\ Len(r) = l + 1 BY <1>3, <1>4, <1>5
  <2> QED BY <1>10, <2>1 DEF ReadInOrder
<1> QED BY <1>11, <1>12

\* Every step keeps the responses of a stream in order.
LEMMA ReadStep ==
    TypeOK /\ ConnectionInv /\ CountInv /\ ReadInv /\ ReadInOrder /\ [Next]_vars
        => ReadInv' /\ ReadInOrder'
<1> SUFFICES ASSUME TypeOK, ConnectionInv, CountInv, ReadInv, ReadInOrder, [Next]_vars
             PROVE  ReadInv' /\ ReadInOrder'
    OBVIOUS
<1> USE DEF AppAt, appVars, genVars, recvVars
<1>0. /\ MaxGen \in Nat /\ cur \in 0..MaxGen
      /\ \A g \in Gens : /\ MaxIn[g] \in Nat /\ inCount[g] \in Nat /\ got[g] \in Nat
                         /\ inCount[g] <= MaxIn[g] + 1
                         /\ got[g] <= Passed(g) /\ Passed(g) \in Int
  <2>1. MaxGen \in Nat /\ cur \in 0..MaxGen BY ConstantsAssumption DEF TypeOK
  <2>2. \A g \in Gens : MaxIn[g] \in Nat /\ inCount[g] \in Nat /\ got[g] \in Nat
    BY ConstantsAssumption DEF TypeOK, Gens
  <2>3. \A g \in Gens : inCount[g] <= MaxIn[g] + 1 /\ got[g] <= Passed(g)
    BY DEF CountInv, ReadInv
  <2>4. \A g \in Gens : Passed(g) \in Int BY <2>2 DEF Passed
  <2> QED BY <2>1, <2>2, <2>3, <2>4
<1>1. ASSUME UNCHANGED <<cur, recvQ, got>>,
             \A g \in Gens : Passed(g)' \in Int /\ Passed(g) <= Passed(g)'
      PROVE  ReadInv' /\ ReadInOrder'
  <2>1. \A g \in Gens : got[g] <= Passed(g)' BY <1>0, <1>1
  <2>2. ASSUME cur > 0, NEW i \in 1..Len(recvQ[cur])
        PROVE  recvQ[cur][i].of \in Gens /\ recvQ[cur][i].n <= Passed(recvQ[cur][i].of)'
    <3>0. cur \in Gens BY <1>0, <2>2 DEF Gens
    <3>1. PICK q \in Seq(Items) : q = recvQ[cur] BY <3>0 DEF TypeOK
    <3>2. PICK y \in Items : y = recvQ[cur][i] BY <3>1, ElementOfSeq
    <3>3. y.of \in Gens /\ y.n <= Passed(y.of) /\ y.n \in Nat
      BY <2>2, <3>2 DEF ReadInv, Items
    <3> QED BY <1>0, <1>1, <3>2, <3>3
  <2> QED BY <1>1, <2>1, <2>2 DEF ReadInv, ReadInOrder
<1>2. ASSUME UNCHANGED <<cur, recvQ, got, recv, inCount>> PROVE ReadInv' /\ ReadInOrder'
  <2>1. \A g \in Gens : Passed(g)' = Passed(g) BY <1>2 DEF Passed
  <2> QED BY <1>0, <1>1, <1>2, <2>1
<1>3. CASE SetupConnection
  <2>1. /\ cur' = cur + 1 /\ cur' \in Gens /\ cur' > cur
        /\ UNCHANGED <<recvQ, got, recv, inCount>>
    BY <1>0, <1>3 DEF SetupConnection, Gens
  <2>2. recvQ[cur'] = <<>> BY <1>0, <2>1 DEF ConnectionInv
  <2>3. \A g \in Gens : Passed(g)' = Passed(g) BY <2>1 DEF Passed
  <2>4. 1..Len(recvQ[cur']) = {} BY <2>2
  <2> QED BY <1>0, <2>1, <2>3, <2>4 DEF ReadInv, ReadInOrder
<1>4. CASE PutFirst
  <2>1. recv' = [recv EXCEPT ![cur] = "welcome"] /\ UNCHANGED <<cur, recvQ, got, inCount>>
    BY <1>4 DEF PutFirst
  <2>2. recv[cur] = "off" BY <1>4 DEF PutFirst, CountInv
  <2>3. \A g \in Gens : Passed(g)' = Passed(g) BY <2>1, <2>2 DEF Passed, TypeOK
  <2> QED BY <1>0, <1>1, <2>1, <2>3
<1>5. CASE CheckConnection \/ GetData
  <2>1. cur \in Gens BY <1>5, HasConnection DEF CheckConnection, GetData
  <2>2. /\ recvQ[cur] # <<>> /\ got' = Took(Head(recvQ[cur]))
        /\ recvQ' = [recvQ EXCEPT ![cur] = Tail(@)] /\ UNCHANGED <<cur, recv, inCount>>
    BY <1>5 DEF CheckConnection, GetData
  <2> QED BY <2>1, <2>2, ResponseRead
<1>6. CASE ConnectTimeout \/ OpenStream \/ CheckTimeout \/ QueueJoined \/ ClearRunEvent
           \/ CancelStream \/ ThreadJoined
  BY <1>2, <1>6 DEF ConnectTimeout, OpenStream, CheckTimeout, QueueJoined, ClearRunEvent,
                    CancelStream, ThreadJoined
<1>7. CASE SendData \/ WaitDone \/ Disconnect BY <1>2, <1>7 DEF SendData, WaitDone, Disconnect
<1>8. ASSUME NEW g \in Gens, Generator(g) PROVE ReadInv' /\ ReadInOrder'
  BY <1>2, <1>8, GeneratorFrame
<1>9. ASSUME NEW g \in Gens, Receive(g) \/ RecvNext(g) \/ ServerEnds(g)
      PROVE  ReadInv' /\ ReadInOrder'
  <2> USE DEF RecvAt
  <2>0. /\ UNCHANGED <<cur, got>>
        /\ \A h \in Gens \ {g} : recv'[h] = recv[h] /\ inCount'[h] = inCount[h]
    BY <1>9, ReceiveFrame
  <2>1. \A h \in Gens \ {g} : Passed(h)' = Passed(h) BY <2>0 DEF Passed
  <2>2. ASSUME UNCHANGED recvQ, Passed(g)' \in Int, Passed(g) <= Passed(g)'
        PROVE  ReadInv' /\ ReadInOrder'
    BY <1>0, <1>1, <2>0, <2>1, <2>2
  <2>3. ASSUME NEW x \in Items, x.of = g, recv[g] # "off", Passed(g) < x.n, x.n <= Passed(g)',
               Passed(g)' \in Int, recvQ' = [recvQ EXCEPT ![cur] = Append(@, x)]
        PROVE  ReadInv' /\ ReadInOrder'
    <3>1. cur \in Gens BY <1>0, <2>3 DEF ConnectionInv, Gens
    <3> QED BY <1>0, <2>0, <2>1, <2>3, <3>1, ResponsePut
  <2>4. CASE ServerEnds(g) BY <1>2, <2>4 DEF ServerEnds
  <2>5. CASE RecvFirst(g)
    <3>1. /\ recv[g] = "welcome" /\ recv'[g] = "open" /\ inCount'[g] = 1
          /\ recvQ' = [recvQ EXCEPT ![cur] = Append(@, Response(g, 1))]
      BY <2>5 DEF RecvFirst, TypeOK
    <3>2. Passed(g) = 0 /\ Passed(g)' = 1 BY <3>1 DEF Passed, CountInv
    <3>3. PICK x \in Items : x = Response(g, 1) BY ItemTypes
    <3>4. x.of = g /\ x.n = 1 BY <3>3 DEF Response
    <3>5. Passed(g) < x.n /\ x.n <= Passed(g)' /\ Passed(g)' \in Int BY <3>2, <3>4
    <3> QED BY <2>3, <3>1, <3>3, <3>4, <3>5
  <2>6. CASE RecvPut(g)
    <3>1. /\ recv[g] = "put" /\ recv'[g] = "open" /\ UNCHANGED inCount
          /\ recvQ' = [recvQ EXCEPT ![cur] = Append(@, Response(g, inCount[g]))]
      BY <2>6 DEF RecvPut, TypeOK
    <3>2. Passed(g) = inCount[g] - 1 /\ Passed(g)' = inCount[g] BY <3>1 DEF Passed
    <3>3. PICK x \in Items : x = Response(g, inCount[g]) BY <1>0, ItemTypes
    <3>4. x.of = g /\ x.n = inCount[g] BY <3>3 DEF Response
    <3>5. Passed(g) < x.n /\ x.n <= Passed(g)' /\ Passed(g)' \in Int BY <1>0, <3>2, <3>4
    <3> QED BY <2>3, <3>1, <3>3, <3>4, <3>5
  <2>7. CASE RecvError(g)
    <3>1. /\ recv[g] = "error" /\ recv'[g] = "dead" /\ UNCHANGED inCount
          /\ recvQ' = [recvQ EXCEPT ![cur] = Append(@, Failure(g))]
      BY <2>7 DEF RecvError, TypeOK
    <3>2. Passed(g) = inCount[g] /\ Passed(g)' = MaxIn[g] + 2 BY <3>1 DEF Passed
    <3>3. PICK x \in Items : x = Failure(g) BY ItemTypes
    <3>4. x.of = g /\ x.n = MaxIn[g] + 2 BY <3>3 DEF Failure
    <3>5. Passed(g) < x.n /\ x.n <= Passed(g)' /\ Passed(g)' \in Int BY <1>0, <3>2, <3>4
    <3> QED BY <2>3, <3>1, <3>3, <3>4, <3>5
  <2>8. CASE RecvNext(g)
    <3>1. /\ recv[g] = "open" /\ recv'[g] = "hook" /\ inCount'[g] = inCount[g] + 1
          /\ UNCHANGED recvQ
      BY <2>8 DEF RecvNext, TypeOK
    <3>2. Passed(g) = inCount[g] /\ Passed(g)' = (inCount[g] + 1) - 1 BY <3>1 DEF Passed
    <3> QED BY <1>0, <2>2, <3>1, <3>2
  <2>9. CASE RecvHook(g)
    <3>1. /\ recv[g] = "hook" /\ recv'[g] \in {"put", "open", "error"}
          /\ UNCHANGED <<recvQ, inCount>>
      BY <2>9 DEF RecvHook, TypeOK
    <3>2. Passed(g) = inCount[g] - 1 /\ Passed(g)' \in {inCount[g] - 1, inCount[g]}
      BY <3>1 DEF Passed
    <3> QED BY <1>0, <2>2, <3>1, <3>2
  <2>10. CASE RecvEnd(g)
    <3>1. /\ recv[g] \in {"welcome", "open"} /\ recv'[g] \in {"error", "dead"}
          /\ UNCHANGED <<recvQ, inCount>>
      BY <2>10 DEF RecvEnd, TypeOK
    <3>2. Passed(g) = inCount[g] /\ Passed(g)' \in {inCount[g], MaxIn[g] + 2}
      BY <3>1 DEF Passed
    <3> QED BY <1>0, <2>2, <3>1, <3>2
  <2> QED BY <1>9, <2>4, <2>5, <2>6, <2>7, <2>8, <2>9, <2>10 DEF Receive
<1>10. CASE UNCHANGED vars BY <1>2, <1>10 DEF vars
<1> QED BY <1>3, <1>4, <1>5, <1>6, <1>7, <1>8, <1>9, <1>10 DEF Next, App, AppCalls

-----------------------------------------------------------------------------
(* What is handed over.                                                    *)

\* Every message of the first connection is counted from its put until task_done.
LEMMA HandedStep == TypeOK /\ ConnectionInv /\ CountInv /\ HandedInv /\ [Next]_vars => HandedInv'
<1> SUFFICES ASSUME TypeOK, ConnectionInv, CountInv, HandedInv, [Next]_vars, cur' <= 1,
                    gen'[1] \notin {"drain", "dead"}
             PROVE  unfinished'[1] = Len(sendQ'[1])
                        + (IF gen'[1] \in {"hook", "yield", "sent", "done"} THEN 1 ELSE 0)
    BY DEF HandedInv
<1> USE DEF AppAt, appVars, genVars, recvVars
<1>0. 1 \in Gens /\ \A g \in Gens : g <= 1 => g = 1 BY ConstantsAssumption DEF Gens
<1>1. PICK q \in Seq(Items) : q = sendQ[1] BY <1>0 DEF TypeOK
<1>2. PICK l \in Nat, n \in Nat : l = Len(q) /\ n = unfinished[1]
  BY <1>0, LenProperties DEF TypeOK
<1>3. cur <= 1 /\ gen[1] \notin {"drain", "dead"} =>
          n = l + (IF gen[1] \in {"hook", "yield", "sent", "done"} THEN 1 ELSE 0)
  BY <1>1, <1>2 DEF HandedInv
<1>4. ASSUME UNCHANGED <<sendQ, unfinished, gen>>, cur <= 1
      PROVE  unfinished'[1] = Len(sendQ'[1])
                 + (IF gen'[1] \in {"hook", "yield", "sent", "done"} THEN 1 ELSE 0)
  BY <1>1, <1>2, <1>3, <1>4
<1>5. ASSUME NEW m \in Items, sendQ' = [sendQ EXCEPT ![cur] = Append(@, m)],
             cur \in Gens, cur <= 1,
             unfinished' = [unfinished EXCEPT ![cur] = @ + 1], UNCHANGED <<cur, gen>>
      PROVE  unfinished'[1] = Len(sendQ'[1])
                 + (IF gen'[1] \in {"hook", "yield", "sent", "done"} THEN 1 ELSE 0)
  <2>1. sendQ'[1] = Append(q, m) /\ unfinished'[1] = n + 1
    BY <1>0, <1>1, <1>2, <1>5 DEF TypeOK
  <2>2. Len(Append(q, m)) = l + 1 BY <1>2, AppendProperties
  <2>3. /\ gen'[1] = gen[1]
        /\ n = l + (IF gen[1] \in {"hook", "yield", "sent", "done"} THEN 1 ELSE 0)
    BY <1>3, <1>5
  <2>4. n + 1 = (l + 1) + (IF gen[1] \in {"hook", "yield", "sent", "done"} THEN 1 ELSE 0)
    BY <2>3
  <2> QED BY <2>1, <2>2, <2>3, <2>4
<1>6. CASE PutFirst
  <2>1. cur \in Gens BY <1>6, HasConnection DEF PutFirst
  <2>2. First(cur) \in Items BY <2>1, ItemTypes
  <2>3. cur <= 1 BY <1>6 DEF PutFirst
  <2> QED BY <1>5, <1>6, <2>1, <2>2, <2>3 DEF PutFirst
<1>7. CASE SendData
  <2>1. cur \in Gens BY <1>7, HasConnection DEF SendData
  <2>2. sendCount + 1 \in Nat BY DEF TypeOK
  <2>3. Sent(sendCount + 1) \in Items BY <2>2, ItemTypes
  <2>4. cur <= 1 BY <1>7 DEF SendData
  <2> QED BY <1>5, <1>7, <2>1, <2>3, <2>4 DEF SendData
<1>8. CASE OpenStream
  <2>1. /\ gen' = [gen EXCEPT ![cur] = "test"] /\ UNCHANGED <<sendQ, unfinished>>
        /\ cur \in Gens /\ cur = 1
    BY <1>0, <1>8 DEF OpenStream, ConnectionInv
  <2>2. gen'[1] = "test" BY <1>0, <2>1 DEF TypeOK
  <2>3. gen[1] = "off" BY <1>0, <1>8, <2>1 DEF OpenStream, CountInv
  <2>4. cur <= 1 BY <2>1
  <2>5. n = l BY <1>2, <1>3, <2>3, <2>4
  <2>6. unfinished'[1] = n /\ Len(sendQ'[1]) = l BY <1>1, <1>2, <2>1
  <2> QED BY <1>2, <2>2, <2>5, <2>6
<1>9. CASE AppCalls /\ ~SendData
  <2>1. CASE SetupConnection
    <3>1. cur \in Nat /\ cur' = cur + 1 /\ UNCHANGED <<sendQ, unfinished, gen>>
      BY <2>1, ConstantsAssumption DEF SetupConnection, TypeOK
    <3>2. cur <= 1 BY <3>1
    <3> QED BY <1>4, <3>1, <3>2
  <2> QED BY <1>4, <1>9, <2>1 DEF AppCalls, WaitDone, GetData, Disconnect
<1>10. CASE App /\ ~PutFirst /\ ~OpenStream
  BY <1>4, <1>10 DEF App, ConnectTimeout, CheckConnection, CheckTimeout, QueueJoined, ClearRunEvent,
                     CancelStream, ThreadJoined
<1>11. ASSUME NEW g \in Gens, Generator(g)
       PROVE  unfinished'[1] = Len(sendQ'[1])
                  + (IF gen'[1] \in {"hook", "yield", "sent", "done"} THEN 1 ELSE 0)
  <2> USE DEF GenAt
  <2>0. g = 1 /\ cur = 1
    <3>1. gen[g] # "off" /\ cur' = cur BY <1>11, GeneratorFrame
    <3>2. g <= cur /\ cur <= 1 /\ g \in Nat /\ cur \in Nat
      BY <1>11, <3>1, ConstantsAssumption DEF ConnectionInv, TypeOK, Gens
    <3>3. g <= 1 BY <3>2
    <3>4. g = 1 BY <1>0, <1>11, <3>3
    <3> QED BY <1>0, <3>2, <3>4
  <2>1. CASE GenTest(g)
    <3>1. gen[1] = "test" /\ gen'[1] = "wait" /\ UNCHANGED <<sendQ, unfinished>>
      BY <1>0, <2>0, <2>1 DEF GenTest, TypeOK
    <3> QED BY <1>1, <1>2, <1>3, <2>0, <3>1
  <2>2. CASE GenTake(g)
    <3>1. gen[1] = "wait" /\ gen'[1] = "hook" /\ UNCHANGED unfinished
      BY <1>0, <2>0, <2>2 DEF GenTake, TypeOK
    <3>2. target[1] \in 1..1 BY <1>0, <2>0, <3>1 DEF ConnectionInv
    <3>3. q # <<>> /\ sendQ'[1] = Tail(q)
      BY <1>0, <1>1, <2>0, <2>2, <3>2 DEF GenTake, TypeOK
    <3>4. Len(Tail(q)) = l - 1 BY <1>2, <3>3, HeadTailProperties
    <3> QED BY <1>1, <1>2, <1>3, <2>0, <3>1, <3>3, <3>4
  <2>3. CASE GenEmpty(g)
    <3>1. gen[1] = "wait" /\ gen'[1] = "test" /\ UNCHANGED <<sendQ, unfinished>>
      BY <1>0, <2>0, <2>3 DEF GenEmpty, TypeOK
    <3> QED BY <1>1, <1>2, <1>3, <2>0, <3>1
  <2>4. CASE GenHook(g)
    <3>1. gen[1] = "hook" /\ gen'[1] \in {"yield", "done"} /\ UNCHANGED <<sendQ, unfinished>>
      BY <1>0, <2>0, <2>4 DEF GenHook, TypeOK
    <3>2. n = l + 1 BY <1>3, <2>0, <3>1
    <3>3. unfinished'[1] = n /\ Len(sendQ'[1]) = l BY <1>1, <1>2, <3>1
    <3> QED BY <3>1, <3>2, <3>3
  <2>5. CASE GenYield(g) \/ GenResume(g)
    <3>1. gen[1] \in {"yield", "sent"} /\ gen'[1] \in {"sent", "done"} /\ UNCHANGED <<sendQ, unfinished>>
      BY <1>0, <2>0, <2>5 DEF GenYield, GenResume, TypeOK
    <3>2. n = l + 1 BY <1>3, <2>0, <3>1
    <3>3. unfinished'[1] = n /\ Len(sendQ'[1]) = l BY <1>1, <1>2, <3>1
    <3> QED BY <3>1, <3>2, <3>3
  <2>6. CASE GenTaskDone(g)
    <3>1. /\ gen[1] = "done" /\ gen'[1] = "test" /\ UNCHANGED sendQ
          /\ unfinished[1] > 0 /\ unfinished'[1] = unfinished[1] - 1
      BY <1>0, <2>0, <2>6 DEF GenTaskDone, TypeOK
    <3> QED BY <1>1, <1>2, <1>3, <2>0, <3>1
  <2>7. CASE GenDropped(g) \/ GenDrain(g)
    BY <1>0, <2>0, <2>7 DEF GenDropped, GenDrain, TypeOK
  <2> QED BY <1>11, <2>1, <2>2, <2>3, <2>4, <2>5, <2>6, <2>7 DEF Generator
<1>12. ASSUME NEW g \in Gens, Receive(g) \/ RecvNext(g) \/ ServerEnds(g)
       PROVE  unfinished'[1] = Len(sendQ'[1])
                  + (IF gen'[1] \in {"hook", "yield", "sent", "done"} THEN 1 ELSE 0)
  BY <1>4, <1>12, ReceiveFrame
<1>13. CASE UNCHANGED vars BY <1>4, <1>13 DEF vars
<1> QED BY <1>6, <1>7, <1>8, <1>9, <1>10, <1>11, <1>12, <1>13 DEF Next, App, AppCalls

-----------------------------------------------------------------------------
(* The promises.                                                           *)

ClientInv ==
    ConnectionInv /\ StreamInv /\ UniqueInv /\ OrderInv /\ CountInv /\ ReadInv /\ ReadInOrder
        /\ HandedInv

\* A client that has not connected is one of the states the invariant describes.
LEMMA ClientInit == Init => TypeOK /\ ClientInv
<1> SUFFICES ASSUME Init PROVE TypeOK /\ ClientInv
    OBVIOUS
<1> USE DEF Init
<1>1. TypeOK
  <2>1. <<>> \in Seq(Items) OBVIOUS
  <2>2. NoItem \in Items BY ItemTypes
  <2>3. MaxGen \in Nat BY ConstantsAssumption
  <2>4. 0 \in 0..MaxGen BY <2>3
  <2>5. cur \in 0..MaxGen /\ stream \in 0..cur BY <2>4
  <2>6. /\ sendQ \in [Gens -> Seq(Items)] /\ recvQ \in [Gens -> Seq(Items)]
        /\ wire \in [Gens -> Seq(Items)] /\ item \in [Gens -> Items]
        /\ target \in [Gens -> 0..MaxGen]
    BY <2>1, <2>2, <2>4
  <2>7. /\ unfinished \in [Gens -> Nat] /\ got \in [Gens -> Nat] /\ inCount \in [Gens -> Nat]
        /\ sendCount \in Nat /\ runEvent \in BOOLEAN /\ checked \subseteq Gens
    OBVIOUS
  <2> QED BY <2>5, <2>6, <2>7 DEF TypeOK
<1>2. ConnectionInv BY DEF ConnectionInv
<1>3. StreamInv BY DEF StreamInv, Up
<1>4. \A g \in Gens : /\ sendQ[g] = <<>> /\ wire[g] = <<>> /\ Held(g) = {}
                      /\ Range(sendQ[g]) = {} /\ Range(wire[g]) = {}
  BY DEF Held, Range
<1>5. UniqueInv
  <2>1. IsInjective(<<>>) BY DEF IsInjective
  <2> QED BY <1>4, <2>1 DEF UniqueInv
<1>6. OrderInv
  <2>1. Ascending(<<>>) BY DEF Ascending
  <2>2. \A S : Before({}, S) /\ Before(S, {}) BY DEF Before
  <2> QED BY <1>4, <2>1, <2>2 DEF OrderInv
<1>7. CountInv
  <2>1. \A g \in Gens : MaxIn[g] \in Nat BY ConstantsAssumption DEF Gens
  <2> QED BY <2>1 DEF CountInv
<1>8. ReadInv BY DEF ReadInv, Passed
<1>9. ReadInOrder BY DEF ReadInOrder
<1>10. HandedInv
  <2>1. 1 \in Gens BY ConstantsAssumption DEF Gens
  <2> QED BY <2>1 DEF HandedInv
<1> QED BY <1>1, <1>2, <1>3, <1>5, <1>6, <1>7, <1>8, <1>9, <1>10 DEF ClientInv

\* The invariant is inductive.
THEOREM ClientInvariant == Spec => [](TypeOK /\ ClientInv)
<1>1. TypeOK /\ ClientInv /\ [Next]_vars => (TypeOK /\ ClientInv)'
  <2> SUFFICES ASSUME TypeOK, ClientInv, [Next]_vars PROVE TypeOK' /\ ClientInv'
      OBVIOUS
  <2>1. TypeOK' BY TypeStep DEF ClientInv
  <2>2. ConnectionInv' /\ StreamInv' BY ConnectionStep, StreamStep DEF ClientInv
  <2>3. UniqueInv' /\ OrderInv' BY MessageStep DEF ClientInv
  <2>4. CountInv' /\ ReadInv' /\ ReadInOrder' BY CountStep, ReadStep DEF ClientInv
  <2>5. HandedInv' BY HandedStep DEF ClientInv
  <2> QED BY <2>1, <2>2, <2>3, <2>4, <2>5 DEF ClientInv
<1> QED BY <1>1, ClientInit, PTL DEF Spec

\* Every variable of the client keeps the type of what it stands for.
THEOREM TypeCorrect == Spec => []TypeOK
BY ClientInvariant, PTL

\* However connecting and disconnecting end, there is one stream at most, and none afterwards.
THEOREM OneStreamHolds == Spec => []OneStream
<1>1. ClientInv => OneStream BY DEF ClientInv, StreamInv, OneStream
<1> QED BY <1>1, ClientInvariant, PTL

\* No message is yielded twice, nor after one that was sent later, whichever generators
\* share a queue.
THEOREM SentOnceHolds == Spec => []SentOnce
<1>1. TypeOK /\ ClientInv => SentOnce
  <2> SUFFICES ASSUME TypeOK, ClientInv, NEW g \in Gens, NEW h \in Gens,
                      NEW i \in 1..Len(wire[g]), NEW j \in 1..Len(wire[h])
               PROVE  /\ wire[g][i] = wire[h][j] => g = h /\ i = j
                      /\ g = h /\ i < j /\ wire[g][i].kind = "data" /\ wire[g][j].kind = "data"
                             => wire[g][i].n < wire[g][j].n
      BY DEF SentOnce
  <2>1. DOMAIN wire[g] = 1..Len(wire[g]) /\ DOMAIN wire[h] = 1..Len(wire[h])
    BY LenProperties DEF TypeOK
  <2>2. wire[g][i] \in Range(wire[g]) /\ wire[h][j] \in Range(wire[h]) BY <2>1 DEF Range
  <2>3. wire[g][i] = wire[h][j] => g = h BY <2>2 DEF ClientInv, UniqueInv
  <2>4. g = h /\ wire[g][i] = wire[g][j] => i = j
    BY <2>1 DEF ClientInv, UniqueInv, IsInjective
  <2>5. g = h /\ i < j /\ wire[g][i].kind = "data" /\ wire[g][j].kind = "data"
            => wire[g][i].n < wire[g][j].n
    BY DEF ClientInv, OrderInv, Ascending
  <2> QED BY <2>3, <2>4, <2>5
<1> QED BY <1>1, ClientInvariant, PTL

\* No response is read twice or out of its stream's order.
THEOREM ReadInOrderHolds == Spec => []ReadInOrder
BY ClientInvariant, PTL DEF ClientInv

\* The count that wait_done waits for is that of the messages not yet handed over.
THEOREM HandedOverHolds == Spec => []HandedOver
<1>1. ClientInv => HandedOver
  <2>1. cur = 1 => cur <= 1 OBVIOUS
  <2> QED BY <2>1 DEF ClientInv, HandedInv, HandedOver
<1> QED BY <1>1, ClientInvariant, PTL
=============================================================================
