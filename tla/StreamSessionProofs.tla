------------------------ MODULE StreamSessionProofs ------------------------
(***************************************************************************)
(* Theorems about what the broker is to a client.  What reaches it: the    *)
(* welcome first, then every publisher's messages in their order, whoever  *)
(* enrols and publishes concurrently and whatever a full queue drops.  And *)
(* that the broker implements the session of StreamSession: every step of  *)
(* its threads is a step of the session, or changes nothing of it.         *)
(***************************************************************************)
EXTENDS StreamServerProofs, SequenceTheorems

Flows == [s \in Streams |-> Inflow(s)]

\* What a stream may have been handed when the publishers have published so much: nothing, or
\* the welcome and then messages of others, each publisher's in the order of their numbers.
Proper(flow, s, count) ==
    /\ flow \in Seq(Messages)
    /\ flow # <<>> => flow[1] = Welcome
    /\ \A i \in 2..Len(flow) :
          /\ flow[i].from \in Publishers \ {s}
          /\ flow[i].n <= count[flow[i].from]
    /\ \A i, j \in 2..Len(flow) :
          i < j /\ flow[i].from = flow[j].from => flow[i].n < flow[j].n

\* A publisher's latest message is not in the flow yet.
Awaits(flow, p, count) == \A i \in 2..Len(flow) : flow[i].from = p => flow[i].n < count[p]

\* Whoever subscribes or is about to be notified has been welcomed, and whom a publisher has
\* still to notify lacks exactly its latest message.
AudienceInv ==
    \A s \in Streams :
        /\ \A k \in Topics : s \in subs[k] => Flows[s] # <<>>
        /\ \A p \in Publishers : s \in fan[p] =>
              s # p /\ Flows[s] # <<>> /\ Awaits(Flows[s], p, published)

\* Until its enrolment a stream is handed nothing.
EnrolmentInv ==
    \A s \in Streams :
        /\ receiver[s] = "name" => ~identified[s]
        /\ receiver[s] \in {"connect", "accepted", "enroll", "topics"} => identified[s]
        /\ ~identified[s] \/ receiver[s] \in {"connect", "accepted", "enroll"} => Flows[s] = <<>>
        /\ receiver[s] = "topics" => Flows[s] # <<>>

FlowInv == \A s \in Streams : Proper(Flows[s], s, published)

InflowInv == AudienceInv /\ EnrolmentInv /\ FlowInv

-----------------------------------------------------------------------------
(* Flows as sequences.                                                     *)

\* Appending to the queue appends to the flow.
LEMMA AppendFlow ==
    ASSUME NEW a \in Seq(Messages), NEW b \in Seq(Messages), NEW m \in Messages
    PROVE  a \o Append(b, m) = Append(a \o b, m)
<1>1. <<m>> \in Seq(Messages) /\ a \o b \in Seq(Messages) BY ConcatProperties
<1>2. Append(b, m) = b \o <<m>> /\ Append(a \o b, m) = (a \o b) \o <<m>>
  BY <1>1, AppendIsConcat
<1>3. (a \o b) \o <<m>> = a \o (b \o <<m>>) BY <1>1, ConcatAssociative
<1> QED BY <1>2, <1>3

\* A message that is taken out of the queue and yielded stays where it was in the flow.
LEMMA YieldFlow ==
    ASSUME NEW a \in Seq(Messages), NEW b \in Seq(Messages), b # <<>>
    PROVE  Append(a, Head(b)) \o Tail(b) = a \o b
<1>1. Head(b) \in Messages /\ Tail(b) \in Seq(Messages) /\ <<Head(b)>> \in Seq(Messages)
  BY HeadTailProperties
<1>2. Append(a, Head(b)) = a \o <<Head(b)>> BY <1>1, AppendIsConcat
<1>3. (a \o <<Head(b)>>) \o Tail(b) = a \o (<<Head(b)>> \o Tail(b))
  BY <1>1, ConcatAssociative
<1>4. <<Head(b)>> \o Tail(b) = b
  <2> DEFINE c == <<Head(b)>> \o Tail(b)
  <2>1. c \in Seq(Messages) /\ Len(c) = 1 + Len(Tail(b))
    BY <1>1, ConcatProperties
  <2>2. Len(Tail(b)) = Len(b) - 1 /\ Len(b) \in Nat BY HeadTailProperties
  <2>3. Len(c) = Len(b) BY <2>1, <2>2
  <2>4. ASSUME NEW i \in 1..Len(b) PROVE c[i] = b[i]
    <3>1. c[i] = IF i <= 1 THEN <<Head(b)>>[i] ELSE Tail(b)[i - 1]
      BY <1>1, <2>1, <2>3, ConcatProperties
    <3>2. CASE i = 1 BY <3>1, <3>2
    <3>3. CASE i # 1
      <4>1. i - 1 \in 1..Len(Tail(b)) BY <2>2, <3>3
      <4>2. Tail(b)[i - 1] = b[(i - 1) + 1] BY <4>1, HeadTailProperties
      <4> QED BY <3>1, <3>3, <4>2
    <3> QED BY <3>2, <3>3
  <2> HIDE DEF c
  <2>5. c = b BY <2>1, <2>3, <2>4, SeqEqual
  <2> QED BY <2>5 DEF c
<1> QED BY <1>2, <1>3, <1>4

\* The welcome begins a flow.
LEMMA Welcomed ==
    ASSUME NEW s \in Streams, NEW count \in [Publishers -> Nat]
    PROVE  Proper(Append(<<>>, Welcome), s, count)
BY DEF Proper, Welcome, Messages

\* A publisher's latest message continues a flow that lacks it.
LEMMA Continued ==
    ASSUME NEW s \in Streams, NEW count \in [Publishers -> Nat], NEW p \in Publishers \ {s},
           NEW flow, Proper(flow, s, count), flow # <<>>, Awaits(flow, p, count)
    PROVE  /\ Proper(Append(flow, Data(p, count[p])), s, count)
           /\ \A q \in Publishers \ {p} : Awaits(flow, q, count) =>
                 Awaits(Append(flow, Data(p, count[p])), q, count)
<1> DEFINE m == Data(p, count[p])
<1> DEFINE longer == Append(flow, m)
<1>1. m \in Messages /\ m.from = p /\ m.n = count[p] BY DEF Messages, Data
<1> HIDE DEF m
<1>2. flow \in Seq(Messages) BY DEF Proper
<1>3. /\ longer \in Seq(Messages) /\ longer # <<>> /\ Len(longer) = Len(flow) + 1
      /\ \A i \in 1..Len(flow) : longer[i] = flow[i]
      /\ longer[Len(flow) + 1] = m
  BY <1>1, <1>2, AppendProperties
<1>4. Len(flow) \in Nat /\ Len(flow) >= 1 BY <1>2
<1> HIDE DEF longer
<1>5. longer[1] = Welcome BY <1>3, <1>4 DEF Proper
<1>6. ASSUME NEW i \in 2..Len(longer)
      PROVE  longer[i].from \in Publishers \ {s} /\ longer[i].n <= count[longer[i].from]
  <2>1. CASE i = Len(flow) + 1 BY <1>1, <1>3, <2>1
  <2>2. CASE i # Len(flow) + 1
    <3>1. i \in 2..Len(flow) /\ longer[i] = flow[i] BY <1>3, <1>4, <2>2
    <3> QED BY <3>1 DEF Proper
  <2> QED BY <2>1, <2>2
<1>7. ASSUME NEW i \in 2..Len(longer), NEW j \in 2..Len(longer), i < j,
             longer[i].from = longer[j].from
      PROVE  longer[i].n < longer[j].n
  <2>1. i \in 2..Len(flow) /\ longer[i] = flow[i] BY <1>3, <1>4, <1>7
  <2>2. CASE j = Len(flow) + 1 BY <1>1, <1>3, <1>7, <2>1, <2>2 DEF Awaits
  <2>3. CASE j # Len(flow) + 1
    <3>1. j \in 2..Len(flow) /\ longer[j] = flow[j] BY <1>3, <1>4, <2>3
    <3> QED BY <1>7, <2>1, <3>1 DEF Proper
  <2> QED BY <2>2, <2>3
<1>8. Proper(longer, s, count) BY <1>3, <1>5, <1>6, <1>7 DEF Proper
<1>9. ASSUME NEW q \in Publishers \ {p}, Awaits(flow, q, count) PROVE Awaits(longer, q, count)
  <2> SUFFICES ASSUME NEW i \in 2..Len(longer), longer[i].from = q PROVE longer[i].n < count[q]
    BY DEF Awaits
  <2>1. i # Len(flow) + 1 BY <1>1, <1>3
  <2>2. i \in 2..Len(flow) /\ longer[i] = flow[i] BY <1>3, <1>4, <2>1
  <2> QED BY <1>9, <2>2 DEF Awaits
<1> QED BY <1>8, <1>9 DEF longer, m

\* A message that is only just published is in no flow.
LEMMA JustPublished ==
    ASSUME NEW s \in Streams, NEW count \in [Publishers -> Nat], NEW p \in Publishers,
           NEW flow \in Seq(Messages), Proper(flow, s, count),
           NEW count1 \in [Publishers -> Nat],
           \A q \in Publishers : count1[q] = IF q = p THEN count[q] + 1 ELSE count[q]
    PROVE  /\ Proper(flow, s, count1)
           /\ Awaits(flow, p, count1)
           /\ \A q \in Publishers : Awaits(flow, q, count) => Awaits(flow, q, count1)
<1>2. ASSUME NEW i \in 2..Len(flow)
      PROVE  /\ flow[i].from \in Publishers \ {s} /\ flow[i].n \in Nat
             /\ flow[i].n <= count[flow[i].from]
  <2>1. flow[i] \in Messages OBVIOUS
  <2> QED BY <2>1 DEF Proper, Messages
<1>3. \A q \in Publishers : count[q] \in Nat /\ count1[q] = IF q = p THEN count[q] + 1 ELSE count[q]
  OBVIOUS
<1>4. ASSUME NEW i \in 2..Len(flow) PROVE flow[i].n <= count1[flow[i].from]
  <2>1. PICK q \in Publishers : q = flow[i].from BY <1>2
  <2>2. flow[i].n <= count[q] /\ flow[i].n \in Nat BY <1>2, <2>1
  <2>3. count[q] \in Nat /\ count[q] <= count1[q] BY <1>3
  <2>4. count1[q] \in Nat OBVIOUS
  <2>5. flow[i].n <= count1[q] BY <2>2, <2>3, <2>4
  <2> QED BY <2>1, <2>5
<1>5. Proper(flow, s, count1) BY <1>4 DEF Proper
<1>6. Awaits(flow, p, count1)
  <2> SUFFICES ASSUME NEW i \in 2..Len(flow), flow[i].from = p PROVE flow[i].n < count1[p]
    BY DEF Awaits
  <2> QED BY <1>2, <1>3
<1>7. ASSUME NEW q \in Publishers, Awaits(flow, q, count) PROVE Awaits(flow, q, count1)
  <2> SUFFICES ASSUME NEW i \in 2..Len(flow), flow[i].from = q PROVE flow[i].n < count1[q]
    BY DEF Awaits
  <2>1. flow[i].n < count[q] BY <1>7 DEF Awaits
  <2> QED BY <1>2, <1>3, <2>1
<1> QED BY <1>5, <1>6, <1>7

-----------------------------------------------------------------------------
(* The steps of the broker.                                                *)

\* A step that hands nothing to any stream and subscribes nobody.
LEMMA QuietStep ==
    ASSUME InflowInv, Flows' = Flows, UNCHANGED <<fan, published>>,
           \A k \in Topics : subs'[k] \subseteq subs[k],
           \A s \in Streams :
               \/ receiver'[s] = receiver[s] /\ identified'[s] = identified[s]
               \/ /\ receiver'[s] \notin {"name", "connect", "accepted", "enroll", "topics"}
                  /\ identified'[s] = identified[s]
    PROVE  InflowInv'
<1> USE DEF InflowInv
<1>1. AudienceInv' BY DEF AudienceInv
<1>2. EnrolmentInv' BY DEF EnrolmentInv
<1>3. FlowInv' BY DEF FlowInv
<1> QED BY <1>1, <1>2, <1>3

\* Yielding a message hands a stream nothing new.
LEMMA YieldedFlows ==
    ASSUME TypeOK, NEW s \in Streams, GetMessage(s) PROVE Flows' = Flows
  <1>1. PICK a, b : a = sent /\ b = queue OBVIOUS
  <1>2. /\ sent' = [a EXCEPT ![s] = Append(@, Head(b[s]))]
        /\ queue' = [b EXCEPT ![s] = Tail(@)]
        /\ b[s] # <<>>
    BY <1>1 DEF GetMessage, SenderAt
  <1>3. a \in [Streams -> Seq(Messages)] /\ b \in [Streams -> Seq(Messages)]
    BY <1>1 DEF TypeOK
  <1>4. Append(a[s], Head(b[s])) \o Tail(b[s]) = a[s] \o b[s] BY <1>2, <1>3, YieldFlow
  <1>5. ASSUME NEW r \in Streams PROVE sent'[r] \o queue'[r] = a[r] \o b[r]
    BY <1>2, <1>3, <1>4
  <1> QED BY <1>1, <1>5 DEF Flows, Inflow

\* A put appends to the flow of the stream it is for, and to no other.
LEMMA PutFlows ==
    ASSUME TypeOK, NEW s \in Streams, NEW m \in Messages,
           queue' = [queue EXCEPT ![s] = Append(@, m)], UNCHANGED sent
    PROVE  Flows' = [Flows EXCEPT ![s] = Append(@, m)]
<1>1. PICK a, b : a = sent /\ b = queue OBVIOUS
<1>2. a \in [Streams -> Seq(Messages)] /\ b \in [Streams -> Seq(Messages)]
  BY <1>1 DEF TypeOK
<1>3. queue' = [b EXCEPT ![s] = Append(@, m)] /\ sent' = a BY <1>1
<1>4. a[s] \o Append(b[s], m) = Append(a[s] \o b[s], m) BY <1>2, AppendFlow
<1>5. ASSUME NEW r \in Streams
      PROVE  sent'[r] \o queue'[r] = IF r = s THEN Append(a[r] \o b[r], m) ELSE a[r] \o b[r]
  BY <1>2, <1>3, <1>4
<1>6. Flows = [r \in Streams |-> a[r] \o b[r]] BY <1>1 DEF Flows, Inflow
<1>7. Flows' = [r \in Streams |-> sent'[r] \o queue'[r]] BY DEF Flows, Inflow
<1> QED BY <1>5, <1>6, <1>7

\* The sender of a stream moves messages from the queue to the transport and unsubscribes.
LEMMA SenderStep ==
    ASSUME TypeOK, InflowInv, NEW s \in Streams, Sender(s) PROVE InflowInv'
<1> USE DEF SenderAt, ReceiverAt, serveVars, senderVars, workVars, sharedVars
<1>1. CASE GetMessage(s)
  <2>1. Flows' = Flows BY <1>1, YieldedFlows
  <2> QED BY <1>1, <2>1, QuietStep DEF GetMessage
<1>2. CASE StartReceiver(s)
  <2>1. Flows' = Flows BY <1>2 DEF StartReceiver, Flows, Inflow
  <2> QED BY <1>2, <2>1, QuietStep DEF StartReceiver, TypeOK
<1>3. CASE RemoveSubscription(s)
  <2>1. Flows' = Flows BY <1>3 DEF RemoveSubscription, Flows, Inflow
  <2>2. \A k \in Topics : subs'[k] \subseteq subs[k] BY <1>3 DEF RemoveSubscription, TypeOK
  <2> QED BY <1>3, <2>1, <2>2, QuietStep DEF RemoveSubscription
<1>4. ASSUME UNCHANGED <<sent, queue, fan, published, subs, receiver, identified>>
      PROVE  InflowInv'
  <2>1. Flows' = Flows BY <1>4 DEF Flows, Inflow
  <2> QED BY <1>4, <2>1, QuietStep
<1> QED BY <1>1, <1>2, <1>3, <1>4 DEF Sender, CountConnection, AddCallback, SkipStopped,
        KeepStream, SchemaMismatch, LoopTest, GetTimeout, Resume, DropGenerator, BeginCleanup,
        EndCleanup, DisconnectHook, UncountConnection

\* A publisher takes its snapshot: whom it will notify has been welcomed, and its new message
\* is nowhere yet.
LEMMA SnapshotStep ==
    ASSUME TypeOK, InflowInv, NEW p \in Publishers, NEW k \in Topics, Snapshot(p, k),
           Flows' = Flows, EnrolmentInv', UNCHANGED subs
    PROVE  InflowInv'
<1>1. published \in [Publishers -> Nat] BY DEF TypeOK
<1>2. published' = [published EXCEPT ![p] = @ + 1] BY DEF Snapshot
<1>3. ASSUME NEW s \in Streams
      PROVE  /\ Proper(Flows[s], s, published')
             /\ Awaits(Flows[s], p, published')
             /\ \A q \in Publishers : Awaits(Flows[s], q, published) =>
                   Awaits(Flows[s], q, published')
  <2>1. Proper(Flows[s], s, published) BY DEF InflowInv, FlowInv
  <2>2. PICK flow, c, d : flow = Flows[s] /\ c = published /\ d = published' OBVIOUS
  <2>3. /\ c \in [Publishers -> Nat] /\ d \in [Publishers -> Nat]
        /\ \A q \in Publishers : d[q] = IF q = p THEN c[q] + 1 ELSE c[q]
        /\ flow \in Seq(Messages) /\ Proper(flow, s, c)
    BY <1>1, <1>2, <2>1, <2>2 DEF Proper
  <2>4. /\ Proper(flow, s, d) /\ Awaits(flow, p, d)
        /\ \A q \in Publishers : Awaits(flow, q, c) => Awaits(flow, q, d)
    <3>1. Proper(flow, s, d) BY <2>3, JustPublished, Zenon
    <3>2. Awaits(flow, p, d) BY <2>3, JustPublished
    <3>3. \A q \in Publishers : Awaits(flow, q, c) => Awaits(flow, q, d)
      BY <2>3, JustPublished
    <3> QED BY <3>1, <3>2, <3>3
  <2> QED BY <2>2, <2>4
<1>4. FlowInv' BY <1>3 DEF FlowInv
<1>5. fan' = [fan EXCEPT ![p] = subs[k] \ {p}] /\ fan \in [Publishers -> SUBSET Streams]
  BY DEF Snapshot, TypeOK
<1>6. AudienceInv'
  <2> SUFFICES ASSUME NEW s \in Streams, NEW q \in Publishers, s \in fan'[q]
               PROVE  s # q /\ Flows[s] # <<>> /\ Awaits(Flows[s], q, published')
    BY DEF AudienceInv, InflowInv
  <2>1. CASE q = p BY <1>3, <1>5, <2>1 DEF AudienceInv, InflowInv
  <2>2. CASE q # p
    <3>1. s \in fan[q] BY <1>5, <2>2
    <3> QED BY <1>3, <3>1 DEF AudienceInv, InflowInv
  <2> QED BY <2>1, <2>2
<1> QED BY <1>4, <1>6 DEF InflowInv

\* One put of a fan-out.
LEMMA NotifyStep ==
    ASSUME TypeOK, InflowInv, NEW p \in Publishers, Notify(p) PROVE InflowInv'
<1>1. PICK s \in fan[p] :
        /\ fan' = [fan EXCEPT ![p] = @ \ {s}]
        /\ queue' = IF Room(s) THEN [queue EXCEPT ![s] = Append(@, Data(p, published[p]))]
                               ELSE queue
  BY DEF Notify
<1>2. s \in Streams /\ fan \in [Publishers -> SUBSET Streams] BY DEF TypeOK
<1>3. UNCHANGED <<sent, subs, receiver, identified, published>>
  BY DEF Notify, senderVars
<1>4. s # p /\ Flows[s] # <<>> /\ Awaits(Flows[s], p, published)
  BY <1>1, <1>2 DEF InflowInv, AudienceInv
<1>5. EnrolmentInv /\ AudienceInv /\ FlowInv BY DEF InflowInv
<1>6. \A q \in Publishers : fan'[q] \subseteq fan[q] BY <1>1, <1>2
<1>7. s \notin fan'[p] BY <1>1, <1>2
<1>8. CASE Room(s)
  <2> DEFINE m == Data(p, published[p])
  <2>1. m \in Messages BY DEF TypeOK, Data, Messages
  <2>2. Flows' = [Flows EXCEPT ![s] = Append(@, m)]
    <3>1. PICK d \in Messages : d = m BY <2>1
    <3>2. queue' = [queue EXCEPT ![s] = Append(@, d)] BY <1>1, <1>8, <3>1
    <3> HIDE DEF m
    <3>3. Flows' = [Flows EXCEPT ![s] = Append(@, d)] BY <1>2, <1>3, <3>2, PutFlows
    <3> QED BY <3>1, <3>3
  <2>3. Proper(Flows[s], s, published) BY <1>2 DEF InflowInv, FlowInv
  <2>4. published \in [Publishers -> Nat] BY DEF TypeOK
  <2>5. PICK f, g : f = Flows /\ g = Flows' OBVIOUS
  <2>6. DOMAIN f = Streams BY <2>5 DEF Flows
  <2>7. g[s] = Append(f[s], m) /\ \A r \in Streams \ {s} : g[r] = f[r]
    BY <1>2, <2>2, <2>5, <2>6
  <2>8. /\ Proper(g[s], s, published)
        /\ \A q \in Publishers \ {p} : Awaits(f[s], q, published) => Awaits(g[s], q, published)
    BY <1>2, <1>4, <2>3, <2>4, <2>5, <2>7, Continued
  <2>9. g[s] # <<>>
    <3>1. f[s] \in Seq(Messages) BY <2>3, <2>5 DEF Proper
    <3> HIDE DEF m
    <3> QED BY <2>1, <2>7, <3>1
  <2> HIDE DEF m
  <2>10. FlowInv'
    <3> SUFFICES ASSUME NEW r \in Streams PROVE Proper(g[r], r, published)
      BY <1>3, <2>5 DEF FlowInv
    <3> QED BY <1>5, <2>5, <2>7, <2>8 DEF FlowInv
  <2>11. EnrolmentInv'
    BY <1>3, <1>4, <1>5, <2>5, <2>7, <2>9 DEF EnrolmentInv
  <2>12. AudienceInv'
    <3>1. ASSUME NEW r \in Streams, NEW k \in Topics, r \in subs[k] PROVE g[r] # <<>>
      BY <1>5, <2>5, <2>7, <2>9, <3>1 DEF AudienceInv
    <3>2. ASSUME NEW r \in Streams, NEW q \in Publishers, r \in fan'[q]
          PROVE  r # q /\ g[r] # <<>> /\ Awaits(g[r], q, published)
      <4>1. r \in fan[q] BY <1>6, <3>2
      <4>2. r # q /\ f[r] # <<>> /\ Awaits(f[r], q, published)
        BY <1>5, <2>5, <4>1 DEF AudienceInv
      <4>3. r = s => q # p BY <1>7, <3>2
      <4> QED BY <2>7, <2>8, <2>9, <4>2, <4>3
    <3> QED BY <1>3, <2>5, <3>1, <3>2 DEF AudienceInv
  <2> QED BY <2>10, <2>11, <2>12 DEF InflowInv
<1>9. CASE ~Room(s)
  <2>1. Flows' = Flows BY <1>1, <1>3, <1>9 DEF Flows, Inflow
  <2>2. AudienceInv' BY <1>3, <1>5, <1>6, <2>1 DEF AudienceInv
  <2>3. EnrolmentInv' BY <1>3, <1>5, <2>1 DEF EnrolmentInv
  <2>4. FlowInv' BY <1>3, <1>5, <2>1 DEF FlowInv
  <2> QED BY <2>2, <2>3, <2>4 DEF InflowInv
<1> QED BY <1>8, <1>9

\* The receive worker welcomes its client before it subscribes it, and routes what it sends.
LEMMA ReceiverStep ==
    ASSUME TypeOK, InflowInv, NEW s \in Streams, Request(s) \/ HalfClose(s) \/ Receiver(s)
    PROVE  InflowInv'
<1> USE DEF SenderAt, ReceiverAt, serveVars, senderVars, workVars, sharedVars
<1> s \in Publishers BY DEF Publishers
<1>1. CASE SendWelcome(s)
  <2>1. Flows[s] = <<>> BY <1>1 DEF SendWelcome, InflowInv, EnrolmentInv
  <2>2. PICK f, g : f = Flows /\ g = Flows' OBVIOUS
  <2>3. g[s] = Append(<<>>, Welcome) /\ \A r \in Streams \ {s} : g[r] = f[r]
    <3>1. Welcome \in Messages BY DEF Welcome, Messages
    <3>2. Flows' = [Flows EXCEPT ![s] = Append(@, Welcome)]
      BY <1>1, <3>1, PutFlows DEF SendWelcome
    <3>3. DOMAIN Flows = Streams BY DEF Flows
    <3> QED BY <2>1, <2>2, <3>2, <3>3
  <2>4. UNCHANGED <<subs, fan, published, identified>> /\ receiver' = [receiver EXCEPT ![s] = "topics"]
    BY <1>1 DEF SendWelcome
  <2>5. published \in [Publishers -> Nat] /\ receiver \in [Streams -> ReceiverStates]
    BY DEF TypeOK
  <2>6. Proper(g[s], s, published)
    <3>1. PICK c : c = published OBVIOUS
    <3>2. Proper(Append(<<>>, Welcome), s, c) BY <2>5, <3>1, Welcomed
    <3> QED BY <2>3, <3>1, <3>2
  <2>7. FlowInv' BY <2>2, <2>3, <2>4, <2>6 DEF InflowInv, FlowInv
  <2>8. g[s] # <<>> BY <2>3
  <2>9. EnrolmentInv'
    <3>1. receiver[s] = "enroll" /\ identified[s]
      BY <1>1 DEF SendWelcome, InflowInv, EnrolmentInv
    <3> QED BY <2>2, <2>3, <2>4, <2>5, <2>8, <3>1 DEF InflowInv, EnrolmentInv
  <2>10. \A k \in Topics : s \notin subs[k] BY <2>1 DEF InflowInv, AudienceInv
  <2>11. \A q \in Publishers : s \notin fan[q] BY <2>1 DEF InflowInv, AudienceInv
  <2>12. AudienceInv'
    BY <2>2, <2>3, <2>4, <2>10, <2>11 DEF InflowInv, AudienceInv
  <2> QED BY <2>7, <2>9, <2>12 DEF InflowInv
<1>2. CASE Notify(s) BY <1>2, NotifyStep
<1>3. CASE RouteData(s)
  <2>1. PICK k \in Topics : Snapshot(s, k) BY <1>3 DEF RouteData
  <2>2. Flows' = Flows BY <1>3 DEF RouteData, Flows, Inflow
  <2>3. EnrolmentInv' BY <1>3, <2>2 DEF RouteData, InflowInv, EnrolmentInv, TypeOK
  <2> QED BY <1>3, <2>1, <2>2, <2>3, SnapshotStep DEF RouteData
<1>4. CASE Subscribe(s)
  <2>1. Flows' = Flows BY <1>4 DEF Subscribe, Flows, Inflow
  <2>2. Flows[s] # <<>> BY <1>4 DEF Subscribe, InflowInv, EnrolmentInv
  <2>3. \A k \in Topics : subs'[k] \subseteq subs[k] \cup {s} BY <1>4 DEF Subscribe, TypeOK
  <2>4. UNCHANGED <<fan, published, receiver, identified>> BY <1>4 DEF Subscribe
  <2>5. AudienceInv' BY <2>1, <2>2, <2>3, <2>4 DEF InflowInv, AudienceInv
  <2>6. EnrolmentInv' BY <2>1, <2>4 DEF InflowInv, EnrolmentInv
  <2>7. FlowInv' BY <2>1, <2>4 DEF InflowInv, FlowInv
  <2> QED BY <2>5, <2>6, <2>7 DEF InflowInv
<1>5. CASE TakeRequest(s) \/ Identify(s) \/ AcceptClient(s) \/ AcceptedHook(s)
  <2>1. Flows' = Flows
    BY <1>5 DEF TakeRequest, Identify, AcceptClient, AcceptedHook, Flows, Inflow
  <2>2. UNCHANGED <<fan, published, subs>>
    BY <1>5 DEF TakeRequest, Identify, AcceptClient, AcceptedHook
  <2>3. EnrolmentInv'
    BY <1>5, <2>1 DEF TakeRequest, Identify, AcceptClient, AcceptedHook, InflowInv, EnrolmentInv,
                      TypeOK
  <2>4. AudienceInv' /\ FlowInv' BY <2>1, <2>2 DEF InflowInv, AudienceInv, FlowInv
  <2> QED BY <2>3, <2>4 DEF InflowInv
<1>6. ASSUME UNCHANGED <<sent, queue, fan, published, subs, identified>>,
             \E to \in {"got", "fin", "iter", "dead"} : receiver' = [receiver EXCEPT ![s] = to]
      PROVE  InflowInv'
  <2>1. Flows' = Flows BY <1>6 DEF Flows, Inflow
  <2>2. receiver \in [Streams -> ReceiverStates] BY DEF TypeOK
  <2> QED BY <1>6, <2>1, <2>2, QuietStep
<1>7. CASE Request(s) \/ HalfClose(s) \/ IteratorEnds(s)
  BY <1>6, <1>7 DEF Request, HalfClose, IteratorEnds
<1>8. CASE HookRaises(s) \/ HookRaisesRpcError(s) \/ RejectClient(s) \/ EnrollTooLate(s)
        \/ SubscribeTwice(s)
  BY <1>6, <1>8 DEF HookRaises, HookRaisesRpcError, LeaveHook, RejectClient, EnrollTooLate,
        SubscribeTwice
<1>9. CASE EndEnroll(s) \/ SuppressData(s) \/ EndFan(s) \/ ReceiverFinally(s)
  BY <1>6, <1>9 DEF EndEnroll, SuppressData, EndFan, ReceiverFinally
<1> QED BY <1>1, <1>2, <1>3, <1>4, <1>5, <1>7, <1>8, <1>9 DEF Receiver

\* Every step of the broker keeps the invariant.
LEMMA InflowStep == TypeOK /\ InflowInv /\ [Next]_vars => InflowInv'
<1> SUFFICES ASSUME TypeOK, InflowInv, [Next]_vars PROVE InflowInv'
    OBVIOUS
<1> USE DEF SenderAt, ReceiverAt, MainAt, serveVars, senderVars, workVars, sharedVars
<1>1. ASSUME NEW s \in Streams, Sender(s) PROVE InflowInv' BY <1>1, SenderStep
<1>2. ASSUME NEW s \in Streams, Request(s) \/ HalfClose(s) \/ Receiver(s) PROVE InflowInv'
  BY <1>2, ReceiverStep
<1>3. CASE Notify(Pusher) BY <1>3, NotifyStep DEF Publishers
<1>4. CASE Push
  <2>1. PICK k \in Topics : Snapshot(Pusher, k) BY <1>4 DEF Push
  <2>2. Flows' = Flows BY <1>4 DEF Push, Flows, Inflow
  <2>3. EnrolmentInv' BY <1>4, <2>2 DEF Push, InflowInv, EnrolmentInv
  <2> QED BY <1>4, <2>1, <2>2, <2>3, SnapshotStep DEF Push, Publishers
<1>5. ASSUME UNCHANGED <<sent, queue, fan, published, subs, receiver, identified>>
      PROVE  InflowInv'
  <2>1. Flows' = Flows BY <1>5 DEF Flows, Inflow
  <2> QED BY <1>5, <2>1, QuietStep
<1>6. ASSUME NEW s \in Streams, Admit(s) \/ Refuse(s) \/ RpcEnds(s) \/ TerminationCallback(s)
      PROVE  InflowInv'
  BY <1>5, <1>6 DEF Admit, Refuse, RpcEnds, TerminationCallback
<1>7. CASE Main
  BY <1>5, <1>7 DEF Main, ServerStarts, StartFails, ServeEnds, Shutdown, StopTransport,
                    ServeReturns
<1>8. CASE Interrupt \/ RequestShutdown BY <1>5, <1>8 DEF Interrupt, RequestShutdown
<1>9. CASE UNCHANGED vars BY <1>5, <1>9 DEF vars
<1> QED BY <1>1, <1>2, <1>3, <1>4, <1>6, <1>7, <1>8, <1>9 DEF Next, Finished

\* The invariant holds in every reachable state.
LEMMA InflowCorrect == Spec => []InflowInv
<1>1. Init => InflowInv
  <2> SUFFICES ASSUME Init PROVE InflowInv
    OBVIOUS
  <2>1. \A s \in Streams : Flows[s] = <<>>
    <3>1. ASSUME NEW s \in Streams PROVE sent[s] \o queue[s] = <<>>
      BY DEF Init
    <3> QED BY <3>1 DEF Flows, Inflow
  <2>2. AudienceInv BY DEF Init, AudienceInv
  <2>3. EnrolmentInv BY <2>1 DEF Init, EnrolmentInv
  <2>4. FlowInv
    <3>1. <<>> \in Seq(Messages) /\ 2..Len(<<>>) = {} OBVIOUS
    <3>2. ASSUME NEW s \in Streams, NEW c PROVE Proper(<<>>, s, c) BY <3>1 DEF Proper
    <3> QED BY <2>1, <3>2 DEF FlowInv
  <2> QED BY <2>2, <2>3, <2>4 DEF InflowInv
<1>2. TypeOK /\ InflowInv /\ [Next]_vars => InflowInv' BY InflowStep
<1> QED BY <1>1, <1>2, TypeCorrect, PTL DEF Spec

\* What a client can read begins with the welcome, and no other message is one.
THEOREM WelcomeFirstHolds == Spec => []WelcomeFirst
<1>1. FlowInv => WelcomeFirst
  <2> SUFFICES ASSUME FlowInv, NEW s \in Streams, NEW i \in 1..Len(Inflow(s))
               PROVE  Inflow(s)[i] = Welcome <=> i = 1
    BY DEF WelcomeFirst
  <2>1. Proper(Inflow(s), s, published) BY DEF FlowInv, Flows
  <2> HIDE DEF Inflow
  <2>2. CASE i = 1 BY <2>1, <2>2 DEF Proper
  <2>3. CASE i # 1
    <3>1. i \in 2..Len(Inflow(s)) BY <2>3
    <3>2. Inflow(s)[i].from \in Publishers BY <2>1, <3>1 DEF Proper
    <3>3. Welcome.from \notin Publishers BY ConstantsAssumption DEF Welcome, Publishers
    <3> QED BY <2>3, <3>2, <3>3
  <2> QED BY <2>2, <2>3
<1> QED BY <1>1, InflowCorrect, PTL DEF InflowInv

\* A client never gets its own messages, and gets every other publisher's in their order and
\* none of them twice, whatever is dropped.
THEOREM PublisherOrderHolds == Spec => []PublisherOrder
<1>1. FlowInv => PublisherOrder
  <2> SUFFICES ASSUME FlowInv, NEW s \in Streams, NEW i \in 1..Len(Inflow(s)),
                      NEW j \in 1..Len(Inflow(s))
               PROVE  /\ Inflow(s)[i].from # s
                      /\ i < j /\ Inflow(s)[i].from = Inflow(s)[j].from =>
                            Inflow(s)[i].n < Inflow(s)[j].n
    BY DEF PublisherOrder
  <2>1. Proper(Inflow(s), s, published) BY DEF FlowInv, Flows
  <2>2. PICK flow : flow = Inflow(s) OBVIOUS
  <2>3. flow \in Seq(Messages) /\ flow # <<>> BY <2>1, <2>2 DEF Proper
  <2>4. flow[1] = Welcome BY <2>1, <2>2, <2>3 DEF Proper
  <2>5. Welcome.from \notin Publishers /\ s \in Publishers
    BY ConstantsAssumption DEF Welcome, Publishers
  <2>6. \A k \in 2..Len(flow) : flow[k].from \in Publishers \ {s} BY <2>1, <2>2 DEF Proper
  <2>7. flow[i].from # s
    <3>1. CASE i = 1 BY <2>4, <2>5, <3>1
    <3>2. CASE i # 1 BY <2>2, <2>6, <3>2
    <3> QED BY <3>1, <3>2
  <2>8. ASSUME i < j, flow[i].from = flow[j].from PROVE flow[i].n < flow[j].n
    <3>1. j \in 2..Len(flow) BY <2>2, <2>8
    <3>2. i # 1 BY <2>4, <2>5, <2>6, <2>8, <3>1
    <3>3. i \in 2..Len(flow) BY <2>2, <3>2
    <3> QED BY <2>1, <2>2, <2>8, <3>1, <3>3 DEF Proper
  <2> QED BY <2>2, <2>7, <2>8
<1> QED BY <1>1, InflowCorrect, PTL DEF InflowInv

-----------------------------------------------------------------------------
(* The session.                                                            *)

Phases == [s \in Streams |-> Phase(s)]
Joined == [s \in Streams |-> {t \in Topics : s \in subs[t]}]

SessionInv == TypeOK /\ RegistrationInv /\ InflowInv

\* The phase of a stream, as its sender and its inflow determine it.
LEMMA PhaseCases ==
    ASSUME NEW s \in Streams
    PROVE  /\ CleanedUp(s) => Phases[s] = "released"
           /\ sender[s] = "remove" => Phases[s] = "closed"
           /\ sender[s] # "remove" /\ ~CleanedUp(s) =>
                 Phases[s] = IF Flows[s] = <<>> THEN "idle" ELSE "open"
BY DEF Phases, Phase, Flows, CleanedUp

\* The same after a step.
LEMMA PhaseCasesNext ==
    ASSUME NEW s \in Streams
    PROVE  /\ CleanedUp(s)' => Phases'[s] = "released"
           /\ sender'[s] = "remove" => Phases'[s] = "closed"
           /\ sender'[s] # "remove" /\ ~CleanedUp(s)' =>
                 Phases'[s] = IF Flows'[s] = <<>> THEN "idle" ELSE "open"
BY DEF Phases, Phase, Flows, CleanedUp

\* Phases, topics, inflow and counts are all there is to a session.
LEMMA Stutters ==
    ASSUME Phases' = Phases, Joined' = Joined, Flows' = Flows, UNCHANGED published
    PROVE  UNCHANGED Session!vars
BY DEF Session!vars, Phases, Joined, Flows

\* A step that moves a sender within a phase, or no sender, is none of the session.
LEMMA SamePhase ==
    ASSUME NEW s \in Streams, NEW to, sender \in [Streams -> SenderStates],
           sender' = [sender EXCEPT ![s] = to],
           sender[s] \in {"hook", "uncount", "done"} <=> to \in {"hook", "uncount", "done"},
           sender[s] = "remove" <=> to = "remove",
           Flows' = Flows
    PROVE  Phases' = Phases
<1>1. ASSUME NEW r \in Streams PROVE Phases'[r] = Phases[r]
  BY PhaseCases, PhaseCasesNext DEF CleanedUp
<1>2. /\ DOMAIN Phases = Streams /\ DOMAIN Phases' = Streams
      /\ Phases = [r \in Streams |-> Phases[r]] /\ Phases' = [r \in Streams |-> Phases'[r]]
  BY DEF Phases
<1> QED BY <1>1, <1>2

\* Topics are mapped as the table is.
LEMMA JoinedCases ==
    /\ \A s \in Streams : \A k \in Topics : k \in Joined[s] <=> s \in subs[k]
    /\ \A s \in Streams : Joined[s] \subseteq Topics
    /\ UNCHANGED subs => Joined' = Joined
BY DEF Joined

\* What is joined is a function of the stream, before and after a step.
LEMMA JoinedFunctions ==
    /\ DOMAIN Joined = Streams /\ Joined = [r \in Streams |-> Joined[r]]
    /\ Joined' = [r \in Streams |-> Joined'[r]]
BY DEF Joined

\* A stream before its receive worker starts has been handed nothing and has joined nothing.
LEMMA Untouched ==
    ASSUME SessionInv, NEW s \in Streams, receiver[s] = "off"
    PROVE  Flows[s] = <<>> /\ Joined[s] = {}
<1>1. ~identified[s] BY DEF SessionInv, RegistrationInv, StageInv
<1>2. Flows[s] = <<>> BY <1>1 DEF SessionInv, InflowInv, EnrolmentInv
<1>3. \A k \in Topics : s \notin subs[k] BY <1>1 DEF SessionInv, RegistrationInv, SubscriptionInv
<1> QED BY <1>2, <1>3 DEF Joined

\* A stream that never had a receive worker is released at once.
LEMMA ReleaseUnopened ==
    ASSUME SessionInv, NEW s \in Streams,
           sender[s] \in {"absent", "check", "schema"}, NEW to \in {"uncount", "done"},
           sender' = [sender EXCEPT ![s] = to],
           Flows' = Flows, UNCHANGED <<subs, published>>
    PROVE  Session!Release(s)
<1>0. sender \in [Streams -> SenderStates] BY DEF SessionInv, TypeOK
<1>1. receiver[s] = "off" BY DEF SessionInv, RegistrationInv, StageInv
<1>2. Flows[s] = <<>> /\ Joined[s] = {} BY <1>1, Untouched
<1>3. Phases[s] = "idle" BY <1>2, PhaseCases DEF CleanedUp
<1>4. Phases' = [Phases EXCEPT ![s] = "released"]
  <2>1. Phases'[s] = "released" BY <1>0, PhaseCasesNext DEF CleanedUp
  <2>2. ASSUME NEW r \in Streams, r # s PROVE Phases'[r] = Phases[r]
    BY <1>0, <2>2, PhaseCases, PhaseCasesNext DEF CleanedUp
  <2>3. /\ DOMAIN Phases = Streams /\ Phases' = [r \in Streams |-> Phases'[r]]
    BY DEF Phases
  <2> QED BY <2>1, <2>2, <2>3
<1>5. Joined' = Joined BY JoinedCases
<1> QED BY <1>2, <1>3, <1>4, <1>5 DEF Session!Release, Phases, Joined, Flows

\* Every step of a stream's sender: the cleanup closes, leaves and releases.
LEMMA SenderSession ==
    ASSUME SessionInv, NEW s \in Streams, Sender(s)
    PROVE  \/ Session!Close(s) \/ Session!Release(s)
           \/ \E k \in Topics : Session!Leave(s, k)
           \/ UNCHANGED Session!vars
<1> USE DEF SenderAt, serveVars, senderVars, workVars, sharedVars
<1>0. sender \in [Streams -> SenderStates] BY DEF SessionInv, TypeOK
<1>1. CASE GetMessage(s)
  <2>1. Flows' = Flows BY <1>1, YieldedFlows DEF SessionInv
  <2>2. Phases' = Phases BY <1>0, <1>1, <2>1, SamePhase DEF GetMessage
  <2> QED BY <1>1, <2>1, <2>2, JoinedCases, Stutters DEF GetMessage
<1>2. ASSUME UNCHANGED <<sent, queue>> PROVE Flows' = Flows BY <1>2 DEF Flows, Inflow
<1>3. CASE SkipStopped(s) \/ SchemaMismatch(s)
  <2>1. Flows' = Flows BY <1>2, <1>3 DEF SkipStopped, SchemaMismatch
  <2> QED BY <1>3, <2>1, ReleaseUnopened DEF SkipStopped, SchemaMismatch
<1>4. CASE BeginCleanup(s)
  <2>1. Flows' = Flows BY <1>2, <1>4 DEF BeginCleanup
  <2>2. sender[s] = "clean" /\ sender' = [sender EXCEPT ![s] = "remove"]
        /\ UNCHANGED <<subs, published>>
    BY <1>4 DEF BeginCleanup
  <2>3. Phases[s] \in {"idle", "open"} BY <2>2, PhaseCases DEF CleanedUp
  <2>4. Phases' = [Phases EXCEPT ![s] = "closed"]
    <3>1. Phases'[s] = "closed" BY <1>0, <2>2, PhaseCasesNext
    <3>2. ASSUME NEW r \in Streams, r # s PROVE Phases'[r] = Phases[r]
      BY <1>0, <2>1, <2>2, <3>2, PhaseCases, PhaseCasesNext DEF CleanedUp
    <3>3. DOMAIN Phases = Streams /\ Phases' = [r \in Streams |-> Phases'[r]] BY DEF Phases
    <3> QED BY <3>1, <3>2, <3>3
  <2>5. Joined' = Joined BY <2>2, JoinedCases
  <2>6. Session!Close(s)
    BY <2>1, <2>2, <2>3, <2>4, <2>5 DEF Session!Close, Phases, Joined, Flows
  <2> QED BY <2>6
<1>5. CASE RemoveSubscription(s)
  <2>1. Flows' = Flows BY <1>2, <1>5 DEF RemoveSubscription
  <2>2. PICK k \in unsubscribe[s] : subs' = [subs EXCEPT ![k] = @ \ {s}]
    BY <1>5 DEF RemoveSubscription
  <2>3. k \in Topics /\ subs \in [Topics -> SUBSET Streams] BY DEF SessionInv, TypeOK
  <2>4. sender[s] = "remove" /\ UNCHANGED <<sender, published>> BY <1>5 DEF RemoveSubscription
  <2>5. Phases[s] = "closed" BY <2>4, PhaseCases
  <2>6. Phases' = Phases
    <3>1. ASSUME NEW r \in Streams PROVE Phases'[r] = Phases[r]
      BY <2>1, <2>4, PhaseCases, PhaseCasesNext DEF CleanedUp
    <3>2. Phases = [r \in Streams |-> Phases[r]] /\ Phases' = [r \in Streams |-> Phases'[r]]
      BY DEF Phases
    <3> QED BY <3>1, <3>2
  <2>7. Joined' = [Joined EXCEPT ![s] = @ \ {k}]
    <3>1. ASSUME NEW r \in Streams
          PROVE  Joined'[r] = IF r = s THEN Joined[s] \ {k} ELSE Joined[r]
      <4>1. ASSUME NEW t \in Topics
            PROVE  r \in subs'[t] <=> r \in subs[t] /\ ~(r = s /\ t = k)
        BY <2>2, <2>3
      <4>2. CASE r = s BY <4>1, <4>2 DEF Joined
      <4>3. CASE r # s BY <4>1, <4>3 DEF Joined
      <4> QED BY <4>2, <4>3
    <3> QED BY <3>1, JoinedFunctions
  <2>8. Session!Leave(s, k)
    BY <2>1, <2>4, <2>5, <2>6, <2>7 DEF Session!Leave, Phases, Joined, Flows
  <2> QED BY <2>3, <2>8
<1>6. CASE EndCleanup(s)
  <2>1. Flows' = Flows BY <1>2, <1>6 DEF EndCleanup
  <2>2. sender[s] = "remove" /\ sender' = [sender EXCEPT ![s] = "hook"]
        /\ unsubscribe[s] = {} /\ UNCHANGED <<subs, published>>
    BY <1>6 DEF EndCleanup
  <2>3. Phases[s] = "closed" BY <2>2, PhaseCases
  <2>4. Phases' = [Phases EXCEPT ![s] = "released"]
    <3>1. Phases'[s] = "released" BY <1>0, <2>2, PhaseCasesNext DEF CleanedUp
    <3>2. ASSUME NEW r \in Streams, r # s PROVE Phases'[r] = Phases[r]
      BY <1>0, <2>1, <2>2, <3>2, PhaseCases, PhaseCasesNext DEF CleanedUp
    <3>3. DOMAIN Phases = Streams /\ Phases' = [r \in Streams |-> Phases'[r]] BY DEF Phases
    <3> QED BY <3>1, <3>2, <3>3
  <2>5. Joined' = Joined BY <2>2, JoinedCases
  <2>6. Joined[s] = {}
    <3>1. \A k \in Topics : s \notin subs[k]
      BY <2>2 DEF SessionInv, RegistrationInv, SubscriptionInv
    <3> QED BY <3>1 DEF Joined
  <2>7. Session!Release(s)
    BY <2>1, <2>2, <2>3, <2>4, <2>5, <2>6 DEF Session!Release, Phases, Joined, Flows
  <2> QED BY <2>7
<1>7. ASSUME UNCHANGED <<sent, queue, subs, published>>,
             NEW to, sender' = [sender EXCEPT ![s] = to],
             sender[s] \in {"hook", "uncount", "done"} <=> to \in {"hook", "uncount", "done"},
             sender[s] = "remove" <=> to = "remove"
      PROVE  UNCHANGED Session!vars
  <2>1. Flows' = Flows BY <1>2, <1>7
  <2>2. Phases' = Phases BY <1>0, <1>7, <2>1, SamePhase
  <2> QED BY <1>7, <2>1, <2>2, JoinedCases, Stutters
<1>8. CASE CountConnection(s) \/ AddCallback(s) \/ KeepStream(s) \/ StartReceiver(s)
  BY <1>7, <1>8 DEF CountConnection, AddCallback, KeepStream, StartReceiver
<1>9. CASE LoopTest(s) \/ GetTimeout(s) \/ Resume(s) \/ DropGenerator(s)
  BY <1>7, <1>9 DEF LoopTest, GetTimeout, Resume, DropGenerator
<1>10. CASE DisconnectHook(s) \/ UncountConnection(s)
  BY <1>7, <1>10 DEF DisconnectHook, UncountConnection
<1> QED BY <1>1, <1>3, <1>4, <1>5, <1>6, <1>8, <1>9, <1>10 DEF Sender

\* A step that moves no sender and puts nothing moves no phase.
LEMMA SteadyPhases ==
    ASSUME UNCHANGED sender, Flows' = Flows PROVE Phases' = Phases
<1>1. ASSUME NEW r \in Streams PROVE Phases'[r] = Phases[r]
  BY PhaseCases, PhaseCasesNext DEF CleanedUp
<1>2. Phases = [r \in Streams |-> Phases[r]] /\ Phases' = [r \in Streams |-> Phases'[r]]
  BY DEF Phases
<1> QED BY <1>1, <1>2

\* The welcome opens the session: its sender has not reached the cleanup.
LEMMA WelcomeSession ==
    ASSUME SessionInv, NEW s \in Streams, SendWelcome(s) PROVE Session!Open(s)
<1>1. /\ receiver[s] = "enroll" /\ ~exitEvent[s]
      /\ queue' = [queue EXCEPT ![s] = Append(@, Welcome)]
      /\ UNCHANGED <<sender, sent, subs, published>>
  BY DEF SendWelcome, ReceiverAt, Exiting, senderVars
<1>2. Flows[s] = <<>> BY <1>1 DEF SessionInv, InflowInv, EnrolmentInv
<1>3. ~Leaving(s) BY <1>1 DEF SessionInv, RegistrationInv, StageInv
<1>4. sender[s] # "remove" /\ ~CleanedUp(s) BY <1>3 DEF Leaving, CleanedUp
<1>5. Flows' = [Flows EXCEPT ![s] = Append(@, Welcome)]
  <2>1. Welcome \in Messages BY DEF Welcome, Messages
  <2> QED BY <1>1, <2>1, PutFlows DEF SessionInv
<1>6. Append(<<>>, Welcome) = <<Welcome>> OBVIOUS
<1>7. DOMAIN Flows = Streams BY DEF Flows
<1>8. Flows' = [Flows EXCEPT ![s] = <<Welcome>>] BY <1>2, <1>5, <1>6, <1>7
<1>9. Phases[s] = "idle" BY <1>2, <1>4, PhaseCases
<1>10. Phases' = [Phases EXCEPT ![s] = "open"]
  <2>1. Phases'[s] = "open"
    <3>1. Flows'[s] # <<>> BY <1>7, <1>8
    <3>2. sender'[s] # "remove" /\ ~CleanedUp(s)' BY <1>1, <1>4 DEF CleanedUp
    <3> QED BY <3>1, <3>2, PhaseCasesNext
  <2>2. ASSUME NEW r \in Streams, r # s PROVE Phases'[r] = Phases[r]
    <3>1. Flows'[r] = Flows[r] BY <1>7, <1>8, <2>2
    <3> QED BY <1>1, <3>1, PhaseCases, PhaseCasesNext DEF CleanedUp
  <2>3. DOMAIN Phases = Streams /\ Phases' = [r \in Streams |-> Phases'[r]] BY DEF Phases
  <2> QED BY <2>1, <2>2, <2>3
<1>11. Joined' = Joined BY <1>1, JoinedCases
<1> QED BY <1>1, <1>8, <1>9, <1>10, <1>11 DEF Session!Open, Phases, Joined, Flows

\* A subscription joins a topic: the registration lock keeps the cleanup away.
LEMMA SubscribeSession ==
    ASSUME SessionInv, NEW s \in Streams, Subscribe(s)
    PROVE  \E k \in Topics : Session!Join(s, k)
<1>1. PICK k : /\ k = Requires[s][enrolled[s] + 1]
               /\ subs' = [subs EXCEPT ![k] = @ \cup {s}]
  BY DEF Subscribe
<1>2. /\ receiver[s] = "topics" /\ enrolled[s] < Len(Requires[s])
      /\ UNCHANGED <<sender, sent, queue, published>>
  BY DEF Subscribe, senderVars
<1>3. k \in Topics
  <2>1. enrolled[s] \in Nat BY DEF SessionInv, TypeOK
  <2>2. Requires[s] \in Seq(Topics) BY ConstantsAssumption
  <2> QED BY <1>1, <1>2, <2>1, <2>2
<1>4. subs \in [Topics -> SUBSET Streams] BY DEF SessionInv, TypeOK
<1>5. Flows' = Flows BY <1>2 DEF Flows, Inflow
<1>6. Phases[s] = "open"
  <2>1. Flows[s] # <<>> BY <1>2 DEF SessionInv, InflowInv, EnrolmentInv
  <2>2. ~Leaving(s) BY <1>2 DEF SessionInv, RegistrationInv, StageInv
  <2> QED BY <2>1, <2>2, PhaseCases DEF Leaving, CleanedUp
<1>7. Phases' = Phases BY <1>2, <1>5, SteadyPhases
<1>8. Joined' = [Joined EXCEPT ![s] = @ \cup {k}]
  <2>1. ASSUME NEW r \in Streams
        PROVE  Joined'[r] = IF r = s THEN Joined[s] \cup {k} ELSE Joined[r]
    <3>1. ASSUME NEW t \in Topics
          PROVE  r \in subs'[t] <=> r \in subs[t] \/ (r = s /\ t = k)
      BY <1>1, <1>4
    <3>2. CASE r = s BY <1>3, <3>1, <3>2 DEF Joined
    <3>3. CASE r # s BY <3>1, <3>3 DEF Joined
    <3> QED BY <3>2, <3>3
  <2> QED BY <2>1, JoinedFunctions
<1>9. Session!Join(s, k)
  BY <1>2, <1>5, <1>6, <1>7, <1>8 DEF Session!Join, Phases, Joined, Flows
<1> QED BY <1>3, <1>9

\* A snapshot publishes.
LEMMA PublishSession ==
    ASSUME SessionInv, NEW p \in Publishers, NEW k \in Topics, Snapshot(p, k),
           UNCHANGED <<sender, sent, queue, subs>>
    PROVE  Session!Publish(p)
<1>1. Flows' = Flows BY DEF Flows, Inflow
<1>2. Phases' = Phases BY <1>1, SteadyPhases
<1>3. Joined' = Joined BY JoinedCases
<1> QED BY <1>1, <1>2, <1>3 DEF Session!Publish, Snapshot, Phases, Joined, Flows

\* A put of a fan-out hands its stream the publisher's latest message, or drops it.
LEMMA NotifySession ==
    ASSUME SessionInv, NEW p \in Publishers, Notify(p)
    PROVE  \/ \E s \in Streams : Session!Receive(s, p)
           \/ UNCHANGED Session!vars
<1>1. PICK s \in fan[p] :
        queue' = IF Room(s) THEN [queue EXCEPT ![s] = Append(@, Data(p, published[p]))]
                            ELSE queue
  BY DEF Notify
<1>2. s \in Streams BY DEF SessionInv, TypeOK
<1>3. UNCHANGED <<sender, sent, subs, published>> BY DEF Notify, senderVars
<1>4. Joined' = Joined BY <1>3, JoinedCases
<1>5. CASE ~Room(s)
  <2>1. Flows' = Flows BY <1>1, <1>3, <1>5 DEF Flows, Inflow
  <2> QED BY <1>3, <1>4, <2>1, SteadyPhases, Stutters
<1>6. CASE Room(s)
  <2>1. PICK d \in Messages : d = Data(p, published[p])
    BY DEF SessionInv, TypeOK, Data, Messages
  <2>2. Flows' = [Flows EXCEPT ![s] = Append(@, d)]
    BY <1>1, <1>2, <1>3, <1>6, <2>1, PutFlows DEF SessionInv
  <2>3. s # p /\ Flows[s] # <<>> /\ Awaits(Flows[s], p, published)
    BY <1>2 DEF SessionInv, InflowInv, AudienceInv
  <2>4. Proper(Flows[s], s, published) BY <1>2 DEF SessionInv, InflowInv, FlowInv
  <2>5. DOMAIN Flows = Streams BY DEF Flows
  <2>6. Phases' = Phases
    <3>1. Flows'[s] # <<>> BY <1>2, <2>2, <2>4, <2>5 DEF Proper
    <3>2. ASSUME NEW r \in Streams PROVE Flows'[r] = <<>> <=> Flows[r] = <<>>
      BY <2>2, <2>3, <2>5, <3>1
    <3>3. ASSUME NEW r \in Streams PROVE Phases'[r] = Phases[r]
      BY <1>3, <3>2, PhaseCases, PhaseCasesNext DEF CleanedUp
    <3>4. Phases = [r \in Streams |-> Phases[r]] /\ Phases' = [r \in Streams |-> Phases'[r]]
      BY DEF Phases
    <3> QED BY <3>3, <3>4
  <2>7. \A i \in 1..Len(Flows[s]) : Flows[s][i].from = p => Flows[s][i].n < published[p]
    <3>1. PICK flow, c : flow = Flows[s] /\ c = published OBVIOUS
    <3>2. flow \in Seq(Messages) /\ flow # <<>> /\ flow[1] = Welcome BY <2>3, <2>4, <3>1 DEF Proper
    <3>3. Welcome.from # p BY ConstantsAssumption DEF Welcome, Publishers
    <3>4. \A i \in 2..Len(flow) : flow[i].from = p => flow[i].n < c[p]
      BY <2>3, <3>1 DEF Awaits
    <3>5. ASSUME NEW i \in 1..Len(flow), flow[i].from = p PROVE flow[i].n < c[p]
      <4>1. i # 1 BY <3>2, <3>3, <3>5
      <4>2. i \in 2..Len(flow) BY <4>1
      <4> QED BY <3>4, <3>5, <4>2
    <3> QED BY <3>1, <3>5
  <2>8. d = Session!From(p, published[p]) BY <2>1 DEF Session!From, Data
  <2>9. Flows' = [Flows EXCEPT ![s] = Append(@, Session!From(p, published[p]))] BY <2>2, <2>8
  <2>10. Session!Receive(s, p)
    BY <1>3, <1>4, <2>3, <2>6, <2>7, <2>9, <1>2 DEF Session!Receive, Phases, Joined, Flows
  <2> QED BY <1>2, <2>10
<1> QED BY <1>5, <1>6

\* The steps of a receive worker.
LEMMA ReceiverSession ==
    ASSUME SessionInv, NEW s \in Streams, Request(s) \/ HalfClose(s) \/ Receiver(s)
    PROVE  [Session!Next]_Session!vars
<1> USE DEF ReceiverAt, serveVars, senderVars, sharedVars
<1> s \in Publishers BY DEF Publishers
<1>1. CASE SendWelcome(s) BY <1>1, WelcomeSession DEF Session!Next
<1>2. CASE Subscribe(s) BY <1>2, SubscribeSession DEF Session!Next
<1>3. CASE RouteData(s)
  <2>1. PICK k \in Topics : Snapshot(s, k) BY <1>3 DEF RouteData
  <2>2. UNCHANGED <<sender, sent, queue, subs>> BY <1>3 DEF RouteData
  <2> QED BY <2>1, <2>2, PublishSession DEF Session!Next
<1>4. CASE Notify(s) BY <1>4, NotifySession DEF Session!Next
<1>5. ASSUME UNCHANGED <<sender, sent, queue, subs, published>> PROVE UNCHANGED Session!vars
  <2>1. Flows' = Flows BY <1>5 DEF Flows, Inflow
  <2> QED BY <1>5, <2>1, SteadyPhases, JoinedCases, Stutters
<1>6. CASE Request(s) \/ HalfClose(s) \/ IteratorEnds(s) \/ TakeRequest(s) \/ Identify(s)
  BY <1>5, <1>6 DEF Request, HalfClose, IteratorEnds, TakeRequest, Identify
<1>7. CASE HookRaises(s) \/ HookRaisesRpcError(s) \/ RejectClient(s) \/ AcceptClient(s)
        \/ AcceptedHook(s)
  BY <1>5, <1>7 DEF HookRaises, HookRaisesRpcError, LeaveHook, RejectClient, AcceptClient, AcceptedHook
<1>8. CASE EnrollTooLate(s) \/ SubscribeTwice(s) \/ EndEnroll(s) \/ SuppressData(s)
  BY <1>5, <1>8 DEF EnrollTooLate, SubscribeTwice, EndEnroll, SuppressData
<1>9. CASE EndFan(s) \/ ReceiverFinally(s) BY <1>5, <1>9 DEF EndFan, ReceiverFinally
<1> QED BY <1>1, <1>2, <1>3, <1>4, <1>6, <1>7, <1>8, <1>9 DEF Receiver

\* Every step of the broker is a step of the session or changes nothing of it.
LEMMA SessionStep == SessionInv /\ [Next]_vars => [Session!Next]_Session!vars
<1> SUFFICES ASSUME SessionInv, [Next]_vars PROVE [Session!Next]_Session!vars
    OBVIOUS
<1> USE DEF SenderAt, MainAt, serveVars, senderVars, workVars, sharedVars
<1>1. ASSUME NEW s \in Streams, Sender(s) PROVE [Session!Next]_Session!vars
  BY <1>1, SenderSession DEF Session!Next
<1>2. ASSUME NEW s \in Streams, Request(s) \/ HalfClose(s) \/ Receiver(s)
      PROVE  [Session!Next]_Session!vars
  BY <1>2, ReceiverSession
<1>3. CASE Notify(Pusher) BY <1>3, NotifySession DEF Session!Next, Publishers
<1>4. CASE Push
  <2>1. PICK k \in Topics : Snapshot(Pusher, k) BY <1>4 DEF Push
  <2>2. UNCHANGED <<sender, sent, queue, subs>> BY <1>4 DEF Push
  <2>3. Pusher \in Publishers BY DEF Publishers
  <2> QED BY <2>1, <2>2, <2>3, PublishSession DEF Session!Next
<1>5. ASSUME UNCHANGED <<sender, sent, queue, subs, published>> PROVE UNCHANGED Session!vars
  <2>1. Flows' = Flows BY <1>5 DEF Flows, Inflow
  <2> QED BY <1>5, <2>1, SteadyPhases, JoinedCases, Stutters
<1>6. ASSUME NEW s \in Streams, Admit(s) PROVE UNCHANGED Session!vars
  <2>1. sender \in [Streams -> SenderStates] BY DEF SessionInv, TypeOK
  <2>2. Flows' = Flows BY <1>6 DEF Admit, Flows, Inflow
  <2>3. sender[s] = "absent" /\ sender' = [sender EXCEPT ![s] = "count"]
        /\ UNCHANGED <<subs, published>>
    BY <1>6 DEF Admit
  <2>4. Phases' = Phases BY <2>1, <2>2, <2>3, SamePhase
  <2> QED BY <2>2, <2>3, <2>4, JoinedCases, Stutters
<1>7. ASSUME NEW s \in Streams, Refuse(s) PROVE Session!Release(s)
  <2>1. Flows' = Flows BY <1>7 DEF Refuse, Flows, Inflow
  <2> QED BY <1>7, <2>1, ReleaseUnopened DEF Refuse
<1>8. ASSUME NEW s \in Streams, RpcEnds(s) \/ TerminationCallback(s)
      PROVE  UNCHANGED Session!vars
  BY <1>5, <1>8 DEF RpcEnds, TerminationCallback
<1>9. CASE Main
  BY <1>5, <1>9 DEF Main, ServerStarts, StartFails, ServeEnds, Shutdown, StopTransport,
                    ServeReturns
<1>10. CASE Interrupt \/ RequestShutdown BY <1>5, <1>10 DEF Interrupt, RequestShutdown
<1>11. CASE UNCHANGED vars BY <1>5, <1>11 DEF vars
<1> QED BY <1>1, <1>2, <1>3, <1>4, <1>6, <1>7, <1>8, <1>9, <1>10, <1>11
    DEF Next, Finished, Session!Next

\* No stream has started when the session starts.
LEMMA SessionInit == Init => Session!Init
<1> SUFFICES ASSUME Init PROVE Session!Init
    OBVIOUS
<1>1. \A s \in Streams : Inflow(s) = <<>> BY DEF Init, Inflow
<1>2. \A s \in Streams : sender[s] = "absent" BY DEF Init
<1>3. \A s \in Streams : Phase(s) = "idle" BY <1>1, <1>2 DEF Phase, CleanedUp
<1>4. \A s \in Streams : {t \in Topics : s \in subs[t]} = {} BY DEF Init
<1>5. published = [p \in Publishers |-> 0] BY DEF Init
<1> HIDE DEF Init
<1> QED BY <1>1, <1>3, <1>4, <1>5 DEF Session!Init

\* The threads, locks and queues of the broker implement the session every client is promised,
\* whatever the number of streams, topics, workers and messages.
THEOREM ImplementsSessionHolds == Spec => ImplementsSession
<1>1. Init => Session!Init BY SessionInit
<1>2. SessionInv /\ [Next]_vars => [Session!Next]_Session!vars BY SessionStep
<1> QED BY <1>1, <1>2, TypeCorrect, RegistrationCorrect, InflowCorrect, PTL
    DEF Spec, SessionInv, ImplementsSession, Session!Spec

-----------------------------------------------------------------------------
(* The table, for those who publish.                                       *)

Departed == {s \in Streams : CleanedUp(s)}
Yielded  == [s \in Streams |-> Len(sent[s])]

\* A receive worker does nothing else before its fan-out is complete.
FanInv == \A s \in Streams : receiver[s] # "fan" => fan[s] = {}

RoutingInv == SessionInv /\ FanInv

\* A stream's fan-out begins and ends with its worker.
LEMMA FanStep == TypeOK /\ FanInv /\ [Next]_vars => FanInv'
<1> SUFFICES ASSUME TypeOK, FanInv, [Next]_vars PROVE FanInv'
    OBVIOUS
<1> USE DEF ReceiverAt, SenderAt, MainAt, serveVars, senderVars, workVars, sharedVars
<1>0. /\ receiver \in [Streams -> ReceiverStates] /\ fan \in [Publishers -> SUBSET Streams]
      /\ Streams \subseteq Publishers /\ Pusher \in Publishers \ Streams
  BY ConstantsAssumption DEF TypeOK, Publishers
<1>1. ASSUME NEW s \in Streams, NEW to, UNCHANGED fan, receiver[s] # "fan",
             receiver' = [receiver EXCEPT ![s] = to]
      PROVE  FanInv'
  BY <1>0, <1>1 DEF FanInv
<1>2. ASSUME UNCHANGED <<receiver, fan>> PROVE FanInv' BY <1>2 DEF FanInv
<1>3. ASSUME NEW p \in Publishers, Notify(p) PROVE FanInv'
  <2>1. UNCHANGED receiver /\ \E s \in fan[p] : fan' = [fan EXCEPT ![p] = @ \ {s}]
    BY <1>3 DEF Notify
  <2> QED BY <1>0, <2>1 DEF FanInv
<1>4. CASE Push
  <2>1. UNCHANGED receiver /\ \E t \in Topics : fan' = [fan EXCEPT ![Pusher] = subs[t] \ {Pusher}]
    BY <1>4 DEF Push, Snapshot
  <2> QED BY <1>0, <2>1 DEF FanInv
<1>5. ASSUME NEW s \in Streams, Request(s) \/ HalfClose(s) \/ Receiver(s) PROVE FanInv'
  <2>1. CASE Request(s) \/ HalfClose(s) \/ IteratorEnds(s) \/ TakeRequest(s) \/ Identify(s)
    BY <1>1, <2>1 DEF Request, HalfClose, IteratorEnds, TakeRequest, Identify
  <2>2. CASE HookRaises(s) \/ HookRaisesRpcError(s) \/ RejectClient(s) \/ AcceptClient(s)
        \/ AcceptedHook(s)
    BY <1>1, <2>2 DEF HookRaises, HookRaisesRpcError, LeaveHook, RejectClient, AcceptClient, AcceptedHook
  <2>3. CASE EnrollTooLate(s) \/ SendWelcome(s) \/ SubscribeTwice(s) \/ EndEnroll(s) \/ SuppressData(s)
    BY <1>1, <2>3 DEF EnrollTooLate, SendWelcome, SubscribeTwice, EndEnroll, SuppressData
  <2>4. CASE Subscribe(s) BY <1>2, <2>4 DEF Subscribe
  <2>5. CASE RouteData(s)
    <3>1. /\ receiver' = [receiver EXCEPT ![s] = "fan"]
          /\ \E t \in Topics : fan' = [fan EXCEPT ![s] = subs[t] \ {s}]
      BY <2>5 DEF RouteData, Snapshot
    <3> QED BY <1>0, <3>1 DEF FanInv
  <2>6. CASE Notify(s) BY <1>0, <1>3, <2>6
  <2>7. CASE EndFan(s) BY <1>0, <2>7 DEF EndFan, FanInv
  <2>8. CASE ReceiverFinally(s) BY <1>1, <2>8 DEF ReceiverFinally
  <2> QED BY <1>5, <2>1, <2>2, <2>3, <2>4, <2>5, <2>6, <2>7, <2>8 DEF Receiver
<1>6. ASSUME NEW s \in Streams, Sender(s) PROVE FanInv'
  <2>1. CASE StartReceiver(s) BY <1>1, <2>1 DEF StartReceiver
  <2>2. CASE ~StartReceiver(s)
    <3>1. UNCHANGED <<receiver, fan>>
      BY <1>6, <2>2 DEF Sender, CountConnection, AddCallback, SkipStopped, KeepStream,
         SchemaMismatch, LoopTest, GetMessage, GetTimeout, Resume, DropGenerator, BeginCleanup,
         RemoveSubscription, EndCleanup, DisconnectHook, UncountConnection
    <3> QED BY <1>2, <3>1
  <2> QED BY <2>1, <2>2
<1>7. ASSUME NEW s \in Streams, Admit(s) \/ Refuse(s) \/ RpcEnds(s) \/ TerminationCallback(s)
      PROVE  FanInv'
  BY <1>2, <1>7 DEF Admit, Refuse, RpcEnds, TerminationCallback
<1>8. CASE Main
  BY <1>2, <1>8 DEF Main, ServerStarts, StartFails, ServeEnds, Shutdown, StopTransport,
                    ServeReturns
<1>9. CASE Interrupt \/ RequestShutdown BY <1>2, <1>9 DEF Interrupt, RequestShutdown
<1>10. CASE UNCHANGED vars BY <1>2, <1>10 DEF vars
<1>11. CASE Notify(Pusher) BY <1>0, <1>3, <1>11
<1> QED BY <1>4, <1>5, <1>6, <1>7, <1>8, <1>9, <1>10, <1>11 DEF Next, Finished

\* What has been yielded is a prefix of the flow, what is queued the rest.
LEMMA FlowLength ==
    ASSUME TypeOK, NEW s \in Streams
    PROVE  /\ Len(Flows[s]) = Yielded[s] + Len(queue[s])
           /\ Yielded[s] \in Nat /\ Len(queue[s]) \in Nat
           /\ Table!Full(s) <=> ~Room(s)
<1>1. PICK a \in Seq(Messages), b \in Seq(Messages) : a = sent[s] /\ b = queue[s] BY DEF TypeOK
<1>2. Len(a \o b) = Len(a) + Len(b) /\ Len(a) \in Nat /\ Len(b) \in Nat
  BY ConcatProperties, LenProperties
<1>3. Flows[s] = a \o b /\ Yielded[s] = Len(a) BY <1>1 DEF Flows, Inflow, Yielded
<1>4. Table!Full(s) <=> MaxQueue > 0 /\ Len(Flows[s]) - Yielded[s] >= MaxQueue
  BY DEF Table!Full, Flows, Yielded
<1>5. Room(s) <=> MaxQueue = 0 \/ Len(b) < MaxQueue BY <1>1 DEF Room
<1>6. MaxQueue \in Nat BY ConstantsAssumption
<1>7. PICK k \in Nat, l \in Nat : k = Len(a) /\ l = Len(b) BY <1>2
<1>8. Len(Flows[s]) = k + l /\ Yielded[s] = k /\ Len(queue[s]) = l
  BY <1>1, <1>2, <1>3, <1>7
<1>9. Table!Full(s) <=> ~Room(s) BY <1>4, <1>5, <1>6, <1>7, <1>8
<1> QED BY <1>8, <1>9

\* The table, the flows, what is read of them, who has departed and the fan-outs: nothing else
\* is in the mapping.
LEMMA TableStutters ==
    ASSUME UNCHANGED <<subs, published, fan>>,
           Departed' = Departed, Flows' = Flows, Yielded' = Yielded
    PROVE  UNCHANGED Table!vars
BY DEF Table!vars, Departed, Flows, Yielded

\* A stream departs when it is in no topic any more.
LEMMA DepartRouting ==
    ASSUME TypeOK, NEW s \in Streams, \A t \in Topics : s \notin subs[t],
           NEW to \in {"hook", "uncount", "done"}, sender' = [sender EXCEPT ![s] = to],
           UNCHANGED <<subs, sent, queue, published, fan>>
    PROVE  Table!Next
<1>1. Departed' = Departed \cup {s} BY DEF Departed, CleanedUp, TypeOK
<1>2. Flows' = Flows /\ Yielded' = Yielded BY DEF Flows, Inflow, Yielded
<1>3. Table!Depart(s) BY <1>1, <1>2 DEF Table!Depart, Departed, Flows, Yielded
<1> QED BY <1>3 DEF Table!Next

\* A sender reads; its cleanup leaves topic by topic and departs.
LEMMA SenderRouting ==
    ASSUME RoutingInv, NEW s \in Streams, Sender(s) \/ Refuse(s)
    PROVE  [Table!Next]_Table!vars
<1> USE DEF SenderAt, serveVars, senderVars, workVars, sharedVars
<1>0. TypeOK BY DEF RoutingInv, SessionInv
<1>1. CASE GetMessage(s)
  <2>1. Flows' = Flows BY <1>0, <1>1, YieldedFlows
  <2>2. /\ sent' = [sent EXCEPT ![s] = Append(@, Head(queue[s]))] /\ queue[s] # <<>>
        /\ sender[s] = "get" /\ sender' = [sender EXCEPT ![s] = "yield"]
        /\ UNCHANGED <<subs, published, fan>>
    BY <1>1 DEF GetMessage
  <2>3. Departed' = Departed BY <1>0, <2>2 DEF Departed, CleanedUp, TypeOK
  <2>4. Yielded' = [Yielded EXCEPT ![s] = @ + 1]
    <3>1. PICK a \in [Streams -> Seq(Messages)] : a = sent BY <1>0 DEF TypeOK
    <3>2. Head(queue[s]) \in Messages
      <4>1. PICK b \in Seq(Messages) : b = queue[s] BY <1>0 DEF TypeOK
      <4> QED BY <2>2, <4>1, HeadTailProperties
    <3>3. PICK m \in Messages : m = Head(queue[s]) BY <3>2
    <3>4. Len(Append(a[s], m)) = Len(a[s]) + 1 BY AppendProperties
    <3>5. sent' = [a EXCEPT ![s] = Append(@, m)] BY <2>2, <3>1, <3>3
    <3>6. ASSUME NEW r \in Streams
          PROVE  Len(sent'[r]) = IF r = s THEN Len(a[s]) + 1 ELSE Len(a[r])
      BY <3>4, <3>5
    <3>7. Yielded' = [r \in Streams |-> Len(sent'[r])] /\ Yielded = [r \in Streams |-> Len(a[r])]
      BY <3>1 DEF Yielded
    <3> QED BY <3>6, <3>7
  <2>5. Yielded[s] < Len(Flows[s])
    <3>1. Len(queue[s]) # 0
      <4>1. PICK b \in Seq(Messages) : b = queue[s] BY <1>0 DEF TypeOK
      <4> QED BY <2>2, <4>1, EmptySeq
    <3> QED BY <1>0, <3>1, FlowLength
  <2>6. Table!Read(s)
    BY <2>1, <2>2, <2>3, <2>4, <2>5 DEF Table!Read, Departed, Flows, Yielded
  <2> QED BY <2>6 DEF Table!Next
<1>2. CASE SkipStopped(s) \/ SchemaMismatch(s) \/ Refuse(s)
  <2>1. /\ sender[s] \in {"check", "schema", "absent"}
        /\ \E to \in {"uncount", "done"} : sender' = [sender EXCEPT ![s] = to]
        /\ UNCHANGED <<subs, sent, queue, published, fan>>
    BY <1>2 DEF SkipStopped, SchemaMismatch, Refuse
  <2>2. receiver[s] = "off" BY <2>1 DEF RoutingInv, SessionInv, RegistrationInv, StageInv
  <2>3. \A t \in Topics : s \notin subs[t] BY <2>2, Untouched DEF RoutingInv, Joined
  <2> QED BY <1>0, <2>1, <2>3, DepartRouting
<1>3. CASE RemoveSubscription(s)
  <2>1. PICK t \in unsubscribe[s] : subs' = [subs EXCEPT ![t] = @ \ {s}]
    BY <1>3 DEF RemoveSubscription
  <2>2. t \in Topics BY <1>0 DEF TypeOK
  <2>3. UNCHANGED <<sender, sent, queue, published, fan>> BY <1>3 DEF RemoveSubscription
  <2>4. Departed' = Departed /\ Flows' = Flows /\ Yielded' = Yielded
    BY <2>3 DEF Departed, CleanedUp, Flows, Inflow, Yielded
  <2>5. Table!Leave(s, t) BY <2>1, <2>3, <2>4 DEF Table!Leave, Departed, Flows, Yielded
  <2> QED BY <2>2, <2>5 DEF Table!Next
<1>4. CASE EndCleanup(s)
  <2>1. /\ sender[s] = "remove" /\ unsubscribe[s] = {}
        /\ sender' = [sender EXCEPT ![s] = "hook"]
        /\ UNCHANGED <<subs, sent, queue, published, fan>>
    BY <1>4 DEF EndCleanup
  <2>2. \A t \in Topics : s \notin subs[t]
    BY <2>1 DEF RoutingInv, SessionInv, RegistrationInv, SubscriptionInv
  <2> QED BY <1>0, <2>1, <2>2, DepartRouting
<1>5. ASSUME UNCHANGED <<sent, queue, subs, published, fan>>,
             NEW to, sender' = [sender EXCEPT ![s] = to],
             sender[s] \in {"hook", "uncount", "done"} <=> to \in {"hook", "uncount", "done"}
      PROVE  UNCHANGED Table!vars
  <2>1. Departed' = Departed BY <1>0, <1>5 DEF Departed, CleanedUp, TypeOK
  <2>2. Flows' = Flows /\ Yielded' = Yielded BY <1>5 DEF Flows, Inflow, Yielded
  <2> QED BY <1>5, <2>1, <2>2, TableStutters
<1>6. CASE CountConnection(s) \/ AddCallback(s) \/ KeepStream(s) \/ StartReceiver(s)
  BY <1>5, <1>6 DEF CountConnection, AddCallback, KeepStream, StartReceiver
<1>7. CASE LoopTest(s) \/ GetTimeout(s) \/ Resume(s) \/ DropGenerator(s)
  BY <1>5, <1>7 DEF LoopTest, GetTimeout, Resume, DropGenerator
<1>8. CASE BeginCleanup(s) \/ DisconnectHook(s) \/ UncountConnection(s)
  BY <1>5, <1>8 DEF BeginCleanup, DisconnectHook, UncountConnection
<1> QED BY <1>1, <1>2, <1>3, <1>4, <1>6, <1>7, <1>8 DEF Sender

\* A snapshot publishes: the publisher's last fan-out is complete.
LEMMA SnapshotRouting ==
    ASSUME RoutingInv, NEW p \in Publishers, fan[p] = {}, NEW t \in Topics, Snapshot(p, t),
           UNCHANGED <<sender, sent, queue, subs>>
    PROVE  Table!Next
<1>1. Departed' = Departed /\ Flows' = Flows /\ Yielded' = Yielded
  BY DEF Departed, CleanedUp, Flows, Inflow, Yielded
<1>2. subs[t] \ {p} \in Table!Audiences(t)
  <2>1. CASE p \in Streams BY <2>1 DEF Table!Audiences
  <2>2. CASE p \notin Streams
    <3>1. subs[t] \ {p} = subs[t] BY <2>2 DEF RoutingInv, SessionInv, TypeOK
    <3> QED BY <3>1 DEF Table!Audiences
  <2> QED BY <2>1, <2>2
<1>3. Table!Publish(p, t)
  BY <1>1, <1>2 DEF Table!Publish, Snapshot, Departed, Flows, Yielded
<1> QED BY <1>3 DEF Table!Next

\* A put gives the message, or the queue is full.
LEMMA NotifyRouting ==
    ASSUME RoutingInv, NEW p \in Publishers, Notify(p) PROVE Table!Next
<1>0. TypeOK BY DEF RoutingInv, SessionInv
<1>1. PICK s \in fan[p] :
        /\ fan' = [fan EXCEPT ![p] = @ \ {s}]
        /\ queue' = IF Room(s) THEN [queue EXCEPT ![s] = Append(@, Data(p, published[p]))]
                               ELSE queue
  BY DEF Notify
<1>2. s \in Streams BY <1>0 DEF TypeOK
<1>3. UNCHANGED <<sender, sent, subs, published>> BY DEF Notify, senderVars
<1>4. Departed' = Departed /\ Yielded' = Yielded BY <1>3 DEF Departed, CleanedUp, Yielded
<1>5. CASE Room(s)
  <2>1. PICK d \in Messages : d = Data(p, published[p]) BY <1>0 DEF TypeOK, Data, Messages
  <2>2. Flows' = [Flows EXCEPT ![s] = Append(@, d)]
    BY <1>0, <1>1, <1>2, <1>3, <1>5, <2>1, PutFlows
  <2>3. d = Table!Message(p) BY <2>1 DEF Data, Table!Message
  <2>4. ~Table!Full(s) BY <1>0, <1>2, <1>5, FlowLength
  <2>5. Table!Give(p, s)
    BY <1>1, <1>3, <1>4, <2>2, <2>3, <2>4 DEF Table!Give, Departed, Flows, Yielded
  <2> QED BY <1>2, <2>5 DEF Table!Next
<1>6. CASE ~Room(s)
  <2>1. Flows' = Flows BY <1>1, <1>3, <1>6 DEF Flows, Inflow
  <2>2. Table!Full(s) BY <1>0, <1>2, <1>6, FlowLength
  <2>3. Table!Miss(p, s)
    BY <1>1, <1>3, <1>4, <2>1, <2>2 DEF Table!Miss, Departed, Flows, Yielded
  <2> QED BY <1>2, <2>3 DEF Table!Next
<1> QED BY <1>5, <1>6

\* A receive worker is greeted, joins and publishes.
LEMMA ReceiverRouting ==
    ASSUME RoutingInv, NEW s \in Streams, Request(s) \/ HalfClose(s) \/ Receiver(s)
    PROVE  [Table!Next]_Table!vars
<1> USE DEF ReceiverAt, serveVars, senderVars, sharedVars
<1>0. TypeOK /\ s \in Publishers BY DEF RoutingInv, SessionInv, Publishers
<1>1. CASE SendWelcome(s)
  <2>1. /\ receiver[s] = "enroll" /\ ~exitEvent[s]
        /\ queue' = [queue EXCEPT ![s] = Append(@, Welcome)]
        /\ UNCHANGED <<sender, sent, subs, published, fan>>
    BY <1>1 DEF SendWelcome, Exiting
  <2>2. Flows[s] = <<>> BY <2>1 DEF RoutingInv, SessionInv, InflowInv, EnrolmentInv
  <2>3. \A t \in Topics : s \notin subs[t]
    BY <2>2 DEF RoutingInv, SessionInv, InflowInv, AudienceInv
  <2>4. ~Leaving(s) BY <2>1 DEF RoutingInv, SessionInv, RegistrationInv, StageInv
  <2>5. s \notin Departed BY <2>4 DEF Departed, CleanedUp, Leaving
  <2>6. Flows' = [Flows EXCEPT ![s] = <<Welcome>>]
    <3>1. Welcome \in Messages BY DEF Welcome, Messages
    <3>2. Flows' = [Flows EXCEPT ![s] = Append(@, Welcome)] BY <1>0, <2>1, <3>1, PutFlows
    <3>3. Append(<<>>, Welcome) = <<Welcome>> /\ DOMAIN Flows = Streams BY DEF Flows
    <3> QED BY <2>2, <3>2, <3>3
  <2>7. Departed' = Departed /\ Yielded' = Yielded BY <2>1 DEF Departed, CleanedUp, Yielded
  <2>8. Table!Greet(s)
    BY <2>1, <2>2, <2>3, <2>5, <2>6, <2>7 DEF Table!Greet, Departed, Flows, Yielded
  <2> QED BY <2>8 DEF Table!Next
<1>2. CASE Subscribe(s)
  <2>1. PICK t : /\ t = Requires[s][enrolled[s] + 1]
                 /\ subs' = [subs EXCEPT ![t] = @ \cup {s}]
    BY <1>2 DEF Subscribe
  <2>2. /\ receiver[s] = "topics" /\ enrolled[s] < Len(Requires[s])
        /\ UNCHANGED <<sender, sent, queue, published, fan>>
    BY <1>2 DEF Subscribe
  <2>3. t \in Topics
    <3>1. enrolled[s] \in Nat BY <1>0 DEF TypeOK
    <3>2. Requires[s] \in Seq(Topics) BY ConstantsAssumption
    <3> QED BY <2>1, <2>2, <3>1, <3>2
  <2>4. ~Leaving(s) BY <2>2 DEF RoutingInv, SessionInv, RegistrationInv, StageInv
  <2>5. s \notin Departed BY <2>4 DEF Departed, CleanedUp, Leaving
  <2>6. Departed' = Departed /\ Flows' = Flows /\ Yielded' = Yielded
    BY <2>2 DEF Departed, CleanedUp, Flows, Inflow, Yielded
  <2>7. Table!Join(s, t)
    BY <2>1, <2>2, <2>5, <2>6 DEF Table!Join, Departed, Flows, Yielded
  <2> QED BY <2>3, <2>7 DEF Table!Next
<1>3. CASE RouteData(s)
  <2>1. PICK t \in Topics : Snapshot(s, t) BY <1>3 DEF RouteData
  <2>2. receiver[s] = "receive" /\ UNCHANGED <<sender, sent, queue, subs>> BY <1>3 DEF RouteData
  <2>3. fan[s] = {} BY <2>2 DEF RoutingInv, FanInv
  <2> QED BY <1>0, <2>1, <2>2, <2>3, SnapshotRouting
<1>4. CASE Notify(s) BY <1>0, <1>4, NotifyRouting
<1>5. ASSUME UNCHANGED <<sender, sent, queue, subs, published, fan>> PROVE UNCHANGED Table!vars
  <2>1. Departed' = Departed /\ Flows' = Flows /\ Yielded' = Yielded
    BY <1>5 DEF Departed, CleanedUp, Flows, Inflow, Yielded
  <2> QED BY <1>5, <2>1, TableStutters
<1>6. CASE Request(s) \/ HalfClose(s) \/ IteratorEnds(s) \/ TakeRequest(s) \/ Identify(s)
  BY <1>5, <1>6 DEF Request, HalfClose, IteratorEnds, TakeRequest, Identify
<1>7. CASE HookRaises(s) \/ HookRaisesRpcError(s) \/ RejectClient(s) \/ AcceptClient(s)
        \/ AcceptedHook(s)
  BY <1>5, <1>7 DEF HookRaises, HookRaisesRpcError, LeaveHook, RejectClient, AcceptClient, AcceptedHook
<1>8. CASE EnrollTooLate(s) \/ SubscribeTwice(s) \/ EndEnroll(s) \/ SuppressData(s)
  BY <1>5, <1>8 DEF EnrollTooLate, SubscribeTwice, EndEnroll, SuppressData
<1>9. CASE EndFan(s) \/ ReceiverFinally(s) BY <1>5, <1>9 DEF EndFan, ReceiverFinally
<1> QED BY <1>1, <1>2, <1>3, <1>4, <1>6, <1>7, <1>8, <1>9 DEF Receiver

\* Every step of the broker is a step of the table or changes nothing of it.
LEMMA RoutingStep == RoutingInv /\ [Next]_vars => [Table!Next]_Table!vars
<1> SUFFICES ASSUME RoutingInv, [Next]_vars PROVE [Table!Next]_Table!vars
    OBVIOUS
<1> USE DEF SenderAt, MainAt, serveVars, senderVars, workVars, sharedVars
<1>1. ASSUME NEW s \in Streams, Sender(s) \/ Refuse(s) PROVE [Table!Next]_Table!vars
  BY <1>1, SenderRouting
<1>2. ASSUME NEW s \in Streams, Request(s) \/ HalfClose(s) \/ Receiver(s)
      PROVE  [Table!Next]_Table!vars
  BY <1>2, ReceiverRouting
<1>3. Pusher \in Publishers BY DEF Publishers
<1>4. CASE Notify(Pusher) BY <1>3, <1>4, NotifyRouting
<1>5. CASE Push
  <2>1. PICK t \in Topics : Snapshot(Pusher, t) BY <1>5 DEF Push
  <2>2. fan[Pusher] = {} /\ UNCHANGED <<sender, sent, queue, subs>> BY <1>5 DEF Push
  <2> QED BY <1>3, <2>1, <2>2, SnapshotRouting
<1>6. ASSUME Departed' = Departed, UNCHANGED <<sent, queue, subs, published, fan>>
      PROVE  UNCHANGED Table!vars
  <2>1. Flows' = Flows /\ Yielded' = Yielded BY <1>6 DEF Flows, Inflow, Yielded
  <2> QED BY <1>6, <2>1, TableStutters
<1>7. ASSUME NEW s \in Streams, Admit(s) PROVE UNCHANGED Table!vars
  <2>1. /\ sender \in [Streams -> SenderStates]
        /\ sender[s] = "absent" /\ sender' = [sender EXCEPT ![s] = "count"]
    BY <1>7 DEF Admit, RoutingInv, SessionInv, TypeOK
  <2>2. Departed' = Departed BY <2>1 DEF Departed, CleanedUp
  <2> QED BY <1>6, <1>7, <2>2 DEF Admit
<1>8. ASSUME UNCHANGED <<sender, sent, queue, subs, published, fan>> PROVE UNCHANGED Table!vars
  <2>1. Departed' = Departed BY <1>8 DEF Departed, CleanedUp
  <2> QED BY <1>6, <1>8, <2>1
<1>9. ASSUME NEW s \in Streams, RpcEnds(s) \/ TerminationCallback(s) PROVE UNCHANGED Table!vars
  BY <1>8, <1>9 DEF RpcEnds, TerminationCallback
<1>10. CASE Main
  BY <1>8, <1>10 DEF Main, ServerStarts, StartFails, ServeEnds, Shutdown, StopTransport,
                     ServeReturns
<1>11. CASE Interrupt \/ RequestShutdown BY <1>8, <1>11 DEF Interrupt, RequestShutdown
<1>12. CASE UNCHANGED vars BY <1>8, <1>12 DEF vars
<1> QED BY <1>1, <1>2, <1>4, <1>5, <1>7, <1>9, <1>10, <1>11, <1>12 DEF Next, Finished

\* The threads of the broker use the table as Routing describes it, which is what DataRegister
\* provides: audiences are fixed at one instant, and only a full queue loses a message.
THEOREM ImplementsRoutingHolds == Spec => ImplementsRouting
<1>1. Init => Table!Init
  <2> SUFFICES ASSUME Init PROVE Table!Init
      OBVIOUS
  <2>1. Departed = {} BY DEF Init, Departed, CleanedUp
  <2>2. \A s \in Streams : Inflow(s) = <<>> /\ Len(sent[s]) = 0 BY DEF Init, Inflow
  <2>3. subs = [t \in Topics |-> {}] /\ published = [p \in Publishers |-> 0]
        /\ fan = [p \in Publishers |-> {}]
    BY DEF Init
  <2> HIDE DEF Init
  <2> QED BY <2>1, <2>2, <2>3 DEF Table!Init, Departed
<1>2. Init => FanInv BY ConstantsAssumption DEF Init, FanInv, Publishers
<1>3. TypeOK /\ FanInv /\ [Next]_vars => FanInv' BY FanStep
<1>4. RoutingInv /\ [Next]_vars => [Table!Next]_Table!vars BY RoutingStep
<1> QED BY <1>1, <1>2, <1>3, <1>4, TypeCorrect, RegistrationCorrect, InflowCorrect, PTL
    DEF Spec, RoutingInv, SessionInv, ImplementsRouting, Table!Spec
=============================================================================
