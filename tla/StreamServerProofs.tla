------------------------- MODULE StreamServerProofs -------------------------
(***************************************************************************)
(* Theorems about the broker, for every set of streams and topics, every   *)
(* requires list, every bound.                                             *)
(***************************************************************************)
EXTENDS StreamServerProperties, FiniteSetTheorems, TLAPS

\* A publisher's snapshot of a topic is a set of streams, and counts one more message.
LEMMA SnapshotType ==
    ASSUME TypeOK, NEW p \in Publishers, NEW k \in Topics, Snapshot(p, k)
    PROVE  /\ fan' \in [Publishers -> SUBSET Streams]
           /\ published' \in [Publishers -> Nat]
<1>1. published[p] + 1 \in Nat BY DEF TypeOK
<1>2. subs[k] \ {p} \in SUBSET Streams BY DEF TypeOK
<1> QED BY <1>1, <1>2 DEF TypeOK, Snapshot

\* One put of a fan-out keeps the types: what it queues is a message.
LEMMA NotifyType ==
    ASSUME TypeOK, NEW p \in Publishers, Notify(p) PROVE TypeOK'
<1>1. PICK s \in fan[p] :
        /\ fan' = [fan EXCEPT ![p] = @ \ {s}]
        /\ queue' = IF Room(s) THEN [queue EXCEPT ![s] = Append(@, Data(p, published[p]))]
                               ELSE queue
  BY DEF Notify
<1>2. s \in Streams BY DEF TypeOK
<1>3. Data(p, published[p]) \in Messages BY DEF TypeOK, Data, Messages
<1>4. Append(queue[s], Data(p, published[p])) \in Seq(Messages) BY <1>2, <1>3 DEF TypeOK
<1>5. queue' \in [Streams -> Seq(Messages)] BY <1>1, <1>2, <1>4 DEF TypeOK
<1>6. fan' \in [Publishers -> SUBSET Streams] BY <1>1 DEF TypeOK
<1> QED BY <1>5, <1>6 DEF Notify, TypeOK, serveVars, senderVars, codeVars

\* Every step of the broker keeps every variable in its type.
LEMMA TypeStep == TypeOK /\ [Next]_vars => TypeOK'
<1> SUFFICES ASSUME TypeOK, [Next]_vars PROVE TypeOK'
    OBVIOUS
<1> USE ConstantsAssumption DEF TypeOK, SenderStates, ReceiverStates, Codes, NoThread,
        SenderThread, ReceiverThread,
        SenderAt, ReceiverAt, MainAt, serveVars, senderVars, workVars, sharedVars, codeVars
<1>1. ASSUME NEW s \in Streams, Sender(s) PROVE TypeOK'
  <2>1. CASE CountConnection(s)
    <3>1. connected' \in Int BY <2>1 DEF CountConnection
    <3> QED BY <2>1, <3>1 DEF CountConnection
  <2>2. CASE AddCallback(s) BY <2>2 DEF AddCallback
  <2>3. CASE SkipStopped(s) BY <2>3 DEF SkipStopped
  <2>4. CASE KeepStream(s) BY <2>4 DEF KeepStream
  <2>5. CASE SchemaMismatch(s) BY <2>5 DEF SchemaMismatch, Fail, Failures
  <2>6. CASE StartReceiver(s) BY <2>6 DEF StartReceiver
  <2>7. CASE LoopTest(s) BY <2>7 DEF LoopTest
  <2>8. CASE GetMessage(s)
    <3>1. /\ Head(queue[s]) \in Messages
          /\ Tail(queue[s]) \in Seq(Messages)
      BY <2>8 DEF GetMessage
    <3>2. Append(sent[s], Head(queue[s])) \in Seq(Messages)
      BY <3>1
    <3>3. /\ sent' \in [Streams -> Seq(Messages)]
          /\ queue' \in [Streams -> Seq(Messages)]
      BY <2>8, <3>1, <3>2 DEF GetMessage
    <3>4. sender' \in [Streams -> SenderStates]
      BY <2>8 DEF GetMessage
    <3> QED BY <2>8, <3>3, <3>4 DEF GetMessage
  <2>9. CASE GetTimeout(s) BY <2>9 DEF GetTimeout
  <2>10. CASE Resume(s) BY <2>10 DEF Resume
  <2>11. CASE DropGenerator(s) BY <2>11 DEF DropGenerator
  <2>12. CASE BeginCleanup(s) BY <2>12 DEF BeginCleanup
  <2>13. CASE RemoveSubscription(s)
    <3>1. subs' \in [Topics -> SUBSET Streams] BY <2>13 DEF RemoveSubscription
    <3>2. unsubscribe' \in [Streams -> SUBSET Topics] BY <2>13 DEF RemoveSubscription
    <3> QED BY <2>13, <3>1, <3>2 DEF RemoveSubscription
  <2>14. CASE EndCleanup(s) BY <2>14 DEF EndCleanup
  <2>15. CASE DisconnectHook(s) BY <2>15 DEF DisconnectHook
  <2>16. CASE UncountConnection(s)
    <3>1. connected' \in Int BY <2>16 DEF UncountConnection
    <3>2. final' \in [Streams -> Codes \cup {"none", "CANCELLED", "RESOURCE_EXHAUSTED"}]
      BY <2>16 DEF UncountConnection
    <3>3. /\ sender' \in [Streams -> SenderStates]
          /\ rpcUp' \in [Streams -> BOOLEAN]
      BY <2>16 DEF UncountConnection
    <3> QED BY <2>16, <3>1, <3>2, <3>3 DEF UncountConnection
  <2> QED BY <1>1, <2>1, <2>2, <2>3, <2>4, <2>5, <2>6, <2>7, <2>8, <2>9, <2>10, <2>11,
             <2>12, <2>13, <2>14, <2>15, <2>16 DEF Sender
<1>2. ASSUME NEW s \in Streams, Request(s) \/ HalfClose(s) \/ Receiver(s) PROVE TypeOK'
  <2>1. CASE Request(s) BY <2>1 DEF Request
  <2>2. CASE HalfClose(s) BY <2>2 DEF HalfClose
  <2>19. CASE IteratorEnds(s) BY <2>19, <2>2 DEF IteratorEnds
  <2>3. CASE TakeRequest(s) BY <2>3 DEF TakeRequest
  <2>4. CASE Identify(s) BY <2>4 DEF Identify
  <2>5. CASE HookRaises(s)
    <3>1. receiver' \in [Streams -> ReceiverStates] BY <2>5 DEF HookRaises, LeaveHook
    <3>2. /\ status' \in [Streams -> Codes]
          /\ failed' \in [Streams -> Failures]
      BY <2>5 DEF HookRaises, Fail, Failures
    <3> QED BY <2>5, <3>1, <3>2 DEF HookRaises
  <2>20. CASE HookRaisesRpcError(s)
    <3>1. receiver' \in [Streams -> ReceiverStates] BY <2>20 DEF HookRaisesRpcError, LeaveHook
    <3>2. failed' \in [Streams -> Failures] BY <2>20 DEF HookRaisesRpcError, Failures
    <3> QED BY <2>20, <3>1, <3>2 DEF HookRaisesRpcError
  <2>6. CASE RejectClient(s) BY <2>6 DEF RejectClient, Fail, Failures
  <2>7. CASE AcceptClient(s) BY <2>7 DEF AcceptClient
  <2>8. CASE AcceptedHook(s) BY <2>8 DEF AcceptedHook
  <2>9. CASE EnrollTooLate(s) BY <2>9 DEF EnrollTooLate
  <2>10. CASE SendWelcome(s)
    <3>0. Welcome \in Messages BY DEF Welcome, Messages
    <3>1. Append(queue[s], Welcome) \in Seq(Messages) BY <3>0
    <3>2. queue' \in [Streams -> Seq(Messages)]
      BY <2>10, <3>1 DEF SendWelcome
    <3>3. receiver' \in [Streams -> ReceiverStates] /\ lock' = ReceiverThread(s)
      BY <2>10 DEF SendWelcome
    <3> QED BY <2>10, <3>2, <3>3 DEF SendWelcome
  <2>11. CASE Subscribe(s)
    <3>1. subs' \in [Topics -> SUBSET Streams] BY <2>11 DEF Subscribe
    <3>2. enrolled' \in [Streams -> Nat] BY <2>11 DEF Subscribe
    <3> QED BY <2>11, <3>1, <3>2 DEF Subscribe
  <2>12. CASE SubscribeTwice(s) BY <2>12 DEF SubscribeTwice, Fail, Failures
  <2>13. CASE EndEnroll(s) BY <2>13 DEF EndEnroll
  <2>14. CASE SuppressData(s) BY <2>14 DEF SuppressData
  <2>15. CASE RouteData(s)
    <3>1. PICK k \in Topics : Snapshot(s, k) BY <2>15 DEF RouteData
    <3>2. receiver' \in [Streams -> ReceiverStates] BY <2>15 DEF RouteData
    <3> QED BY <2>15, <3>1, <3>2, SnapshotType DEF RouteData, Publishers
  <2>16. CASE Notify(s) BY <2>16, NotifyType DEF Publishers
  <2>17. CASE EndFan(s) BY <2>17 DEF EndFan
  <2>18. CASE ReceiverFinally(s) BY <2>18 DEF ReceiverFinally
  <2> QED BY <1>2, <2>1, <2>2, <2>3, <2>4, <2>5, <2>6, <2>7, <2>8, <2>9, <2>10, <2>11,
             <2>12, <2>13, <2>14, <2>15, <2>16, <2>17, <2>18, <2>19, <2>20 DEF Receiver
<1>3. ASSUME NEW s \in Streams, Admit(s) \/ Refuse(s) \/ RpcEnds(s) \/ TerminationCallback(s)
      PROVE TypeOK'
  <2>1. CASE Admit(s)
    <3>1. sender' \in [Streams -> SenderStates] /\ rpcUp' \in [Streams -> BOOLEAN]
      BY <2>1 DEF Admit
    <3> QED BY <2>1, <3>1 DEF Admit
  <2>2. CASE Refuse(s)
    <3>1. /\ sender' \in [Streams -> SenderStates]
          /\ final' \in [Streams -> Codes \cup {"none", "CANCELLED", "RESOURCE_EXHAUSTED"}]
      BY <2>2 DEF Refuse
    <3> QED BY <2>2, <3>1 DEF Refuse
  <2>3. CASE RpcEnds(s) BY <2>3 DEF RpcEnds
  <2>4. CASE TerminationCallback(s) BY <2>4 DEF TerminationCallback
  <2> QED BY <1>3, <2>1, <2>2, <2>3, <2>4
<1>4. CASE Main
  <2>1. CASE ServerStarts BY <2>1 DEF ServerStarts
  <2>2. CASE StartFails BY <2>2 DEF StartFails
  <2>3. CASE ServeEnds BY <2>3 DEF ServeEnds
  <2>4. CASE Shutdown BY <2>4 DEF Shutdown
  <2>5. CASE StopTransport BY <2>5 DEF StopTransport
  <2>6. CASE ServeReturns BY <2>6 DEF ServeReturns
  <2> QED BY <1>4, <2>1, <2>2, <2>3, <2>4, <2>5, <2>6 DEF Main
<1>5. CASE Interrupt \/ RequestShutdown
  BY <1>5 DEF Interrupt, RequestShutdown
<1>6. CASE Push
  <2>1. PICK k \in Topics : Snapshot(Pusher, k) BY <1>6 DEF Push
  <2> QED BY <1>6, <2>1, SnapshotType DEF Push, Publishers
<1>7. CASE Notify(Pusher) BY <1>7, NotifyType DEF Publishers
<1>8. CASE UNCHANGED vars BY <1>8 DEF vars
<1> QED BY <1>1, <1>2, <1>3, <1>4, <1>5, <1>6, <1>7, <1>8 DEF Next, Finished

\* Initially every variable is in its type.
LEMMA TypeInit == Init => TypeOK
<1> SUFFICES ASSUME Init PROVE TypeOK
    OBVIOUS
<1>1. queue \in [Streams -> Seq(Messages)] /\ sent \in [Streams -> Seq(Messages)] BY DEF Init
<1>2. sender \in [Streams -> SenderStates] /\ receiver \in [Streams -> ReceiverStates]
  BY DEF Init, SenderStates, ReceiverStates
<1>3. /\ status \in [Streams -> Codes]
      /\ final \in [Streams -> Codes \cup {"none", "CANCELLED", "RESOURCE_EXHAUSTED"}]
  BY DEF Init, Codes
<1>4. connected \in Int /\ published \in [Publishers -> Nat] /\ enrolled \in [Streams -> Nat]
  BY DEF Init
<1> QED BY <1>1, <1>2, <1>3, <1>4 DEF Init, TypeOK, Failures

\* In every behaviour of the broker the variables keep to the values the Python program
\* can give them.
THEOREM TypeCorrect == Spec => []TypeOK
<1>1. Init => TypeOK BY TypeInit
<1>2. TypeOK /\ [Next]_vars => TypeOK' BY TypeStep
<1> QED BY <1>1, <1>2, PTL DEF Spec

\* Threads are told apart: a lock held by one is not held by another.
LEMMA ThreadsDistinct ==
    \A s, r \in Streams :
        /\ SenderThread(s) # NoThread /\ ReceiverThread(s) # NoThread
        /\ SenderThread(s) # ReceiverThread(r)
        /\ SenderThread(s) = SenderThread(r) => s = r
        /\ ReceiverThread(s) = ReceiverThread(r) => s = r
BY DEF SenderThread, ReceiverThread, NoThread

\* Every step of the broker keeps the registration invariant.
LEMMA RegistrationStep == TypeOK /\ RegistrationInv /\ [Next]_vars => RegistrationInv'
<1> SUFFICES ASSUME TypeOK, RegistrationInv, [Next]_vars PROVE RegistrationInv'
    OBVIOUS
<1> USE ThreadsDistinct DEF TypeOK, RegistrationInv, LockInv, StageInv, SubscriptionInv,
        Leaving,
        CleanedUp, SenderAt, ReceiverAt, MainAt, serveVars, senderVars, workVars, sharedVars,
        codeVars
<1>1. ASSUME NEW s \in Streams, Sender(s) PROVE RegistrationInv'
  <2>1. CASE CountConnection(s) BY <2>1 DEF CountConnection
  <2>2. CASE AddCallback(s) BY <2>2 DEF AddCallback
  <2>3. CASE SkipStopped(s) BY <2>3 DEF SkipStopped, Exiting
  <2>4. CASE KeepStream(s) BY <2>4 DEF KeepStream
  <2>5. CASE SchemaMismatch(s) BY <2>5 DEF SchemaMismatch
  <2>6. CASE StartReceiver(s) BY <2>6 DEF StartReceiver
  <2>7. CASE LoopTest(s) BY <2>7 DEF LoopTest, Exiting
  <2>8. CASE GetMessage(s) BY <2>8 DEF GetMessage
  <2>9. CASE GetTimeout(s) BY <2>9 DEF GetTimeout
  <2>10. CASE Resume(s) BY <2>10 DEF Resume
  <2>11. CASE DropGenerator(s) BY <2>11 DEF DropGenerator
  <2>12. CASE BeginCleanup(s) BY <2>12 DEF BeginCleanup
  <2>13. CASE RemoveSubscription(s) BY <2>13 DEF RemoveSubscription
  <2>14. CASE EndCleanup(s) BY <2>14 DEF EndCleanup
  <2>15. CASE DisconnectHook(s) BY <2>15 DEF DisconnectHook
  <2>16. CASE UncountConnection(s) BY <2>16 DEF UncountConnection
  <2> QED BY <1>1, <2>1, <2>2, <2>3, <2>4, <2>5, <2>6, <2>7, <2>8, <2>9, <2>10, <2>11,
             <2>12, <2>13, <2>14, <2>15, <2>16 DEF Sender
<1>2. ASSUME NEW s \in Streams, Request(s) \/ HalfClose(s) \/ Receiver(s) PROVE RegistrationInv'
  <2>1. CASE Request(s) BY <2>1 DEF Request
  <2>2. CASE HalfClose(s) BY <2>2 DEF HalfClose
  <2>3. CASE IteratorEnds(s) BY <2>3 DEF IteratorEnds, HalfClose
  <2>4. CASE TakeRequest(s) BY <2>4 DEF TakeRequest
  <2>5. CASE Identify(s) BY <2>5 DEF Identify
  <2>6. CASE HookRaises(s) BY <2>6 DEF HookRaises, LeaveHook
  <2>20. CASE HookRaisesRpcError(s) BY <2>20 DEF HookRaisesRpcError, LeaveHook
  <2>7. CASE RejectClient(s) BY <2>7 DEF RejectClient
  <2>8. CASE AcceptClient(s) BY <2>8 DEF AcceptClient
  <2>9. CASE AcceptedHook(s) BY <2>9 DEF AcceptedHook
  <2>10. CASE EnrollTooLate(s) BY <2>10 DEF EnrollTooLate
  <2>11. CASE SendWelcome(s) BY <2>11 DEF SendWelcome, Exiting
  <2>12. CASE Subscribe(s) BY <2>12 DEF Subscribe
  <2>13. CASE SubscribeTwice(s) BY <2>13 DEF SubscribeTwice
  <2>14. CASE EndEnroll(s) BY <2>14 DEF EndEnroll
  <2>15. CASE SuppressData(s) BY <2>15 DEF SuppressData
  <2>16. CASE RouteData(s) BY <2>16 DEF RouteData
  <2>17. CASE Notify(s) BY <2>17 DEF Notify
  <2>18. CASE EndFan(s) BY <2>18 DEF EndFan
  <2>19. CASE ReceiverFinally(s) BY <2>19 DEF ReceiverFinally
  <2> QED BY <1>2, <2>1, <2>2, <2>3, <2>4, <2>5, <2>6, <2>7, <2>8, <2>9, <2>10, <2>11,
             <2>12, <2>13, <2>14, <2>15, <2>16, <2>17, <2>18, <2>19, <2>20 DEF Receiver
<1>3. ASSUME NEW s \in Streams, Admit(s) \/ Refuse(s) \/ RpcEnds(s) \/ TerminationCallback(s)
      PROVE RegistrationInv'
  <2>1. CASE Admit(s) BY <2>1 DEF Admit
  <2>2. CASE Refuse(s) BY <2>2 DEF Refuse
  <2>3. CASE RpcEnds(s) BY <2>3 DEF RpcEnds
  <2>4. CASE TerminationCallback(s) BY <2>4 DEF TerminationCallback
  <2> QED BY <1>3, <2>1, <2>2, <2>3, <2>4
<1>4. CASE Main
  BY <1>4 DEF Main, ServerStarts, StartFails, ServeEnds, Shutdown, StopTransport, ServeReturns
<1>5. CASE Interrupt \/ RequestShutdown
  BY <1>5 DEF Interrupt, RequestShutdown
<1>6. CASE Push BY <1>6 DEF Push
<1>7. CASE Notify(Pusher) BY <1>7 DEF Notify
<1>8. CASE UNCHANGED vars BY <1>8 DEF vars
<1> QED BY <1>1, <1>2, <1>3, <1>4, <1>5, <1>6, <1>7, <1>8 DEF Next, Finished

\* The registration invariant holds in every reachable state.
LEMMA RegistrationCorrect == Spec => []RegistrationInv
<1>1. Init => RegistrationInv
  BY ThreadsDistinct DEF Init, RegistrationInv, LockInv, StageInv, SubscriptionInv, Leaving
<1>2. TypeOK /\ RegistrationInv /\ [Next]_vars => RegistrationInv' BY RegistrationStep
<1> QED BY <1>1, <1>2, TypeCorrect, PTL DEF Spec

\* A stream that finished its disconnect cleanup never holds a subscription again, whenever
\* its acceptance hook returns and however its RPC ended.
THEOREM NoSubscriptionAfterCleanupHolds == Spec => []NoSubscriptionAfterCleanup
<1>1. RegistrationInv => NoSubscriptionAfterCleanup
  BY DEF RegistrationInv, SubscriptionInv, NoSubscriptionAfterCleanup
<1> QED BY <1>1, RegistrationCorrect, PTL

\* Every step of the broker keeps the completion invariant.
LEMMA CompletionStep ==
    TypeOK /\ RegistrationInv /\ CompletionInv /\ [Next]_vars => CompletionInv'
<1> SUFFICES ASSUME TypeOK, RegistrationInv, CompletionInv, [Next]_vars PROVE CompletionInv'
    OBVIOUS
<1> USE DEF TypeOK, RegistrationInv, StageInv, CompletionInv, Failed, Leaving, Exiting,
        SenderAt, ReceiverAt, MainAt, serveVars, senderVars, workVars, sharedVars, codeVars
<1>1. ASSUME NEW s \in Streams, Sender(s) PROVE CompletionInv'
  <2>1. CASE CountConnection(s) BY <2>1 DEF CountConnection
  <2>2. CASE AddCallback(s) BY <2>2 DEF AddCallback
  <2>3. CASE SkipStopped(s) BY <2>3 DEF SkipStopped
  <2>4. CASE KeepStream(s) BY <2>4 DEF KeepStream
  <2>5. CASE SchemaMismatch(s) BY <2>5 DEF SchemaMismatch, Fail
  <2>6. CASE StartReceiver(s) BY <2>6 DEF StartReceiver
  <2>7. CASE LoopTest(s) BY <2>7 DEF LoopTest
  <2>8. CASE GetMessage(s) BY <2>8 DEF GetMessage
  <2>9. CASE GetTimeout(s) BY <2>9 DEF GetTimeout
  <2>10. CASE Resume(s) BY <2>10 DEF Resume
  <2>11. CASE DropGenerator(s) BY <2>11 DEF DropGenerator
  <2>12. CASE BeginCleanup(s) BY <2>12 DEF BeginCleanup
  <2>13. CASE RemoveSubscription(s) BY <2>13 DEF RemoveSubscription
  <2>14. CASE EndCleanup(s) BY <2>14 DEF EndCleanup
  <2>15. CASE DisconnectHook(s) BY <2>15 DEF DisconnectHook
  <2>16. CASE UncountConnection(s) BY <2>16 DEF UncountConnection
  <2> QED BY <1>1, <2>1, <2>2, <2>3, <2>4, <2>5, <2>6, <2>7, <2>8, <2>9, <2>10, <2>11,
             <2>12, <2>13, <2>14, <2>15, <2>16 DEF Sender
<1>2. ASSUME NEW s \in Streams, Request(s) \/ HalfClose(s) \/ Receiver(s) PROVE CompletionInv'
  <2>1. CASE Request(s) BY <2>1 DEF Request
  <2>2. CASE HalfClose(s) BY <2>2 DEF HalfClose
  <2>3. CASE IteratorEnds(s) BY <2>3 DEF IteratorEnds, HalfClose
  <2>4. CASE TakeRequest(s) BY <2>4 DEF TakeRequest
  <2>5. CASE Identify(s) BY <2>5 DEF Identify
  <2>6. CASE HookRaises(s) BY <2>6 DEF HookRaises, LeaveHook, Fail
  <2>20. CASE HookRaisesRpcError(s) BY <2>20 DEF HookRaisesRpcError, LeaveHook
  <2>7. CASE RejectClient(s) BY <2>7 DEF RejectClient, Fail
  <2>8. CASE AcceptClient(s) BY <2>8 DEF AcceptClient
  <2>9. CASE AcceptedHook(s) BY <2>9 DEF AcceptedHook
  <2>10. CASE EnrollTooLate(s) BY <2>10 DEF EnrollTooLate
  <2>11. CASE SendWelcome(s) BY <2>11 DEF SendWelcome
  <2>12. CASE Subscribe(s) BY <2>12 DEF Subscribe
  <2>13. CASE SubscribeTwice(s) BY <2>13 DEF SubscribeTwice, Fail
  <2>14. CASE EndEnroll(s) BY <2>14 DEF EndEnroll
  <2>15. CASE SuppressData(s) BY <2>15 DEF SuppressData
  <2>16. CASE RouteData(s) BY <2>16 DEF RouteData
  <2>17. CASE Notify(s) BY <2>17 DEF Notify
  <2>18. CASE EndFan(s) BY <2>18 DEF EndFan
  <2>19. CASE ReceiverFinally(s) BY <2>19 DEF ReceiverFinally
  <2> QED BY <1>2, <2>1, <2>2, <2>3, <2>4, <2>5, <2>6, <2>7, <2>8, <2>9, <2>10, <2>11,
             <2>12, <2>13, <2>14, <2>15, <2>16, <2>17, <2>18, <2>19, <2>20 DEF Receiver
<1>3. ASSUME NEW s \in Streams, Admit(s) \/ Refuse(s) \/ RpcEnds(s) \/ TerminationCallback(s)
      PROVE CompletionInv'
  <2>1. CASE Admit(s) BY <2>1 DEF Admit
  <2>2. CASE Refuse(s) BY <2>2 DEF Refuse
  <2>3. CASE RpcEnds(s) BY <2>3 DEF RpcEnds
  <2>4. CASE TerminationCallback(s) BY <2>4 DEF TerminationCallback
  <2> QED BY <1>3, <2>1, <2>2, <2>3, <2>4
<1>4. CASE Main
  BY <1>4 DEF Main, ServerStarts, StartFails, ServeEnds, Shutdown, StopTransport, ServeReturns
<1>5. CASE Interrupt \/ RequestShutdown
  BY <1>5 DEF Interrupt, RequestShutdown
<1>6. CASE Push BY <1>6 DEF Push
<1>7. CASE Notify(Pusher) BY <1>7 DEF Notify
<1>8. CASE UNCHANGED vars BY <1>8 DEF vars
<1> QED BY <1>1, <1>2, <1>3, <1>4, <1>5, <1>6, <1>7, <1>8 DEF Next, Finished

\* An RPC whose client was rejected or whose receive worker failed completes OK only while
\* the server is going down.
THEOREM FailureNeverOKHolds == Spec => []FailureNeverOK
<1>1. Init => CompletionInv BY DEF Init, CompletionInv, Failed
<1>2. TypeOK /\ RegistrationInv /\ CompletionInv /\ [Next]_vars => CompletionInv'
  BY CompletionStep
<1>3. CompletionInv => FailureNeverOK BY DEF CompletionInv, FailureNeverOK
<1> QED BY <1>1, <1>2, <1>3, TypeCorrect, RegistrationCorrect, PTL DEF Spec

-----------------------------------------------------------------------------
(* What the broker counts, admits and releases.                            *)

\* The inductive invariant: admission bounds the streams that are served, the counter counts
\* those between their increment and their decrement, and nobody is admitted or served once
\* the transport has stopped and the executor has shut down.
AdmissionInv ==
    /\ IsFiniteSet(Busy) /\ Cardinality(Busy) <= MaxWorkers
    /\ connected = Cardinality(Counted)
    /\ main \in {"starting", "draining", "returned"} => ~listening
    /\ main = "returned" => Busy = {}

\* What is counted is served.
LEMMA CountedIsBusy == Counted \subseteq Busy
BY DEF Counted, Busy

\* A step that moves a stream neither into nor out of service, nor past the counter.
LEMMA SameService ==
    ASSUME AdmissionInv, Busy' = Busy, Counted' = Counted, UNCHANGED connected,
           main' \in {"starting", "draining", "returned"} => ~listening',
           main' = "returned" => main = "returned" \/ Busy = {}
    PROVE  AdmissionInv'
BY DEF AdmissionInv

\* A stream that moves on within its service.
LEMMA MovesOn ==
    ASSUME TypeOK, AdmissionInv, NEW s \in Streams, NEW to,
           sender[s] \notin {"absent", "count", "done"},
           to \notin {"absent", "count", "done"},
           sender' = [sender EXCEPT ![s] = to],
           UNCHANGED <<connected, main, listening>>
    PROVE  AdmissionInv'
<1>1. Busy' = Busy BY DEF Busy, TypeOK
<1>2. Counted' = Counted BY DEF Counted, TypeOK
<1> QED BY <1>1, <1>2, SameService DEF AdmissionInv

\* Every step of a stream's sender.
LEMMA SenderAdmission ==
    ASSUME TypeOK, AdmissionInv, NEW s \in Streams, Sender(s) PROVE AdmissionInv'
<1> USE DEF SenderAt, serveVars, senderVars, workVars, sharedVars, codeVars
<1>1. CASE CountConnection(s)
  <2>1. sender[s] = "count" /\ sender' = [sender EXCEPT ![s] = "callback"]
        /\ connected' = connected + 1 /\ UNCHANGED <<main, listening>>
    BY <1>1 DEF CountConnection
  <2>2. Busy' = Busy BY <2>1 DEF Busy, TypeOK
  <2>3. Counted' = Counted \cup {s} /\ s \notin Counted BY <2>1 DEF Counted, TypeOK
  <2>4. IsFiniteSet(Counted) BY CountedIsBusy, FS_Subset DEF AdmissionInv
  <2>5. Cardinality(Counted \cup {s}) = Cardinality(Counted) + 1 BY <2>3, <2>4, FS_AddElement
  <2> QED BY <2>1, <2>2, <2>3, <2>5 DEF AdmissionInv
<1>2. CASE UncountConnection(s)
  <2>1. sender[s] = "uncount" /\ sender' = [sender EXCEPT ![s] = "done"]
        /\ connected' = connected - 1 /\ UNCHANGED <<main, listening>>
    BY <1>2 DEF UncountConnection
  <2>2. Busy' = Busy \ {s} /\ s \in Busy BY <2>1 DEF Busy, TypeOK
  <2>3. Counted' = Counted \ {s} /\ s \in Counted BY <2>1 DEF Counted, TypeOK
  <2>4. IsFiniteSet(Counted) BY CountedIsBusy, FS_Subset DEF AdmissionInv
  <2>5. Cardinality(Counted \ {s}) = Cardinality(Counted) - 1
    BY <2>3, <2>4, FS_RemoveElement
  <2>6. IsFiniteSet(Busy \ {s}) /\ Cardinality(Busy \ {s}) = Cardinality(Busy) - 1
    BY <2>2, FS_RemoveElement DEF AdmissionInv
  <2>7. Cardinality(Busy) \in Nat BY FS_CardinalityType DEF AdmissionInv
  <2>8. Cardinality(Busy \ {s}) <= MaxWorkers
    BY <2>6, <2>7, ConstantsAssumption DEF AdmissionInv
  <2> QED BY <2>1, <2>2, <2>3, <2>5, <2>6, <2>8 DEF AdmissionInv
<1>3. CASE AddCallback(s) \/ SkipStopped(s) \/ KeepStream(s)
  BY <1>3, MovesOn DEF AddCallback, SkipStopped, KeepStream
<1>4. CASE SchemaMismatch(s) \/ StartReceiver(s) \/ LoopTest(s)
  BY <1>4, MovesOn DEF SchemaMismatch, StartReceiver, LoopTest
<1>5. CASE GetMessage(s) \/ GetTimeout(s) \/ Resume(s) \/ DropGenerator(s)
  BY <1>5, MovesOn DEF GetMessage, GetTimeout, Resume, DropGenerator
<1>6. CASE BeginCleanup(s) \/ EndCleanup(s) \/ DisconnectHook(s)
  BY <1>6, MovesOn DEF BeginCleanup, EndCleanup, DisconnectHook
<1>7. CASE RemoveSubscription(s)
  BY <1>7 DEF RemoveSubscription, AdmissionInv, Busy, Counted
<1> QED BY <1>1, <1>2, <1>3, <1>4, <1>5, <1>6, <1>7 DEF Sender

\* Every step of the broker keeps the invariant.
LEMMA AdmissionStep == TypeOK /\ AdmissionInv /\ [Next]_vars => AdmissionInv'
<1> SUFFICES ASSUME TypeOK, AdmissionInv, [Next]_vars PROVE AdmissionInv'
    OBVIOUS
<1> USE DEF SenderAt, ReceiverAt, MainAt, serveVars, senderVars, workVars, sharedVars, codeVars
<1>1. ASSUME NEW s \in Streams, Sender(s) PROVE AdmissionInv' BY <1>1, SenderAdmission
<1>2. ASSUME UNCHANGED <<sender, connected, main, listening>> PROVE AdmissionInv'
  BY <1>2, SameService DEF AdmissionInv, Busy, Counted
<1>3. ASSUME NEW s \in Streams, Request(s) \/ HalfClose(s) \/ Receiver(s) PROVE AdmissionInv'
  BY <1>2, <1>3 DEF Request, HalfClose, Receiver, IteratorEnds, TakeRequest, Identify,
        HookRaises, HookRaisesRpcError, LeaveHook, RejectClient, AcceptClient, AcceptedHook, EnrollTooLate, SendWelcome,
        Subscribe, SubscribeTwice, EndEnroll, SuppressData, RouteData, Notify, EndFan,
        ReceiverFinally
<1>4. ASSUME NEW s \in Streams, Admit(s) PROVE AdmissionInv'
  <2>1. /\ sender[s] = "absent" /\ sender' = [sender EXCEPT ![s] = "count"]
        /\ listening /\ Cardinality(Busy) < MaxWorkers
        /\ UNCHANGED <<connected, main, listening>>
    BY <1>4 DEF Admit
  <2>2. Busy' = Busy \cup {s} /\ s \notin Busy BY <2>1 DEF Busy, TypeOK
  <2>3. Counted' = Counted BY <2>1 DEF Counted, TypeOK
  <2>4. IsFiniteSet(Busy \cup {s}) /\ Cardinality(Busy \cup {s}) = Cardinality(Busy) + 1
    BY <2>2, FS_AddElement DEF AdmissionInv
  <2>5. Cardinality(Busy) \in Nat BY FS_CardinalityType DEF AdmissionInv
  <2>6. Cardinality(Busy \cup {s}) <= MaxWorkers
    BY <2>1, <2>4, <2>5, ConstantsAssumption
  <2> QED BY <2>1, <2>2, <2>3, <2>4, <2>6 DEF AdmissionInv
<1>5. ASSUME NEW s \in Streams, Refuse(s) PROVE AdmissionInv'
  <2>1. Busy' = Busy /\ Counted' = Counted BY <1>5 DEF Refuse, Busy, Counted, TypeOK
  <2> QED BY <1>5, <2>1, SameService DEF Refuse, AdmissionInv
<1>6. ASSUME NEW s \in Streams, RpcEnds(s) \/ TerminationCallback(s) PROVE AdmissionInv'
  BY <1>2, <1>6 DEF RpcEnds, TerminationCallback
<1>7. CASE Main \/ Interrupt
  <2>1. UNCHANGED <<sender, connected>>
    BY <1>7 DEF Main, Interrupt, ServerStarts, StartFails, ServeEnds, Shutdown, StopTransport,
                ServeReturns
  <2>2. Busy' = Busy /\ Counted' = Counted BY <2>1 DEF Busy, Counted
  <2>3. /\ main' \in {"starting", "draining", "returned"} => ~listening'
        /\ main' = "returned" => Busy = {}
    BY <1>7 DEF Main, Interrupt, ServerStarts, StartFails, ServeEnds, Shutdown, StopTransport,
                ServeReturns, AdmissionInv
  <2> QED BY <2>1, <2>2, <2>3, SameService
<1>8. CASE RequestShutdown \/ Push \/ Notify(Pusher)
  BY <1>2, <1>8 DEF RequestShutdown, Push, Notify
<1>9. CASE UNCHANGED vars BY <1>2, <1>9 DEF vars
<1> QED BY <1>1, <1>3, <1>4, <1>5, <1>6, <1>7, <1>8, <1>9 DEF Next, Finished

\* The invariant holds in every reachable state.
LEMMA AdmissionCorrect == Spec => []AdmissionInv
<1>1. Init => AdmissionInv
  <2> SUFFICES ASSUME Init PROVE AdmissionInv
    OBVIOUS
  <2>1. Busy = {} /\ Counted = {} BY DEF Init, Busy, Counted
  <2>2. IsFiniteSet({}) /\ Cardinality({}) = 0 BY FS_EmptySet
  <2> QED BY <2>1, <2>2, ConstantsAssumption DEF Init, AdmissionInv
<1>2. TypeOK /\ AdmissionInv /\ [Next]_vars => AdmissionInv' BY AdmissionStep
<1> QED BY <1>1, <1>2, TypeCorrect, PTL DEF Spec

\* __connected_clients is exact on every path out of DataChannel, and never exceeds the pool.
THEOREM ConnectedIsExactHolds == Spec => []ConnectedIsExact
<1>1. AdmissionInv => ConnectedIsExact
  <2> SUFFICES ASSUME AdmissionInv PROVE ConnectedIsExact
    OBVIOUS
  <2>1. Cardinality(Counted) <= Cardinality(Busy) /\ IsFiniteSet(Counted)
    BY CountedIsBusy, FS_Subset DEF AdmissionInv
  <2>2. Cardinality(Busy) \in Nat /\ Cardinality(Counted) \in Nat
    BY <2>1, FS_CardinalityType DEF AdmissionInv
  <2> QED BY <2>1, <2>2, ConstantsAssumption DEF AdmissionInv, ConnectedIsExact
<1> QED BY <1>1, AdmissionCorrect, PTL

\* When serve_forever has returned no stream is counted and none is subscribed, whichever
\* hooks are still running.
THEOREM ReturnedMeansReleasedHolds == Spec => []ReturnedMeansReleased
<1>1. TypeOK /\ AdmissionInv /\ RegistrationInv => ReturnedMeansReleased
  <2> SUFFICES ASSUME TypeOK, AdmissionInv, RegistrationInv, main = "returned"
               PROVE  connected = 0 /\ \A t \in Topics : subs[t] = {}
    BY DEF ReturnedMeansReleased
  <2>1. Busy = {} BY DEF AdmissionInv
  <2>2. connected = 0
    <3>1. Counted = {} BY <2>1, CountedIsBusy
    <3> QED BY <3>1, FS_EmptySet DEF AdmissionInv
  <2>3. ASSUME NEW k \in Topics, NEW s \in Streams PROVE s \notin subs[k]
    <3>1. sender[s] \in {"absent", "done"} BY <2>1 DEF Busy
    <3>2. sender[s] = "absent" => ~identified[s] BY DEF RegistrationInv, StageInv
    <3> QED BY <3>1, <3>2 DEF RegistrationInv, SubscriptionInv, CleanedUp
  <2>4. \A t \in Topics : subs[t] \subseteq Streams BY DEF TypeOK
  <2> QED BY <2>2, <2>3, <2>4
<1> QED BY <1>1, TypeCorrect, AdmissionCorrect, RegistrationCorrect, PTL
=============================================================================
