----------------------- MODULE DataRegisterProperties -----------------------
(* What the routing table promises to those who call it.                   *)
EXTENDS DataRegister

\* Every variable ranges over the values its Python counterpart can take.
TypeOK ==
    /\ known \subseteq Topics
    /\ register \in [Topics -> SUBSET Clients]
    /\ lastWarning \in Nat \cup {-1}
    /\ now \in Nat
    /\ put \in [Clients -> Seq([from : Publishers, n : Nat])]
    /\ taken \in [Clients -> Nat]
    /\ registrar \in [Clients -> RegistrarStates]
    /\ enrolled \in [Clients -> Nat]
    /\ names \in [Clients -> SUBSET Topics]
    /\ publisher \in [Publishers -> PublisherStates]
    /\ call \in [Publishers -> [sender : Clients \cup {NoClient}, topic : Topics,
                               target : Clients \cup {NoClient}]]
    /\ \A p \in Publishers : call[p] \in Calls[p]
    /\ calls \in [Publishers -> Nat]
    /\ subscribers \in [Publishers -> SUBSET Clients]
    /\ todo \in [Publishers -> SUBSET Clients]
    /\ current \in [Publishers -> Clients \cup {NoClient}]
    /\ delivered \in [Publishers -> SUBSET Clients]
    /\ dropped \in [Publishers -> SUBSET Clients]
    /\ goneBefore \in [Publishers -> SUBSET Clients]
    /\ lost \in [Publishers -> Nat \cup {-1}]
    /\ warnings \in Seq(Nat)

\* Whom a call addresses, given the subscribers it copied.
Addressed(p) ==
    IF subscribers[p] = {} THEN {}
    ELSE IF call[p].target = NoClient THEN subscribers[p] \ {call[p].sender}
         ELSE {call[p].target}

Copies(p, c) == Cardinality({i \in 1..Len(put[c]) : put[c][i] = Message(p)})

\* The DeliveryResult of a call that returned is what happened, whoever registered, left,
\* published or read meanwhile: everybody addressed is in exactly one of delivered and
\* dropped, and exactly the delivered have the message in their queue, once.
ResultsExact ==
    \A p \in Publishers : publisher[p] = "idle" /\ calls[p] > 0 =>
        /\ delivered[p] \cup dropped[p] = Addressed(p)
        /\ delivered[p] \cap dropped[p] = {}
        /\ \A c \in Clients : Copies(p, c) = IF c \in delivered[p] THEN 1 ELSE 0

\* A call that begins after a client's removal has returned puts nothing into its queue,
\* although calls under way may, and although names can be added while it is removed.
NoDeliveryAfterRemoval ==
    \A p \in Publishers : delivered[p] \cap goneBefore[p] = {}

\* Concurrent publishers never overfill a bounded queue, nor reorder a publisher's messages.
QueuesOrdered ==
    \A c \in Clients :
        /\ MaxQueue > 0 => Size(c) <= MaxQueue
        /\ \A i, j \in 1..Len(put[c]) :
              i < j /\ put[c][i].from = put[c][j].from => put[c][i].n < put[c][j].n

\* Queue warnings of all clients and publishers share one cooldown.
WarningsSpaced ==
    \A i \in 1..(Len(warnings) - 1) : warnings[i + 1] - warnings[i] >= Cooldown

\* A loss at time t is covered, and with it every loss before it: a warning was logged within
\* the cooldown before it, or since.
Covered(t) == \E i \in 1..Len(warnings) : t - warnings[i] < Cooldown

\* No loss goes unsignalled, although one cooldown serves all clients and publishers: when a
\* call has notified its last client, the full queues it met are covered by a warning.
LossCovered ==
    \A p \in Publishers :
        publisher[p] = "put" /\ todo[p] = {} /\ lost[p] # -1 => Covered(lost[p])

\* A call under way can always go on, whoever holds no lock, reads no queue or never leaves:
\* it waits for nobody, and a put never blocks.
CallsNeverWait ==
    \A p \in Publishers : publisher[p] # "idle" => ENABLED Publish(p)

\* The refinement mapping: a call takes effect when its subscribers are copied, or when it is
\* found that there are none.
Table == INSTANCE Routing
             WITH Greeting <- NoClient,
                  Capacity <- MaxQueue,
                  members <- register,
                  left    <- {c \in Clients : registrar[c] = "gone"},
                  inbox   <- put,
                  read    <- taken,
                  count   <- [p \in Publishers |->
                                 IF publisher[p] \in {"meta", "topic"} THEN calls[p] - 1
                                                                      ELSE calls[p]],
                  pending <- todo

\* Whatever registers, leaves and reads while a call is on its way, its audience is that of one
\* instant between its begin and its return, and only a full queue keeps anybody of it from the message.
ImplementsRouting == Table!Spec
=============================================================================
