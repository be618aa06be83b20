------------------------- MODULE DataRegisterProofs -------------------------
(***************************************************************************)
(* Theorems about the routing table, for every set of clients, message     *)
(* names and publishers, whatever they register and call, and every bound. *)
(***************************************************************************)
EXTENDS DataRegisterProperties, FiniteSetTheorems, SequenceTheorems, TLAPS

\* A client is in the table only under names the table knows, and only until its removal has
\* visited them: the names a removal found are all there are for its client.
TableInv ==
    \A c \in Clients :
        /\ enrolled[c] <= Len(Requires[c])
        /\ registrar[c] = "topic" => enrolled[c] < Len(Requires[c]) /\ NextName(c) \in known
        /\ \A t \in Topics : c \in register[t] =>
              /\ t \in known /\ registrar[c] # "gone"
              /\ registrar[c] = "removing" => t \in names[c]

\* Who is addressed is delivered to, dropped, or still to be notified, and only one of these;
\* a call has copied no client that was gone when it began.
CallInv ==
    \A p \in Publishers :
        /\ publisher[p] \in {"meta", "topic"} => subscribers[p] = {}
        /\ publisher[p] = "idle" => todo[p] = {}
        /\ delivered[p] \cup dropped[p] \cup todo[p] = Addressed(p)
        /\ delivered[p] \cup todo[p] \subseteq subscribers[p]
        /\ delivered[p] \cap dropped[p] = {}
        /\ todo[p] \cap (delivered[p] \cup dropped[p]) = {}
        /\ subscribers[p] \cap goneBefore[p] = {}
        /\ \A c \in goneBefore[p] : registrar[c] = "gone"

\* A queue holds no message that has not been sent, and a publisher's latest message is in the
\* queues of exactly those it was delivered to.
QueueInv ==
    \A c \in Clients :
        /\ taken[c] <= Len(put[c])
        /\ \A i \in 1..Len(put[c]) : put[c][i].n <= calls[put[c][i].from]
        /\ \A p \in Publishers :
              c \in delivered[p] <=> \E i \in 1..Len(put[c]) : put[c][i] = Message(p)

\* The last warning is the one the cooldown is counted from.
WarningInv ==
    /\ lastWarning = IF warnings = <<>> THEN -1 ELSE warnings[Len(warnings)]
    /\ lastWarning <= now

\* A loss lies in the past, and is covered unless its call is about to warn.
LossInv ==
    \A p \in Publishers :
        /\ lost[p] <= now
        /\ lost[p] # -1 /\ publisher[p] # "warn" => Covered(lost[p])

RegisterInv ==
    TableInv /\ CallInv /\ QueueInv /\ QueuesOrdered /\ WarningInv /\ WarningsSpaced /\ LossInv

-----------------------------------------------------------------------------
(* Types.                                                                  *)

\* A publisher's message is one.
LEMMA MessageType ==
    ASSUME TypeOK, NEW p \in Publishers
    PROVE  Message(p) \in [from : Publishers, n : Nat]
BY DEF TypeOK, Message

\* The name a registrar is about to register is one.
LEMMA NextNameType ==
    ASSUME TypeOK, NEW c \in Clients, enrolled[c] < Len(Requires[c])
    PROVE  NextName(c) \in Topics
<1>1. enrolled[c] \in Nat /\ Requires[c] \in Seq(Topics)
  BY ConstantsAssumption DEF TypeOK
<1>2. enrolled[c] + 1 \in 1..Len(Requires[c]) BY <1>1
<1> QED BY <1>1, <1>2 DEF NextName

\* Every step of a registrar keeps every variable in its type.
LEMMA RegistrarType ==
    ASSUME TypeOK, TableInv, NEW c \in Clients, Registrar(c) PROVE TypeOK'
<1> USE DEF TypeOK, RegistrarAt, RegistrarStates, tableVars, warnVars, queueVars, callVars,
        resultVars, publishVars
<1>1. CASE AddName(c)
  <2>1. NextName(c) \in Topics BY <1>1, NextNameType DEF AddName
  <2> QED BY <1>1, <2>1 DEF AddName
<1>2. CASE AddQueue(c)
  <2>1. enrolled[c] < Len(Requires[c]) BY <1>2 DEF AddQueue, TableInv
  <2>2. PICK t \in Topics : t = NextName(c) BY <2>1, NextNameType
  <2>3. register' = [register EXCEPT ![t] = @ \cup {c}] BY <1>2, <2>2 DEF AddQueue
  <2>4. register' \in [Topics -> SUBSET Clients] BY <2>3
  <2>5. enrolled' \in [Clients -> Nat] BY <1>2 DEF AddQueue
  <2>6. registrar' \in [Clients -> RegistrarStates] BY <1>2 DEF AddQueue
  <2> QED BY <1>2, <2>4, <2>5, <2>6 DEF AddQueue
<1>3. CASE AddQueueTwice(c) BY <1>3 DEF AddQueueTwice
<1>4. CASE AllAdded(c) BY <1>4 DEF AllAdded
<1>5. CASE SnapshotNames(c)
  <2>1. registrar' \in [Clients -> RegistrarStates] BY <1>5 DEF SnapshotNames
  <2>2. names' \in [Clients -> SUBSET Topics] BY <1>5 DEF SnapshotNames
  <2> QED BY <1>5, <2>1, <2>2 DEF SnapshotNames
<1>6. CASE RemoveFromName(c)
  <2>1. register' \in [Topics -> SUBSET Clients] BY <1>6 DEF RemoveFromName
  <2>2. names' \in [Clients -> SUBSET Topics] BY <1>6 DEF RemoveFromName
  <2> QED BY <1>6, <2>1, <2>2 DEF RemoveFromName
<1>7. CASE Removed(c) BY <1>7 DEF Removed
<1> QED BY <1>1, <1>2, <1>3, <1>4, <1>5, <1>6, <1>7 DEF Registrar

\* Every step of a publisher keeps every variable in its type.
LEMMA PublisherType ==
    ASSUME TypeOK, NEW p \in Publishers, Call(p) \/ Publish(p) PROVE TypeOK'
<1> USE DEF TypeOK, PublisherAt, PublisherStates, tableVars, warnVars, queueVars, streamVars,
        callVars, resultVars
<1>1. CASE Call(p)
  <2>1. PICK k \in Calls[p] : call' = [call EXCEPT ![p] = k] BY <1>1 DEF Call
  <2>2. k \in [sender : Clients \cup {NoClient}, topic : Topics, target : Clients \cup {NoClient}]
    BY ConstantsAssumption
  <2>3. /\ call' \in [Publishers -> [sender : Clients \cup {NoClient}, topic : Topics,
                                     target : Clients \cup {NoClient}]]
        /\ \A q \in Publishers : call'[q] \in Calls[q]
    BY <2>1, <2>2
  <2>4. /\ goneBefore' \in [Publishers -> SUBSET Clients]
        /\ delivered' \in [Publishers -> SUBSET Clients]
        /\ dropped' \in [Publishers -> SUBSET Clients]
        /\ subscribers' \in [Publishers -> SUBSET Clients]
    BY <1>1 DEF Call
  <2>5. calls' \in [Publishers -> Nat] /\ publisher' \in [Publishers -> PublisherStates]
    BY <1>1 DEF Call
  <2> QED BY <1>1, <2>3, <2>4, <2>5 DEF Call
<1>2. CASE FindLock(p) BY <1>2 DEF FindLock
<1>3. CASE AllRemoved(p) BY <1>3 DEF AllRemoved
<1>4. CASE CopySubscribers(p)
  <2>1. PICK found \in SUBSET Clients : found = register[call[p].topic] OBVIOUS
  <2>2. call[p].target \in Clients \cup {NoClient} OBVIOUS
  <2>3. /\ subscribers' \in [Publishers -> SUBSET Clients]
        /\ todo' \in [Publishers -> SUBSET Clients]
    BY <1>4, <2>1 DEF CopySubscribers
  <2>4. dropped' \in [Publishers -> SUBSET Clients]
    BY <1>4, <2>1, <2>2 DEF CopySubscribers
  <2>5. publisher' \in [Publishers -> PublisherStates] BY <1>4 DEF CopySubscribers
  <2> QED BY <1>4, <2>3, <2>4, <2>5 DEF CopySubscribers
<1>5. CASE Deliver(p)
  <2>1. PICK c \in todo[p] :
          /\ current' = [current EXCEPT ![p] = c]
          /\ put' = [put EXCEPT ![c] = Append(@, Message(p))]
          /\ delivered' = [delivered EXCEPT ![p] = @ \cup {c}]
          /\ todo' = [todo EXCEPT ![p] = @ \ {c}]
    BY <1>5 DEF Deliver
  <2>2. c \in Clients OBVIOUS
  <2>3. Append(put[c], Message(p)) \in Seq([from : Publishers, n : Nat])
    <3>1. PICK m \in [from : Publishers, n : Nat], q \in Seq([from : Publishers, n : Nat]) :
            m = Message(p) /\ q = put[c]
      BY <2>2, MessageType
    <3>2. Append(q, m) \in Seq([from : Publishers, n : Nat]) BY AppendProperties
    <3> QED BY <3>1, <3>2
  <2>4. put' \in [Clients -> Seq([from : Publishers, n : Nat])] BY <2>1, <2>3
  <2>5. /\ current' \in [Publishers -> Clients \cup {NoClient}]
        /\ delivered' \in [Publishers -> SUBSET Clients]
        /\ todo' \in [Publishers -> SUBSET Clients]
    BY <2>1, <2>2
  <2>6. publisher' \in [Publishers -> PublisherStates] BY <1>5 DEF Deliver
  <2> QED BY <1>5, <2>4, <2>5, <2>6 DEF Deliver
<1>6. CASE Drop(p)
  <2>1. /\ dropped' \in [Publishers -> SUBSET Clients]
        /\ todo' \in [Publishers -> SUBSET Clients]
        /\ lost' \in [Publishers -> Nat \cup {-1}]
    BY <1>6 DEF Drop, Lose
  <2> QED BY <1>6, <2>1 DEF Drop, Lose
<1>7. CASE Growing(p)
  <2>1. publisher' \in [Publishers -> PublisherStates] BY <1>7 DEF Growing
  <2>2. current' \in [Publishers -> Clients \cup {NoClient}] BY <1>7 DEF Growing
  <2> QED BY <1>7, <2>1, <2>2 DEF Growing
<1>8. CASE Warn(p)
  <2>0. now \in Nat /\ Append(warnings, now) \in Seq(Nat) OBVIOUS
  <2>1. lastWarning' \in Nat \cup {-1} BY <1>8 DEF Warn
  <2>2. warnings' \in Seq(Nat) BY <1>8, <2>0 DEF Warn
  <2> QED BY <1>8, <2>1, <2>2 DEF Warn
<1>9. CASE Return(p) BY <1>9 DEF Return
<1> QED BY <1>1, <1>2, <1>3, <1>4, <1>5, <1>6, <1>7, <1>8, <1>9 DEF Publish

\* Every step keeps every variable in its type.
LEMMA TypeStep == TypeOK /\ TableInv /\ [Next]_vars => TypeOK'
<1> SUFFICES ASSUME TypeOK, TableInv, [Next]_vars PROVE TypeOK'
    OBVIOUS
<1>1. ASSUME NEW c \in Clients, Registrar(c) PROVE TypeOK' BY <1>1, RegistrarType
<1>2. ASSUME NEW p \in Publishers, Call(p) \/ Publish(p) PROVE TypeOK' BY <1>2, PublisherType
<1> USE DEF TypeOK, tableVars, warnVars, queueVars, streamVars, callVars, resultVars, publishVars
<1>3. ASSUME NEW c \in Clients, Take(c) PROVE TypeOK'
  <2>1. taken[c] + 1 \in Nat OBVIOUS
  <2>2. taken' \in [Clients -> Nat] BY <1>3, <2>1 DEF Take
  <2>3. UNCHANGED <<tableVars, warnVars, now, put, streamVars, publishVars>> BY <1>3 DEF Take
  <2> QED BY <2>2, <2>3
<1>4. CASE Tick
  <2>1. now + 1 \in Nat OBVIOUS
  <2>2. now' \in Nat BY <1>4, <2>1 DEF Tick
  <2>3. UNCHANGED <<tableVars, warnVars, queueVars, streamVars, publishVars>> BY <1>4 DEF Tick
  <2> QED BY <2>2, <2>3
<1>5. CASE UNCHANGED vars BY <1>5 DEF vars
<1> QED BY <1>1, <1>2, <1>3, <1>4, <1>5 DEF Next, Finished

-----------------------------------------------------------------------------
(* The table.                                                              *)

\* A registration enters its client under a known name; a removal leaves it under none.
LEMMA TableStep == TypeOK /\ TableInv /\ [Next]_vars => TableInv'
<1> SUFFICES ASSUME TypeOK, TableInv, [Next]_vars PROVE TableInv'
    OBVIOUS
<1> USE DEF TypeOK, TableInv, RegistrarAt, tableVars, warnVars, queueVars, streamVars, callVars,
        resultVars, publishVars
<1>1. ASSUME NEW c \in Clients, AddName(c) PROVE TableInv' BY <1>1 DEF AddName, NextName
<1>2. ASSUME NEW c \in Clients, AddQueue(c) PROVE TableInv'
  <2>1. enrolled[c] < Len(Requires[c]) /\ NextName(c) \in known BY <1>2 DEF AddQueue
  <2>2. PICK k \in Topics : k = NextName(c) BY <2>1, NextNameType
  <2>3. /\ register' = [register EXCEPT ![k] = @ \cup {c}]
        /\ enrolled' = [enrolled EXCEPT ![c] = @ + 1]
        /\ registrar[c] = "topic" /\ registrar' = [registrar EXCEPT ![c] = "meta"]
        /\ UNCHANGED <<known, names>>
    BY <1>2, <2>2 DEF AddQueue
  <2>4. Len(Requires[c]) \in Nat BY ConstantsAssumption
  <2>5. ASSUME NEW d \in Clients
        PROVE  /\ enrolled'[d] <= Len(Requires[d])
               /\ registrar'[d] = "topic" => enrolled'[d] < Len(Requires[d]) /\ NextName(d)' \in known'
    BY <2>1, <2>3, <2>4 DEF NextName
  <2>6. ASSUME NEW d \in Clients, NEW t \in Topics, d \in register'[t]
        PROVE  /\ t \in known' /\ registrar'[d] # "gone"
               /\ registrar'[d] = "removing" => t \in names'[d]
    <3>1. CASE d = c BY <2>1, <2>2, <2>3, <2>6, <3>1
    <3>2. CASE d # c BY <2>3, <2>6, <3>2
    <3> QED BY <3>1, <3>2
  <2> QED BY <2>5, <2>6
<1>3. ASSUME NEW c \in Clients, AddQueueTwice(c) \/ AllAdded(c) PROVE TableInv'
  BY <1>3 DEF AddQueueTwice, AllAdded, NextName
<1>4. ASSUME NEW c \in Clients, SnapshotNames(c) PROVE TableInv'
  BY <1>4 DEF SnapshotNames, NextName
<1>5. ASSUME NEW c \in Clients, RemoveFromName(c) PROVE TableInv'
  <2>1. PICK k \in names[c] : /\ register' = [register EXCEPT ![k] = @ \ {c}]
                              /\ names' = [names EXCEPT ![c] = @ \ {k}]
    BY <1>5 DEF RemoveFromName
  <2>2. UNCHANGED <<known, registrar, enrolled>> BY <1>5 DEF RemoveFromName
  <2> QED BY <2>1, <2>2 DEF NextName
<1>6. ASSUME NEW c \in Clients, Removed(c) PROVE TableInv' BY <1>6 DEF Removed, NextName
<1>7. ASSUME UNCHANGED <<tableVars, streamVars>> PROVE TableInv' BY <1>7 DEF NextName
<1>8. ASSUME NEW p \in Publishers, Call(p) \/ Publish(p) PROVE TableInv'
  BY <1>7, <1>8 DEF Publish, Call, FindLock, AllRemoved, CopySubscribers, Deliver, Drop, Lose,
                    Growing, Warn, Return
<1>9. ASSUME NEW c \in Clients, Take(c) PROVE TableInv' BY <1>7, <1>9 DEF Take
<1>10. CASE Tick BY <1>7, <1>10 DEF Tick
<1>11. CASE UNCHANGED vars BY <1>7, <1>11 DEF vars
<1> QED BY <1>1, <1>2, <1>3, <1>4, <1>5, <1>6, <1>8, <1>9, <1>10, <1>11
    DEF Next, Finished, Registrar

-----------------------------------------------------------------------------
(* The calls.                                                              *)

\* A step of one publisher concerns its own call only.
LEMMA OwnCall ==
    ASSUME CallInv, NEW p \in Publishers, UNCHANGED registrar,
           \A q \in Publishers \ {p} :
               /\ publisher'[q] = publisher[q] /\ call'[q] = call[q]
               /\ subscribers'[q] = subscribers[q] /\ todo'[q] = todo[q]
               /\ delivered'[q] = delivered[q] /\ dropped'[q] = dropped[q]
               /\ goneBefore'[q] = goneBefore[q],
           publisher'[p] \in {"meta", "topic"} => subscribers'[p] = {},
           publisher'[p] = "idle" => todo'[p] = {},
           delivered'[p] \cup dropped'[p] \cup todo'[p] = Addressed(p)',
           delivered'[p] \cup todo'[p] \subseteq subscribers'[p],
           delivered'[p] \cap dropped'[p] = {},
           todo'[p] \cap (delivered'[p] \cup dropped'[p]) = {},
           subscribers'[p] \cap goneBefore'[p] = {},
           \A c \in goneBefore'[p] : registrar[c] = "gone"
    PROVE  CallInv'
<1>1. ASSUME NEW q \in Publishers \ {p}
      PROVE  /\ publisher'[q] \in {"meta", "topic"} => subscribers'[q] = {}
             /\ publisher'[q] = "idle" => todo'[q] = {}
             /\ delivered'[q] \cup dropped'[q] \cup todo'[q] = Addressed(q)'
             /\ delivered'[q] \cup todo'[q] \subseteq subscribers'[q]
             /\ delivered'[q] \cap dropped'[q] = {}
             /\ todo'[q] \cap (delivered'[q] \cup dropped'[q]) = {}
             /\ subscribers'[q] \cap goneBefore'[q] = {}
             /\ \A c \in goneBefore'[q] : registrar'[c] = "gone"
  <2>1. Addressed(q)' = Addressed(q) BY DEF Addressed
  <2> QED BY <2>1 DEF CallInv
<1> QED BY <1>1 DEF CallInv

\* Every step of a publisher keeps the account of its call.
LEMMA PublisherCall ==
    ASSUME TypeOK, TableInv, CallInv, NEW p \in Publishers, Call(p) \/ Publish(p)
    PROVE  CallInv'
<1> USE DEF TypeOK, PublisherAt, tableVars, warnVars, queueVars, streamVars, callVars, resultVars
<1>0. /\ publisher[p] \in {"meta", "topic"} => subscribers[p] = {}
      /\ publisher[p] = "idle" => todo[p] = {}
      /\ delivered[p] \cup dropped[p] \cup todo[p] = Addressed(p)
      /\ delivered[p] \cup todo[p] \subseteq subscribers[p]
      /\ delivered[p] \cap dropped[p] = {}
      /\ todo[p] \cap (delivered[p] \cup dropped[p]) = {}
      /\ subscribers[p] \cap goneBefore[p] = {}
      /\ \A c \in goneBefore[p] : registrar[c] = "gone"
  BY DEF CallInv
<1>1. CASE Call(p)
  <2>1. /\ publisher'[p] = "meta" /\ todo'[p] = {}
        /\ subscribers'[p] = {} /\ delivered'[p] = {} /\ dropped'[p] = {}
        /\ goneBefore'[p] = {c \in Clients : registrar[c] = "gone"}
    BY <1>0, <1>1 DEF Call
  <2>2. Addressed(p)' = {} BY <2>1 DEF Addressed
  <2>3. \A q \in Publishers \ {p} :
          /\ publisher'[q] = publisher[q] /\ call'[q] = call[q]
          /\ subscribers'[q] = subscribers[q] /\ todo'[q] = todo[q]
          /\ delivered'[q] = delivered[q] /\ dropped'[q] = dropped[q]
          /\ goneBefore'[q] = goneBefore[q]
    BY <1>1 DEF Call
  <2>4. UNCHANGED registrar BY <1>1 DEF Call
  <2> QED BY <2>1, <2>2, <2>3, <2>4, OwnCall
<1>2. ASSUME UNCHANGED <<registrar, call, subscribers, todo, delivered, dropped, goneBefore>>,
             NEW to, publisher' = [publisher EXCEPT ![p] = to],
             to \in {"meta", "topic"} => subscribers[p] = {},
             to = "idle" => todo[p] = {}
      PROVE  CallInv'
  <2>1. Addressed(p)' = Addressed(p) BY <1>2 DEF Addressed
  <2>2. publisher'[p] = to BY <1>2
  <2>3. \A q \in Publishers \ {p} : publisher'[q] = publisher[q] BY <1>2
  <2> QED BY <1>0, <1>2, <2>1, <2>2, <2>3, OwnCall
<1>3. CASE FindLock(p)
  <2>1. subscribers[p] = {} /\ todo[p] = {} BY <1>0, <1>3 DEF FindLock
  <2> QED BY <1>2, <1>3, <2>1 DEF FindLock
<1>4. CASE AllRemoved(p)
  <2>1. subscribers[p] = {} /\ todo[p] = {} BY <1>0, <1>4 DEF AllRemoved
  <2> QED BY <1>2, <1>4, <2>1 DEF AllRemoved
<1>5. CASE CopySubscribers(p)
  <2>1. PICK found \in SUBSET Clients : found = register[call[p].topic] OBVIOUS
  <2>2. /\ found # {} /\ publisher'[p] = "put"
        /\ subscribers'[p] = found
        /\ todo'[p] = IF call[p].target = NoClient THEN found \ {call[p].sender}
                                                   ELSE found \cap {call[p].target}
        /\ dropped'[p] = {call[p].target} \ (found \cup {NoClient})
        /\ UNCHANGED <<registrar, call, goneBefore, delivered>>
    BY <1>5, <2>1 DEF CopySubscribers
  <2>3. delivered[p] = {} BY <1>0, <1>5 DEF CopySubscribers
  <2>4. delivered'[p] \cup dropped'[p] \cup todo'[p] = Addressed(p)'
    <3>1. Addressed(p)' = IF call[p].target = NoClient THEN found \ {call[p].sender}
                                                       ELSE {call[p].target}
      BY <2>2 DEF Addressed
    <3>2. NoClient \notin found BY ConstantsAssumption
    <3>3. CASE call[p].target = NoClient
      <4>1. dropped'[p] = {} /\ todo'[p] = found \ {call[p].sender} BY <2>2, <3>3
      <4> QED BY <2>2, <2>3, <3>1, <3>3, <4>1
    <3>4. CASE call[p].target # NoClient
      <4>1. todo'[p] = found \cap {call[p].target} /\ Addressed(p)' = {call[p].target}
        BY <2>2, <3>1, <3>4
      <4>2. dropped'[p] = {call[p].target} \ found BY <2>2, <3>4
      <4> QED BY <2>2, <2>3, <4>1, <4>2
    <3> QED BY <3>3, <3>4
  <2>5. todo'[p] \subseteq found /\ dropped'[p] \cap found = {} BY <2>2
  <2>6. found \cap goneBefore[p] = {}
    <3>1. call[p].topic \in Topics OBVIOUS
    <3> QED BY <1>0, <2>1, <3>1 DEF TableInv
  <2>7. \A q \in Publishers \ {p} :
          /\ publisher'[q] = publisher[q] /\ call'[q] = call[q]
          /\ subscribers'[q] = subscribers[q] /\ todo'[q] = todo[q]
          /\ delivered'[q] = delivered[q] /\ dropped'[q] = dropped[q]
          /\ goneBefore'[q] = goneBefore[q]
    BY <1>5 DEF CopySubscribers
  <2>8. /\ delivered'[p] \cup todo'[p] \subseteq subscribers'[p]
        /\ delivered'[p] \cap dropped'[p] = {}
        /\ todo'[p] \cap (delivered'[p] \cup dropped'[p]) = {}
        /\ subscribers'[p] \cap goneBefore'[p] = {}
        /\ \A c \in goneBefore'[p] : registrar[c] = "gone"
    BY <1>0, <2>2, <2>3, <2>5, <2>6
  <2>9. publisher'[p] \notin {"meta", "topic", "idle"} BY <2>2
  <2> QED BY <2>2, <2>4, <2>7, <2>8, <2>9, OwnCall
<1>6. CASE Deliver(p) \/ Drop(p)
  <2>1. PICK c \in todo[p] :
          /\ todo' = [todo EXCEPT ![p] = @ \ {c}]
          /\ \/ /\ delivered' = [delivered EXCEPT ![p] = @ \cup {c}] /\ UNCHANGED dropped
             \/ /\ dropped' = [dropped EXCEPT ![p] = @ \cup {c}] /\ UNCHANGED delivered
    BY <1>6 DEF Deliver, Drop, Lose
  <2>2. /\ UNCHANGED <<registrar, call, subscribers, goneBefore>>
        /\ publisher[p] = "put"
        /\ \E to \in {"growing", "warn"} : publisher' = [publisher EXCEPT ![p] = to]
    BY <1>6 DEF Deliver, Drop, Lose
  <2>3. Addressed(p)' = Addressed(p) BY <2>2 DEF Addressed
  <2>4. /\ todo'[p] = todo[p] \ {c}
        /\ \/ delivered'[p] = delivered[p] \cup {c} /\ dropped'[p] = dropped[p]
           \/ dropped'[p] = dropped[p] \cup {c} /\ delivered'[p] = delivered[p]
    BY <2>1
  <2>5. \A q \in Publishers \ {p} :
          /\ publisher'[q] = publisher[q] /\ todo'[q] = todo[q]
          /\ delivered'[q] = delivered[q] /\ dropped'[q] = dropped[q]
    BY <2>1, <2>2
  <2>6. /\ delivered'[p] \cup dropped'[p] \cup todo'[p] = Addressed(p)'
        /\ delivered'[p] \cup todo'[p] \subseteq subscribers'[p]
        /\ delivered'[p] \cap dropped'[p] = {}
        /\ todo'[p] \cap (delivered'[p] \cup dropped'[p]) = {}
    BY <1>0, <2>2, <2>3, <2>4
  <2>7. publisher'[p] \notin {"meta", "topic", "idle"} BY <2>2
  <2> QED BY <1>0, <2>2, <2>5, <2>6, <2>7, OwnCall
<1>7. CASE Growing(p) BY <1>2, <1>7 DEF Growing
<1>8. CASE Warn(p) BY <1>2, <1>8 DEF Warn
<1>9. CASE Return(p) BY <1>2, <1>9 DEF Return
<1> QED BY <1>1, <1>3, <1>4, <1>5, <1>6, <1>7, <1>8, <1>9 DEF Publish

\* Every step keeps the account of every call.
LEMMA CallStep == TypeOK /\ TableInv /\ CallInv /\ [Next]_vars => CallInv'
<1> SUFFICES ASSUME TypeOK, TableInv, CallInv, [Next]_vars PROVE CallInv'
    OBVIOUS
<1> USE DEF tableVars, warnVars, queueVars, streamVars, callVars, resultVars, publishVars
<1>1. ASSUME UNCHANGED publishVars, \A c \in Clients : registrar[c] = "gone" => registrar'[c] = "gone"
      PROVE  CallInv'
  <2>1. \A p \in Publishers : Addressed(p)' = Addressed(p) BY <1>1 DEF Addressed
  <2>2. \A p \in Publishers : goneBefore[p] \subseteq Clients BY DEF TypeOK
  <2> QED BY <1>1, <2>1, <2>2 DEF CallInv
<1>2. ASSUME NEW c \in Clients, Registrar(c) PROVE CallInv'
  <2>1. \A d \in Clients : registrar[d] = "gone" => registrar'[d] = "gone"
    BY <1>2 DEF TypeOK, RegistrarAt, Registrar, AddName, AddQueue, AddQueueTwice, AllAdded,
                SnapshotNames, RemoveFromName, Removed
  <2>2. UNCHANGED publishVars
    BY <1>2 DEF Registrar, AddName, AddQueue, AddQueueTwice, AllAdded, SnapshotNames,
                RemoveFromName, Removed
  <2> QED BY <1>1, <2>1, <2>2
<1>3. ASSUME NEW p \in Publishers, Call(p) \/ Publish(p) PROVE CallInv' BY <1>3, PublisherCall
<1>4. ASSUME NEW c \in Clients, Take(c) PROVE CallInv' BY <1>1, <1>4 DEF Take
<1>5. CASE Tick BY <1>1, <1>5 DEF Tick
<1>6. CASE UNCHANGED vars BY <1>1, <1>6 DEF vars
<1> QED BY <1>2, <1>3, <1>4, <1>5, <1>6 DEF Next, Finished

-----------------------------------------------------------------------------
(* The queues.                                                             *)

\* A delivery puts the caller's message at the end of one queue that did not hold it.
LEMMA DeliverQueue ==
    ASSUME TypeOK, CallInv, QueueInv, QueuesOrdered, NEW p \in Publishers, Deliver(p)
    PROVE  QueueInv' /\ QueuesOrdered'
<1>1. PICK c \in todo[p] :
        /\ Room(c)
        /\ put' = [put EXCEPT ![c] = Append(@, Message(p))]
        /\ delivered' = [delivered EXCEPT ![p] = @ \cup {c}]
  BY DEF Deliver
<1>2. UNCHANGED <<taken, calls>> BY DEF Deliver, callVars
<1>3. c \in Clients /\ c \notin delivered[p] BY DEF TypeOK, CallInv
<1>4. PICK q \in Seq([from : Publishers, n : Nat]) : q = put[c] BY <1>3 DEF TypeOK
<1>5. PICK m \in [from : Publishers, n : Nat] : m = Message(p) BY MessageType
<1>6. /\ put'[c] = Append(q, m) /\ Len(put'[c]) = Len(q) + 1
      /\ \A i \in 1..Len(q) : put'[c][i] = q[i]
      /\ put'[c][Len(q) + 1] = m
  <2>1. put'[c] = Append(q, m) BY <1>1, <1>3, <1>4, <1>5 DEF TypeOK
  <2> QED BY <2>1, AppendProperties
<1>7. PICK l \in Nat : l = Len(q) BY LenProperties
<1>8. \A i \in 1..l : q[i] \in [from : Publishers, n : Nat] BY <1>7, ElementOfSeq
<1>9. \A r \in Publishers : Message(r)' = Message(r) /\ Message(r).n = calls[r] /\ Message(r).from = r
  BY <1>2 DEF Message
<1>10. m.from = p /\ m.n = calls[p] BY <1>5, <1>9
<1>11. \A d \in Clients \ {c} : put'[d] = put[d] BY <1>1
<1>12. \A i \in 1..l : q[i] # m
  BY <1>3, <1>4, <1>5, <1>7 DEF QueueInv
<1>13. \A i \in 1..l : q[i].n <= calls[q[i].from] BY <1>3, <1>4, <1>7 DEF QueueInv
<1>14. calls \in [Publishers -> Nat] /\ taken \in [Clients -> Nat] BY DEF TypeOK
<1>15. QueueInv'
  <2>1. ASSUME NEW d \in Clients PROVE taken'[d] <= Len(put'[d])
    <3>1. taken[c] <= l /\ taken[c] \in Nat BY <1>3, <1>4, <1>7, <1>14 DEF QueueInv
    <3>2. CASE d = c BY <1>2, <1>6, <1>7, <3>1, <3>2
    <3>3. CASE d # c BY <1>2, <1>11, <3>3 DEF QueueInv
    <3> QED BY <3>2, <3>3
  <2>2. ASSUME NEW d \in Clients, NEW i \in 1..Len(put'[d])
        PROVE  put'[d][i].n <= calls'[put'[d][i].from]
    <3>1. CASE d = c
      <4>1. i \in 1..l \/ i = l + 1 BY <1>6, <1>7, <2>2, <3>1
      <4>2. CASE i \in 1..l BY <1>2, <1>6, <1>7, <1>13, <3>1, <4>2
      <4>3. CASE i = l + 1
        <5>1. put'[d][i] = m BY <1>6, <1>7, <3>1, <4>3
        <5> QED BY <1>2, <1>10, <1>14, <5>1
      <4> QED BY <4>1, <4>2, <4>3
    <3>2. CASE d # c BY <1>2, <1>11, <3>2, <2>2 DEF QueueInv
    <3> QED BY <3>1, <3>2
  <2>3. ASSUME NEW d \in Clients, NEW r \in Publishers
        PROVE  d \in delivered'[r] <=> \E i \in 1..Len(put'[d]) : put'[d][i] = Message(r)'
    <3>1. d \in delivered[r] <=> \E i \in 1..Len(put[d]) : put[d][i] = Message(r)
      BY DEF QueueInv
    <3>2. CASE d # c
      <4>1. d \in delivered'[r] <=> d \in delivered[r] BY <1>1, <3>2 DEF TypeOK
      <4> QED BY <1>9, <1>11, <3>1, <3>2, <4>1
    <3>3. CASE d = c /\ r = p
      <4>1. d \in delivered'[r] BY <1>1, <3>3 DEF TypeOK
      <4>2. l + 1 \in 1..Len(put'[d]) /\ put'[d][l + 1] = m BY <1>6, <1>7, <3>3
      <4> QED BY <1>5, <1>9, <3>3, <4>1, <4>2
    <3>4. CASE d = c /\ r # p
      <4>1. d \in delivered'[r] <=> d \in delivered[r] BY <1>1, <3>4 DEF TypeOK
      <4>2. m # Message(r) BY <1>9, <1>10, <3>4
      <4>3. (\E i \in 1..(l + 1) : put'[d][i] = Message(r)) <=> \E i \in 1..l : q[i] = Message(r)
        <5>1. \A i \in 1..(l + 1) : i \in 1..l \/ i = l + 1 BY <1>7
        <5>2. \A i \in 1..l : i \in 1..(l + 1) BY <1>7
        <5> QED BY <1>6, <1>7, <3>4, <4>2, <5>1, <5>2
      <4>4. Len(put'[d]) = l + 1 /\ put[d] = q /\ Len(put[d]) = l BY <1>4, <1>6, <1>7, <3>4
      <4>5. Message(r)' = Message(r) BY <1>9
      <4> QED BY <3>1, <4>1, <4>3, <4>4, <4>5
    <3> QED BY <3>2, <3>3, <3>4
  <2> QED BY <2>1, <2>2, <2>3 DEF QueueInv
<1>16. QueuesOrdered'
  <2>1. ASSUME NEW d \in Clients, MaxQueue > 0 PROVE Size(d)' <= MaxQueue
    <3>1. CASE d = c
      <4>1. Len(put[c]) - taken[c] < MaxQueue BY <1>1, <2>1, ConstantsAssumption DEF Room, Size
      <4>2. taken[c] \in Nat BY <1>3, <1>14
      <4> QED BY <1>2, <1>4, <1>6, <1>7, <3>1, <4>1, <4>2, ConstantsAssumption DEF Size
    <3>2. CASE d # c BY <1>2, <1>11, <2>1, <3>2 DEF QueuesOrdered, Size
    <3> QED BY <3>1, <3>2
  <2>2. ASSUME NEW d \in Clients, NEW i \in 1..Len(put'[d]), NEW j \in 1..Len(put'[d]),
               i < j, put'[d][i].from = put'[d][j].from
        PROVE  put'[d][i].n < put'[d][j].n
    <3>1. CASE d # c BY <1>11, <2>2, <3>1 DEF QueuesOrdered
    <3>2. CASE d = c
      <4>0. Len(put'[d]) = l + 1 BY <1>6, <1>7, <3>2
      <4>1. i \in 1..l /\ put'[d][i] = q[i]
        <5>1. i \in 1..l BY <2>2, <4>0
        <5> QED BY <1>6, <1>7, <3>2, <5>1
      <4>2. j \in 1..l \/ j = l + 1 BY <2>2, <4>0
      <4>3. CASE j \in 1..l
        <5>1. put'[d][j] = q[j] BY <1>6, <1>7, <3>2, <4>3
        <5> QED BY <1>3, <1>4, <1>7, <2>2, <4>1, <4>3, <5>1 DEF QueuesOrdered
      <4>4. CASE j = l + 1
        <5>1. put'[d][j] = m BY <1>6, <1>7, <3>2, <4>4
        <5>2. q[i].from = p BY <1>10, <2>2, <4>1, <5>1
        <5>3. q[i].n <= calls[p] BY <1>13, <4>1, <5>2
        <5>4. PICK e \in [from : Publishers, n : Nat] : e = q[i] BY <1>8, <4>1
        <5>5. e # m BY <1>12, <4>1, <5>4
        <5>6. e.n # m.n BY <1>10, <5>2, <5>4, <5>5
        <5> QED BY <1>10, <1>14, <4>1, <5>1, <5>3, <5>4, <5>6
      <4> QED BY <4>2, <4>3, <4>4
    <3> QED BY <3>1, <3>2
  <2> QED BY <2>1, <2>2 DEF QueuesOrdered
<1> QED BY <1>15, <1>16

\* Every step keeps the account of the queues: a new call's message is in none of them.
LEMMA QueueStep ==
    TypeOK /\ CallInv /\ QueueInv /\ QueuesOrdered /\ [Next]_vars => QueueInv' /\ QueuesOrdered'
<1> SUFFICES ASSUME TypeOK, CallInv, QueueInv, QueuesOrdered, [Next]_vars
             PROVE  QueueInv' /\ QueuesOrdered'
    OBVIOUS
<1> USE DEF tableVars, warnVars, queueVars, streamVars, callVars, resultVars, publishVars
<1>1. ASSUME UNCHANGED <<put, taken, calls, delivered>> PROVE QueueInv' /\ QueuesOrdered'
  BY <1>1 DEF QueueInv, QueuesOrdered, Message, Size
<1>2. ASSUME NEW c \in Clients, Registrar(c) PROVE QueueInv' /\ QueuesOrdered'
  BY <1>1, <1>2 DEF Registrar, AddName, AddQueue, AddQueueTwice, AllAdded, SnapshotNames,
                    RemoveFromName, Removed
<1>3. ASSUME NEW c \in Clients, Take(c) PROVE QueueInv' /\ QueuesOrdered'
  <2>1. PICK taken1 \in [Clients -> Nat] : taken1 = taken BY DEF TypeOK
  <2>2. taken' = [taken1 EXCEPT ![c] = @ + 1] /\ UNCHANGED <<put, calls, delivered>>
    BY <1>3, <2>1 DEF Take
  <2>3. \A d \in Clients : Len(put[d]) \in Nat BY DEF TypeOK
  <2>4. taken1[c] + 1 <= Len(put[c]) BY <1>3, <2>1, <2>3 DEF Take, Size
  <2>5. \A d \in Clients : taken1[d] <= Len(put[d]) BY <2>1 DEF QueueInv
  <2>6. \A d \in Clients : taken'[d] <= Len(put[d]) /\ taken'[d] >= taken1[d] /\ taken'[d] \in Nat
    BY <2>2, <2>4, <2>5
  <2>7. \A d \in Clients : MaxQueue > 0 => Len(put[d]) - taken'[d] <= MaxQueue
    <3>1. \A d \in Clients : MaxQueue > 0 => Len(put[d]) - taken1[d] <= MaxQueue
      BY <2>1 DEF QueuesOrdered, Size
    <3> QED BY <2>3, <2>6, <3>1, ConstantsAssumption
  <2>8. QueueInv' BY <2>2, <2>6 DEF QueueInv, Message
  <2>9. QueuesOrdered' BY <2>2, <2>7 DEF QueuesOrdered, Size
  <2> QED BY <2>8, <2>9
<1>4. ASSUME NEW p \in Publishers, Call(p) PROVE QueueInv' /\ QueuesOrdered'
  <2>1. PICK calls1 \in [Publishers -> Nat] : calls1 = calls BY DEF TypeOK
  <2>2. /\ calls' = [calls1 EXCEPT ![p] = @ + 1] /\ delivered' = [delivered EXCEPT ![p] = {}]
        /\ UNCHANGED <<put, taken>>
    BY <1>4, <2>1 DEF Call
  <2>3. QueuesOrdered' BY <2>2 DEF QueuesOrdered, Size
  <2>4. ASSUME NEW d \in Clients, NEW i \in 1..Len(put[d])
        PROVE  put[d][i] \in [from : Publishers, n : Nat]
    <3>1. PICK s \in Seq([from : Publishers, n : Nat]) : s = put[d] BY DEF TypeOK
    <3> QED BY <3>1, ElementOfSeq
  <2>5. ASSUME NEW d \in Clients, NEW i \in 1..Len(put[d])
        PROVE  put[d][i].n <= calls'[put[d][i].from] /\ put[d][i] # Message(p)'
    <3>1. PICK e \in [from : Publishers, n : Nat] : e = put[d][i] BY <2>4
    <3>2. e.n <= calls1[e.from] BY <2>1, <3>1 DEF QueueInv
    <3>3. e.n <= calls'[e.from] BY <2>2, <3>2
    <3>4. Message(p)'.from = p /\ Message(p)'.n = calls1[p] + 1 BY <2>2 DEF Message
    <3>5. e # Message(p)' BY <3>2, <3>4
    <3> QED BY <3>1, <3>3, <3>5
  <2>6. ASSUME NEW d \in Clients, NEW r \in Publishers
        PROVE  d \in delivered'[r] <=> \E i \in 1..Len(put[d]) : put[d][i] = Message(r)'
    <3>1. CASE r = p
      <4>1. delivered'[r] = {} BY <2>2, <3>1 DEF TypeOK
      <4> QED BY <2>5, <3>1, <4>1
    <3>2. CASE r # p
      <4>1. delivered'[r] = delivered[r] BY <2>2, <3>2 DEF TypeOK
      <4>2. Message(r)' = Message(r) BY <2>1, <2>2, <3>2 DEF Message
      <4> QED BY <4>1, <4>2 DEF QueueInv
    <3> QED BY <3>1, <3>2
  <2>7. \A d \in Clients : taken'[d] <= Len(put'[d]) BY <2>2 DEF QueueInv
  <2>8. QueueInv' BY <2>2, <2>5, <2>6, <2>7 DEF QueueInv
  <2> QED BY <2>3, <2>8
<1>5. ASSUME NEW p \in Publishers, Publish(p) PROVE QueueInv' /\ QueuesOrdered'
  <2>1. CASE Deliver(p) BY <2>1, DeliverQueue
  <2>2. CASE FindLock(p) \/ AllRemoved(p) BY <1>1, <2>2 DEF FindLock, AllRemoved
  <2>3. CASE CopySubscribers(p) BY <1>1, <2>3 DEF CopySubscribers
  <2>4. CASE Drop(p) BY <1>1, <2>4 DEF Drop, Lose
  <2>5. CASE Growing(p) BY <1>1, <2>5 DEF Growing
  <2>6. CASE Warn(p) \/ Return(p) BY <1>1, <2>6 DEF Warn, Return
  <2> QED BY <1>5, <2>1, <2>2, <2>3, <2>4, <2>5, <2>6 DEF Publish
<1>6. CASE Tick BY <1>1, <1>6 DEF Tick
<1>7. CASE UNCHANGED vars BY <1>1, <1>7 DEF vars
<1> QED BY <1>2, <1>3, <1>4, <1>5, <1>6, <1>7 DEF Next, Finished

-----------------------------------------------------------------------------
(* The warnings.                                                           *)

\* A warning is logged only when the cooldown since the last one is over.
LEMMA WarnSpaced ==
    ASSUME TypeOK, WarningInv, WarningsSpaced, NEW p \in Publishers, Warn(p)
    PROVE  WarningInv' /\ WarningsSpaced' /\ Len(warnings') > 0
           /\ now - warnings'[Len(warnings')] < Cooldown
<1>1. PICK w \in Seq(Nat) : w = warnings BY DEF TypeOK
<1>2. PICK l \in Nat : l = Len(w) BY LenProperties
<1>3. now \in Nat /\ UNCHANGED now BY DEF TypeOK, Warn
<1>4. Cooldown \in Nat /\ Cooldown > 0 BY ConstantsAssumption
<1>5. /\ lastWarning = IF w = <<>> THEN -1 ELSE w[l]
      /\ lastWarning <= now
  BY <1>1, <1>2 DEF WarningInv
<1>6. l > 0 => w # <<>> /\ w[l] \in Nat
  <2>1. l > 0 => w # <<>> BY <1>2, EmptySeq
  <2>2. l > 0 => w[l] \in Nat BY <1>2, ElementOfSeq
  <2> QED BY <2>1, <2>2
<1>7. l = 0 => w = <<>> BY <1>2, EmptySeq
<1>8. CASE lastWarning # -1 /\ now - lastWarning < Cooldown
  <2>1. UNCHANGED warnVars BY <1>8 DEF Warn
  <2>2. l > 0 /\ lastWarning = w[l] BY <1>5, <1>7, <1>8
  <2>3. WarningInv' /\ WarningsSpaced'
    BY <1>3, <2>1 DEF WarningInv, WarningsSpaced, warnVars
  <2>4. warnings' = w BY <1>1, <2>1 DEF warnVars
  <2> QED BY <1>2, <1>8, <2>2, <2>3, <2>4
<1>9. CASE ~(lastWarning # -1 /\ now - lastWarning < Cooldown)
  <2>1. lastWarning' = now /\ warnings' = Append(w, now) BY <1>1, <1>9 DEF Warn
  <2>2. /\ warnings' # <<>> /\ Len(warnings') = l + 1
        /\ \A i \in 1..l : warnings'[i] = w[i]
        /\ warnings'[l + 1] = now
    <3>1. now \in Nat BY <1>3
    <3> QED BY <1>2, <2>1, <3>1, AppendProperties
  <2>3. WarningInv' BY <1>3, <2>1, <2>2 DEF WarningInv
  <2>4. ASSUME NEW i \in 1..l PROVE warnings'[i + 1] - warnings'[i] >= Cooldown
    <3>1. CASE i = l
      <4>1. lastWarning = w[l] /\ w[l] \in Nat BY <1>5, <1>6, <2>4, <3>1
      <4>2. now - w[l] >= Cooldown BY <1>3, <1>4, <1>9, <4>1
      <4> QED BY <2>2, <2>4, <3>1, <4>2
    <3>2. CASE i # l
      <4>1. i + 1 \in 1..l /\ i \in 1..(l - 1) BY <2>4, <3>2
      <4>2. w[i + 1] - w[i] >= Cooldown BY <1>1, <1>2, <4>1 DEF WarningsSpaced
      <4> QED BY <2>2, <4>1, <4>2
    <3> QED BY <3>1, <3>2
  <2>5. WarningsSpaced'
    <3>1. Len(warnings') - 1 = l BY <2>2
    <3> QED BY <2>4, <3>1 DEF WarningsSpaced
  <2>6. now - warnings'[Len(warnings')] < Cooldown BY <1>3, <1>4, <2>2
  <2> QED BY <2>2, <2>3, <2>5, <2>6
<1> QED BY <1>8, <1>9

\* Every step keeps the warnings apart.
LEMMA WarningStep ==
    TypeOK /\ WarningInv /\ WarningsSpaced /\ [Next]_vars => WarningInv' /\ WarningsSpaced'
<1> SUFFICES ASSUME TypeOK, WarningInv, WarningsSpaced, [Next]_vars
             PROVE  WarningInv' /\ WarningsSpaced'
    OBVIOUS
<1> USE DEF tableVars, warnVars, queueVars, streamVars, callVars, resultVars, publishVars
<1>1. ASSUME UNCHANGED <<lastWarning, warnings, now>> PROVE WarningInv' /\ WarningsSpaced'
  BY <1>1 DEF WarningInv, WarningsSpaced
<1>2. ASSUME NEW c \in Clients, Registrar(c) \/ Take(c) PROVE WarningInv' /\ WarningsSpaced'
  BY <1>1, <1>2 DEF Registrar, AddName, AddQueue, AddQueueTwice, AllAdded, SnapshotNames,
                    RemoveFromName, Removed, Take
<1>3. ASSUME NEW p \in Publishers, Call(p) \/ Publish(p) PROVE WarningInv' /\ WarningsSpaced'
  <2>1. CASE Warn(p) BY <2>1, WarnSpaced
  <2>2. CASE Call(p) BY <1>1, <2>2 DEF Call
  <2>3. CASE FindLock(p) \/ AllRemoved(p) \/ CopySubscribers(p)
    BY <1>1, <2>3 DEF FindLock, AllRemoved, CopySubscribers
  <2>4. CASE Deliver(p) \/ Drop(p) BY <1>1, <2>4 DEF Deliver, Drop, Lose
  <2>5. CASE Growing(p) \/ Return(p) BY <1>1, <2>5 DEF Growing, Return
  <2> QED BY <1>3, <2>1, <2>2, <2>3, <2>4, <2>5 DEF Publish
<1>4. CASE Tick
  <2>1. now' = now + 1 /\ UNCHANGED <<lastWarning, warnings>> BY <1>4 DEF Tick
  <2>2. now \in Nat /\ lastWarning \in Int BY DEF TypeOK
  <2>3. lastWarning <= now + 1 BY <2>2 DEF WarningInv
  <2> QED BY <2>1, <2>3 DEF WarningInv, WarningsSpaced
<1>5. CASE UNCHANGED vars BY <1>1, <1>5 DEF vars
<1> QED BY <1>2, <1>3, <1>4, <1>5 DEF Next, Finished

\* What a warning covers stays covered.
LEMMA CoveredStays ==
    ASSUME TypeOK, NEW t \in Int, Covered(t),
           UNCHANGED warnings \/ (now \in Nat /\ warnings' = Append(warnings, now))
    PROVE  \E i \in 1..Len(warnings') : t - warnings'[i] < Cooldown
<1>1. PICK w \in Seq(Nat) : w = warnings BY DEF TypeOK
<1>2. PICK i \in 1..Len(w) : t - w[i] < Cooldown BY <1>1 DEF Covered
<1>3. CASE UNCHANGED warnings BY <1>1, <1>2, <1>3
<1>4. CASE now \in Nat /\ warnings' = Append(warnings, now)
  <2>1. PICK l \in Nat : l = Len(w) BY LenProperties
  <2>2. Len(Append(w, now)) = l + 1 /\ Append(w, now)[i] = w[i]
    BY <1>2, <1>4, <2>1, AppendProperties
  <2> QED BY <1>1, <1>2, <1>4, <2>1, <2>2
<1> QED BY <1>3, <1>4

\* A step that meets no full queue, logs nothing and takes no call past its warning.
LEMMA NothingLost ==
    ASSUME TypeOK, LossInv, UNCHANGED warnings, now' \in Nat, now <= now',
           \A q \in Publishers : /\ lost'[q] \in {lost[q], -1}
                                 /\ publisher[q] = "warn" => publisher'[q] = "warn"
    PROVE  LossInv'
<1> SUFFICES ASSUME NEW q \in Publishers
             PROVE  /\ lost'[q] <= now'
                    /\ lost'[q] # -1 /\ publisher'[q] # "warn" => Covered(lost[q])'
    BY DEF LossInv
<1>1. lost[q] \in Int /\ now \in Nat /\ lost[q] <= now BY DEF TypeOK, LossInv
<1>2. lost'[q] <= now' BY <1>1
<1>3. lost'[q] # -1 /\ publisher'[q] # "warn" => Covered(lost[q]) /\ lost'[q] = lost[q]
  BY DEF LossInv
<1> QED BY <1>2, <1>3 DEF Covered

\* A full queue is met now, and the warning comes next.
LEMMA DropLoss ==
    ASSUME TypeOK, LossInv, NEW p \in Publishers, Drop(p) PROVE LossInv'
<1>1. /\ publisher' = [publisher EXCEPT ![p] = "warn"]
      /\ lost' = [lost EXCEPT ![p] = now]
      /\ UNCHANGED <<warnings, now>>
  BY DEF Drop, Lose, PublisherAt, warnVars
<1> SUFFICES ASSUME NEW q \in Publishers
             PROVE  /\ lost'[q] <= now'
                    /\ lost'[q] # -1 /\ publisher'[q] # "warn" => Covered(lost[q])'
    BY DEF LossInv
<1>2. CASE q = p BY <1>1, <1>2 DEF TypeOK
<1>3. CASE q # p
  <2>1. lost'[q] = lost[q] /\ publisher'[q] = publisher[q] BY <1>1, <1>3 DEF TypeOK
  <2> QED BY <1>1, <2>1 DEF LossInv, Covered
<1> QED BY <1>2, <1>3

\* After the warning step the call's losses are covered, whether it logged or not.
LEMMA WarnCovers ==
    ASSUME TypeOK, WarningInv, WarningsSpaced, LossInv, NEW p \in Publishers, Warn(p)
    PROVE  LossInv'
<1>1. UNCHANGED <<now, lost>> BY DEF Warn, callVars
<1>2. UNCHANGED warnings \/ warnings' = Append(warnings, now) BY DEF Warn, warnVars
<1>3. Len(warnings') > 0 /\ now - warnings'[Len(warnings')] < Cooldown BY WarnSpaced
<1>4. now \in Nat /\ warnings \in Seq(Nat) BY DEF TypeOK
<1>5. warnings' \in Seq(Nat) BY <1>2, <1>4, AppendProperties
<1> SUFFICES ASSUME NEW q \in Publishers
             PROVE  /\ lost'[q] <= now'
                    /\ lost'[q] # -1 /\ publisher'[q] # "warn" => Covered(lost[q])'
    BY DEF LossInv
<1>6. lost[q] \in Int /\ lost[q] <= now BY DEF TypeOK, LossInv
<1>7. CASE q = p
  <2>1. PICK l \in Nat : l = Len(warnings') BY <1>5, LenProperties
  <2>2. l \in 1..l /\ warnings'[l] \in Nat BY <1>3, <1>5, <2>1, ElementOfSeq
  <2>3. Cooldown \in Nat BY ConstantsAssumption
  <2>4. lost[q] - warnings'[l] < Cooldown BY <1>3, <1>4, <1>6, <2>1, <2>2, <2>3
  <2> QED BY <1>1, <1>6, <2>1, <2>2, <2>4 DEF Covered
<1>8. CASE q # p
  <2>1. publisher'[q] = publisher[q] BY <1>8 DEF Warn, PublisherAt, TypeOK
  <2>2. lost[q] # -1 /\ publisher[q] # "warn" => Covered(lost[q]) BY DEF LossInv
  <2>3. lost[q] # -1 /\ publisher[q] # "warn" =>
            \E i \in 1..Len(warnings') : lost[q] - warnings'[i] < Cooldown
    BY <1>2, <1>4, <1>6, <2>2, CoveredStays
  <2> QED BY <1>1, <1>6, <2>1, <2>3 DEF Covered
<1> QED BY <1>7, <1>8

\* Every step leaves no loss behind uncovered.
LEMMA LossStep ==
    TypeOK /\ WarningInv /\ WarningsSpaced /\ LossInv /\ [Next]_vars => LossInv'
<1> SUFFICES ASSUME TypeOK, WarningInv, WarningsSpaced, LossInv, [Next]_vars PROVE LossInv'
    OBVIOUS
<1> USE DEF tableVars, warnVars, queueVars, streamVars, callVars, resultVars, publishVars
<1>0. now \in Nat /\ now <= now BY DEF TypeOK
<1>1. ASSUME UNCHANGED <<publisher, lost, warnings, now>> PROVE LossInv'
  BY <1>0, <1>1, NothingLost
<1>2. ASSUME NEW c \in Clients, Registrar(c) \/ Take(c) PROVE LossInv'
  BY <1>1, <1>2 DEF Registrar, AddName, AddQueue, AddQueueTwice, AllAdded, SnapshotNames,
                    RemoveFromName, Removed, Take
<1>3. ASSUME NEW p \in Publishers, Call(p) \/ Publish(p) PROVE LossInv'
  <2>1. CASE Warn(p) BY <2>1, WarnCovers
  <2>2. CASE Drop(p) BY <2>2, DropLoss
  <2>3. CASE Return(p)
    <3>1. /\ publisher[p] = "put" /\ publisher' = [publisher EXCEPT ![p] = "idle"]
          /\ lost' = [lost EXCEPT ![p] = -1] /\ UNCHANGED <<warnings, now>>
      BY <2>3 DEF Return, PublisherAt
    <3>2. \A q \in Publishers : /\ lost'[q] \in {lost[q], -1}
                                /\ publisher[q] = "warn" => publisher'[q] = "warn"
      BY <3>1 DEF TypeOK
    <3> QED BY <1>0, <3>1, <3>2, NothingLost
  <2>4. ASSUME UNCHANGED <<lost, warnings, now>>, publisher[p] # "warn",
               \E to : publisher' = [publisher EXCEPT ![p] = to]
        PROVE  LossInv'
    <3>1. \A q \in Publishers : publisher[q] = "warn" => publisher'[q] = "warn"
      BY <2>4 DEF TypeOK
    <3> QED BY <1>0, <2>4, <3>1, NothingLost
  <2>5. CASE Call(p) BY <2>4, <2>5 DEF Call, PublisherAt
  <2>6. CASE FindLock(p) \/ AllRemoved(p) \/ CopySubscribers(p)
    BY <2>4, <2>6 DEF FindLock, AllRemoved, CopySubscribers, PublisherAt
  <2>7. CASE Deliver(p) \/ Growing(p) BY <2>4, <2>7 DEF Deliver, Growing, PublisherAt
  <2> QED BY <1>3, <2>1, <2>2, <2>3, <2>5, <2>6, <2>7 DEF Publish
<1>4. CASE Tick
  <2>1. now' = now + 1 /\ UNCHANGED <<publisher, lost, warnings>> BY <1>4 DEF Tick
  <2>2. now' \in Nat /\ now <= now' BY <1>0, <2>1
  <2> QED BY <2>1, <2>2, NothingLost
<1>5. CASE UNCHANGED vars BY <1>1, <1>5 DEF vars
<1> QED BY <1>2, <1>3, <1>4, <1>5 DEF Next, Finished

-----------------------------------------------------------------------------
(* The promises.                                                           *)

\* The empty register is one of the states the invariant describes.
LEMMA RegisterInit == Init => TypeOK /\ RegisterInv
<1> SUFFICES ASSUME Init PROVE TypeOK /\ RegisterInv
    OBVIOUS
<1>1. \A p \in Publishers : call[p] \in Calls[p]
  <2>1. \A p \in Publishers : (CHOOSE k \in Calls[p] : TRUE) \in Calls[p]
    BY ConstantsAssumption
  <2> QED BY <2>1 DEF Init
<1>2. call \in [Publishers -> [sender : Clients \cup {NoClient}, topic : Topics,
                               target : Clients \cup {NoClient}]]
  <2>1. \A p \in Publishers : call[p] \in [sender : Clients \cup {NoClient}, topic : Topics,
                                           target : Clients \cup {NoClient}]
    BY <1>1, ConstantsAssumption
  <2>2. call = [p \in Publishers |-> call[p]] BY DEF Init
  <2> QED BY <2>1, <2>2
<1>3. TypeOK
  <2>1. << >> \in Seq([from : Publishers, n : Nat]) /\ << >> \in Seq(Nat) OBVIOUS
  <2>2. put \in [Clients -> Seq([from : Publishers, n : Nat])] BY <2>1 DEF Init
  <2> QED BY <1>1, <1>2, <2>1, <2>2 DEF Init, TypeOK, RegistrarStates, PublisherStates
<1>4. TableInv
  <2>1. \A c \in Clients : Len(Requires[c]) \in Nat BY ConstantsAssumption
  <2> QED BY <2>1 DEF Init, TableInv
<1>5. CallInv BY DEF Init, CallInv, Addressed
<1>6. QueueInv
  <2>1. \A c \in Clients : put[c] = << >> /\ Len(put[c]) = 0 /\ taken[c] = 0 BY DEF Init
  <2>2. \A c \in Clients : ~\E i \in 1..Len(put[c]) : TRUE BY <2>1
  <2>3. \A p \in Publishers : delivered[p] = {} BY DEF Init
  <2> QED BY <2>1, <2>2, <2>3 DEF QueueInv
<1>7. QueuesOrdered
  <2>1. \A c \in Clients : Len(put[c]) = 0 /\ taken[c] = 0 BY DEF Init
  <2>2. \A c \in Clients : MaxQueue > 0 => Size(c) <= MaxQueue
    BY <2>1, ConstantsAssumption DEF Size
  <2>3. \A c \in Clients : 1..Len(put[c]) = {} BY <2>1
  <2> QED BY <2>2, <2>3 DEF QueuesOrdered
<1>8. WarningInv BY DEF Init, WarningInv
<1>9. WarningsSpaced BY DEF Init, WarningsSpaced
<1>10. LossInv BY DEF Init, LossInv
<1> QED BY <1>3, <1>4, <1>5, <1>6, <1>7, <1>8, <1>9, <1>10 DEF RegisterInv

\* The invariant is inductive.
THEOREM RegisterInvariant == Spec => [](TypeOK /\ RegisterInv)
<1>1. Init => TypeOK /\ RegisterInv BY RegisterInit
<1>2. TypeOK /\ RegisterInv /\ [Next]_vars => (TypeOK /\ RegisterInv)'
  <2>1. TypeOK /\ RegisterInv /\ [Next]_vars => TypeOK' BY TypeStep DEF RegisterInv
  <2>2. TypeOK /\ RegisterInv /\ [Next]_vars => RegisterInv'
    BY TableStep, CallStep, QueueStep, WarningStep, LossStep DEF RegisterInv
  <2> QED BY <2>1, <2>2
<1> QED BY <1>1, <1>2, PTL DEF Spec

\* Every variable of the register keeps the type of what it stands for.
THEOREM TypeCorrect == Spec => []TypeOK
BY RegisterInvariant, PTL

\* The result of every call that has returned says who got the message and who lost it,
\* whatever was registered, removed, published and read meanwhile.
THEOREM ResultsExactHolds == Spec => []ResultsExact
<1>1. TypeOK /\ RegisterInv => ResultsExact
  <2> SUFFICES ASSUME TypeOK, RegisterInv, NEW p \in Publishers, publisher[p] = "idle"
               PROVE  /\ delivered[p] \cup dropped[p] = Addressed(p)
                      /\ delivered[p] \cap dropped[p] = {}
                      /\ \A c \in Clients : Copies(p, c) = IF c \in delivered[p] THEN 1 ELSE 0
      BY DEF ResultsExact
  <2>1. /\ delivered[p] \cup dropped[p] = Addressed(p)
        /\ delivered[p] \cap dropped[p] = {}
    BY DEF RegisterInv, CallInv
  <2>2. ASSUME NEW c \in Clients PROVE Copies(p, c) = IF c \in delivered[p] THEN 1 ELSE 0
    <3>1. PICK q \in Seq([from : Publishers, n : Nat]) : q = put[c] BY DEF TypeOK
    <3>2. PICK m \in [from : Publishers, n : Nat] : m = Message(p) BY MessageType
    <3> DEFINE I == {i \in 1..Len(q) : q[i] = m}
    <3>3. Copies(p, c) = Cardinality(I) BY <3>1, <3>2 DEF Copies
    <3>4. c \in delivered[p] <=> \E i \in 1..Len(q) : q[i] = m
      BY <3>1, <3>2 DEF RegisterInv, QueueInv
    <3>5. CASE c \in delivered[p]
      <4>1. PICK i \in 1..Len(q) : q[i] = m BY <3>4, <3>5
      <4>2. ASSUME NEW j \in 1..Len(q), q[j] = m PROVE j = i
        <5>1. i < j => m.n < m.n BY <3>1, <4>1, <4>2 DEF RegisterInv, QueuesOrdered
        <5>2. j < i => m.n < m.n BY <3>1, <4>1, <4>2 DEF RegisterInv, QueuesOrdered
        <5> QED BY <5>1, <5>2
      <4>3. I = {i} BY <4>1, <4>2
      <4>4. Cardinality({i}) = 1 BY FS_Singleton
      <4> QED BY <3>3, <3>5, <4>3, <4>4
    <3>6. CASE c \notin delivered[p]
      <4>1. I = {} BY <3>4, <3>6
      <4> QED BY <3>3, <3>6, <4>1, FS_EmptySet
    <3> QED BY <3>5, <3>6
  <2> QED BY <2>1, <2>2
<1> QED BY <1>1, RegisterInvariant, PTL

\* Nothing is delivered to a client that was removed before the call began.
THEOREM NoDeliveryAfterRemovalHolds == Spec => []NoDeliveryAfterRemoval
<1>1. RegisterInv => NoDeliveryAfterRemoval
  BY DEF RegisterInv, CallInv, NoDeliveryAfterRemoval
<1> QED BY <1>1, RegisterInvariant, PTL

\* Bounded queues stay within their bound and keep each publisher's order.
THEOREM QueuesOrderedHolds == Spec => []QueuesOrdered
BY RegisterInvariant, PTL DEF RegisterInv

\* Two warnings are never closer than the cooldown.
THEOREM WarningsSpacedHolds == Spec => []WarningsSpaced
BY RegisterInvariant, PTL DEF RegisterInv

\* Every full queue a call has met is covered by a warning when the call returns.
THEOREM LossCoveredHolds == Spec => []LossCovered
<1>1. RegisterInv => LossCovered BY DEF RegisterInv, LossInv, LossCovered
<1> QED BY <1>1, RegisterInvariant, PTL

-----------------------------------------------------------------------------
(* What the table is to those who publish: Routing.                        *)

Gone == {c \in Clients : registrar[c] = "gone"}

\* Calls that have taken effect.
Effective == [p \in Publishers |-> IF publisher[p] \in {"meta", "topic"} THEN calls[p] - 1
                                                                      ELSE calls[p]]

\* A step that moves nothing of the mapping is a stutter.
LEMMA Stutters ==
    ASSUME UNCHANGED <<register, put, taken, todo>>, Gone' = Gone, Effective' = Effective
    PROVE  UNCHANGED Table!vars
BY DEF Table!vars, Gone, Effective

\* A publisher's step moves its own count only, by how its call stands before and after.
LEMMA EffectiveSteps ==
    ASSUME TypeOK, NEW p \in Publishers, NEW to, PublisherAt(p, publisher[p], to),
           UNCHANGED calls
    PROVE  /\ (to \in {"meta", "topic"} <=> publisher[p] \in {"meta", "topic"})
                 => Effective' = Effective
           /\ to \notin {"meta", "topic"} /\ publisher[p] \in {"meta", "topic"}
                 => Effective' = [Effective EXCEPT ![p] = @ + 1]
<1>1. /\ publisher \in [Publishers -> PublisherStates] /\ calls \in [Publishers -> Nat]
      /\ publisher' = [publisher EXCEPT ![p] = to]
  BY DEF TypeOK, PublisherAt
<1>2. ASSUME NEW q \in Publishers, q # p PROVE publisher'[q] = publisher[q] BY <1>1, <1>2
<1>3. publisher'[p] = to BY <1>1
<1>4. ASSUME to \in {"meta", "topic"} <=> publisher[p] \in {"meta", "topic"}
      PROVE  Effective' = Effective
  BY <1>2, <1>3, <1>4 DEF Effective
<1>5. ASSUME to \notin {"meta", "topic"}, publisher[p] \in {"meta", "topic"}
      PROVE  Effective' = [Effective EXCEPT ![p] = @ + 1]
  <2>1. Effective'[p] = Effective[p] + 1 BY <1>1, <1>3, <1>5 DEF Effective
  <2>2. \A q \in Publishers : q # p => Effective'[q] = Effective[q] BY <1>2 DEF Effective
  <2>3. DOMAIN Effective = Publishers /\ Effective' = [q \in Publishers |-> Effective'[q]]
    BY DEF Effective
  <2> QED BY <2>1, <2>2, <2>3
<1> QED BY <1>4, <1>5

\* Registering joins, removing leaves, and a removal that has visited its names departs.
LEMMA RegistrarRouting ==
    ASSUME TypeOK, TableInv, NEW c \in Clients, Registrar(c)
    PROVE  [Table!Next]_Table!vars
<1> USE DEF RegistrarAt, tableVars, queueVars, callVars, publishVars
<1>0. UNCHANGED <<put, taken, publisher, calls, todo>>
  BY DEF Registrar, AddName, AddQueue, AddQueueTwice, AllAdded, SnapshotNames, RemoveFromName,
         Removed
<1>1. Effective' = Effective BY <1>0 DEF Effective
<1>2. registrar \in [Clients -> RegistrarStates] BY DEF TypeOK
<1>3. ASSUME NEW to, registrar[c] # "gone", to # "gone",
             registrar' = [registrar EXCEPT ![c] = to]
      PROVE  Gone' = Gone
  BY <1>2, <1>3 DEF Gone
<1>4. CASE AddName(c) \/ AddQueueTwice(c) \/ AllAdded(c) \/ SnapshotNames(c)
  <2>1. UNCHANGED register
    BY <1>4 DEF AddName, AddQueueTwice, AllAdded, SnapshotNames
  <2>2. Gone' = Gone BY <1>3, <1>4 DEF AddName, AddQueueTwice, AllAdded, SnapshotNames
  <2> QED BY <1>0, <1>1, <2>1, <2>2, Stutters
<1>5. CASE AddQueue(c)
  <2>1. enrolled[c] < Len(Requires[c]) BY <1>5 DEF AddQueue, TableInv
  <2>2. PICK t \in Topics : t = NextName(c) BY <2>1, NextNameType
  <2>3. register' = [register EXCEPT ![t] = @ \cup {c}] BY <1>5, <2>2 DEF AddQueue
  <2>4. Gone' = Gone BY <1>3, <1>5 DEF AddQueue
  <2>5. c \notin Gone BY <1>5 DEF AddQueue, Gone
  <2>6. Table!Join(c, t)
    BY <1>0, <1>1, <2>3, <2>4, <2>5 DEF Table!Join, Gone, Effective
  <2> QED BY <2>6 DEF Table!Next
<1>6. CASE RemoveFromName(c)
  <2>1. PICK t \in names[c] : register' = [register EXCEPT ![t] = @ \ {c}]
    BY <1>6 DEF RemoveFromName
  <2>2. t \in Topics BY DEF TypeOK
  <2>3. Gone' = Gone BY <1>6 DEF RemoveFromName, Gone
  <2>4. Table!Leave(c, t) BY <1>0, <1>1, <2>1, <2>3 DEF Table!Leave, Gone, Effective
  <2> QED BY <2>2, <2>4 DEF Table!Next
<1>7. CASE Removed(c)
  <2>1. registrar[c] = "removing" /\ names[c] = {} /\ UNCHANGED register BY <1>7 DEF Removed
  <2>2. \A t \in Topics : c \notin register[t] BY <2>1 DEF TableInv
  <2>3. Gone' = Gone \cup {c} BY <1>2, <1>7 DEF Removed, Gone
  <2>4. Table!Depart(c) BY <1>0, <1>1, <2>1, <2>2, <2>3 DEF Table!Depart, Gone, Effective
  <2> QED BY <2>4 DEF Table!Next
<1> QED BY <1>4, <1>5, <1>6, <1>7 DEF Registrar

\* A call publishes when it copies the subscribers or finds none, and then each put gives the
\* message or finds the queue full.
LEMMA PublisherRouting ==
    ASSUME TypeOK, TableInv, CallInv, NEW p \in Publishers, Call(p) \/ Publish(p)
    PROVE  [Table!Next]_Table!vars
<1> USE DEF tableVars, queueVars, streamVars, callVars
<1>0. /\ register \in [Topics -> SUBSET Clients] /\ todo \in [Publishers -> SUBSET Clients]
      /\ publisher \in [Publishers -> PublisherStates] /\ calls \in [Publishers -> Nat]
      /\ call[p].topic \in Topics
      /\ call[p].target \in Clients \cup {NoClient} /\ call[p].sender \in Clients \cup {NoClient}
  BY DEF TypeOK
<1>1. UNCHANGED <<register, registrar, taken>>
  BY DEF Publish, Call, FindLock, AllRemoved, CopySubscribers, Deliver, Drop, Lose, Growing,
         Warn, Return
<1>2. Gone' = Gone BY <1>1 DEF Gone
<1>3. publisher[p] \in {"meta", "topic"} => todo[p] = {} BY DEF CallInv
<1>4. CASE Call(p)
  <2>1. /\ publisher[p] = "idle" /\ publisher' = [publisher EXCEPT ![p] = "meta"]
        /\ calls' = [calls EXCEPT ![p] = @ + 1]
        /\ UNCHANGED <<put, todo>>
    BY <1>4 DEF Call, PublisherAt
  <2>2. Effective' = Effective BY <1>0, <2>1 DEF Effective
  <2> QED BY <1>1, <1>2, <2>1, <2>2, Stutters
\* Whichever way a call finds its audience, it takes effect.
<1>5. ASSUME NEW audience, audience \in Table!Audiences(call[p].topic),
             todo' = [todo EXCEPT ![p] = audience],
             publisher[p] \in {"meta", "topic"},
             NEW to, to \notin {"meta", "topic"}, PublisherAt(p, publisher[p], to),
             UNCHANGED <<put, calls>>
      PROVE  Table!Next
  <2>1. Effective' = [Effective EXCEPT ![p] = @ + 1] BY <1>5, EffectiveSteps
  <2>2. PICK t \in Topics : t = call[p].topic BY <1>0
  <2>3. audience \in Table!Audiences(t) BY <1>5, <2>2
  <2>4. Table!Publish(p, t)
    BY <1>1, <1>2, <1>3, <1>5, <2>1, <2>3 DEF Table!Publish, Gone, Effective
  <2> QED BY <2>4 DEF Table!Next
<1>6. ASSUME register[call[p].topic] = {}, publisher[p] \in {"meta", "topic"},
             PublisherAt(p, publisher[p], "idle"), UNCHANGED <<put, calls, todo>>
      PROVE  Table!Next
  <2>1. {} \in Table!Audiences(call[p].topic) BY <1>6 DEF Table!Audiences
  <2>2. todo' = [todo EXCEPT ![p] = {}] BY <1>0, <1>3, <1>6
  <2> QED BY <1>5, <1>6, <2>1, <2>2
<1>7. CASE FindLock(p)
  <2>1. publisher[p] = "meta" /\ UNCHANGED <<put, calls, todo>> BY <1>7 DEF FindLock, PublisherAt
  <2>2. CASE call[p].topic \in known
    <3>1. PublisherAt(p, publisher[p], "topic") BY <1>7, <2>2 DEF FindLock, PublisherAt
    <3>2. Effective' = Effective BY <2>1, <3>1, EffectiveSteps
    <3> QED BY <1>1, <1>2, <2>1, <3>2, Stutters
  <2>3. CASE call[p].topic \notin known
    <3>1. PublisherAt(p, publisher[p], "idle") BY <1>7, <2>3 DEF FindLock, PublisherAt
    <3>2. register[call[p].topic] = {} BY <1>0, <2>3 DEF TableInv
    <3> QED BY <1>6, <2>1, <3>1, <3>2
  <2> QED BY <2>2, <2>3
<1>8. CASE AllRemoved(p)
  <2>1. publisher[p] = "topic" /\ register[call[p].topic] = {} /\ UNCHANGED <<put, calls, todo>>
    BY <1>8 DEF AllRemoved, PublisherAt
  <2>2. PublisherAt(p, publisher[p], "idle") BY <1>8 DEF AllRemoved, PublisherAt
  <2> QED BY <1>6, <2>1, <2>2
<1>9. CASE CopySubscribers(p)
  <2>1. PICK found \in SUBSET Clients : found = register[call[p].topic] BY <1>0
  <2>2. PICK audience : audience = IF call[p].target = NoClient THEN found \ {call[p].sender}
                                                              ELSE found \cap {call[p].target}
    OBVIOUS
  <2>3. /\ publisher[p] = "topic" /\ todo' = [todo EXCEPT ![p] = audience]
        /\ UNCHANGED <<put, calls>>
    BY <1>9, <2>1, <2>2 DEF CopySubscribers, PublisherAt
  <2>4. PublisherAt(p, publisher[p], "put") BY <1>9 DEF CopySubscribers, PublisherAt
  <2>5. audience \in Table!Audiences(call[p].topic)
    <3>1. CASE call[p].target # NoClient BY <1>0, <2>1, <2>2, <3>1 DEF Table!Audiences
    <3>2. CASE call[p].target = NoClient /\ call[p].sender \in Clients
      BY <2>1, <2>2, <3>2 DEF Table!Audiences
    <3>3. CASE call[p].target = NoClient /\ call[p].sender = NoClient
      <4>1. audience = found BY <2>2, <3>3, ConstantsAssumption
      <4> QED BY <2>1, <4>1 DEF Table!Audiences
    <3> QED BY <1>0, <3>1, <3>2, <3>3
  <2> QED BY <1>5, <2>3, <2>4, <2>5
<1>10. CASE Deliver(p)
  <2>1. PICK c \in todo[p] : /\ Room(c)
                             /\ put' = [put EXCEPT ![c] = Append(@, Message(p))]
                             /\ todo' = [todo EXCEPT ![p] = @ \ {c}]
    BY <1>10 DEF Deliver
  <2>2. publisher[p] = "put" /\ UNCHANGED calls BY <1>10 DEF Deliver, PublisherAt
  <2>3. PublisherAt(p, publisher[p], "growing") BY <1>10 DEF Deliver, PublisherAt
  <2>4. Effective' = Effective BY <2>2, <2>3, EffectiveSteps
  <2>5. Message(p) = Table!Message(p) BY <2>2 DEF Message, Table!Message
  <2>6. ~Table!Full(c)
    <3>1. Len(put[c]) - taken[c] \in Int BY <1>0, <2>1 DEF TypeOK
    <3> QED BY <2>1, <3>1, ConstantsAssumption DEF Room, Size, Table!Full
  <2>7. c \in Clients BY <1>0
  <2>8. Table!Give(p, c)
    BY <1>1, <1>2, <2>1, <2>4, <2>5, <2>6 DEF Table!Give, Gone, Effective
  <2> QED BY <2>7, <2>8 DEF Table!Next
<1>11. CASE Drop(p)
  <2>1. PICK c \in todo[p] : ~Room(c) /\ todo' = [todo EXCEPT ![p] = @ \ {c}]
    BY <1>11 DEF Drop, Lose
  <2>2. publisher[p] = "put" /\ UNCHANGED <<put, calls>> BY <1>11 DEF Drop, Lose, PublisherAt
  <2>3. PublisherAt(p, publisher[p], "warn") BY <1>11 DEF Drop, Lose, PublisherAt
  <2>4. Effective' = Effective BY <2>2, <2>3, EffectiveSteps
  <2>5. Table!Full(c)
    <3>1. Len(put[c]) - taken[c] \in Int BY <1>0, <2>1 DEF TypeOK
    <3> QED BY <2>1, <3>1, ConstantsAssumption DEF Room, Size, Table!Full
  <2>6. c \in Clients BY <1>0
  <2>7. Table!Miss(p, c)
    BY <1>1, <1>2, <2>1, <2>2, <2>4, <2>5 DEF Table!Miss, Gone, Effective
  <2> QED BY <2>6, <2>7 DEF Table!Next
<1>12. CASE Growing(p) \/ Warn(p) \/ Return(p)
  <2>1. UNCHANGED <<put, calls, todo>> BY <1>12 DEF Growing, Warn, Return
  <2>2. PICK to \in {"warn", "put", "idle"} :
          PublisherAt(p, publisher[p], to) /\ publisher[p] \in {"growing", "warn", "put"}
    BY <1>12 DEF Growing, Warn, Return, PublisherAt
  <2>3. Effective' = Effective BY <2>1, <2>2, EffectiveSteps
  <2> QED BY <1>1, <1>2, <2>1, <2>3, Stutters
<1> QED BY <1>4, <1>7, <1>8, <1>9, <1>10, <1>11, <1>12 DEF Publish

\* Every step of the table is a step of Routing or changes nothing of it.
LEMMA RoutingStep ==
    TypeOK /\ TableInv /\ CallInv /\ [Next]_vars => [Table!Next]_Table!vars
<1> SUFFICES ASSUME TypeOK, TableInv, CallInv, [Next]_vars
             PROVE  [Table!Next]_Table!vars
    OBVIOUS
<1> USE DEF tableVars, queueVars, streamVars, callVars, publishVars
<1>1. ASSUME NEW c \in Clients, Registrar(c) PROVE [Table!Next]_Table!vars
  BY <1>1, RegistrarRouting
<1>2. ASSUME NEW p \in Publishers, Call(p) \/ Publish(p) PROVE [Table!Next]_Table!vars
  BY <1>2, PublisherRouting
<1>3. ASSUME NEW c \in Clients, Take(c) PROVE [Table!Next]_Table!vars
  <2>1. /\ taken' = [taken EXCEPT ![c] = @ + 1] /\ Size(c) > 0
        /\ UNCHANGED <<register, registrar, put, publisher, calls, todo>>
    BY <1>3 DEF Take
  <2>2. Gone' = Gone /\ Effective' = Effective BY <2>1 DEF Gone, Effective
  <2>3. taken[c] < Len(put[c]) BY <2>1 DEF Size, TypeOK
  <2>4. Table!Read(c) BY <2>1, <2>2, <2>3 DEF Table!Read, Gone, Effective
  <2> QED BY <2>4 DEF Table!Next
<1>4. CASE Tick \/ UNCHANGED vars
  <2>1. UNCHANGED <<register, registrar, put, taken, publisher, calls, todo>>
    BY <1>4 DEF Tick, vars
  <2>2. Gone' = Gone /\ Effective' = Effective BY <2>1 DEF Gone, Effective
  <2> QED BY <2>1, <2>2, Stutters
<1> QED BY <1>1, <1>2, <1>3, <1>4 DEF Next, Finished

\* The register, its locks and its copies provide the table of Routing: a call takes effect at one
\* instant, and what it does afterwards concerns exactly those who were registered then.
THEOREM ImplementsRoutingHolds == Spec => ImplementsRouting
<1>1. Init => Table!Init
  <2> SUFFICES ASSUME Init PROVE Table!Init
      OBVIOUS
  <2>1. Gone = {} BY DEF Init, Gone
  <2>2. Effective = [p \in Publishers |-> 0] BY DEF Init, Effective
  <2> QED BY <2>1, <2>2 DEF Init, Table!Init, Gone, Effective
<1>2. TypeOK /\ RegisterInv /\ [Next]_vars => [Table!Next]_Table!vars
  BY RoutingStep DEF RegisterInv
<1> QED BY <1>1, <1>2, RegisterInvariant, PTL DEF Spec, ImplementsRouting, Table!Spec
=============================================================================
