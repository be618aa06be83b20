---------------------------- MODULE DataRegister ----------------------------
(***************************************************************************)
(* The routing table of pookiepy/data_register.py under concurrent calls.  *)
(*                                                                         *)
(* Registrars are the streams of BaseServer: one per client, it registers  *)
(* what its client requires and later removes the client, in this order    *)
(* (BaseServer serializes the two under its own lock).  Publishers call    *)
(* add_data_for_message_name at any time, with or without a target.        *)
(*                                                                         *)
(* No lock of the register is held while another is taken, nor across a    *)
(* put, so every "with lock" block is one atomic action here and what lies *)
(* between two blocks is open to every other thread.                       *)
(***************************************************************************)
EXTENDS Integers, Sequences, FiniteSets

CONSTANTS Clients,    \* client ids, each with its own notification queue
          Topics,     \* message names
          Requires,   \* what each client's registrar registers, in order
          Publishers, \* threads that publish
          Calls,      \* the calls each of them makes: [sender, topic, target]
          NoClient,   \* "" as a sender, None as a target
          MaxQueue,   \* maxsize of the queues, 0 for unbounded
          Threshold,  \* queue_warning_threshold, -1 for None
          Cooldown,   \* the five seconds between two warnings
          MaxCalls,   \* bound: calls of each publisher
          MaxTime     \* bound: the monotonic clock

ASSUME ConstantsAssumption ==
    /\ Requires \in [Clients -> Seq(Topics)]
    /\ NoClient \notin Clients
    /\ \A p \in Publishers : Calls[p] \subseteq [sender : Clients \cup {NoClient}, topic : Topics,
                                               target : Clients \cup {NoClient}]
    /\ \A p \in Publishers : Calls[p] # {}
    /\ MaxQueue \in Nat
    /\ Threshold \in Nat \cup {-1}
    /\ Cooldown \in Nat \ {0}
    /\ MaxCalls \in [Publishers -> Nat]
    /\ MaxTime \in Nat

VARIABLES
    known,       \* the keys of _register and of _locks
    register,    \* _register: the clients of each message name
    lastWarning, \* _last_queue_warning, -1 for None
    now,         \* time.monotonic()
    put,         \* everything ever put into each client's queue
    taken,       \* how much of it the client's sender has taken out
    registrar,   \* where each client's registrar is
    enrolled,    \* requires its registrar has handled
    names,       \* message names remove_notification_queues_for_client has still to visit
    publisher,   \* where each publisher is in its call
    call,        \* the arguments of its call
    calls,       \* calls it has made
    subscribers, \* the shallow copy its call took
    todo,        \* subscribers its call has still to notify
    current,     \* the subscriber whose queue's growth it has still to test
    delivered,   \* the DeliveryResult of its call, complete when the call has returned
    dropped,
    goneBefore,  \* clients whose removal had returned when the call began
    lost,        \* when the call under way last found a queue full, -1 if it did not
    warnings     \* times at which a warning was logged

tableVars   == <<known, register>>
warnVars    == <<lastWarning, warnings>>
queueVars   == <<put, taken>>
streamVars  == <<registrar, enrolled, names>>
resultVars  == <<delivered, dropped>>
callVars    == <<call, calls, goneBefore, lost>>
publishVars == <<publisher, callVars, subscribers, todo, current, resultVars>>
vars == <<tableVars, warnVars, now, queueVars, streamVars, publishVars>>

RegistrarStates == {"meta", "topic", "serving", "raised", "removing", "gone"}
PublisherStates == {"idle", "meta", "topic", "put", "growing", "warn"}

Size(c) == Len(put[c]) - taken[c]
Room(c) == MaxQueue = 0 \/ Size(c) < MaxQueue
Message(p) == [from |-> p, n |-> calls[p]]

Init ==
    /\ known = {}
    /\ register = [t \in Topics |-> {}]
    /\ lastWarning = -1
    /\ now = 0
    /\ put = [c \in Clients |-> <<>>]
    /\ taken = [c \in Clients |-> 0]
    /\ registrar = [c \in Clients |-> "meta"]
    /\ enrolled = [c \in Clients |-> 0]
    /\ names = [c \in Clients |-> {}]
    /\ publisher = [p \in Publishers |-> "idle"]
    /\ call = [p \in Publishers |-> CHOOSE k \in Calls[p] : TRUE]
    /\ calls = [p \in Publishers |-> 0]
    /\ subscribers = [p \in Publishers |-> {}]
    /\ todo = [p \in Publishers |-> {}]
    /\ current = [p \in Publishers |-> NoClient]
    /\ delivered = [p \in Publishers |-> {}]
    /\ dropped = [p \in Publishers |-> {}]
    /\ goneBefore = [p \in Publishers |-> {}]
    /\ lost = [p \in Publishers |-> -1]
    /\ warnings = <<>>

RegistrarAt(c, from, to) == registrar[c] = from /\ registrar' = [registrar EXCEPT ![c] = to]
PublisherAt(p, from, to) == publisher[p] = from /\ publisher' = [publisher EXCEPT ![p] = to]

-----------------------------------------------------------------------------
(* add_notification_queue_for_message_name, once per required name.        *)

NextName(c) == Requires[c][enrolled[c] + 1]

\* Under _meta_lock the name gets its dictionary and its lock.
AddName(c) ==
    /\ enrolled[c] < Len(Requires[c])
    /\ RegistrarAt(c, "meta", "topic")
    /\ known' = known \cup {NextName(c)}
    /\ UNCHANGED <<register, warnVars, now, queueVars, enrolled, names, publishVars>>

\* Under the name's lock the client is tested and entered ...
AddQueue(c) ==
    /\ RegistrarAt(c, "topic", "meta")
    /\ c \notin register[NextName(c)]
    /\ register' = [register EXCEPT ![NextName(c)] = @ \cup {c}]
    /\ enrolled' = [enrolled EXCEPT ![c] = @ + 1]
    /\ UNCHANGED <<known, warnVars, now, queueVars, names, publishVars>>

\* ... or ValueError: the names before stay registered.
AddQueueTwice(c) ==
    /\ RegistrarAt(c, "topic", "raised")
    /\ c \in register[NextName(c)]
    /\ UNCHANGED <<tableVars, warnVars, now, queueVars, enrolled, names, publishVars>>

AllAdded(c) ==
    /\ enrolled[c] = Len(Requires[c])
    /\ RegistrarAt(c, "meta", "serving")
    /\ UNCHANGED <<tableVars, warnVars, now, queueVars, enrolled, names, publishVars>>

-----------------------------------------------------------------------------
(* remove_notification_queues_for_client, when the stream ends.            *)

\* Under _meta_lock: list(self._register.keys()) and dict(self._locks).
SnapshotNames(c) ==
    /\ \E at \in {"serving", "raised"} : RegistrarAt(c, at, "removing")
    /\ names' = [names EXCEPT ![c] = known]
    /\ UNCHANGED <<tableVars, warnVars, now, queueVars, enrolled, publishVars>>

\* Under each name's lock in turn.
RemoveFromName(c) ==
    /\ registrar[c] = "removing"
    /\ \E t \in names[c] :
          /\ register' = [register EXCEPT ![t] = @ \ {c}]
          /\ names' = [names EXCEPT ![c] = @ \ {t}]
    /\ UNCHANGED <<known, warnVars, now, queueVars, registrar, enrolled, publishVars>>

\* Mutant: the loop returns before it has visited every name.
RemovedEarly(c) ==
    /\ RegistrarAt(c, "removing", "gone")
    /\ UNCHANGED <<tableVars, warnVars, now, queueVars, enrolled, names, publishVars>>

Removed(c) ==
    /\ names[c] = {}
    /\ RegistrarAt(c, "removing", "gone")
    /\ UNCHANGED <<tableVars, warnVars, now, queueVars, enrolled, names, publishVars>>

Registrar(c) ==
    \/ AddName(c) \/ AddQueue(c) \/ AddQueueTwice(c) \/ AllAdded(c)
    \/ SnapshotNames(c) \/ RemoveFromName(c) \/ Removed(c)

-----------------------------------------------------------------------------
(* add_data_for_message_name.                                              *)

\* A call with a message of the configured type (any other raises at once).
Call(p) ==
    /\ calls[p] < MaxCalls[p]
    /\ PublisherAt(p, "idle", "meta")
    /\ \E k \in Calls[p] : call' = [call EXCEPT ![p] = k]
    /\ calls' = [calls EXCEPT ![p] = @ + 1]
    /\ goneBefore' = [goneBefore EXCEPT ![p] = {c \in Clients : registrar[c] = "gone"}]
    /\ delivered' = [delivered EXCEPT ![p] = {}]
    /\ dropped' = [dropped EXCEPT ![p] = {}]
    /\ subscribers' = [subscribers EXCEPT ![p] = {}]
    /\ UNCHANGED <<tableVars, warnVars, now, queueVars, streamVars, todo, current, lost>>

\* Under _meta_lock: a name that never had subscribers has no lock.
FindLock(p) ==
    /\ PublisherAt(p, "meta", IF call[p].topic \in known THEN "topic" ELSE "idle")
    /\ UNCHANGED <<tableVars, warnVars, now, queueVars, streamVars, callVars,
                   subscribers, todo, current, resultVars>>

AllRemoved(p) ==
    /\ register[call[p].topic] = {}
    /\ PublisherAt(p, "topic", "idle")
    /\ UNCHANGED <<tableVars, warnVars, now, queueVars, streamVars, callVars,
                   subscribers, todo, current, resultVars>>

\* Mutant: a missing target is reported without testing that there is a target.
CopySubscribersUntargeted(p) ==
    LET found == register[call[p].topic]
    IN  /\ found # {}
        /\ PublisherAt(p, "topic", "put")
        /\ subscribers' = [subscribers EXCEPT ![p] = found]
        /\ todo' = [todo EXCEPT ![p] =
                       IF call[p].target = NoClient THEN found \ {call[p].sender}
                                                    ELSE found \cap {call[p].target}]
        /\ dropped' = [dropped EXCEPT ![p] = {call[p].target} \ found]
        /\ UNCHANGED <<tableVars, warnVars, now, queueVars, streamVars, callVars, current, delivered>>

\* Under the name's lock: dict(client_dict).  A fan-out notifies all but the sender;
\* a targeted call notifies its target, which counts as dropped when it is missing.
CopySubscribers(p) ==
    LET found == register[call[p].topic]
    IN  /\ found # {}
        /\ PublisherAt(p, "topic", "put")
        /\ subscribers' = [subscribers EXCEPT ![p] = found]
        /\ todo' = [todo EXCEPT ![p] =
                       IF call[p].target = NoClient THEN found \ {call[p].sender}
                                                    ELSE found \cap {call[p].target}]
        /\ dropped' = [dropped EXCEPT ![p] = {call[p].target} \ (found \cup {NoClient})]
        /\ UNCHANGED <<tableVars, warnVars, now, queueVars, streamVars, callVars, current, delivered>>

\* Mutant: the queue is created without its bound.
DeliverUnbounded(p) ==
    /\ PublisherAt(p, "put", "growing")
    /\ \E c \in todo[p] :
          /\ current' = [current EXCEPT ![p] = c]
          /\ put' = [put EXCEPT ![c] = Append(@, Message(p))]
          /\ delivered' = [delivered EXCEPT ![p] = @ \cup {c}]
          /\ todo' = [todo EXCEPT ![p] = @ \ {c}]
    /\ UNCHANGED <<tableVars, warnVars, now, taken, streamVars, callVars, subscribers, dropped>>

\* q.put(data, block=False) succeeds; the queue-growth test follows.
Deliver(p) ==
    /\ PublisherAt(p, "put", "growing")
    /\ \E c \in todo[p] :
          /\ Room(c)
          /\ current' = [current EXCEPT ![p] = c]
          /\ put' = [put EXCEPT ![c] = Append(@, Message(p))]
          /\ delivered' = [delivered EXCEPT ![p] = @ \cup {c}]
          /\ todo' = [todo EXCEPT ![p] = @ \ {c}]
    /\ UNCHANGED <<tableVars, warnVars, now, taken, streamVars, callVars, subscribers, dropped>>

\* The message is not put for client c of the call.
Lose(p, c) ==
    /\ dropped' = [dropped EXCEPT ![p] = @ \cup {c}]
    /\ todo' = [todo EXCEPT ![p] = @ \ {c}]
    /\ lost' = [lost EXCEPT ![p] = now]
    /\ UNCHANGED <<tableVars, warnVars, now, queueVars, streamVars, call, calls, goneBefore,
                   subscribers, current>>

\* Mutant: the client is counted before the put that may fail.
DropCounted(p) ==
    /\ PublisherAt(p, "put", "warn")
    /\ \E c \in todo[p] :
          /\ ~Room(c)
          /\ Lose(p, c)
          /\ delivered' = [delivered EXCEPT ![p] = @ \cup {c}]

\* Mutant: the put blocks until the queue has room.
DropBlocked(p) ==
    /\ FALSE
    /\ PublisherAt(p, "put", "warn")
    /\ UNCHANGED <<tableVars, warnVars, now, queueVars, streamVars, callVars,
                   subscribers, todo, current, resultVars>>

\* Mutant: a queue with one place left counts as full.
DropEarly(p) ==
    /\ PublisherAt(p, "put", "warn")
    /\ \E c \in todo[p] :
          /\ MaxQueue # 0 /\ Size(c) >= MaxQueue - 1
          /\ Lose(p, c)
    /\ UNCHANGED delivered

\* queue.Full: the newest message is dropped and _warn_queue_full is called.
Drop(p) ==
    /\ PublisherAt(p, "put", "warn")
    /\ \E c \in todo[p] :
          /\ ~Room(c)
          /\ Lose(p, c)
    /\ UNCHANGED delivered

\* Mutant: the slot is reserved before the size is tested, and a warning skipped after.
GrowingSwapped(p) ==
    /\ PublisherAt(p, "growing", "put")
    /\ IF /\ Threshold # -1
          /\ ~(0 < MaxQueue /\ MaxQueue <= Threshold)
          /\ lastWarning = -1 \/ now - lastWarning >= Cooldown
       THEN /\ lastWarning' = now
            /\ warnings' = IF Size(current[p]) > Threshold THEN Append(warnings, now) ELSE warnings
       ELSE UNCHANGED warnVars
    /\ current' = [current EXCEPT ![p] = NoClient]
    /\ UNCHANGED <<tableVars, now, queueVars, streamVars, callVars,
                   subscribers, todo, resultVars>>

\* _warn_if_queue_growing reads the size again: others may have put or taken since.
Growing(p) ==
    /\ PublisherAt(p, "growing",
           IF /\ Threshold # -1
              /\ ~(0 < MaxQueue /\ MaxQueue <= Threshold)
              /\ Size(current[p]) > Threshold
           THEN "warn" ELSE "put")
    /\ current' = [current EXCEPT ![p] = NoClient]
    /\ UNCHANGED <<tableVars, warnVars, now, queueVars, streamVars, callVars,
                   subscribers, todo, resultVars>>

\* Mutant: no cooldown.
WarnAlways(p) ==
    /\ PublisherAt(p, "warn", "put")
    /\ lastWarning' = now
    /\ warnings' = Append(warnings, now)
    /\ UNCHANGED <<tableVars, now, queueVars, streamVars, callVars,
                   subscribers, todo, current, resultVars>>

\* _should_warn under _meta_lock: one slot for all clients and both kinds of warning.
Warn(p) ==
    /\ PublisherAt(p, "warn", "put")
    /\ IF lastWarning # -1 /\ now - lastWarning < Cooldown
       THEN UNCHANGED warnVars
       ELSE /\ lastWarning' = now
            /\ warnings' = Append(warnings, now)
    /\ UNCHANGED <<tableVars, now, queueVars, streamVars, callVars,
                   subscribers, todo, current, resultVars>>

Return(p) ==
    /\ todo[p] = {}
    /\ PublisherAt(p, "put", "idle")
    /\ lost' = [lost EXCEPT ![p] = -1]
    /\ UNCHANGED <<tableVars, warnVars, now, queueVars, streamVars, call, calls, goneBefore,
                   subscribers, todo, current, resultVars>>

\* A call runs to its end by itself.
Publish(p) ==
    \/ FindLock(p) \/ AllRemoved(p) \/ CopySubscribers(p) \/ Deliver(p) \/ Drop(p)
    \/ Growing(p) \/ Warn(p) \/ Return(p)

-----------------------------------------------------------------------------
\* The client's sender takes a notification out, until it removes the client.
Take(c) ==
    /\ Size(c) > 0 /\ registrar[c] \notin {"removing", "gone"}
    /\ taken' = [taken EXCEPT ![c] = @ + 1]
    /\ UNCHANGED <<tableVars, warnVars, now, put, streamVars, publishVars>>

Tick ==
    /\ now < MaxTime
    /\ now' = now + 1
    /\ UNCHANGED <<tableVars, warnVars, queueVars, streamVars, publishVars>>

Finished ==
    /\ \A c \in Clients : registrar[c] = "gone"
    /\ \A p \in Publishers : publisher[p] = "idle" /\ calls[p] = MaxCalls[p]
    /\ UNCHANGED vars

Next ==
    \/ \E c \in Clients : Registrar(c) \/ Take(c)
    \/ \E p \in Publishers : Call(p) \/ Publish(p)
    \/ Tick \/ Finished

Spec == Init /\ [][Next]_vars
=============================================================================
