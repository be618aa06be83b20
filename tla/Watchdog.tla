------------------------------ MODULE Watchdog ------------------------------
(***************************************************************************)
(* The dashboard of examples/watchdog, from the message that a client      *)
(* fires to the row that the browser shows for it.                         *)
(*                                                                         *)
(* The SERVER counts messages per client and keeps the last MaxEvents of   *)
(* them in a ring.  The POLLER, a client of the server, asks for snapshots *)
(* in a thread of its own and keeps the latest one; Flask hands it to the  *)
(* BROWSER, which polls as well and appends what it has not yet shown by   *)
(* comparing totals.  Every hop copies, so every copy may be stale.        *)
(*                                                                         *)
(* Streams are FIFO (StreamSession); here a stream is what was sent on it  *)
(* and not handled yet.                                                    *)
(***************************************************************************)
EXTENDS Integers, Sequences, SequencesExt, FiniteSetsExt

CONSTANTS Letters,     \* the AlphabetClients, by name
          UI,          \* "dashboard_ui", the name of the poller
          MaxEvents,   \* MAX_EVENTS of the server's ring
          MaxRows,     \* MAX_ROWS of the browser's feed
          MaxQueue,    \* max_queue_elements of the poller's stream
          MaxFired,    \* bound: events fired
          MaxConnects, \* bound: connections under each name
          MaxRequests, \* bound: polls the server has not handled
          MaxTroubles  \* bound: fetches that fail while the dashboard runs, and reloads

ASSUME ConstantsAssumption ==
    /\ UI \notin Letters /\ IsFiniteSet(Letters)
    /\ {MaxEvents, MaxRows, MaxQueue} \subseteq Nat \ {0}
    /\ MaxConnects \in [Letters \cup {UI} -> Nat]
    /\ {MaxFired, MaxRequests, MaxTroubles} \subseteq Nat

VARIABLES
    stats,        \* _client_stats: messages counted per name, Unknown before it connects
    events,       \* _events
    total,        \* _total_events
    uplink,       \* what the clients of each name have sent and the server has not handled
    downlink,     \* snapshots put into the poller's queue and not received
    connects,     \* connections made under each name
    fired,        \* events fired
    running,      \* the dashboard process and its clients
    latest,       \* the poller's _latest_clients, _latest_events and _total_events
    isRefreshing, \* the browser's flag
    asked,        \* fetches without an answer
    answers,      \* answers on their way to the browser
    lastTotal,    \* the browser's lastTotal, -1 before the first render
    rows,         \* the rows of the event feed
    shown,        \* the totals in the page's header: messages of all cards, events
    troubles      \* fetches that have failed and reloads

serverVars  == <<stats, events, total>>
clientVars  == <<connects, fired, running>>
browserVars == <<isRefreshing, asked, answers, lastTotal, rows, shown, troubles>>
vars == <<serverVars, uplink, downlink, clientVars, latest, browserVars>>

Senders == Letters \cup {UI}
Unknown == -1
Counted(counts) == {s \in Senders : counts[s] # Unknown}
Messages(counts) == FoldSet(LAMBDA s, sum : counts[s] + sum, 0, Counted(counts))

\* The last n elements of a sequence, all of it if it is shorter.
Newest(n, seq) == SubSeq(seq, IF Len(seq) > n THEN Len(seq) - n + 1 ELSE 1, Len(seq))

EmptySnapshot == [counts |-> [s \in Senders |-> Unknown], events |-> <<>>, total |-> 0]

Init ==
    /\ stats = [s \in Senders |-> Unknown]
    /\ events = <<>>
    /\ total = 0
    /\ uplink = [s \in Senders |-> <<>>]
    /\ downlink = <<>>
    /\ connects = [s \in Senders |-> 0]
    /\ fired = 0
    /\ running = TRUE
    /\ latest = EmptySnapshot
    /\ isRefreshing = FALSE
    /\ asked = 0
    /\ answers = {}
    /\ lastTotal = -1
    /\ rows = <<>>
    /\ shown = [messages |-> 0, events |-> 0]
    /\ troubles = 0

-----------------------------------------------------------------------------
(* Clients: one poller, one client per letter, and whoever else connects   *)
(* under one of their names.                                               *)

\* The dashboard connects its poller first, then the letters; others may use their names.
MayConnect(s) ==
    /\ running /\ connects[s] < MaxConnects[s]
    /\ s # UI => connects[UI] > 0

\* on_client_connect starts the name's statistics anew.
Connect(s) ==
    /\ MayConnect(s)
    /\ connects' = [connects EXCEPT ![s] = @ + 1]
    /\ stats' = [stats EXCEPT ![s] = 0]
    /\ UNCHANGED <<events, total, uplink, downlink, fired, running, latest, browserVars>>

\* The clients named each send one event.
Fire(names) ==
    /\ running
    /\ fired + Cardinality(names) <= MaxFired
    /\ fired' = fired + Cardinality(names)
    /\ uplink' = [s \in Senders |-> IF s \in names THEN Append(uplink[s], "event") ELSE uplink[s]]
    /\ UNCHANGED <<serverVars, downlink, connects, running, latest, browserVars>>

\* _keyboard_loop starts when every letter is connected: a letter, a random one or all.
KeyPress ==
    /\ \A l \in Letters : connects[l] > 0
    /\ \E names \in {{l} : l \in Letters} \cup {Letters} : Fire(names)

\* /api/fire is there before: it picks among the letters connected so far.
ApiFire == \E l \in Letters : connects[l] > 0 /\ Fire({l})

\* /api/send forwards a text through the poller's stream.
ApiSend == connects[UI] > 0 /\ Fire({UI})

\* _poll_loop, as long as the poller's run event is set.
Poll ==
    /\ running /\ connects[UI] > 0
    /\ Cardinality({i \in DOMAIN uplink[UI] : uplink[UI][i] = "request"}) < MaxRequests
    /\ uplink' = [uplink EXCEPT ![UI] = Append(@, "request")]
    /\ UNCHANGED <<serverVars, downlink, clientVars, latest, browserVars>>

\* The keyboard loop ends: every client disconnects, what is on the streams is lost.
Quit ==
    /\ running
    /\ running' = FALSE
    /\ uplink' = [s \in Senders |-> <<>>]
    /\ downlink' = <<>>
    /\ UNCHANGED <<serverVars, connects, fired, latest, browserVars>>

-----------------------------------------------------------------------------
(* WatchdogServer.on_receive.                                              *)

Handled(s, name) ==
    /\ uplink[s] # <<>> /\ Head(uplink[s]) = name
    /\ uplink' = [uplink EXCEPT ![s] = Tail(@)]

\* Under _lock an event is counted, numbered and put into the ring.
ReceiveEvent(s) ==
    /\ Handled(s, "event")
    /\ stats' = [stats EXCEPT ![s] = @ + 1]
    /\ events' = Newest(MaxEvents, Append(events, [id |-> total, sender |-> s]))
    /\ total' = total + 1
    /\ UNCHANGED <<downlink, clientVars, latest, browserVars>>

\* Mutant: requests are counted as well.
ReceiveRequestCounted ==
    /\ Handled(UI, "request")
    /\ stats' = [stats EXCEPT ![UI] = @ + 1]
    /\ downlink' = IF Len(downlink) < MaxQueue
                   THEN Append(downlink, [counts |-> stats', events |-> events, total |-> total])
                   ELSE downlink
    /\ UNCHANGED <<events, total, clientVars, latest, browserVars>>

\* A request is answered by a snapshot taken under _lock, dropped if the queue is full.
ReceiveRequest ==
    /\ Handled(UI, "request")
    /\ downlink' = IF Len(downlink) < MaxQueue
                   THEN Append(downlink, [counts |-> stats, events |-> events, total |-> total])
                   ELSE downlink
    /\ UNCHANGED <<serverVars, clientVars, latest, browserVars>>

\* WatchdogPoller.on_receive, in the poller's receive thread.
StoreSnapshot ==
    /\ downlink # <<>>
    /\ latest' = Head(downlink)
    /\ downlink' = Tail(downlink)
    /\ UNCHANGED <<serverVars, uplink, clientVars, browserVars>>

-----------------------------------------------------------------------------
(* The browser: refresh() runs on a timer and after a message was sent.    *)

\* Mutant: nothing keeps a second refresh from overtaking the first.
RefreshUnguarded ==
    /\ asked + Cardinality(answers) < 2
    /\ isRefreshing' = TRUE
    /\ asked' = asked + 1
    /\ UNCHANGED <<serverVars, uplink, downlink, clientVars, latest,
                   answers, lastTotal, rows, shown, troubles>>

Refresh ==
    /\ ~isRefreshing
    /\ isRefreshing' = TRUE
    /\ asked' = asked + 1
    /\ UNCHANGED <<serverVars, uplink, downlink, clientVars, latest,
                   answers, lastTotal, rows, shown, troubles>>

\* api_stats answers with what latest() copies under the poller's lock.
ApiStats ==
    /\ running /\ asked > 0
    /\ asked' = asked - 1
    /\ answers' = answers \cup {latest}
    /\ UNCHANGED <<serverVars, uplink, downlink, clientVars, latest,
                   isRefreshing, lastTotal, rows, shown, troubles>>

\* Mutant: the flag is cleared in the try block only.
FetchFailsStuck ==
    /\ asked > 0
    /\ running => troubles < MaxTroubles
    /\ asked' = asked - 1
    /\ troubles' = IF running THEN troubles + 1 ELSE troubles
    /\ UNCHANGED <<serverVars, uplink, downlink, clientVars, latest,
                   isRefreshing, answers, lastTotal, rows, shown>>

\* The fetch raises, as every fetch does once the dashboard has ended: finally clears the flag.
FetchFails ==
    /\ asked > 0
    /\ running => troubles < MaxTroubles
    /\ asked' = asked - 1
    /\ isRefreshing' = FALSE
    /\ troubles' = IF running THEN troubles + 1 ELSE troubles
    /\ UNCHANGED <<serverVars, uplink, downlink, clientVars, latest,
                   answers, lastTotal, rows, shown>>

\* Mutant: pruning leaves a row too many.
PrunedLate(feed) == Newest(MaxRows + 1, feed)

\* appendEventRow removes the oldest row as soon as there are more than MAX_ROWS.
Pruned(feed) == Newest(MaxRows, feed)

\* renderEvents: everything at first, then as many of the newest as the total has grown.
NewEvents(a) ==
    IF lastTotal < 0 THEN a.events
    ELSE IF a.total > lastTotal THEN Newest(a.total - lastTotal, a.events)
    ELSE <<>>

\* The answer is rendered in one turn of the browser's loop; an empty ring changes no row.
Render ==
    \E a \in answers :
        /\ answers' = answers \ {a}
        /\ isRefreshing' = FALSE
        /\ shown' = [messages |-> IF Counted(a.counts) = {} THEN shown.messages
                                                            ELSE Messages(a.counts),
                     events |-> a.total]
        /\ IF a.events = <<>> THEN UNCHANGED <<lastTotal, rows>>
           ELSE /\ lastTotal' = a.total
                /\ rows' = Pruned((IF lastTotal < 0 THEN <<>> ELSE rows) \o NewEvents(a))
        /\ UNCHANGED <<serverVars, uplink, downlink, clientVars, latest, asked, troubles>>

\* Loading the page again starts the script from nothing.
Reload ==
    /\ running /\ troubles < MaxTroubles
    /\ troubles' = troubles + 1
    /\ isRefreshing' = FALSE
    /\ asked' = 0
    /\ answers' = {}
    /\ lastTotal' = -1
    /\ rows' = <<>>
    /\ shown' = [messages |-> 0, events |-> 0]
    /\ UNCHANGED <<serverVars, uplink, downlink, clientVars, latest>>

-----------------------------------------------------------------------------
Next ==
    \/ \E s \in Senders : Connect(s) \/ ReceiveEvent(s)
    \/ KeyPress \/ ApiFire \/ ApiSend \/ Poll \/ Quit \/ ReceiveRequest \/ StoreSnapshot
    \/ Refresh \/ ApiStats \/ FetchFails \/ Render \/ Reload

Spec == Init /\ [][Next]_vars

\* Streams deliver, the poll loop and the browser's timer go on; nobody need fire anything.
FairSpec ==
    /\ Spec
    /\ \A s \in Senders : WF_vars(ReceiveEvent(s))
    /\ WF_vars(Poll) /\ WF_vars(ReceiveRequest) /\ WF_vars(StoreSnapshot)
    /\ WF_vars(Refresh) /\ WF_vars(ApiStats) /\ WF_vars(Render)
=============================================================================
