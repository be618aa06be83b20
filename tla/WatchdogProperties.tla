------------------------- MODULE WatchdogProperties -------------------------
(* What the dashboard shows, against what happened on the server.          *)
EXTENDS Watchdog

Events == [id : Nat, sender : Senders]
Counts == [Senders -> Nat \cup {Unknown}]
Snapshots == [counts : Counts, events : Seq(Events), total : Nat]

\* Every variable ranges over the values its counterpart can take; ring, queue and feed keep
\* their limits.
TypeOK ==
    /\ stats \in Counts
    /\ events \in Seq(Events) /\ Len(events) <= MaxEvents
    /\ total \in Nat
    /\ uplink \in [Senders -> Seq({"event", "request"})]
    /\ downlink \in Seq(Snapshots) /\ Len(downlink) <= MaxQueue
    /\ connects \in [Senders -> Nat]
    /\ fired \in 0..MaxFired
    /\ running \in BOOLEAN
    /\ latest \in Snapshots
    /\ isRefreshing \in BOOLEAN
    /\ asked \in Nat
    /\ \A a \in answers : a \in Snapshots
    /\ lastTotal \in Nat \cup {-1}
    /\ rows \in Seq(Events) /\ Len(rows) <= MaxRows
    /\ shown \in [messages : Nat, events : Nat]
    /\ troubles \in 0..MaxTroubles

\* The feed shows events once and in the order the server numbered them, up to the total it
\* has reached.  It leaves one out only where more than a whole ring arrived between two
\* looks: what follows a gap is the entire ring of that moment.
FeedExact ==
    /\ rows # <<>> => Last(rows).id = lastTotal - 1
    /\ \A i \in 1..(Len(rows) - 1) :
          LET next == rows[i + 1].id
          IN  \/ next = rows[i].id + 1
              \/ /\ next > rows[i].id
                 /\ Len(rows) - i >= MaxEvents
                 /\ \A k \in 1..MaxEvents : rows[i + k].id = next + k - 1

\* The header's two numbers come from one moment of the server: the messages of all cards
\* never exceed the events, and equal them as long as no name has connected twice.
CountsAgree ==
    /\ shown.messages <= shown.events
    /\ (\A s \in Senders : connects[s] <= 1) => shown.messages = shown.events

\* Once no more events are fired the feed reaches the server's total and stays there, although
\* snapshots are dropped, fetches fail and the page is loaded again, unless the dashboard quits.
FeedCatchesUp ==
    <>[](total = 0 \/ lastTotal = total \/ ~running)
=============================================================================
