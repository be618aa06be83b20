--------------------------- MODULE MCStreamServer ---------------------------
(* Small brokers for TLC: what their clients require and publish.          *)
EXTENDS StreamServerProperties, TLC

CONSTANTS c1, c2, t1, t2

\* Both clients subscribe to the same topic.
SameTopic == [s \in Streams |-> <<t1>>]

\* A client that lists a topic twice beside one that does not.
ListedTwice == (c1 :> <<t1>>) @@ (c2 :> <<t1, t1>>)

\* One client of two topics.
WantsBoth == c1 :> <<t1, t2>>

\* Budgets: only the server publishes, only client c1 does, or each once.
ServerPublishes == [p \in Streams \cup {Pusher} |-> IF p = Pusher THEN 1 ELSE 0]
ClientPublishes == [p \in Streams \cup {Pusher} |-> IF p = c1 THEN 2 ELSE 0]
BothPublish == [p \in Streams \cup {Pusher} |-> IF p \in {c1, Pusher} THEN 1 ELSE 0]

\* Bound of the routing run: the server is not shut down (other runs do that).
StaysUp == ~globalExit /\ main \in {"starting", "serving"}

=============================================================================
