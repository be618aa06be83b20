--------------------------- MODULE MCStreamClient ---------------------------
(* Small clients for TLC: what is sent on each of their connections.       *)
EXTENDS StreamClientProperties

\* A bound for every connection.
Never == [g \in Gens |-> 0]
Once == [g \in Gens |-> 1]
Twice == [g \in Gens |-> 2]

\* Bound of the reconnection run: two data messages sent, or one received, on the two
\* connections together.  A stream with two sent may still be cancelled, by either side, but
\* a normal end (for the client the same) or an error comes only with fewer.
TwoSentOrOneReceived ==
    /\ sendCount + 2 * Cardinality({g \in Gens : inCount[g] > 1}) <= 2
    /\ sendCount = 2 => \A g \in Gens : ended[g] \notin {"ok", "error"}
=============================================================================
