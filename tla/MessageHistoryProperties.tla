---------------------- MODULE MessageHistoryProperties ----------------------
(* What a received history says of the way of its message.                 *)
EXTENDS MessageHistory

Delivered == UNION {{received[c][i] : i \in DOMAIN received[c]} : c \in Clients}

\* A received history names every hop once and in order: a client, the server, a client, ...,
\* and its last entry, the only one not sent on, is the receiver's.
HopsInOrder ==
    \A c \in Clients : \A i \in DOMAIN received[c] :
        LET h == received[c][i]
        IN  /\ \A k \in DOMAIN h : h[k].name = Server <=> k % 2 = 0
            /\ Len(h) % 2 = 1
            /\ h[Len(h)].name = c
            /\ \A k \in DOMAIN h : h[k].send = NotSent <=> k = Len(h)

\* The times of a received history never run backwards, so that transit times are not
\* negative and end-to-end is the time between first and last entry.
TimesInOrder ==
    \A h \in Delivered : \A k \in 1..(Len(h) - 1) :
        /\ h[k].recv <= h[k].send
        /\ h[k].send <= h[k + 1].recv

-----------------------------------------------------------------------------
(* What docs and comments of the code say and the code does not do.        *)

\* "perfCounter holds elapsed processing time (delta) for completed hops": the processing
\* time that evaluate_history logs of a hop is the time between its receive and send.
ProcessIsElapsed ==
    \A h \in Delivered : \A i \in DOMAIN Process(h) : Process(h)[i] = h[i].send - h[i].recv
=============================================================================
