--------------------------- MODULE MCDataRegister ---------------------------
(* Small registers for TLC.                                                *)
EXTENDS DataRegisterProperties, TLC

CONSTANTS c1, c2, t1, t2, nobody, p1, p2

\* What the clients register, one of them a name it lists twice.
Required == (c1 :> <<t1, t1>>) @@ (c2 :> <<t1, t2>>)

\* A client's receive worker fans out; the server does so too, or sends to one client.
MixedCalls ==
    (p1 :> {[sender |-> c1, topic |-> t1, target |-> nobody]}) @@
    (p2 :> {[sender |-> nobody, topic |-> t1, target |-> nobody],
            [sender |-> nobody, topic |-> t1, target |-> c2]})

\* The client publishes twice, the server once.
TwiceAndOnce == (p1 :> 2) @@ (p2 :> 1)

\* The clock need not run before there is a warning: only the time that passes between
\* warnings is ever tested.
ClockMatters == now > 0 => warnings # <<>>

\* The client's second call meets a targeted call of the server, its first one any.
SecondMeetsTargeted == calls[p1] = 2 => calls[p2] = 0 \/ call[p2].target = c2

=============================================================================
