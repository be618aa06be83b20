------------------------ MODULE TimedEventProperties ------------------------
(* What a TimedEvent promises the task it paces.                           *)
EXTENDS TimedEvent

\* Every variable ranges over the values its Python counterpart can take.
TypeOK ==
    /\ backend \in {"thread", "process"}
    /\ app \in {"out", "in", "wait", "alive?", "clear", "body", "join", "failed"}
    /\ worker \in {"off", "top", "set", "sleep", "test", "dead"}
    /\ event \in BOOLEAN /\ stop \in BOOLEAN
    /\ locked \in {"no", "held", "lost"}
    /\ infinite \in BOOLEAN
    /\ i \in Nat /\ fired \in 0..N
    /\ ~infinite => i <= N
    /\ uses \in 0..MaxUses /\ loops \in 0..MaxLoops
    /\ seen \in Nat /\ merged \in Nat /\ stale \in 0..1
    /\ adjust \in -2..2 /\ digit \in 0..9 /\ off \in Int

\* Every tick the worker fired was taken by the task, is pending, or merged with one that
\* was: none is cleared unseen, and none is taken twice.
TicksAccounted == seen + Bit(event) + merged = fired + stale

\* "With compensation the timer is more stable w.r.t. number of cycles within a specific time
\* interval": as long as no cycle is late by more than a fifth of the last digit of s, the
\* worker is at every moment less than one such digit off the time its cycles should take.
CyclesOnTime == Compensation /\ Lates \subseteq 0..2 => off \in -9..9

\* A for loop over the context ends, however slow the task and whatever ticks were merged:
\* the iteration never waits for a tick nobody will fire.  (A worker process that dies with
\* the event's lock is what the thread backend does not have.)
LoopEnds ==
    ~infinite /\ app \in {"wait", "alive?", "clear", "body"} ~> app = "in" \/ locked = "lost"

\* __exit__ returns, also while the worker sleeps or never ends by itself.
ExitReturns == app = "join" ~> app = "out"
=============================================================================
