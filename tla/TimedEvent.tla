----------------------------- MODULE TimedEvent -----------------------------
(***************************************************************************)
(* A TimedEvent of pookiepy/timer.py: the application enters the context,  *)
(* iterates over it and leaves it, possibly several times, while a WORKER  *)
(* (a thread or a spawned process) runs timer() and sets the shared event  *)
(* once per cycle.                                                         *)
(*                                                                         *)
(* The event is one bit behind a lock.  A worker process may die at any    *)
(* point, by __exit__'s terminate() or otherwise, and takes the lock along *)
(* when it dies inside set() or is_set().  For the application time is     *)
(* abstract: the wait's timeout and the task body take as long as they     *)
(* take.  The worker's clock is kept, in units of compensation_strength, a *)
(* tenth of the last digit of s: s is a multiple of ten units, and the     *)
(* digit that the drift compensation reads is the clock's last one.        *)
(***************************************************************************)
EXTENDS Integers

CONSTANTS N,        \* n: cycles of a worker; bound of its cycles when n = -1
          MaxUses,  \* bound: with statements over the same object
          MaxLoops, \* bound: for loops over it
          Compensation, \* enable_compensation, as constructed
          Digits,   \* bound: the clock's digit when a worker starts
          Lates     \* bound: units by which a cycle is longer than its s

ASSUME ConstantsAssumption ==
    /\ N \in Nat \ {0} /\ MaxUses \in Nat /\ MaxLoops \in Nat
    /\ Compensation \in BOOLEAN
    /\ Digits \subseteq 0..9 /\ Lates \subseteq Nat

VARIABLES
    backend,       \* "thread" or "process", as constructed
    infinite,      \* n = -1, as constructed
    app,           \* where the application is
    worker,        \* where the worker is; "set" and "test" hold the lock
    event,         \* _event
    locked,        \* the event's lock is held by nobody, by the worker, or lost with it
    stop,          \* _stop_event
    i,             \* ticks of the current loop
    uses, loops,   \* with statements entered and loops begun
    fired,         \* sets of the event by the current worker
    seen,          \* ticks the application has taken since it entered
    merged,        \* sets that found the event still set
    stale,         \* 1 when the event was set on entry
    adjust,        \* s - s_orig of the worker's next sleep
    digit,         \* the clock's relevant digit
    off            \* how much longer than s_orig each its cycles were in all

made == <<backend, infinite>>
useVars == <<i, uses, loops, seen, stale>>
driftVars == <<adjust, digit, off>>
timerVars == <<made, worker, event, locked, stop, fired, merged, driftVars>>
vars == <<app, useVars, timerVars>>

AppAt(from, to) == app = from /\ app' = to
WorkerAt(from, to) == worker = from /\ worker' = to
Alive == worker \notin {"off", "dead"}
Thread == backend = "thread"
Bit(b) == IF b THEN 1 ELSE 0

Init ==
    /\ backend \in {"thread", "process"}
    /\ infinite \in BOOLEAN
    /\ app = "out"
    /\ worker = "off"
    /\ event = FALSE
    /\ locked = "no"
    /\ stop = FALSE
    /\ i = 0 /\ uses = 0 /\ loops = 0
    /\ fired = 0 /\ seen = 0 /\ merged = 0 /\ stale = 0
    /\ adjust = 0 /\ digit = 0 /\ off = 0

\* CLOCK_COMPENSATION_STRENGTH.
Strength == <<-1, -1, -2, -2, -2, 2, 1, 1, 1>>
Compensated(d) == IF Compensation /\ d # 0 THEN Strength[d] ELSE 0

\* The worker's locals go with it.
Forgotten == adjust' = 0 /\ digit' = 0 /\ off' = 0

\* n cycles are over, or the thread is asked to stop.
AllFired == fired = N /\ ~infinite
ToStop == AllFired \/ (Thread /\ stop)

-----------------------------------------------------------------------------
(* The worker: timer().                                                    *)

\* The top of a cycle: no cycle left, a requested stop, or the lock for event.set().
WorkerEnds ==
    /\ ToStop
    /\ WorkerAt("top", "dead")
    /\ Forgotten
    /\ UNCHANGED <<made, app, useVars, event, locked, stop, fired, merged>>

WorkerLocks ==
    /\ ~ToStop /\ fired < N
    /\ WorkerAt("top", "set")
    /\ locked = "no" /\ locked' = "held"
    /\ UNCHANGED <<made, app, useVars, event, stop, fired, merged, driftVars>>

WorkerSets ==
    /\ WorkerAt("set", "sleep")
    /\ locked' = "no"
    /\ event' = TRUE
    /\ fired' = fired + 1
    /\ merged' = merged + Bit(event)
    /\ UNCHANGED <<made, app, useVars, stop, driftVars>>

\* The sleep of s + adjust is over, on time or late, or the stop event ends it early; then
\* event.is_set() for a warning.
WorkerWakes ==
    /\ IF Thread /\ stop
       THEN WorkerAt("sleep", "dead") /\ Forgotten /\ UNCHANGED locked
       ELSE /\ WorkerAt("sleep", "test") /\ locked = "no" /\ locked' = "held"
            /\ \E late \in Lates :
                  /\ off' = off + adjust + late
                  /\ digit' = (digit + adjust + late) % 10
            /\ UNCHANGED adjust
    /\ UNCHANGED <<made, app, useVars, event, stop, fired, merged>>

\* Mutant: the compensation adds to the adjusted s instead of to s_orig.
WorkerWarnsAdding ==
    /\ WorkerAt("test", "top")
    /\ locked' = "no"
    /\ adjust' = adjust + Compensated(digit)
    /\ UNCHANGED <<made, app, useVars, event, stop, fired, merged, digit, off>>

\* The warning, and the next cycle's s from the digit the clock shows.
WorkerWarns ==
    /\ WorkerAt("test", "top")
    /\ locked' = "no"
    /\ adjust' = Compensated(digit)
    /\ UNCHANGED <<made, app, useVars, event, stop, fired, merged, digit, off>>

\* The worker process dies; what it holds stays locked.
Killed ==
    /\ worker' = "dead"
    /\ locked' = IF locked = "held" THEN "lost" ELSE locked
    /\ Forgotten

WorkerCrash ==
    /\ ~Thread /\ Alive
    /\ Killed
    /\ UNCHANGED <<made, app, useVars, event, stop, fired, merged>>

Worker == WorkerEnds \/ WorkerLocks \/ WorkerSets \/ WorkerWakes \/ WorkerWarns

-----------------------------------------------------------------------------
(* The application.                                                        *)

\* __enter__ starts a worker, at whatever time; neither event is reset.
StartWorker ==
    /\ uses < MaxUses
    /\ uses' = uses + 1
    /\ worker' = "top"
    /\ fired' = 0 /\ seen' = 0 /\ merged' = 0
    /\ stale' = Bit(event)
    /\ adjust' = 0 /\ off' = 0 /\ digit' \in Digits
    /\ UNCHANGED <<made, event, locked, stop, i, loops>>

Enter == AppAt("out", "in") /\ StartWorker

\* psutil refuses the worker process its priority, or does not find it any more: __enter__
\* raises, __exit__ does not run and the process stays.  Nobody enters the object again.
EnterFails == ~Thread /\ AppAt("out", "failed") /\ StartWorker

Iterate ==
    /\ loops < MaxLoops
    /\ AppAt("in", "wait")
    /\ loops' = loops + 1
    /\ i' = 0
    /\ UNCHANGED <<uses, seen, stale, timerVars>>

\* event.wait returns True ...
WaitTrue ==
    /\ AppAt("wait", "clear")
    /\ event /\ locked = "no"
    /\ UNCHANGED <<useVars, timerVars>>

\* ... or False after ten periods; is_alive comes after it, when the event may be set again.
WaitFalse ==
    /\ AppAt("wait", "alive?")
    /\ ~event /\ locked = "no"
    /\ UNCHANGED <<useVars, timerVars>>

\* Mutant: the wait goes on whether or not the worker lives.
StillAlways ==
    /\ AppAt("alive?", "wait")
    /\ UNCHANGED <<useVars, timerVars>>

StillAlive ==
    /\ AppAt("alive?", IF Alive THEN "wait" ELSE "in")
    /\ UNCHANGED <<useVars, timerVars>>

Clear ==
    /\ AppAt("clear", "body")
    /\ locked = "no"
    /\ event' = FALSE
    /\ seen' = seen + 1
    /\ UNCHANGED <<made, i, uses, loops, stale, worker, locked, stop, fired, merged, driftVars>>

\* Mutant: the event is cleared again after the task body.
BodyEndsCleared ==
    /\ AppAt("body", IF ~infinite /\ i + 1 >= N THEN "in" ELSE "wait")
    /\ i' = i + 1
    /\ event' = FALSE
    /\ UNCHANGED <<made, uses, loops, seen, stale, worker, locked, stop, fired, merged,
                   driftVars>>

\* Mutant: the loop ends one task body too late.
BodyEndsLate ==
    /\ AppAt("body", IF ~infinite /\ i >= N THEN "in" ELSE "wait")
    /\ i' = i + 1
    /\ UNCHANGED <<uses, loops, seen, stale, timerVars>>

\* The task body returns; the loop ends after n of them.
BodyEnds ==
    /\ AppAt("body", IF ~infinite /\ i + 1 >= N THEN "in" ELSE "wait")
    /\ i' = i + 1
    /\ UNCHANGED <<uses, loops, seen, stale, timerVars>>

\* break or an exception in the body, or Ctrl+C anywhere in the loop.
Break ==
    /\ \E at \in {"body", "wait", "alive?", "clear"} : AppAt(at, "in")
    /\ UNCHANGED <<useVars, timerVars>>

\* Mutant: __exit__ does not ask the thread to stop.
ExitUnstopped ==
    /\ AppAt("in", "join")
    /\ IF ~Thread /\ Alive THEN Killed ELSE UNCHANGED <<worker, locked, driftVars>>
    /\ UNCHANGED <<useVars, made, event, stop, fired, merged>>

\* __exit__ asks the thread to stop or terminates the process ...
Exit ==
    /\ AppAt("in", "join")
    /\ IF Thread THEN stop' = TRUE ELSE UNCHANGED stop
    /\ IF ~Thread /\ Alive THEN Killed ELSE UNCHANGED <<worker, locked, driftVars>>
    /\ UNCHANGED <<useVars, made, event, fired, merged>>

\* ... and joins it.
Join ==
    /\ AppAt("join", "out")
    /\ ~Alive
    /\ UNCHANGED <<useVars, timerVars>>

Loop == WaitTrue \/ WaitFalse \/ StillAlive \/ Clear \/ BodyEnds \/ Join

Next == Worker \/ WorkerCrash \/ Loop \/ Enter \/ EnterFails \/ Iterate \/ Break \/ Exit

Spec == Init /\ [][Next]_vars

\* The worker is scheduled and its sleeps end; waits end and task bodies return.
FairSpec == Spec /\ WF_vars(Worker) /\ WF_vars(Loop)
=============================================================================
