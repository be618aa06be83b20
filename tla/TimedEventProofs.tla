-------------------------- MODULE TimedEventProofs --------------------------
(* Proofs about TimedEvent for every number of cycles, uses and loops.     *)
EXTENDS TimedEventProperties, TLAPS

\* A loop that waits or runs its body has ticks left, only the application clears the event,
\* and a worker sets it only below N.
Inv ==
    /\ TypeOK
    /\ ~infinite /\ app \in {"wait", "alive?", "clear", "body"} => i < N
    /\ app = "clear" => event
    /\ worker = "set" => fired < N

USE DEF AppAt, WorkerAt, Alive, Bit, made, useVars, driftVars, timerVars, vars, TypeOK

\* What the table of the compensation yields.
LEMMA StrengthType ==
    ASSUME NEW d \in 0..9
    PROVE  /\ Compensated(d) \in -2..2
           /\ Compensation => Compensated(d) = IF d = 0 THEN 0
                                               ELSE IF d <= 2 THEN -1
                                               ELSE IF d <= 5 THEN -2
                                               ELSE IF d = 6 THEN 2 ELSE 1
<1>1. d = 0 \/ d = 1 \/ d = 2 \/ d = 3 \/ d = 4 \/ d = 5 \/ d = 6 \/ d = 7 \/ d = 8 \/ d = 9
  OBVIOUS
<1>2. /\ Strength[1] = -1 /\ Strength[2] = -1 /\ Strength[3] = -2 /\ Strength[4] = -2
      /\ Strength[5] = -2 /\ Strength[6] = 2 /\ Strength[7] = 1 /\ Strength[8] = 1
      /\ Strength[9] = 1
  BY DEF Strength
<1> QED
  BY <1>1, <1>2 DEF Compensated

\* A step of the clock's last digit.
LEMMA Digit ==
    ASSUME NEW x \in Int
    PROVE  /\ x % 10 \in 0..9
           /\ x \in -10..19 => x % 10 = IF x < 0 THEN x + 10 ELSE IF x < 10 THEN x ELSE x - 10
OBVIOUS

LEMMA InvInit == Init => Inv
<1> SUFFICES ASSUME Init PROVE Inv
  OBVIOUS
<1>1. i \in 0..N /\ fired \in 0..N /\ uses \in 0..MaxUses /\ loops \in 0..MaxLoops
  BY ConstantsAssumption DEF Init
<1>2. app = "out" /\ worker = "off"
  BY DEF Init
<1>3. stale \in 0..1 /\ seen \in Nat /\ merged \in Nat
  BY DEF Init
<1>4. event \in BOOLEAN /\ stop \in BOOLEAN
  BY DEF Init
<1>5. locked \in {"no", "held", "lost"} /\ backend \in {"thread", "process"}
  BY DEF Init
<1>6. adjust \in -2..2 /\ digit \in 0..9 /\ off \in Int /\ infinite \in BOOLEAN
  BY DEF Init
<1> QED
  BY <1>1, <1>2, <1>3, <1>4, <1>5, <1>6 DEF Inv

LEMMA InvStep == Inv /\ [Next]_vars => Inv'
<1> SUFFICES ASSUME Inv, [Next]_vars PROVE Inv'
  OBVIOUS
<1> USE ConstantsAssumption DEF Inv, ConstantsAssumption
<1>1. CASE Worker
  <2>1. CASE WorkerEnds
    BY <2>1 DEF WorkerEnds, Forgotten
  <2>2. CASE WorkerLocks
    BY <2>2 DEF WorkerLocks, ToStop
  <2>3. CASE WorkerSets
    BY <2>3 DEF WorkerSets
  <2>4. CASE WorkerWakes
    <3>1. CASE Thread /\ stop
      BY <2>4, <3>1 DEF WorkerWakes, Forgotten
    <3>2. CASE ~(Thread /\ stop)
      <4>1. PICK late \in Lates : /\ off' = off + adjust + late
                                  /\ digit' = (digit + adjust + late) % 10
        BY <2>4, <3>2 DEF WorkerWakes
      <4>2. off' \in Int /\ digit' \in 0..9
        <5>1. late \in Int /\ digit + adjust + late \in Int /\ off + adjust + late \in Int
          OBVIOUS
        <5> QED
          BY <4>1, <5>1, Digit
      <4>3. worker' = "test" /\ locked' = "held"
        BY <2>4, <3>2 DEF WorkerWakes
      <4>4. UNCHANGED <<made, app, useVars, event, stop, fired, merged, adjust>>
        BY <2>4, <3>2 DEF WorkerWakes
      <4> QED
        BY <4>2, <4>3, <4>4
    <3> QED
      BY <3>1, <3>2
  <2>5. CASE WorkerWarns
    BY <2>5, StrengthType DEF WorkerWarns
  <2> QED
    BY <1>1, <2>1, <2>2, <2>3, <2>4, <2>5 DEF Worker
<1>2. CASE WorkerCrash
  BY <1>2 DEF WorkerCrash, Killed, Forgotten
<1>3. CASE Loop
  <2>1. CASE WaitTrue
    BY <2>1 DEF WaitTrue
  <2>2. CASE WaitFalse
    BY <2>2 DEF WaitFalse
  <2>3. CASE StillAlive
    BY <2>3 DEF StillAlive
  <2>4. CASE Clear
    <3>1. (~infinite => i' < N) /\ app' = "body" /\ worker' = worker /\ fired' = fired
      BY <2>4 DEF Clear
    <3>2. event' \in BOOLEAN
      BY <2>4 DEF Clear
    <3>3. seen' \in Nat /\ UNCHANGED <<made, i, uses, loops, stale, locked, stop, merged, driftVars>>
      BY <2>4 DEF Clear
    <3> QED
      BY <3>1, <3>2, <3>3
  <2>5. CASE BodyEnds
    BY <2>5 DEF BodyEnds
  <2>6. CASE Join
    BY <2>6 DEF Join
  <2> QED
    BY <1>3, <2>1, <2>2, <2>3, <2>4, <2>5, <2>6 DEF Loop
<1>4. CASE Enter \/ EnterFails
  <2>0. StartWorker
    BY <1>4 DEF Enter, EnterFails
  <2>1. stale' \in 0..1
    BY <2>0 DEF StartWorker
  <2>2. app' \in {"in", "failed"} /\ worker' = "top" /\ uses' \in 0..MaxUses
    BY <1>4, <2>0 DEF Enter, EnterFails, StartWorker
  <2>3. fired' \in 0..N /\ seen' \in Nat /\ merged' \in Nat
    BY <2>0 DEF StartWorker
  <2>4. UNCHANGED <<made, event, locked, stop, i, loops>>
    BY <2>0 DEF StartWorker
  <2>5. adjust' \in -2..2 /\ off' \in Int /\ digit' \in 0..9
    BY <2>0 DEF StartWorker
  <2> QED
    BY <2>1, <2>2, <2>3, <2>4, <2>5
<1>5. CASE Iterate
  BY <1>5 DEF Iterate
<1>6. CASE Break
  BY <1>6 DEF Break
<1>7. CASE Exit
  <2>1. CASE ~Thread /\ Alive
    BY <1>7, <2>1 DEF Exit, Killed, Forgotten
  <2>2. CASE ~(~Thread /\ Alive)
    BY <1>7, <2>2 DEF Exit
  <2> QED
    BY <2>1, <2>2
<1>8. CASE UNCHANGED vars
  BY <1>8
<1> QED
  BY <1>1, <1>2, <1>3, <1>4, <1>5, <1>6, <1>7, <1>8 DEF Next

\* The state of a TimedEvent keeps its types; in particular no loop over it runs its body
\* more than n times, and no worker fires more than n ticks.
THEOREM TypeCorrect == Spec => []TypeOK
<1>1. Inv => TypeOK
  BY DEF Inv
<1> QED
  BY InvInit, InvStep, <1>1, PTL DEF Spec

-----------------------------------------------------------------------------
LEMMA TicksStep == Inv /\ TicksAccounted /\ [Next]_vars => TicksAccounted'
<1> SUFFICES ASSUME Inv, TicksAccounted, [Next]_vars PROVE TicksAccounted'
  OBVIOUS
<1> USE DEF Inv, TicksAccounted
<1>1. CASE Worker
  <2>1. CASE WorkerSets
    BY <2>1 DEF WorkerSets
  <2>2. CASE WorkerEnds \/ WorkerLocks \/ WorkerWakes \/ WorkerWarns
    BY <2>2 DEF WorkerEnds, WorkerLocks, WorkerWakes, WorkerWarns
  <2> QED
    BY <1>1, <2>1, <2>2 DEF Worker
<1>2. CASE Loop
  <2>1. CASE Clear
    BY <2>1 DEF Clear
  <2>2. CASE WaitTrue \/ WaitFalse \/ StillAlive \/ BodyEnds \/ Join
    BY <2>2 DEF WaitTrue, WaitFalse, StillAlive, BodyEnds, Join
  <2> QED
    BY <1>2, <2>1, <2>2 DEF Loop
<1>3. CASE Enter \/ EnterFails
  BY <1>3 DEF Enter, EnterFails, StartWorker
<1>4. CASE WorkerCrash \/ Iterate \/ Break \/ Exit \/ UNCHANGED vars
  BY <1>4 DEF WorkerCrash, Killed, Iterate, Break, Exit
<1> QED
  BY <1>1, <1>2, <1>3, <1>4 DEF Next

\* However worker, waits, task and crashes interleave, no tick is lost unseen and none is
\* taken twice: the ticks fired are those the task took, the pending one and the merged ones.
THEOREM TicksAccountedHolds == Spec => []TicksAccounted
<1>1. Init => TicksAccounted
  BY DEF Init, TicksAccounted
<1> QED
  BY InvInit, InvStep, TicksStep, <1>1, PTL DEF Spec

-----------------------------------------------------------------------------
\* Where the cycles may be when the clock shows digit d.  Below 6 the compensation shortens,
\* from 6 on it lengthens: a late worker is either on its way back to the slot it left, or
\* pushed on to the next one, and none that is ahead falls behind.
Near(d, o) ==
    /\ o >= (IF d <= 5 THEN d - 5 ELSE 0)
    /\ o <= (IF d <= 3 THEN d + 6 ELSE IF d <= 7 THEN 2 ELSE d - 4)

\* After a sleep the cycles are near; until then the next sleep is the digit's, or the first one.
DriftInv ==
    Compensation /\ Lates \subseteq 0..2 =>
        \/ off = 0 /\ adjust = 0 /\ worker # "test"
        \/ Near(digit, off) /\ (worker # "test" => adjust = Compensated(digit))

\* One sleep, the first one or a compensated one.
LEMMA Sleep ==
    ASSUME NEW d \in 0..9, NEW o \in Int, NEW a \in Int, NEW late \in 0..2, Compensation,
           (o = 0 /\ a = 0) \/ (Near(d, o) /\ a = Compensated(d))
    PROVE  Near((d + a + late) % 10, o + a + late)
<1>1. PICK x \in Int : x = d + a + late
  OBVIOUS
<1>2. PICK e \in 0..9 : e = x % 10
  BY <1>1, Digit
<1>3. CASE o = 0 /\ a = 0
  <2>1. x \in 0..11 /\ o + a + late = late
    BY <1>1, <1>3
  <2>2. Near(e, late)
    BY <1>2 DEF Near
  <2> QED
    BY <1>1, <1>2, <2>1, <2>2
<1>4. CASE Near(d, o) /\ a = Compensated(d)
  <2>1. a = IF d = 0 THEN 0 ELSE IF d <= 2 THEN -1 ELSE IF d <= 5 THEN -2
                            ELSE IF d = 6 THEN 2 ELSE 1
    BY <1>4, StrengthType
  <2>2. x \in -10..19
    BY <1>1, <2>1
  <2>3. e = IF x < 0 THEN x + 10 ELSE IF x < 10 THEN x ELSE x - 10
    BY <1>2, <2>2, Digit
  <2>4. Near(e, o + a + late)
    BY <1>1, <1>4, <2>1, <2>3 DEF Near
  <2> QED
    BY <1>1, <1>2, <2>4
<1> QED
  BY <1>3, <1>4

LEMMA DriftStep == Inv /\ DriftInv /\ [Next]_vars => DriftInv'
<1> SUFFICES ASSUME Inv, DriftInv, [Next]_vars, Compensation, Lates \subseteq 0..2
             PROVE  \/ off' = 0 /\ adjust' = 0 /\ worker' # "test"
                    \/ /\ Near(digit', off')
                       /\ worker' # "test" => adjust' = Compensated(digit')
  BY DEF DriftInv, Compensated
<1>0. /\ off \in Int /\ digit \in 0..9 /\ adjust \in Int
      /\ \/ off = 0 /\ adjust = 0 /\ worker # "test"
         \/ Near(digit, off) /\ (worker # "test" => adjust = Compensated(digit))
  BY DEF Inv, DriftInv
<1>1. CASE Worker
  <2>1. CASE WorkerEnds
    BY <2>1 DEF WorkerEnds, Forgotten
  <2>2. CASE WorkerLocks
    BY <1>0, <2>2 DEF WorkerLocks
  <2>3. CASE WorkerSets
    BY <1>0, <2>3 DEF WorkerSets
  <2>4. CASE WorkerWakes
    <3>1. CASE Thread /\ stop
      BY <2>4, <3>1 DEF WorkerWakes, Forgotten
    <3>2. CASE ~(Thread /\ stop)
      <4>1. PICK late \in Lates : /\ off' = off + adjust + late
                                  /\ digit' = (digit + adjust + late) % 10
        BY <2>4, <3>2 DEF WorkerWakes
      <4>2. worker = "sleep" /\ worker' = "test"
        BY <2>4, <3>2 DEF WorkerWakes
      <4>3. late \in 0..2
        OBVIOUS
      <4>4. Near((digit + adjust + late) % 10, off + adjust + late)
        BY <1>0, <4>2, <4>3, Sleep
      <4> QED
        BY <4>1, <4>2, <4>4
    <3> QED
      BY <3>1, <3>2
  <2>5. CASE WorkerWarns
    BY <1>0, <2>5 DEF WorkerWarns
  <2> QED
    BY <1>1, <2>1, <2>2, <2>3, <2>4, <2>5 DEF Worker
<1>2. CASE Loop
  <2>1. UNCHANGED <<worker, driftVars>>
    BY <1>2 DEF Loop, WaitTrue, WaitFalse, StillAlive, Clear, BodyEnds, Join
  <2> QED
    BY <1>0, <2>1
<1>3. CASE WorkerCrash
  BY <1>3 DEF WorkerCrash, Killed, Forgotten
<1>4. CASE Enter \/ EnterFails
  BY <1>4 DEF Enter, EnterFails, StartWorker
<1>5. CASE Iterate \/ Break \/ UNCHANGED vars
  <2>1. UNCHANGED <<worker, driftVars>>
    BY <1>5 DEF Iterate, Break
  <2> QED
    BY <1>0, <2>1
<1>6. CASE Exit
  <2>1. CASE ~Thread /\ Alive
    BY <1>6, <2>1 DEF Exit, Killed, Forgotten
  <2>2. CASE ~(~Thread /\ Alive)
    <3>1. UNCHANGED <<worker, driftVars>>
      BY <1>6, <2>2 DEF Exit
    <3> QED
      BY <1>0, <3>1
  <2> QED
    BY <2>1, <2>2
<1> QED
  BY <1>1, <1>2, <1>3, <1>4, <1>5, <1>6 DEF Next

\* Whatever time a worker starts at and however its cycles are late within 0..2 units, the
\* compensation keeps their sum less than a digit of s off.
THEOREM CyclesOnTimeHolds == Spec => []CyclesOnTime
<1>1. Init => DriftInv
  BY DEF Init, DriftInv
<1>2. Inv /\ DriftInv => CyclesOnTime
  BY DEF Inv, DriftInv, CyclesOnTime, Near
<1> QED
  BY InvInit, InvStep, DriftStep, <1>1, <1>2, PTL DEF Spec
=============================================================================
