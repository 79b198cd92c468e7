-------------------------- MODULE SchedRunnerProofs --------------------------
(***************************************************************************)
(* Theorems about SchedRunner for any number of callers of Run and Stop.   *)
(***************************************************************************)
EXTENDS SchedRunner, TLAPS

\* The initial state satisfies the inductive invariant.
LEMMA InitInv == Init => IndInv
<1> SUFFICES ASSUME Init PROVE IndInv
  OBVIOUS
<1> USE DEF Init
<1>1. TypeOK
  <2>1. ticking \in BOOLEAN /\ closed \in BOOLEAN
    OBVIOUS
  <2> QED BY <2>1 DEF TypeOK
<1>4. RunInv
  <2>1. closed = FALSE
    OBVIOUS
  <2> QED BY <2>1 DEF RunInv
<1>2. QueuedForOwed
  BY DEF QueuedForOwed, Owed
<1>3. StopInv
  BY NoStopperAssumption DEF StopInv
<1> QED BY <1>1, <1>2, <1>3, <1>4 DEF IndInv

\* Run queues a run for every caller it returns to.
LEMMA RunInvariant ==
  ASSUME IndInv, NEW c \in Caller, Run(c)
  PROVE  IndInv'
<1> USE DEF IndInv, TypeOK, loopVars
<1>1. CASE RunQueues(c)
  <2>1. TypeOK' /\ StopInv'
    BY <1>1 DEF RunQueues, StopInv
  <2>2. QueuedForOwed'
    BY <1>1 DEF RunQueues, QueuedForOwed, Owed
  <2>3. RunInv'
    <3>1. after = 0 /\ tickC \in 0 .. 1
      BY <1>1 DEF RunQueues, RunInv
    <3> QED BY <1>1, <3>1 DEF RunQueues, RunInv
  <2> QED BY <2>1, <2>2, <2>3
<1>2. CASE RunPanics(c)
  <2>1. Owed' = Owed
    BY <1>2 DEF RunPanics, Owed
  <2> QED BY <1>2, <2>1 DEF RunPanics, QueuedForOwed, StopInv, RunInv
<1> QED BY <1>1, <1>2 DEF Run

\* The goroutine and the ticker.
LEMMA LoopInvariant ==
  ASSUME IndInv,
         Start \/ Tick \/ SelectTick \/ SelectManual \/ SelectClosed \/ FnReturns
  PROVE  IndInv'
<1> USE DEF IndInv, TypeOK
<1>1. CASE Start \/ SelectClosed \/ FnReturns
  BY <1>1 DEF Start, SelectClosed, FnReturns, QueuedForOwed, Owed, StopInv, RunInv
<1>2. CASE Tick
  <2>1. after = 0
    BY <1>2 DEF Tick, StopInv, RunInv
  <2> QED BY <1>2, <2>1 DEF Tick, QueuedForOwed, Owed, StopInv, RunInv
<1>3. CASE SelectTick
  BY <1>3 DEF SelectTick, BeginRun, QueuedForOwed, Owed, StopInv, RunInv
<1>4. CASE SelectManual
  <2>1. Owed' = {}
    BY <1>4 DEF SelectManual, Owed
  <2> QED BY <1>4, <2>1 DEF SelectManual, BeginRun, QueuedForOwed, StopInv, RunInv
<1> QED BY <1>1, <1>2, <1>3, <1>4

\* The steps of Stop.
LEMMA StopInvariant ==
  ASSUME IndInv, NEW s \in Stopper, StopCalled(s) \/ StopStep(s)
  PROVE  IndInv'
<1> USE NoStopperAssumption DEF IndInv, TypeOK, MoveStop, loopVars
<1>1. QueuedForOwed'
  BY DEF StopCalled, StopStep, StopTicker, CloseManual, AwaitStopped, AwaitOnce,
         QueuedForOwed, Owed
<1>2. CASE StopCalled(s)
  BY <1>1, <1>2 DEF StopCalled, StopInv, RunInv
<1>3. CASE StopTicker(s)
  BY <1>1, <1>3 DEF StopTicker, StopInv, RunInv
<1>4. CASE CloseManual(s)
  BY <1>1, <1>4 DEF CloseManual, StopInv, RunInv
<1>5. CASE AwaitStopped(s)
  BY <1>1, <1>5 DEF AwaitStopped, StopInv, RunInv
<1>6. CASE AwaitOnce(s)
  BY <1>1, <1>6 DEF AwaitOnce, StopInv, RunInv
<1> QED BY <1>2, <1>3, <1>4, <1>5, <1>6 DEF StopStep

\* Every step preserves the inductive invariant.
LEMMA StepInv == IndInv /\ [Next]_vars => IndInv'
<1>1. IndInv /\ UNCHANGED vars => IndInv'
  BY DEF IndInv, TypeOK, QueuedForOwed, Owed, StopInv, RunInv, vars, loopVars
<1> QED
  BY <1>1, RunInvariant, LoopInvariant, StopInvariant DEF Next, Terminated

\* The inductive invariant holds in every reachable state.
THEOREM Invariance == Spec => []IndInv
BY InitInv, StepInv, PTL DEF Spec

\* The types of the runner's channels and of the calls in progress.
THEOREM TypeCorrect == Spec => []TypeOK
BY Invariance, PTL DEF IndInv

\* When a call of Stop has returned, the function neither runs nor will run.
THEOREM StopStops == Spec => []StoppedMeansStopped
<1>1. IndInv => StoppedMeansStopped
  BY DEF IndInv, StopInv, StoppedMeansStopped
<1> QED BY <1>1, Invariance, PTL

\* A run is queued exactly when a returned call of Run is owed one.
THEOREM RunsAreOwed == Spec => []QueuedForOwed
BY Invariance, PTL DEF IndInv

\* The goroutine never exits with a run still owed.
THEOREM NothingIsLeft == Spec => []NothingLeftBehind
<1>1. IndInv => NothingLeftBehind
  BY DEF IndInv, TypeOK, RunInv, QueuedForOwed, NothingLeftBehind
<1> QED BY <1>1, Invariance, PTL

\* At most two runs begin once Stop has closed the queue.
THEOREM FewMoreRuns == Spec => []AtMostTwoMore
<1>1. IndInv => AtMostTwoMore
  BY DEF IndInv, TypeOK, RunInv, AtMostTwoMore
<1> QED BY <1>1, Invariance, PTL
\* The initial state is one of a task that was neither started nor stopped.
LEMMA TaskInit == Init => AsTask!Init
BY DEF Init, AsTask!Init

\* Every step of the runner is a step of the task, or none.
LEMMA TaskStep == IndInv /\ IndInv' /\ [Next]_vars => [AsTask!Next]_AsTask!vars
<1> DEFINE asked   == \E s \in Stopper : stop[s] # "idle"
           stopped == \E s \in Stopper : stop[s] = "returned"
<1> SUFFICES ASSUME IndInv, IndInv', [Next]_vars PROVE [AsTask!Next]_AsTask!vars
  OBVIOUS
<1>0. stop \in [Stopper -> {"idle", "ticker", "close", "await", "once", "returned"}]
  BY DEF IndInv, TypeOK
<1> USE <1>0 DEF AsTask!vars, AsTask!Next
\* The goroutine.
<1>1. ASSUME (loop' = "fn") <=> (loop = "fn"), UNCHANGED stop PROVE [AsTask!Next]_AsTask!vars
  BY <1>1
<1>2. CASE Start \/ Tick \/ SelectClosed \/ Terminated \/ UNCHANGED vars
  BY <1>1, <1>2 DEF Start, Tick, SelectClosed, Terminated, vars, loopVars
<1>3. CASE SelectTick \/ SelectManual
  <2>1. loop = "select" /\ loop' = "fn" /\ stop' = stop
    BY <1>3 DEF SelectTick, SelectManual, BeginRun
  <2>2. ~stopped
    BY <2>1 DEF IndInv, StopInv
  <2>3. AsTask!Begin
    BY <2>1, <2>2 DEF AsTask!Begin
  <2> QED BY <2>3
<1>4. CASE FnReturns
  <2>1. AsTask!End
    BY <1>4 DEF FnReturns, AsTask!End
  <2> QED BY <2>1
<1>5. ASSUME NEW c \in Caller, Run(c) PROVE [AsTask!Next]_AsTask!vars
  BY <1>1, <1>5 DEF Run, RunQueues, RunPanics, loopVars
\* Stop: the call that comes first asks, the one that returns first has waited.
<1>6. ASSUME UNCHANGED <<loop, asked, stopped>> PROVE [AsTask!Next]_AsTask!vars
  BY <1>6
<1>7. ASSUME NEW s \in Stopper, StopCalled(s) PROVE [AsTask!Next]_AsTask!vars
  <2>1. stop[s] = "idle" /\ stop'[s] \notin {"idle", "returned"} /\ loop' = loop
          /\ \A r \in Stopper \ {s} : stop'[r] = stop[r]
    BY <1>7 DEF StopCalled, MoveStop, loopVars
  <2>2. stopped' = stopped /\ asked'
    BY <2>1
  <2>3. CASE asked
    BY <1>6, <2>1, <2>2, <2>3
  <2>4. CASE ~asked
    <3>1. AsTask!Ask
      BY <2>1, <2>2, <2>4 DEF AsTask!Ask
    <3> QED BY <3>1
  <2> QED BY <2>3, <2>4
<1>8. ASSUME NEW s \in Stopper, StopTicker(s) \/ CloseManual(s) PROVE [AsTask!Next]_AsTask!vars
  <2>1. stop[s] \notin {"idle", "returned"} /\ stop'[s] \notin {"idle", "returned"} /\ loop' = loop
          /\ \A r \in Stopper \ {s} : stop'[r] = stop[r]
    BY <1>8 DEF StopTicker, CloseManual, MoveStop
  <2>2. stopped' = stopped /\ asked' = asked
    BY <2>1
  <2> QED BY <1>6, <2>1, <2>2
<1>9. ASSUME NEW s \in Stopper, AwaitStopped(s) \/ AwaitOnce(s) PROVE [AsTask!Next]_AsTask!vars
  <2>1. stop[s] \notin {"idle", "returned"} /\ stop'[s] = "returned" /\ loop' = loop
          /\ \A r \in Stopper \ {s} : stop'[r] = stop[r]
    BY <1>9 DEF AwaitStopped, AwaitOnce, MoveStop, loopVars
  <2>2. asked /\ asked' /\ stopped' /\ loop # "fn"
    <3>1. loop' = "exited"
      BY <2>1 DEF IndInv, StopInv
    <3> QED BY <2>1, <3>1
  <2>3. CASE stopped
    BY <1>6, <2>1, <2>2, <2>3
  <2>4. CASE ~stopped
    <3>1. AsTask!StopReturns
      BY <2>1, <2>2, <2>4 DEF AsTask!StopReturns
    <3> QED BY <3>1
  <2> QED BY <2>3, <2>4
<1> QED
  BY <1>2, <1>3, <1>4, <1>5, <1>7, <1>8, <1>9 DEF Next, StopStep

\* The runner is a Task to its callers: what is left to the model checker is that Stop
\* returns.
THEOREM RunnerIsATask == Spec => AsTask!Spec
BY Invariance, TaskInit, TaskStep, PTL DEF Spec, AsTask!Spec
=============================================================================
