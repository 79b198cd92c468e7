----------------------------- MODULE SchedRunner -----------------------------
(***************************************************************************)
(* pkg/sched: a Runner runs a function every period and on demand.  One    *)
(* goroutine selects between the ticker's channel and the channel of       *)
(* manual runs (both have a buffer of one); Run puts a value in the second *)
(* unless one is there, Stop closes it and waits for the goroutine.        *)
(***************************************************************************)
EXTENDS Naturals

CONSTANTS Caller,    \* one per call of Run
          Stopper,   \* one per call of Stop
          NoStopper

ASSUME NoStopperAssumption == NoStopper \notin Stopper

VARIABLES
  loop,      \* the goroutine: "new", "select", "fn" (in runFn) or "exited" (stopped is closed)
  ticking,   \* the ticker was not stopped
  tickC,     \* values in ticker.C
  manual,    \* values in Runner.manual
  closed,    \* manual is closed
  call,      \* a call of Run: "idle", "owed" (it returned, no run since), "served", "panicked"
  stop,      \* a call of Stop
  once,      \* the call that runs stop() under stopOnce
  after      \* history: runs of the function begun since manual was closed

loopVars == <<loop, ticking, tickC, manual, closed, after>>
vars == <<loopVars, call, stop, once>>

TypeOK ==
  /\ loop \in {"new", "select", "fn", "exited"}
  /\ ticking \in BOOLEAN /\ closed \in BOOLEAN
  /\ tickC \in 0 .. 1 /\ manual \in 0 .. 1
  /\ call \in [Caller -> {"idle", "owed", "served", "panicked"}]
  /\ stop \in [Stopper -> {"idle", "ticker", "close", "await", "once", "returned"}]
  /\ once \in Stopper \cup {NoStopper}
  /\ after \in Nat

\* NewRunner: the ticker runs from here on.
Init ==
  /\ loop = "new"
  /\ ticking = TRUE /\ closed = FALSE
  /\ tickC = 0 /\ manual = 0
  /\ call = [c \in Caller |-> "idle"]
  /\ stop = [s \in Stopper |-> "idle"]
  /\ once = NoStopper
  /\ after = 0

Start ==
  /\ loop = "new"
  /\ loop' = "select"
  /\ UNCHANGED <<ticking, tickC, manual, closed, after, call, stop, once>>

Owed == {c \in Caller : call[c] = "owed"}
-----------------------------------------------------------------------------
RunQueues_NotWhileRunning(c) ==   \* mutant: the run in progress counts for this call
  /\ call[c] = "idle" /\ ~closed
  /\ manual' = IF loop = "fn" THEN manual ELSE 1
  /\ call' = [call EXCEPT ![c] = "owed"]
  /\ UNCHANGED <<loop, ticking, tickC, closed, after, stop, once>>

\* Run: queue a run, or let the queued one count for this call too.
RunQueues(c) ==
  /\ call[c] = "idle" /\ ~closed
  /\ manual' = 1
  /\ call' = [call EXCEPT ![c] = "owed"]
  /\ UNCHANGED <<loop, ticking, tickC, closed, after, stop, once>>

\* A send on a closed channel panics, in a select with a default as well.
RunPanics(c) ==
  /\ call[c] = "idle" /\ closed
  /\ call' = [call EXCEPT ![c] = "panicked"]
  /\ UNCHANGED <<loopVars, stop, once>>

Run(c) == RunQueues(c) \/ RunPanics(c)
-----------------------------------------------------------------------------
\* The runtime sends on the ticker's channel, and drops what does not fit.
Tick ==
  /\ ticking /\ tickC = 0
  /\ tickC' = 1
  /\ UNCHANGED <<loop, ticking, manual, closed, after, call, stop, once>>

BeginRun ==
  /\ loop' = "fn"
  /\ after' = IF closed THEN after + 1 ELSE 0

SelectTick ==
  /\ loop = "select" /\ tickC = 1
  /\ tickC' = 0
  /\ BeginRun
  /\ UNCHANGED <<ticking, manual, closed, call, stop, once>>

\* A queued run is received even from the closed channel.
SelectManual ==
  /\ loop = "select" /\ manual = 1
  /\ manual' = 0
  /\ BeginRun
  /\ call' = [c \in Caller |-> IF c \in Owed THEN "served" ELSE call[c]]
  /\ UNCHANGED <<ticking, tickC, closed, stop, once>>

SelectClosed_Continues ==     \* mutant: continue instead of return
  /\ loop = "select" /\ manual = 0 /\ closed
  /\ UNCHANGED vars

SelectClosed ==
  /\ loop = "select" /\ manual = 0 /\ closed
  /\ loop' = "exited"
  /\ UNCHANGED <<ticking, tickC, manual, closed, after, call, stop, once>>

FnReturns ==
  /\ loop = "fn"
  /\ loop' = "select"
  /\ UNCHANGED <<ticking, tickC, manual, closed, after, call, stop, once>>
-----------------------------------------------------------------------------
MoveStop(s, from, to) == stop[s] = from /\ stop' = [stop EXCEPT ![s] = to]

\* stopOnce.Do: the first call runs stop(), the others wait for it.
StopCalled(s) ==
  /\ MoveStop(s, "idle", IF once = NoStopper THEN "ticker" ELSE "once")
  /\ once' = IF once = NoStopper THEN s ELSE once
  /\ UNCHANGED <<loopVars, call>>

StopTicker_Forgotten(s) ==    \* mutant: the ticker goes on
  /\ MoveStop(s, "ticker", "close")
  /\ UNCHANGED <<loopVars, call, once>>

StopTicker(s) ==
  /\ MoveStop(s, "ticker", "close")
  /\ ticking' = FALSE
  /\ UNCHANGED <<loop, tickC, manual, closed, after, call, once>>

CloseManual_Drains(s) ==      \* mutant: empties the queue first
  /\ MoveStop(s, "close", "await")
  /\ closed' = TRUE
  /\ manual' = 0
  /\ UNCHANGED <<loop, ticking, tickC, after, call, once>>

CloseManual(s) ==
  /\ MoveStop(s, "close", "await")
  /\ closed' = TRUE
  /\ UNCHANGED <<loop, ticking, tickC, manual, after, call, once>>

AwaitStopped_NoWait(s) ==     \* mutant: no receive from stopped
  /\ MoveStop(s, "await", "returned")
  /\ UNCHANGED <<loopVars, call, once>>

AwaitStopped(s) ==
  /\ MoveStop(s, "await", "returned")
  /\ loop = "exited"
  /\ UNCHANGED <<loopVars, call, once>>

AwaitOnce(s) ==
  /\ MoveStop(s, "once", "returned")
  /\ once # NoStopper /\ stop[once] = "returned"
  /\ UNCHANGED <<loopVars, call, once>>

StopStep(s) == StopTicker(s) \/ CloseManual(s) \/ AwaitStopped(s) \/ AwaitOnce(s)

Terminated ==
  /\ loop = "exited"
  /\ \A c \in Caller : call[c] # "idle"
  /\ \A s \in Stopper : stop[s] = "returned"
  /\ UNCHANGED vars

Next ==
  \/ Start \/ Tick \/ SelectTick \/ SelectManual \/ SelectClosed \/ FnReturns
  \/ \E c \in Caller : Run(c)
  \/ \E s \in Stopper : StopCalled(s) \/ StopStep(s)
  \/ Terminated

Spec == Init /\ [][Next]_vars

\* The function returns and goroutines run; a select chooses at random among what is
\* ready, so a channel that keeps being ready is chosen.
Fairness ==
  /\ WF_vars(Start) /\ WF_vars(FnReturns)
  /\ SF_vars(SelectManual) /\ SF_vars(SelectClosed) /\ WF_vars(SelectTick)
  /\ \A s \in Stopper : WF_vars(StopStep(s))

FairSpec == Spec /\ Fairness
-----------------------------------------------------------------------------
\* The runner is a task that can be stopped.
AsTask == INSTANCE Task WITH asked   <- \E s \in Stopper : stop[s] # "idle",
                             working <- loop = "fn",
                             stopped <- \E s \in Stopper : stop[s] = "returned"

\* Whoever calls Stop may take the runner for a Task: no call of the function begins or
\* goes on once Stop has returned, and Stop does return however often it is called before.
ImplementsTask == AsTask!FairSpec

\* Stop blocks while the task runs: once any call of Stop has returned, the function
\* is not running and will not run again.
StoppedMeansStopped ==
  (\E s \in Stopper : stop[s] = "returned") => loop = "exited"

\* A call of Run that found no closed channel has a run queued for it until one
\* begins, and no run is queued that nobody asked for.
QueuedForOwed == manual = 1 <=> Owed # {}

\* The goroutine does not leave a queued run behind.
NothingLeftBehind == loop = "exited" => Owed = {}

\* Stopping does not drain the ticker or the queue, but costs at most two more runs.
AtMostTwoMore == after <= 2

\* Every accepted call of Run is followed by a run, and Stop returns.
AcceptedRunHappens == \A c \in Caller : call[c] = "owed" ~> call[c] = "served"
StopReturns == \A s \in Stopper : stop[s] # "idle" ~> stop[s] = "returned"

\* What makes the invariants inductive (proved in SchedRunnerProofs).
StopInv ==
  /\ once = NoStopper => \A s \in Stopper : stop[s] = "idle"
  /\ \A s \in Stopper :
       /\ stop[s] \in {"ticker", "close", "await"} => once = s
       /\ stop[s] = "returned" => loop = "exited"
  /\ once # NoStopper /\ ~closed => stop[once] \in {"ticker", "close"}
  /\ closed => ~ticking /\ once # NoStopper /\ stop[once] \in {"await", "returned"}
  /\ once # NoStopper /\ stop[once] \in {"close", "await", "returned"} => ~ticking
RunInv ==
  /\ loop = "exited" => closed /\ manual = 0
  /\ ~closed => after = 0
  /\ after + tickC + manual <= 2
IndInv == TypeOK /\ QueuedForOwed /\ StopInv /\ RunInv
=============================================================================
