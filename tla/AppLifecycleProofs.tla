------------------------- MODULE AppLifecycleProofs -------------------------
(***************************************************************************)
(* Theorems about AppLifecycle for any set of clients and any options: the *)
(* runners are quiet and the sessions over before Shutdown cleans up, and  *)
(* what a complete shutdown leaves behind.  The wait group is the number   *)
(* of sessions it was told of (WgInv); everything rests on that.           *)
(***************************************************************************)
EXTENDS AppLifecycle, FiniteSetTheorems, TLAPS

\* wsWG counts the sessions between Add and Done.
Sessions == {c \in Client : phase[c] \in Counted}
WgInv == IsFiniteSet(Sessions) /\ wg = Cardinality(Sessions)

\* A runner that Shutdown has stopped is not in its function, and Shutdown goes on
\* only when it has stopped them all.
RunnerInv ==
  /\ \A r \in busy : ~Stopped(r)
  /\ shut \in Expired \cup {"manager", "expire"} => stops = 6

\* After Wait the sessions that are counted came late.
WaitInv == shut \in Waited => \A c \in Client : phase[c] \in Counted => c \in late

\* Requests that http.Server.Shutdown has waited for are over.
HttpInv ==
  shut \in Expired \cup {"runners", "manager", "expire"} /\ ~timedOut =>
    asked = {} /\ \A c \in Client : phase[c] \notin Tracked

\* Run is late only in a request that outlived the five seconds; until then Shutdown has
\* stopped no runner.
LateInv ==
  /\ shut \in {"waiting", "http", "draining"} => stops = 0 /\ ~timedOut
  /\ shut = "panicked" => exited
  /\ NoSendAfterStop

\* While nothing fails a running container belongs to a session.
BoxInv == faults = Faults => \A c \in Client : box[c] = "running" => phase[c] \in {"using", "leaving"}

\* An active row whose container is gone and whose image another tag names.
LeftAlone(c) == c \in Sharing /\ box[c] = "none"

\* cleanupLeftoverInstances has found every row that is active, and no row becomes
\* active any more.
LeftoverInv ==
  ~timedOut /\ faults = Faults =>
    /\ shut = "leftover" =>
         \A c \in Client \ late : row[c] = "active" => c \in todo \/ LeftAlone(c)
    /\ shut \in {"force", "close", "done"} =>
         \A c \in Client \ late : row[c] = "active" => LeftAlone(c)

\* A row is killed by one of the two cleanups.
KilledInv == killed # {} => shut \in {"leftover", "force"}

\* A client without a row has no container.
NoneInv == \A c \in Client : row[c] = "none" => box[c] = "none"

\* A container whose kill has failed: its removal will be refused, and markAll may mark its
\* row all the same.
Spared == {c \in killed \ late : box[c] = "running"}

\* Each of them, and each container stranded already, has cost a failing call of its own.
StrandInv ==
  /\ IsFiniteSet(Stranded \cup Spared)
  /\ Cardinality(Stranded \cup Spared) <= Faults - faults

\* markAllInstancesCleanedAndInactive has found every row that is not marked.
ForceInv ==
  force /\ ~timedOut /\ faults = Faults =>
    /\ shut = "force" => Unmarked \subseteq todo
    /\ shut \in {"close", "done"} => Unmarked = {}

\* Shutdown panics on a field Run has not set yet, or on the runner that is never made.
PanicInv ==
  /\ shut \notin {"waiting", "http", "panicked"} => boot = 8
  /\ shut \in {"waiting", "http"} => stops = 0
  /\ DisableAutoPull => stops <= 2
  /\ shut = "panicked" => exited /\ ((boot < 8 /\ stops = 0) \/ (DisableAutoPull /\ stops = 2))

IndInv ==
  /\ TypeOK /\ WgInv /\ RunnerInv /\ WaitInv /\ HttpInv /\ LateInv /\ BoxInv /\ LeftoverInv
  /\ KilledInv /\ NoneInv /\ StrandInv /\ ForceInv /\ PanicInv

\* The initial state satisfies the invariant.
LEMMA InitInv == Init => IndInv
<1> SUFFICES ASSUME Init PROVE IndInv
  OBVIOUS
<1> USE DEF Init
<1>1. TypeOK
  <2>1. /\ force \in BOOLEAN /\ timedOut \in BOOLEAN /\ exited \in BOOLEAN /\ failed \in BOOLEAN
        /\ sentLate \in BOOLEAN
    BY OptionAssumption, Zenon
  <2>2. faults \in 0..Faults /\ wg \in Nat /\ boot \in 0..8 /\ stops \in 0..6
    BY FaultAssumption
  <2> QED BY <2>1, <2>2 DEF TypeOK
<1>2. WgInv
  <2>1. Sessions = {}
    BY DEF Sessions, Counted
  <2> QED BY <2>1, FS_EmptySet DEF WgInv
<1>3. RunnerInv /\ WaitInv /\ HttpInv /\ LateInv /\ BoxInv /\ LeftoverInv
  BY DEF RunnerInv, WaitInv, HttpInv, LateInv, NoSendAfterStop, BoxInv, LeftoverInv,
         Expired, Waited, Tracked, Counted
<1>4. KilledInv /\ NoneInv /\ StrandInv
  <2>1. Stranded \cup Spared = {}
    BY DEF Stranded, Spared
  <2>2. IsFiniteSet({}) /\ Cardinality({}) = 0
    BY FS_EmptySet
  <2>3. KilledInv /\ NoneInv
    BY DEF KilledInv, NoneInv
  <2>4. 0 <= Faults - faults
    BY FaultAssumption
  <2> QED BY <2>1, <2>2, <2>3, <2>4 DEF StrandInv
<1>5. ForceInv /\ PanicInv
  BY OptionAssumption DEF ForceInv, PanicInv
<1> QED BY <1>1, <1>2, <1>3, <1>4, <1>5 DEF IndInv
-----------------------------------------------------------------------------
\* The counter and the sessions change together.
LEMMA StepWg == TypeOK /\ WgInv /\ [Next]_vars => WgInv' /\ wg' \in Nat
<1> SUFFICES ASSUME TypeOK, WgInv, [Next]_vars PROVE WgInv'
  BY FS_CardinalityType DEF WgInv
<1> USE DEF TypeOK, run, stop, session, store, tasks, Goto
<1>1. ASSUME UNCHANGED wg, Sessions' = Sessions PROVE WgInv'
  BY <1>1 DEF WgInv
<1>2. CASE UNCHANGED <<wg, phase>>
  BY <1>1, <1>2 DEF Sessions
<1>3. ASSUME NEW c \in Client,
             Post(c) \/ PostReturns(c) \/ Connect(c) \/ Upgrade(c) \/ Acquire(c) \/ Leave(c)
      PROVE  WgInv'
  <2>1. UNCHANGED wg /\ \A d \in Client : phase'[d] \in Counted <=> phase[d] \in Counted
    BY <1>3 DEF Post, PostReturns, Connect, Upgrade, Acquire, Leave, Counted
  <2> QED BY <1>1, <2>1 DEF Sessions
<1>4. ASSUME NEW c \in Client, Count(c) PROVE WgInv'
  <2>1. c \notin Sessions /\ Sessions' = Sessions \cup {c} /\ wg' = wg + 1
    BY <1>4 DEF Count, Sessions, Counted
  <2> QED BY <2>1, FS_AddElement DEF WgInv
<1>5. ASSUME NEW c \in Client, EndOfSession(c) PROVE WgInv'
  <2>1. c \in Sessions /\ Sessions' = Sessions \ {c} /\ wg' = wg - 1
    BY <1>5 DEF EndOfSession, Sessions, Counted
  <2> QED BY <2>1, FS_RemoveElement DEF WgInv
<1> QED
  BY <1>2, <1>3, <1>4, <1>5
     DEF Next, HandlerStep, ShutdownStep, SetField, RunFails, RunReturns, Signal, StopRunner,
         TaskBegins, TaskEnds, Trigger, TriggerRuns, Panic, CloseListeners, HttpDone,
         RunnersStopped, StopManager, ExpireAndRemoveAll, Wait, LeftoverDone, CloseClients, Kill, CleanLeftover,
         Past, MarkCleaned, MarkAtStart, vars

\* The functions of the runners mark rows, and kill and remove containers, without a step
\* back: a row they mark as cleaned has lost its container.
LEMMA TaskChanges ==
  ASSUME NEW r \in Runner, TaskEnds(r), TypeOK
  PROVE  /\ UNCHANGED <<run, stop, asked, sentLate, session, faults>> /\ busy' = busy \ {r}
         /\ row' \in [Client -> {"none", "active", "inactive", "cleaned"}]
         /\ box' \in [Client -> {"none", "stopped", "running"}]
         /\ \A c \in Client :
              /\ box'[c] \in {box[c], "none"} \/ (box[c] = "running" /\ box'[c] = "stopped")
              /\ \/ row'[c] = row[c]
                 \/ row'[c] = "inactive" /\ row[c] = "active"
                 \/ row'[c] = "cleaned" /\ row[c] = "inactive" /\ box'[c] = "none"
<1> USE DEF TypeOK, store
<1>1. Deactivate \/ Clean \/ UNCHANGED <<row, box>>
  BY DEF TaskEnds
<1>2. /\ UNCHANGED <<run, stop, asked, sentLate, session, faults>> /\ busy' = busy \ {r}
  BY DEF TaskEnds
<1>3. CASE Deactivate
  BY <1>2, <1>3 DEF Deactivate, RowsIn, Marked
<1>4. CASE Clean
  <2>1. PICK K, T, S :
          /\ K \subseteq RowsIn("inactive") /\ T \subseteq K /\ S \subseteq T
          /\ box' = [c \in Client |-> IF c \in T THEN "none"
                                     ELSE IF c \in K /\ box[c] = "running" THEN "stopped" ELSE box[c]]
          /\ Marked(S, "cleaned")
    BY <1>4 DEF Clean
  <2>2. /\ row' \in [Client -> {"none", "active", "inactive", "cleaned"}]
        /\ \A c \in Client : row'[c] = row[c] \/ (row'[c] = "cleaned" /\ row[c] = "inactive" /\ c \in T)
    BY <2>1 DEF Marked, RowsIn
  <2>3. /\ box' \in [Client -> {"none", "stopped", "running"}]
        /\ \A c \in Client : box'[c] \in {box[c], "none"} \/ (box[c] = "running" /\ box'[c] = "stopped")
        /\ \A c \in Client : c \in T => box'[c] = "none"
    BY <2>1
  <2> QED BY <1>2, <2>2, <2>3
<1> QED BY <1>1, <1>2, <1>3, <1>4

\* Fields, clients and rows keep their types.
LEMMA StepTypes == TypeOK /\ WgInv /\ KilledInv /\ [Next]_vars => TypeOK'
<1> SUFFICES ASSUME TypeOK, WgInv, KilledInv, [Next]_vars PROVE TypeOK'
  OBVIOUS
<1>0. wg' \in Nat
  BY StepWg
<1> USE <1>0 DEF TypeOK, run, stop, session, store, tasks, Expired, Waited, Tracked, Counted
<1>1. CASE SetField \/ RunFails \/ RunReturns \/ UNCHANGED vars
  <2>1. exited' \in BOOLEAN /\ failed' \in BOOLEAN /\ force' = force /\ timedOut' = timedOut
    BY <1>1, Zenon DEF SetField, RunFails, RunReturns, vars
  <2>2. /\ boot' \in 0..8 /\ faults' \in 0..Faults
        /\ UNCHANGED <<shut, stops, todo, killed, tasks, session, row, box>>
    BY <1>1, FaultAssumption DEF SetField, RunFails, RunReturns, OneFails, vars
  <2>3. sentLate' \in BOOLEAN
    BY <1>1, Zenon DEF SetField, RunFails, RunReturns, vars
  <2> QED BY <2>1, <2>2, <2>3
<1>2. ASSUME NEW c \in Client,
             Post(c) \/ PostReturns(c) \/ Connect(c) \/ Upgrade(c) \/ Count(c)
               \/ Leave(c)
      PROVE  TypeOK'
  BY <1>2 DEF Post, PostReturns, Connect, Leave, Upgrade, Count, Goto
<1>11. ASSUME NEW c \in Client, Acquire(c) \/ EndOfSession(c) PROVE TypeOK'
  <2>1. faults' \in 0..Faults
    BY <1>11, FaultAssumption DEF Acquire, EndOfSession, OneFails
  <2>2. box' \in [Client -> {"none", "stopped", "running"}]
    BY <1>11 DEF Acquire, EndOfSession, Killed
  <2>3. /\ phase' \in [Client -> Tracked \cup Counted \cup {"none", "created", "hijacked", "over"}]
        /\ held' \subseteq Client /\ told' \subseteq Client /\ UNCHANGED <<run, stop, tasks, late, row>>
    BY <1>11 DEF Acquire, EndOfSession, Goto
  <2> QED BY <2>1, <2>2, <2>3
<1>3. ASSUME NEW r \in Runner, TaskBegins(r) PROVE TypeOK'
  BY <1>3 DEF TaskBegins
<1>4. ASSUME NEW r \in Runner, TaskEnds(r) PROVE TypeOK'
  <2>1. /\ UNCHANGED <<run, stop, asked, sentLate, session, faults>> /\ busy' = busy \ {r}
        /\ row' \in [Client -> {"none", "active", "inactive", "cleaned"}]
        /\ box' \in [Client -> {"none", "stopped", "running"}]
    BY <1>4, TaskChanges
  <2> QED BY <2>1
<1>9. ASSUME NEW r \in Runner, Trigger(r) \/ TriggerRuns(r) PROVE TypeOK'
  <2>1. sentLate' \in BOOLEAN
    BY <1>9, Zenon DEF Trigger, TriggerRuns
  <2>2. asked' \subseteq Triggered /\ UNCHANGED <<run, stop, busy, session, store>>
    BY <1>9 DEF Trigger, TriggerRuns
  <2> QED BY <2>1, <2>2
<1>5. CASE Signal \/ StopRunner \/ CloseListeners \/ RunnersStopped \/ StopManager
             \/ ExpireAndRemoveAll \/ CloseClients
  BY <1>5 DEF Signal, StopRunner, CloseListeners, RunnersStopped, StopManager,
              ExpireAndRemoveAll, CloseClients, Advance
<1>10. CASE Wait \/ LeftoverDone
  <2>1. todo' \subseteq Client /\ faults' \in 0..Faults
    BY <1>10, FaultAssumption DEF Wait, LeftoverDone, Finds, RowsIn, Unmarked, OneFails
  <2>2. /\ shut' \in {"leftover", "force"}
        /\ UNCHANGED <<run, stops, timedOut, killed, tasks, session, row, box>>
    BY <1>10 DEF Wait, LeftoverDone, Advance
  <2>3. killed = {} \/ todo' = todo
    BY <1>10 DEF Wait, LeftoverDone, KilledInv, Advance
  <2> QED BY <2>1, <2>2, <2>3
<1>6. CASE Panic
  <2>1. exited' \in BOOLEAN
    BY <1>6, Zenon DEF Panic
  <2>2. /\ shut' = "panicked"
        /\ UNCHANGED <<force, boot, failed, stops, timedOut, todo, killed, tasks, session, store>>
    BY <1>6 DEF Panic
  <2> QED BY <2>1, <2>2
<1>7. CASE HttpDone
  <2>1. timedOut' \in BOOLEAN
    BY <1>7, Zenon DEF HttpDone
  <2>2. shut' = "runners" /\ UNCHANGED <<run, stops, todo, killed, tasks, session, store>>
    BY <1>7 DEF HttpDone, Advance
  <2> QED BY <2>1, <2>2
<1>8. ASSUME NEW c \in Client, Kill(c) \/ CleanLeftover(c) \/ MarkCleaned(c) \/ MarkAtStart(c)
      PROVE  TypeOK'
  <2>1. faults' \in 0..Faults
    BY <1>8, FaultAssumption DEF Kill, CleanLeftover, MarkCleaned, MarkAtStart, OneFails
  <2>2. todo' \subseteq Client /\ killed' \subseteq todo'
    BY <1>8 DEF Kill, CleanLeftover, MarkCleaned, MarkAtStart, Past
  <2>3. Marked({c}, "cleaned") \/ UNCHANGED row
    BY <1>8 DEF Kill, CleanLeftover, MarkCleaned, MarkAtStart
  <2>4. Removed({c}) \/ Killed(c) \/ UNCHANGED box
    BY <1>8 DEF Kill, CleanLeftover, MarkCleaned, MarkAtStart
  <2>5. UNCHANGED <<run, shut, stops, timedOut, tasks, session>>
    BY <1>8 DEF Kill, CleanLeftover, MarkCleaned, MarkAtStart, Past
  <2> QED BY <2>1, <2>2, <2>3, <2>4, <2>5 DEF Marked, Removed, Killed
<1> QED
  BY <1>1, <1>2, <1>3, <1>4, <1>5, <1>6, <1>7, <1>8, <1>9, <1>10, <1>11
     DEF Next, ShutdownStep, HandlerStep

\* Runner.Stop waits for the function, and a stopped runner does not begin it again.
LEMMA StepRunners == TypeOK /\ RunnerInv /\ [Next]_vars => RunnerInv'
<1> SUFFICES ASSUME TypeOK, RunnerInv, [Next]_vars PROVE RunnerInv'
  OBVIOUS
<1> USE DEF TypeOK, RunnerInv, Expired, Waited, run, stop, session, store, tasks
<1>1. ASSUME UNCHANGED <<stops, busy>>,
             shut' \in Expired \cup {"manager", "expire"} =>
               shut \in Expired \cup {"manager", "expire"}
      PROVE  RunnerInv'
  BY <1>1 DEF Stopped
<1>2. CASE StopRunner
  <2>1. /\ stops' = stops + 1 /\ shut' = "runners" /\ busy' = busy
        /\ StopOrder[stops + 1] \notin busy
    BY <1>2 DEF StopRunner
  <2>2. ASSUME NEW r \in busy PROVE ~Stopped(r)'
    <3>1. \A k \in 1..stops' : k \in 1..stops \/ k = stops + 1
      BY <2>1
    <3> QED BY <2>1, <2>2, <3>1 DEF Stopped
  <2> QED BY <2>1, <2>2
<1>3. ASSUME NEW r \in Runner, TaskBegins(r) PROVE RunnerInv'
  BY <1>3 DEF TaskBegins, Stopped
<1>4. ASSUME NEW r \in Runner, TaskEnds(r) PROVE RunnerInv'
  BY <1>4 DEF TaskEnds, Stopped
<1>8. ASSUME NEW r \in Runner, Trigger(r) \/ TriggerRuns(r) PROVE RunnerInv'
  BY <1>8 DEF Trigger, TriggerRuns, Stopped
<1>5. CASE RunnersStopped
  BY <1>5 DEF RunnersStopped, Advance, Stopped
<1>6. CASE SetField \/ RunFails \/ RunReturns \/ Signal \/ Panic \/ CloseListeners \/ HttpDone
             \/ StopManager \/ ExpireAndRemoveAll \/ Wait \/ LeftoverDone \/ CloseClients
             \/ UNCHANGED vars
  BY <1>1, <1>6 DEF SetField, RunFails, RunReturns, Signal, Panic, CloseListeners, HttpDone,
                    StopManager, ExpireAndRemoveAll, Wait, LeftoverDone, CloseClients, Advance,
                    vars
<1>7. ASSUME NEW c \in Client,
             \/ Kill(c) \/ CleanLeftover(c) \/ MarkCleaned(c) \/ MarkAtStart(c)
             \/ Post(c) \/ PostReturns(c) \/ Connect(c)
             \/ HandlerStep(c) \/ Leave(c)
      PROVE  RunnerInv'
  BY <1>1, <1>7 DEF Kill, CleanLeftover, Past, MarkCleaned, MarkAtStart, Post, PostReturns, Connect,
                    HandlerStep, Upgrade,
                    Count, Acquire, EndOfSession, Leave, Goto
<1> QED
  BY <1>2, <1>3, <1>4, <1>5, <1>6, <1>7, <1>8 DEF Next, ShutdownStep

\* All runners are stopped before the manager is: none is in its function.
LEMMA Quiet == TypeOK /\ RunnerInv => TasksQuiet
<1> SUFFICES ASSUME TypeOK, RunnerInv, shut \in Expired, NEW r \in busy PROVE FALSE
  BY DEF TasksQuiet
<1>1. stops = 6 /\ ~Stopped(r)
  BY DEF RunnerInv
<1>2. PICK k \in 1..6 : r = StopOrder[k]
  BY ObservedAssumption DEF TypeOK, Runner
<1> QED BY <1>1, <1>2 DEF Stopped

\* wsWG.Wait returns when no session is counted; one that is counted later is late.
LEMMA StepWait == TypeOK /\ WgInv /\ WaitInv /\ [Next]_vars => WaitInv'
<1> SUFFICES ASSUME TypeOK, WgInv, WaitInv, [Next]_vars, shut' \in Waited,
                    NEW c \in Client, phase'[c] \in Counted
             PROVE  c \in late'
  BY DEF WaitInv
<1> USE DEF TypeOK, WaitInv, Waited, run, stop, session, store, tasks, Goto
<1>1. ASSUME shut \in Waited, phase[c] \in Counted, late \subseteq late' PROVE c \in late'
  BY <1>1
<1>2. CASE Wait
  <2>1. Sessions = {}
    BY <1>2, FS_EmptySet DEF Wait, WgInv
  <2> QED BY <1>2, <2>1 DEF Wait, Sessions
<1>3. ASSUME NEW d \in Client, Count(d) PROVE c \in late'
  BY <1>3 DEF Count, Counted
<1>4. ASSUME NEW d \in Client,
             Post(d) \/ PostReturns(d) \/ Connect(d) \/ Upgrade(d) \/ Acquire(d)
               \/ Leave(d) \/ EndOfSession(d) \/ Kill(d) \/ CleanLeftover(d) \/ MarkCleaned(d)
               \/ MarkAtStart(d)
      PROVE  c \in late'
  BY <1>1, <1>4 DEF Post, PostReturns, Connect, Upgrade, Acquire, Leave, EndOfSession,
                    Kill, CleanLeftover, Past, MarkCleaned, MarkAtStart, Counted
<1>5. CASE SetField \/ RunFails \/ RunReturns \/ Signal \/ Panic \/ CloseListeners \/ HttpDone
             \/ StopRunner \/ RunnersStopped \/ StopManager \/ ExpireAndRemoveAll
             \/ LeftoverDone \/ CloseClients \/ UNCHANGED vars
  BY <1>1, <1>5 DEF SetField, RunFails, RunReturns, Signal, Panic, CloseListeners, HttpDone,
                    StopRunner, RunnersStopped, StopManager, ExpireAndRemoveAll, LeftoverDone,
                    CloseClients, Advance, vars
<1>6. ASSUME NEW r \in Runner, TaskBegins(r) \/ TaskEnds(r) \/ Trigger(r) \/ TriggerRuns(r)
      PROVE  c \in late'
  BY <1>1, <1>6 DEF TaskBegins, TaskEnds, Trigger, TriggerRuns
<1> QED
  BY <1>2, <1>3, <1>4, <1>5, <1>6 DEF Next, ShutdownStep, HandlerStep

\* No request begins once the listeners are closed.
LEMMA StepHttp == TypeOK /\ HttpInv /\ [Next]_vars => HttpInv'
<1> DEFINE Later == Expired \cup {"runners", "manager", "expire"}
           Over  == asked = {} /\ \A c \in Client : phase[c] \notin Tracked
<1> SUFFICES ASSUME TypeOK, HttpInv, [Next]_vars, shut' \in Later, ~timedOut' PROVE Over'
  BY DEF HttpInv
<1> USE DEF TypeOK, HttpInv, Expired, Waited, Tracked, run, stop, session, store, tasks, Goto
<1>1. ASSUME shut \in Later, ~timedOut PROVE Over
  BY <1>1
<1>2. CASE HttpDone
  BY <1>2 DEF HttpDone, Advance
<1>3. ASSUME NEW d \in Client, Post(d) \/ Connect(d) PROVE Over'
  BY <1>3 DEF Post, Connect, Listening
<1>4. ASSUME NEW d \in Client,
             PostReturns(d) \/ Upgrade(d) \/ Count(d) \/ Acquire(d) \/ Leave(d)
               \/ EndOfSession(d) \/ Kill(d) \/ CleanLeftover(d) \/ MarkCleaned(d) \/ MarkAtStart(d)
      PROVE  Over'
  BY <1>1, <1>4 DEF PostReturns, Upgrade, Count, Acquire, Leave, EndOfSession,
                    Kill, CleanLeftover, Past, MarkCleaned, MarkAtStart
<1>5. CASE SetField \/ RunFails \/ RunReturns \/ Signal \/ Panic \/ CloseListeners
             \/ StopRunner \/ RunnersStopped \/ StopManager \/ ExpireAndRemoveAll \/ Wait
             \/ LeftoverDone \/ CloseClients \/ UNCHANGED vars
  BY <1>1, <1>5 DEF SetField, RunFails, RunReturns, Signal, Panic, CloseListeners, StopRunner,
                    RunnersStopped, StopManager, ExpireAndRemoveAll, Wait, LeftoverDone,
                    CloseClients, Advance, vars
<1>6. ASSUME NEW r \in Runner, TaskBegins(r) \/ TaskEnds(r) \/ TriggerRuns(r) PROVE Over'
  BY <1>1, <1>6 DEF TaskBegins, TaskEnds, TriggerRuns
<1>7. ASSUME NEW r \in Runner, Trigger(r) PROVE Over'
  BY <1>7 DEF Trigger, Listening
<1> QED
  BY <1>2, <1>3, <1>4, <1>5, <1>6, <1>7 DEF Next, ShutdownStep, HandlerStep

\* A trigger that still has to call Run when Shutdown stops runners has outlived the
\* five seconds.
LEMMA StepLate == TypeOK /\ HttpInv /\ LateInv /\ [Next]_vars => LateInv'
<1> SUFFICES ASSUME TypeOK, HttpInv, LateInv, [Next]_vars PROVE LateInv'
  OBVIOUS
<1> USE DEF TypeOK, LateInv, NoSendAfterStop, Expired, Waited, run, stop, session, store, tasks,
            Goto
<1>1. ASSUME UNCHANGED <<stop, exited, sentLate>> PROVE LateInv'
  BY <1>1
<1>2. ASSUME NEW d \in Client,
             Post(d) \/ Connect(d) \/ PostReturns(d) \/ HandlerStep(d) \/ Leave(d)
      PROVE  LateInv'
  BY <1>1, <1>2 DEF Post, Connect, PostReturns, HandlerStep, Upgrade, Count, Acquire, Leave, EndOfSession
<1>3. ASSUME NEW d \in Client, Kill(d) \/ CleanLeftover(d) \/ MarkCleaned(d) \/ MarkAtStart(d)
      PROVE  LateInv'
  BY <1>3 DEF Kill, CleanLeftover, Past, MarkCleaned, MarkAtStart
<1>4. ASSUME NEW r \in Runner, TaskBegins(r) \/ TaskEnds(r) \/ Trigger(r) PROVE LateInv'
  BY <1>1, <1>4 DEF TaskBegins, TaskEnds, Trigger
<1>5. ASSUME NEW r \in Runner, TriggerRuns(r) PROVE LateInv'
  <2>1. CASE UNCHANGED sentLate
    BY <1>1, <1>5, <2>1 DEF TriggerRuns
  <2>2. CASE MayBeClosed(r)
    <3>1. shut \in Expired \cup {"runners", "manager", "expire"}
      <4>1. stops > 0 \/ shut = "runners"
        BY <2>2 DEF MayBeClosed, Stopped
      <4>2. shut # "panicked"
        BY <1>5 DEF TriggerRuns
      <4> QED BY <4>1, <4>2
    <3>2. timedOut
      BY <1>5, <3>1 DEF TriggerRuns, HttpInv
    <3> QED BY <1>5, <3>2 DEF TriggerRuns
  <2> QED BY <1>5, <2>1, <2>2 DEF TriggerRuns
<1>6. CASE HttpDone
  <2>1. ~sentLate
    BY <1>6 DEF HttpDone, Advance
  <2> QED BY <1>6, <2>1 DEF HttpDone, Advance
<1>7. CASE SetField \/ RunFails \/ RunReturns \/ Signal \/ Panic \/ CloseListeners
             \/ StopRunner \/ RunnersStopped \/ StopManager \/ ExpireAndRemoveAll \/ Wait
             \/ LeftoverDone \/ CloseClients \/ UNCHANGED vars
  BY <1>7 DEF SetField, RunFails, RunReturns, Signal, Panic, CloseListeners, StopRunner,
              RunnersStopped, StopManager, ExpireAndRemoveAll, Wait, LeftoverDone,
              CloseClients, Advance, vars
<1> QED
  BY <1>2, <1>3, <1>4, <1>5, <1>6, <1>7 DEF Next, ShutdownStep

\* While nothing fails, nothing has failed: no action takes the branch of a failing call.
LEMMA NoFault == ASSUME TypeOK, [Next]_vars, faults' = Faults PROVE faults = Faults /\ ~OneFails
<1>1. ~OneFails /\ (OneFails \/ UNCHANGED faults => faults = Faults)
  BY FaultAssumption DEF OneFails, TypeOK
<1>2. OneFails \/ UNCHANGED faults
  <2> USE DEF store
  <2>1. CASE \/ SetField \/ RunFails \/ RunReturns \/ Signal \/ StopRunner \/ Panic \/ CloseListeners
             \/ HttpDone \/ RunnersStopped \/ StopManager \/ ExpireAndRemoveAll \/ Wait
             \/ LeftoverDone \/ CloseClients \/ UNCHANGED vars
    BY <2>1, Zenon DEF SetField, RunFails, RunReturns, Signal, StopRunner, Panic, CloseListeners, HttpDone,
                RunnersStopped, StopManager, ExpireAndRemoveAll, Wait, LeftoverDone, CloseClients,
                Finds, vars
  <2>2. ASSUME NEW c \in Client,
               Kill(c) \/ CleanLeftover(c) \/ MarkCleaned(c) \/ MarkAtStart(c) \/ HandlerStep(c)
        PROVE  OneFails \/ UNCHANGED faults
    BY <2>2, Zenon DEF Kill, CleanLeftover, MarkCleaned, MarkAtStart, HandlerStep, Upgrade, Count,
                       Acquire, EndOfSession
  <2>3. ASSUME NEW c \in Client, Post(c) \/ PostReturns(c) \/ Connect(c) \/ Leave(c)
        PROVE  OneFails \/ UNCHANGED faults
    BY <2>3, Zenon DEF Post, PostReturns, Connect, Leave
  <2>4. ASSUME NEW r \in Runner, TaskBegins(r) \/ TaskEnds(r) \/ Trigger(r) \/ TriggerRuns(r)
        PROVE  OneFails \/ UNCHANGED faults
    BY <2>4, Zenon DEF TaskBegins, TaskEnds, Trigger, TriggerRuns
  <2> QED BY <2>1, <2>2, <2>3, <2>4 DEF Next, ShutdownStep
<1> QED BY <1>1, <1>2

\* A session starts the container after it was counted, and stops it before it is over.
LEMMA StepBox == TypeOK /\ BoxInv /\ [Next]_vars => BoxInv'
<1> SUFFICES ASSUME TypeOK, BoxInv, [Next]_vars, faults' = Faults, NEW c \in Client,
                    box'[c] = "running"
             PROVE  phase'[c] \in {"using", "leaving"}
  BY DEF BoxInv
<1>0. faults = Faults /\ ~OneFails
  BY NoFault
<1> USE <1>0 DEF TypeOK, BoxInv, run, stop, session, store, tasks, Goto
<1>1. ASSUME box[c] = "running", UNCHANGED phase PROVE phase'[c] \in {"using", "leaving"}
  BY <1>1
<1>2. ASSUME NEW d \in Client,
             Post(d) \/ PostReturns(d) \/ Connect(d) \/ Upgrade(d) \/ Count(d) \/ Acquire(d)
               \/ Leave(d)
      PROVE  phase'[c] \in {"using", "leaving"}
  BY <1>2 DEF Post, PostReturns, Connect, Upgrade, Count, Acquire, Leave
<1>6. ASSUME NEW d \in Client, EndOfSession(d) PROVE phase'[c] \in {"using", "leaving"}
  BY <1>6 DEF EndOfSession, Killed
<1>3. ASSUME NEW d \in Client,
             Kill(d) \/ CleanLeftover(d) \/ MarkCleaned(d) \/ MarkAtStart(d)
      PROVE  phase'[c] \in {"using", "leaving"}
  <2>1. phase' = phase /\ (Removed({d}) \/ Killed(d) \/ UNCHANGED box)
    BY <1>3 DEF Kill, CleanLeftover, Past, MarkCleaned, MarkAtStart
  <2> QED BY <1>1, <2>1 DEF Removed, Killed
<1>4. CASE SetField \/ RunFails \/ RunReturns \/ Signal \/ Panic \/ CloseListeners \/ HttpDone
             \/ StopRunner \/ RunnersStopped \/ StopManager \/ ExpireAndRemoveAll \/ Wait
             \/ LeftoverDone \/ CloseClients \/ UNCHANGED vars
  BY <1>1, <1>4 DEF SetField, RunFails, RunReturns, Signal, Panic, CloseListeners, HttpDone,
                    StopRunner, RunnersStopped, StopManager, ExpireAndRemoveAll, Wait,
                    LeftoverDone, CloseClients, Advance, vars
<1>5. ASSUME NEW r \in Runner, TaskBegins(r) \/ Trigger(r) \/ TriggerRuns(r)
      PROVE  phase'[c] \in {"using", "leaving"}
  BY <1>1, <1>5 DEF TaskBegins, Trigger, TriggerRuns
<1>7. ASSUME NEW r \in Runner, TaskEnds(r) PROVE phase'[c] \in {"using", "leaving"}
  <2>1. phase' = phase /\ box[c] = "running"
    BY <1>7, TaskChanges
  <2> QED BY <1>1, <2>1
<1> QED
  BY <1>2, <1>3, <1>4, <1>5, <1>6, <1>7 DEF Next, ShutdownStep, HandlerStep

\* While nothing fails a container that was killed runs again only for a session that wsWG
\* heard of too late.
LEMMA KilledOrLate ==
  ASSUME BoxInv, WaitInv, KilledInv, faults = Faults, NEW c \in Client, c \in killed, c \notin late
  PROVE  box[c] # "running"
BY DEF BoxInv, WaitInv, KilledInv, Waited, Counted

\* The rows that cleanupLeftoverInstances found are cleaned one by one, and no post
\* adds one to them.
LEMMA StepLeftover ==
  TypeOK /\ TasksQuiet /\ HttpInv /\ WaitInv /\ BoxInv /\ KilledInv /\ LeftoverInv /\ [Next]_vars
    => LeftoverInv'
<1> SUFFICES ASSUME TypeOK, TasksQuiet, HttpInv, WaitInv, BoxInv, KilledInv, LeftoverInv, [Next]_vars,
                    ~timedOut', faults' = Faults, shut' \in Waited,
                    NEW c \in Client, c \notin late', row'[c] = "active"
             PROVE  (shut' = "leftover" /\ c \in todo') \/ LeftAlone(c)'
  BY DEF LeftoverInv, Waited
<1>0. faults = Faults /\ ~OneFails
  BY NoFault
<1> USE <1>0 DEF TypeOK, LeftoverInv, LeftAlone, Waited, run, stop, session, store, tasks, Goto
<1>1. ASSUME ~timedOut, row[c] = "active", c \notin late, shut = shut', UNCHANGED todo,
             box[c] = "none" => box'[c] = "none"
      PROVE  (shut' = "leftover" /\ c \in todo') \/ LeftAlone(c)'
  BY <1>1
<1>2. CASE Wait
  <2>1. todo' = RowsIn("active")
    BY <1>2 DEF Wait, Finds
  <2> QED BY <1>2, <2>1 DEF Wait, Advance, RowsIn
<1>3. ASSUME NEW d \in Client, CleanLeftover(d)
      PROVE  (shut' = "leftover" /\ c \in todo') \/ LeftAlone(c)'
  <2>1. /\ shut = "leftover" /\ shut' = "leftover" /\ todo' = todo \ {d} /\ d \in killed
        /\ ~timedOut /\ c \notin late
    BY <1>3 DEF CleanLeftover, Past
  <2>2. row[c] = "active" /\ (box[c] = "none" => box'[c] = "none")
    BY <1>3 DEF CleanLeftover, Marked, Removed
  <2>3. CASE c # d
    BY <2>1, <2>2, <2>3
  <2>4. CASE c = d
    <3>1. box[d] # "running"
      BY <2>1, <2>4, KilledOrLate
    <3>2. c \in Sharing /\ Removed({d})
      BY <1>3, <2>4, <3>1 DEF CleanLeftover, Marked
    <3> QED BY <2>4, <3>2 DEF Removed
  <2> QED BY <2>3, <2>4
<1>11. ASSUME NEW d \in Client, Kill(d)
      PROVE  (shut' = "leftover" /\ c \in todo') \/ LeftAlone(c)'
  BY <1>1, <1>11 DEF Kill, Killed
<1>4. ASSUME NEW d \in Client, MarkCleaned(d)
      PROVE  (shut' = "leftover" /\ c \in todo') \/ LeftAlone(c)'
  <2>1. shut = "force" /\ shut' = "force" /\ ~timedOut /\ c \notin late
    BY <1>4 DEF MarkCleaned, Past
  <2>2. row[c] = "active" /\ (box[c] = "none" => box'[c] = "none")
    BY <1>4 DEF MarkCleaned, Marked, Removed
  <2> QED BY <2>1, <2>2
<1>10. ASSUME NEW d \in Client, MarkAtStart(d)
      PROVE  (shut' = "leftover" /\ c \in todo') \/ LeftAlone(c)'
  <2>1. row[c] = "active" /\ (box[c] = "none" => box'[c] = "none")
    BY <1>10 DEF MarkAtStart, Marked, Removed
  <2> QED BY <1>1, <1>10, <2>1 DEF MarkAtStart
<1>5. CASE LeftoverDone \/ CloseClients
  BY <1>5 DEF LeftoverDone, CloseClients, Finds, Advance
<1>6. ASSUME NEW d \in Client, PostReturns(d) PROVE FALSE
  BY <1>6 DEF PostReturns, HttpInv, Expired, Tracked
<1>7. ASSUME NEW d \in Client,
             Post(d) \/ Connect(d) \/ Upgrade(d) \/ Count(d) \/ Leave(d)
      PROVE  (shut' = "leftover" /\ c \in todo') \/ LeftAlone(c)'
  BY <1>1, <1>7 DEF Post, Connect, Upgrade, Count, Leave
<1>12. ASSUME NEW d \in Client, Acquire(d) \/ EndOfSession(d)
      PROVE  (shut' = "leftover" /\ c \in todo') \/ LeftAlone(c)'
  BY <1>1, <1>12 DEF Acquire, EndOfSession, Killed
<1>8. CASE SetField \/ RunFails \/ RunReturns \/ Signal \/ Panic \/ CloseListeners \/ HttpDone
             \/ StopRunner \/ RunnersStopped \/ StopManager \/ ExpireAndRemoveAll
             \/ UNCHANGED vars
  BY <1>1, <1>8 DEF SetField, RunFails, RunReturns, Signal, Panic, CloseListeners, HttpDone,
                    StopRunner, RunnersStopped, StopManager, ExpireAndRemoveAll, Advance, vars
<1>9. ASSUME NEW r \in Runner, TaskBegins(r) \/ TaskEnds(r) \/ Trigger(r) \/ TriggerRuns(r)
      PROVE  (shut' = "leftover" /\ c \in todo') \/ LeftAlone(c)'
  BY <1>1, <1>9 DEF TaskBegins, TaskEnds, Trigger, TriggerRuns, TasksQuiet, Expired
<1> QED
  BY <1>2, <1>3, <1>4, <1>5, <1>6, <1>7, <1>8, <1>9, <1>10, <1>11, <1>12
     DEF Next, ShutdownStep, HandlerStep

\* Only the two cleanups kill, and they leave no row half-way.
LEMMA StepKilled == TypeOK /\ KilledInv /\ [Next]_vars => KilledInv'
<1> SUFFICES ASSUME TypeOK, KilledInv, [Next]_vars PROVE KilledInv'
  OBVIOUS
<1> USE DEF TypeOK, KilledInv, run, stop, session, store, tasks, Goto
<1>1. CASE SetField \/ RunFails \/ RunReturns \/ Signal \/ Panic \/ CloseListeners \/ HttpDone
             \/ StopRunner \/ RunnersStopped \/ StopManager \/ ExpireAndRemoveAll \/ Wait
             \/ LeftoverDone \/ CloseClients \/ UNCHANGED vars
  BY <1>1 DEF SetField, RunFails, RunReturns, Signal, Panic, CloseListeners, HttpDone,
              StopRunner, RunnersStopped, StopManager, ExpireAndRemoveAll, Wait,
              LeftoverDone, CloseClients, Advance, vars
<1>2. ASSUME NEW d \in Client,
             Post(d) \/ PostReturns(d) \/ Connect(d) \/ HandlerStep(d) \/ Leave(d)
               \/ Kill(d) \/ CleanLeftover(d) \/ MarkCleaned(d) \/ MarkAtStart(d)
      PROVE  KilledInv'
  BY <1>2 DEF Post, PostReturns, Connect, HandlerStep, Upgrade, Count, Acquire, EndOfSession,
              Leave, Kill, CleanLeftover, Past, MarkCleaned, MarkAtStart
<1>3. ASSUME NEW r \in Runner, TaskBegins(r) \/ TaskEnds(r) \/ Trigger(r) \/ TriggerRuns(r)
      PROVE  KilledInv'
  BY <1>3 DEF TaskBegins, TaskEnds, Trigger, TriggerRuns
<1> QED BY <1>1, <1>2, <1>3 DEF Next, ShutdownStep

\* A client gets its row and its container together, and a row once made stays.
LEMMA StepNone == TypeOK /\ NoneInv /\ [Next]_vars => NoneInv'
<1> SUFFICES ASSUME TypeOK, NoneInv, [Next]_vars, NEW c \in Client, row'[c] = "none"
             PROVE  box'[c] = "none"
  BY DEF NoneInv
<1> USE DEF TypeOK, NoneInv, run, stop, session, store, tasks, Goto
<1>1. ASSUME row[c] = "none", box[c] = "none" => box'[c] = "none" PROVE box'[c] = "none"
  BY <1>1
<1>2. ASSUME NEW d \in Client,
             Post(d) \/ PostReturns(d) \/ Connect(d) \/ Upgrade(d) \/ Count(d) \/ Acquire(d)
               \/ Leave(d) \/ EndOfSession(d)
      PROVE  box'[c] = "none"
  BY <1>1, <1>2 DEF Post, PostReturns, Connect, Upgrade, Count, Acquire, Leave, EndOfSession,
                    Killed
<1>3. ASSUME NEW d \in Client, Kill(d) \/ CleanLeftover(d) \/ MarkCleaned(d) \/ MarkAtStart(d)
      PROVE  box'[c] = "none"
  <2>1. Marked({d}, "cleaned") \/ UNCHANGED row
    BY <1>3 DEF Kill, CleanLeftover, MarkCleaned, MarkAtStart
  <2>2. Removed({d}) \/ Killed(d) \/ UNCHANGED box
    BY <1>3 DEF Kill, CleanLeftover, MarkCleaned, MarkAtStart
  <2> QED BY <1>1, <2>1, <2>2 DEF Marked, Removed, Killed
<1>4. CASE SetField \/ RunFails \/ RunReturns \/ Signal \/ Panic \/ CloseListeners \/ HttpDone
             \/ StopRunner \/ RunnersStopped \/ StopManager \/ ExpireAndRemoveAll \/ Wait
             \/ LeftoverDone \/ CloseClients \/ UNCHANGED vars
  BY <1>1, <1>4 DEF SetField, RunFails, RunReturns, Signal, Panic, CloseListeners, HttpDone,
                    StopRunner, RunnersStopped, StopManager, ExpireAndRemoveAll, Wait,
                    LeftoverDone, CloseClients, Advance, vars
<1>5. ASSUME NEW r \in Runner, TaskBegins(r) \/ Trigger(r) \/ TriggerRuns(r) PROVE box'[c] = "none"
  BY <1>1, <1>5 DEF TaskBegins, Trigger, TriggerRuns
<1>6. ASSUME NEW r \in Runner, TaskEnds(r) PROVE box'[c] = "none"
  BY <1>1, <1>6, TaskChanges
<1> QED
  BY <1>2, <1>3, <1>4, <1>5, <1>6 DEF Next, ShutdownStep, HandlerStep

\* The containers that are stranded, or will be ...
Lost == Stranded \cup Spared

\* ... stay within the calls that have failed when they become no more ...
LEMMA NoMoreLost ==
  ASSUME TypeOK, StrandInv, Lost' \subseteq Lost, UNCHANGED faults \/ OneFails
  PROVE  StrandInv'
<1>1. IsFiniteSet(Lost) /\ Cardinality(Lost) <= Faults - faults
  BY DEF StrandInv, Lost
<1>2. IsFiniteSet(Lost') /\ Cardinality(Lost') <= Cardinality(Lost)
  BY <1>1, FS_Subset
<1>3. Cardinality(Lost) \in Nat /\ Cardinality(Lost') \in Nat
  BY <1>1, <1>2, FS_CardinalityType
<1>4. faults' <= faults /\ faults' \in Int /\ faults \in Int /\ Faults \in Int
  BY FaultAssumption DEF OneFails, TypeOK
<1> QED BY <1>1, <1>2, <1>3, <1>4 DEF StrandInv, Lost

\* ... and when a failing call adds one.
LEMMA OneMoreLost ==
  ASSUME TypeOK, StrandInv, NEW c, Lost' \subseteq Lost \cup {c}, OneFails
  PROVE  StrandInv'
<1>1. IsFiniteSet(Lost) /\ Cardinality(Lost) <= Faults - faults
  BY DEF StrandInv, Lost
<1>2. IsFiniteSet(Lost \cup {c}) /\ Cardinality(Lost \cup {c}) <= Cardinality(Lost) + 1
  <2>1. Cardinality(Lost) \in Nat
    BY <1>1, FS_CardinalityType
  <2>2. /\ IsFiniteSet(Lost \cup {c})
        /\ Cardinality(Lost \cup {c}) = IF c \in Lost THEN Cardinality(Lost) ELSE Cardinality(Lost) + 1
    BY <1>1, FS_AddElement, Zenon
  <2> QED BY <2>1, <2>2
<1>3. IsFiniteSet(Lost') /\ Cardinality(Lost') <= Cardinality(Lost \cup {c})
  BY <1>2, FS_Subset
<1>4. /\ Cardinality(Lost) \in Nat /\ Cardinality(Lost') \in Nat /\ Cardinality(Lost \cup {c}) \in Nat
  BY <1>1, <1>2, <1>3, FS_CardinalityType
<1>5. faults' = faults - 1 /\ faults \in Int /\ Faults \in Int
  BY FaultAssumption DEF OneFails, TypeOK
<1> QED BY <1>1, <1>2, <1>3, <1>4, <1>5 DEF StrandInv, Lost

\* A row is marked with its container gone, or by a failing call, or after one.
LEMMA StepStrand == TypeOK /\ WaitInv /\ KilledInv /\ StrandInv /\ [Next]_vars => StrandInv'
<1> SUFFICES ASSUME TypeOK, WaitInv, KilledInv, StrandInv, [Next]_vars PROVE StrandInv'
  OBVIOUS
<1> USE DEF TypeOK, run, stop, session, store, tasks, Goto
<1>1. ASSUME NEW d \in Client, Post(d) \/ PostReturns(d) \/ Connect(d) \/ Upgrade(d) \/ Count(d)
                                 \/ Leave(d)
      PROVE  StrandInv'
  <2>1. UNCHANGED <<faults, killed>> /\ late \subseteq late'
    BY <1>1 DEF Post, PostReturns, Connect, Upgrade, Count, Leave
  <2>2. \A c \in Client : \/ row'[c] = row[c] /\ box'[c] = box[c]
                          \/ row'[c] = "active" /\ box'[c] = "stopped"
    BY <1>1 DEF Post, PostReturns, Connect, Upgrade, Count, Leave
  <2>3. Lost' \subseteq Lost
    BY <2>1, <2>2 DEF Lost, Stranded, Spared
  <2> QED BY <2>1, <2>3, NoMoreLost
<1>2. ASSUME NEW d \in Client, Acquire(d) PROVE StrandInv'
  <2>1. /\ UNCHANGED <<row, killed, late>> /\ (UNCHANGED faults \/ OneFails)
        /\ \A c \in Client : box'[c] = box[c] \/ (c = d /\ box[c] = "stopped")
    BY <1>2 DEF Acquire
  <2>2. d \in killed => d \in late
    BY <1>2 DEF Acquire, WaitInv, KilledInv, Waited, Counted
  <2>3. Lost' \subseteq Lost
    BY <2>1, <2>2 DEF Lost, Stranded, Spared
  <2> QED BY <2>1, <2>3, NoMoreLost
<1>3. ASSUME NEW d \in Client, EndOfSession(d) PROVE StrandInv'
  <2>1. /\ UNCHANGED <<row, killed, late>> /\ (UNCHANGED faults \/ OneFails)
        /\ \A c \in Client : box'[c] = box[c] \/ (box[c] = "running" /\ box'[c] = "stopped")
    BY <1>3 DEF EndOfSession, Killed
  <2>2. Lost' \subseteq Lost
    BY <2>1 DEF Lost, Stranded, Spared
  <2> QED BY <2>1, <2>2, NoMoreLost
<1>4. ASSUME NEW d \in Client, Kill(d) PROVE StrandInv'
  <2>1. UNCHANGED <<row, late>> /\ killed' = {d} /\ killed = {}
    BY <1>4 DEF Kill
  <2>2. CASE Killed(d) /\ UNCHANGED faults
    <3>1. \A c \in Client : /\ box'[c] = box[c] \/ (box[c] = "running" /\ box'[c] = "stopped")
                            /\ c = d => box'[c] # "running"
      BY <2>2 DEF Killed
    <3>2. Lost' \subseteq Lost
      BY <2>1, <3>1 DEF Lost, Stranded, Spared
    <3> QED BY <2>2, <3>2, NoMoreLost
  <2>3. CASE OneFails /\ UNCHANGED box
    <3>1. Lost' \subseteq Lost \cup {d}
      BY <2>1, <2>3 DEF Lost, Stranded, Spared
    <3> QED BY <2>3, <3>1, OneMoreLost
  <2> QED BY <1>4, <2>2, <2>3 DEF Kill
<1>5. ASSUME NEW d \in Client, CleanLeftover(d) PROVE StrandInv'
  <2>1. UNCHANGED late /\ killed' = {} /\ (UNCHANGED faults \/ OneFails)
    BY <1>5 DEF CleanLeftover, Past
  <2>2. \/ Removed({d}) /\ (Marked({d}, "cleaned") \/ UNCHANGED row)
        \/ UNCHANGED <<row, box>>
    BY <1>5 DEF CleanLeftover
  <2>3. Lost' \subseteq Lost
    BY <2>1, <2>2 DEF Lost, Stranded, Spared, Marked, Removed
  <2> QED BY <2>1, <2>3, NoMoreLost
<1>6. ASSUME NEW d \in Client, MarkCleaned(d) PROVE StrandInv'
  <2>1. UNCHANGED late /\ killed' = {} /\ d \in killed
    BY <1>6 DEF MarkCleaned, Past
  <2>2. CASE UNCHANGED faults
    <3>1. Marked({d}, "cleaned") /\ (Removed({d}) \/ (box[d] = "running" /\ UNCHANGED box))
      BY <1>6, <2>2 DEF MarkCleaned, OneFails
    <3>2. Lost' \subseteq Lost
      BY <2>1, <3>1 DEF Lost, Stranded, Spared, Marked, Removed
    <3> QED BY <2>2, <3>2, NoMoreLost
  <2>3. CASE OneFails
    <3>1. (Marked({d}, "cleaned") \/ UNCHANGED row) /\ (Removed({d}) \/ UNCHANGED box)
      BY <1>6 DEF MarkCleaned
    <3>2. Lost' \subseteq Lost \cup {d}
      BY <2>1, <3>1 DEF Lost, Stranded, Spared, Marked, Removed
    <3> QED BY <2>3, <3>2, OneMoreLost
  <2> QED BY <1>6, <2>2, <2>3 DEF MarkCleaned
<1>7. ASSUME NEW d \in Client, MarkAtStart(d) PROVE StrandInv'
  <2>1. UNCHANGED <<late, killed>> /\ Marked({d}, "cleaned")
    BY <1>7 DEF MarkAtStart
  <2>2. CASE Removed({d}) /\ UNCHANGED faults
    <3>1. Lost' \subseteq Lost
      BY <2>1, <2>2 DEF Lost, Stranded, Spared, Marked, Removed
    <3> QED BY <2>2, <3>1, NoMoreLost
  <2>3. CASE OneFails /\ UNCHANGED box
    <3>1. Lost' \subseteq Lost \cup {d}
      BY <2>1, <2>3 DEF Lost, Stranded, Spared, Marked
    <3> QED BY <2>3, <3>1, OneMoreLost
  <2> QED BY <1>7, <2>2, <2>3 DEF MarkAtStart
<1>8. CASE SetField \/ RunFails \/ RunReturns \/ Signal \/ Panic \/ CloseListeners \/ HttpDone
             \/ StopRunner \/ RunnersStopped \/ StopManager \/ ExpireAndRemoveAll \/ Wait
             \/ LeftoverDone \/ CloseClients \/ UNCHANGED vars
  <2>1. UNCHANGED <<row, box, killed, late>> /\ (UNCHANGED faults \/ OneFails)
    BY <1>8, Zenon
       DEF SetField, RunFails, RunReturns, Signal, Panic, CloseListeners, HttpDone,
           StopRunner, RunnersStopped, StopManager, ExpireAndRemoveAll, Wait,
           LeftoverDone, CloseClients, Finds, vars
  <2>2. Lost' \subseteq Lost
    BY <2>1 DEF Lost, Stranded, Spared
  <2> QED BY <2>1, <2>2, NoMoreLost
<1>9. ASSUME NEW r \in Runner, TaskBegins(r) \/ Trigger(r) \/ TriggerRuns(r) PROVE StrandInv'
  <2>1. UNCHANGED <<row, box, killed, late, faults>>
    BY <1>9 DEF TaskBegins, Trigger, TriggerRuns
  <2>2. Lost' \subseteq Lost
    BY <2>1 DEF Lost, Stranded, Spared
  <2> QED BY <2>1, <2>2, NoMoreLost
<1>10. ASSUME NEW r \in Runner, TaskEnds(r) PROVE StrandInv'
  <2>1. UNCHANGED <<killed, late, faults>>
    BY <1>10, TaskChanges
  <2>2. \A c \in Client :
          /\ box'[c] \in {box[c], "none"} \/ (box[c] = "running" /\ box'[c] = "stopped")
          /\ row'[c] = "cleaned" => row[c] = "cleaned" \/ box'[c] = "none"
    BY <1>10, TaskChanges
  <2>3. Lost' \subseteq Lost
    BY <2>1, <2>2 DEF Lost, Stranded, Spared
  <2> QED BY <2>1, <2>3, NoMoreLost
<1> QED
  BY <1>1, <1>2, <1>3, <1>4, <1>5, <1>6, <1>7, <1>8, <1>9, <1>10 DEF Next, ShutdownStep, HandlerStep

\* markAllInstancesCleanedAndInactive marks what it has found, and no post adds to that.
LEMMA StepForce == TypeOK /\ TasksQuiet /\ HttpInv /\ ForceInv /\ [Next]_vars => ForceInv'
<1> SUFFICES ASSUME TypeOK, TasksQuiet, HttpInv, ForceInv, [Next]_vars,
                    force', ~timedOut', faults' = Faults, shut' \in {"force", "close", "done"},
                    NEW c \in Client, row'[c] \in {"active", "inactive"}
             PROVE  shut' = "force" /\ c \in todo'
  BY DEF ForceInv, Unmarked, RowsIn
<1>0. faults = Faults /\ ~OneFails
  BY NoFault
<1> USE <1>0 DEF TypeOK, ForceInv, Unmarked, RowsIn, run, stop, session, store, tasks, Goto
<1>1. ASSUME force, ~timedOut, row'[c] = row[c], shut = shut', UNCHANGED todo
      PROVE  shut' = "force" /\ c \in todo'
  BY <1>1
<1>2. CASE LeftoverDone
  <2>1. todo' = Unmarked
    BY <1>2 DEF LeftoverDone, Finds
  <2> QED BY <1>2, <2>1 DEF LeftoverDone, Advance
<1>3. CASE CloseClients
  BY <1>3 DEF CloseClients, Advance
<1>4. ASSUME NEW d \in Client, MarkCleaned(d) PROVE shut' = "force" /\ c \in todo'
  <2>1. Marked({d}, "cleaned")
    BY <1>4 DEF MarkCleaned
  <2> QED BY <1>4, <2>1 DEF MarkCleaned, Past, Marked
<1>5. ASSUME NEW d \in Client, CleanLeftover(d) PROVE FALSE
  BY <1>5 DEF CleanLeftover, Past
<1>11. ASSUME NEW d \in Client, MarkAtStart(d) PROVE shut' = "force" /\ c \in todo'
  <2>1. row'[c] = row[c]
    BY <1>11 DEF MarkAtStart, Marked
  <2> QED BY <1>1, <1>11, <2>1 DEF MarkAtStart
<1>12. ASSUME NEW d \in Client, Kill(d) PROVE shut' = "force" /\ c \in todo'
  BY <1>1, <1>12 DEF Kill
<1>6. ASSUME NEW d \in Client, PostReturns(d) PROVE FALSE
  BY <1>6 DEF PostReturns, HttpInv, Expired, Waited, Tracked
<1>7. ASSUME NEW d \in Client,
             Post(d) \/ Connect(d) \/ Upgrade(d) \/ Count(d) \/ Acquire(d)
               \/ Leave(d) \/ EndOfSession(d)
      PROVE  shut' = "force" /\ c \in todo'
  BY <1>1, <1>7 DEF Post, Connect, Upgrade, Count, Acquire, Leave, EndOfSession
<1>8. CASE SetField \/ RunFails \/ RunReturns \/ StopRunner \/ UNCHANGED vars
  BY <1>1, <1>8 DEF SetField, RunFails, RunReturns, StopRunner, vars
<1>9. CASE Signal \/ Panic \/ CloseListeners \/ HttpDone \/ RunnersStopped \/ StopManager
             \/ ExpireAndRemoveAll \/ Wait
  BY <1>9 DEF Signal, Panic, CloseListeners, HttpDone, RunnersStopped, StopManager,
              ExpireAndRemoveAll, Wait, Advance
<1>10. ASSUME NEW r \in Runner, TaskBegins(r) \/ TaskEnds(r) \/ Trigger(r) \/ TriggerRuns(r)
      PROVE  shut' = "force" /\ c \in todo'
  BY <1>1, <1>10 DEF TaskBegins, TaskEnds, Trigger, TriggerRuns, TasksQuiet, Expired, Waited
<1> QED
  BY <1>2, <1>3, <1>4, <1>5, <1>6, <1>7, <1>8, <1>9, <1>10, <1>11, <1>12
     DEF Next, ShutdownStep, HandlerStep

\* When Run has set the last field they are all set, and the runners that are made are
\* all but autoPull's if auto-pull is disabled.
LEMMA MadeWhenUp ==
  ASSUME boot \in 0..8
  PROVE  /\ Made("srv") => boot = 8
         /\ boot = 8 => \A k \in 1..6 : Made(StopOrder[k]) <=> ~(k = 3 /\ DisableAutoPull)
BY OptionAssumption DEF Made, Fields, StopOrder

\* Shutdown reads srv first, and stops no runner before all the fields are set.
LEMMA StepPanic == TypeOK /\ LateInv /\ PanicInv /\ [Next]_vars => PanicInv'
<1> SUFFICES ASSUME TypeOK, LateInv, PanicInv, [Next]_vars PROVE PanicInv'
  OBVIOUS
<1> USE OptionAssumption DEF TypeOK, PanicInv, LateInv, run, stop, session, store, tasks, Goto
<1>1. ASSUME UNCHANGED <<boot, shut, stops>>, exited => exited' PROVE PanicInv'
  BY <1>1
<1>2. CASE SetField
  BY <1>2 DEF SetField
<1>3. CASE RunFails \/ RunReturns \/ UNCHANGED vars
  BY <1>1, <1>3 DEF RunFails, RunReturns, vars
<1>4. CASE StopRunner
  <2>1. boot = 8 /\ shut' = "runners" /\ stops' = stops + 1 /\ stops < 6 /\ Made(StopOrder[stops + 1])
    BY <1>4 DEF StopRunner
  <2>2. DisableAutoPull => stops + 1 # 3
    BY <2>1, MadeWhenUp
  <2> QED BY <1>4, <2>1, <2>2 DEF StopRunner
<1>5. CASE CloseListeners
  BY <1>5, MadeWhenUp DEF CloseListeners, Advance
<1>6. CASE Panic
  <2>1. CASE shut = "http" /\ ~Made("srv")
    <3>1. boot # 8
      <4>1. 8 \in 1..8 /\ Fields[8] = "srv"
        BY DEF Fields
      <4> QED BY <2>1, <4>1 DEF Made
    <3>2. boot' = boot /\ stops' = stops /\ shut' = "panicked" /\ exited'
      BY <1>6 DEF Panic
    <3> QED BY <2>1, <3>1, <3>2
  <2>2. CASE shut = "runners" /\ stops < 6 /\ ~Made(StopOrder[stops + 1])
    <3>1. boot = 8 /\ stops + 1 \in 1..6
      BY <2>2
    <3>2. stops + 1 = 3 /\ DisableAutoPull
      BY <2>2, <3>1, MadeWhenUp
    <3>3. boot' = boot /\ stops' = stops /\ shut' = "panicked" /\ exited'
      BY <1>6 DEF Panic
    <3> QED BY <3>2, <3>3
  <2> QED BY <1>6, <2>1, <2>2 DEF Panic
<1>7. CASE Signal \/ HttpDone \/ RunnersStopped \/ StopManager \/ ExpireAndRemoveAll \/ Wait
             \/ LeftoverDone \/ CloseClients
  BY <1>7 DEF Signal, HttpDone, RunnersStopped, StopManager, ExpireAndRemoveAll, Wait,
              LeftoverDone, CloseClients, Advance
<1>8. ASSUME NEW d \in Client,
             Post(d) \/ PostReturns(d) \/ Connect(d) \/ HandlerStep(d) \/ Leave(d)
               \/ Kill(d) \/ CleanLeftover(d) \/ MarkCleaned(d) \/ MarkAtStart(d)
      PROVE  PanicInv'
  BY <1>1, <1>8 DEF Post, PostReturns, Connect, HandlerStep, Upgrade, Count, Acquire, EndOfSession,
                    Leave, Kill, CleanLeftover, Past, MarkCleaned, MarkAtStart
<1>9. ASSUME NEW r \in Runner, TaskBegins(r) \/ TaskEnds(r) \/ Trigger(r) \/ TriggerRuns(r)
      PROVE  PanicInv'
  BY <1>1, <1>9 DEF TaskBegins, TaskEnds, Trigger, TriggerRuns
<1> QED
  BY <1>2, <1>3, <1>4, <1>5, <1>6, <1>7, <1>8, <1>9 DEF Next, ShutdownStep
-----------------------------------------------------------------------------
\* Every step preserves the invariant.
LEMMA StepInv == IndInv /\ [Next]_vars => IndInv'
BY StepTypes, StepWg, StepRunners, Quiet, StepWait, StepHttp, StepLate, StepBox, StepLeftover,
   StepKilled, StepNone, StepStrand, StepForce, StepPanic
   DEF IndInv

\* The invariant holds in every reachable state.
THEOREM Invariance == Spec => []IndInv
BY InitInv, StepInv, PTL DEF Spec

\* The types of App's fields, of the clients and of the rows.
THEOREM TypeCorrect == Spec => []TypeOK
BY Invariance, PTL DEF IndInv

\* No runner is in its function once Shutdown waits for the sessions.
THEOREM TasksQuietHolds == Spec => []TasksQuiet
<1>1. IndInv => TasksQuiet
  BY Quiet DEF IndInv
<1> QED BY <1>1, Invariance, PTL

\* No trigger sends to a closed queue unless it outlived the five seconds.
THEOREM NoSendAfterStopHolds == Spec => []NoSendAfterStop
<1>1. IndInv => NoSendAfterStop
  BY DEF IndInv, LateInv
<1> QED BY <1>1, Invariance, PTL

\* A shutdown that came to its end in good order leaves no active row but one whose image
\* another tag names, and a container only where the options allow one, or with a session that
\* wsWG heard of too late; however it goes, what is stranded is bounded by what has failed.
THEOREM LeavesNothingHolds == Spec => []LeavesNothing
<1> DEFINE InGoodOrder == shut = "done" /\ ~timedOut /\ faults = Faults
<1>1. ASSUME IndInv, InGoodOrder, force PROVE Unmarked = {}
  BY <1>1 DEF IndInv, ForceInv
<1>2. ASSUME IndInv PROVE Cardinality(Stranded) <= Faults - faults
  <2>1. IsFiniteSet(Stranded \cup Spared) /\ Cardinality(Stranded \cup Spared) <= Faults - faults
    BY <1>2 DEF IndInv, StrandInv
  <2>2. IsFiniteSet(Stranded) /\ Cardinality(Stranded) <= Cardinality(Stranded \cup Spared)
    BY <2>1, FS_Subset
  <2>3. Cardinality(Stranded) \in Nat /\ Cardinality(Stranded \cup Spared) \in Nat
    BY <2>1, <2>2, FS_CardinalityType
  <2>4. faults \in Int /\ Faults \in Int
    BY <1>2, FaultAssumption DEF IndInv, TypeOK
  <2> QED BY <2>1, <2>2, <2>3, <2>4
<1>3. ASSUME IndInv, InGoodOrder PROVE Stranded = {}
  <2>1. IsFiniteSet(Stranded) /\ Cardinality(Stranded) <= 0
    <3>1. IsFiniteSet(Stranded \cup Spared)
      BY <1>3 DEF IndInv, StrandInv
    <3>2. Faults - faults = 0
      BY <1>3, FaultAssumption DEF IndInv, TypeOK
    <3> QED BY <1>2, <1>3, <3>1, <3>2, FS_Subset
  <2>2. Cardinality(Stranded) = 0
    BY <2>1, FS_CardinalityType
  <2> QED BY <2>1, <2>2, FS_EmptySet
<1>4. ASSUME IndInv, InGoodOrder, NEW c \in Client \ late
      PROVE  /\ row[c] = "active" => c \in Sharing /\ box[c] = "none"
             /\ box[c] # "running"
             /\ force => box[c] = "none"
  <2>1. row[c] = "active" => c \in Sharing /\ box[c] = "none"
    BY <1>4 DEF IndInv, LeftoverInv, LeftAlone
  <2>2. box[c] # "running"
    BY <1>4 DEF IndInv, BoxInv, WaitInv, Waited, Counted
  <2>3. ASSUME force PROVE box[c] = "none"
    <3>1. row[c] \in {"none", "cleaned"}
      BY <1>1, <1>4, <2>3 DEF IndInv, TypeOK, Unmarked, RowsIn
    <3>2. row[c] = "cleaned" => box[c] = "none"
      BY <1>3, <1>4 DEF Stranded
    <3> QED BY <1>4, <3>1, <3>2 DEF IndInv, NoneInv
  <2> QED BY <2>1, <2>2, <2>3
<1>5. IndInv => LeavesNothing
  BY <1>1, <1>2, <1>4 DEF LeavesNothing
<1> QED BY <1>5, Invariance, PTL

\* Shutdown panics only when it comes before Run has set srv, or when auto-pull is disabled;
\* and then it always does, so it never gets to the sessions.
ShutdownPanics ==
  /\ shut = "panicked" => boot < 8 \/ (DisableAutoPull /\ stops = 2)
  /\ DisableAutoPull => shut \notin Expired \cup {"manager", "expire"}
THEOREM ShutdownPanicsHolds == Spec => []ShutdownPanics
<1>1. IndInv => ShutdownPanics
  BY DEF IndInv, PanicInv, RunnerInv, ShutdownPanics
<1> QED BY <1>1, Invariance, PTL

\* Nobody touches the container of a session that wsWG counts in time.
THEOREM WaitsForSessionsHolds == Spec => WaitsForSessions
<1>1. IndInv =>
        [\A c \in Client :
           shut \in Waited /\ phase[c] \in Counted /\ phase'[c] = phase[c] /\ box'[c] # box[c]
             => c \in late]_vars
  BY DEF IndInv, WaitInv
<1> QED BY <1>1, Invariance, PTL DEF WaitsForSessions
-----------------------------------------------------------------------------
\* To the rest of the server a runner is a Task.
LEMMA TaskInit == ASSUME NEW r \in Observed PROVE Init => AsTask(r)!Init
BY DEF Init, AsTask!Init, Made, MayBeClosed, Stopped

\* What happens to a runner does not depend on the others.
LEMMA TaskStep ==
  ASSUME NEW r \in Observed
  PROVE  IndInv /\ [Next]_vars => [AsTask(r)!Next]_(AsTask(r)!vars)
<1> DEFINE closing == Made(r) /\ MayBeClosed(r)
           working == r \in busy
           stopped == Stopped(r)
<1> SUFFICES ASSUME IndInv, [Next]_vars PROVE [AsTask(r)!Next]_(AsTask(r)!vars)
  OBVIOUS
<1> USE DEF run, stop, session, store, tasks, Goto
<1>1. ASSUME working' = working, stopped' = stopped, closing' = closing
      PROVE  [AsTask(r)!Next]_(AsTask(r)!vars)
  BY <1>1 DEF AsTask!vars
<1>2. ASSUME UNCHANGED <<boot, shut, stops>>, working' = working
      PROVE  [AsTask(r)!Next]_(AsTask(r)!vars)
  <2>1. closing' = closing /\ stopped' = stopped
    BY <1>2 DEF Made, MayBeClosed, Stopped
  <2> QED BY <1>1, <1>2, <2>1
<1>3. ASSUME working' = working, stopped' = stopped, closing => closing'
      PROVE  [AsTask(r)!Next]_(AsTask(r)!vars)
  <2>1. CASE ~closing /\ closing'
    <3>1. AsTask(r)!Ask
      BY <1>3, <2>1 DEF AsTask!Ask
    <3> QED BY <3>1 DEF AsTask!Next
  <2>2. CASE closing \/ ~closing'
    BY <1>1, <1>3, <2>2
  <2> QED BY <2>1, <2>2
\* The function.
<1>4. ASSUME NEW q \in Runner, TaskBegins(q) PROVE [AsTask(r)!Next]_(AsTask(r)!vars)
  <2>1. UNCHANGED <<boot, shut, stops>> /\ busy' = busy \cup {q} /\ ~Stopped(q) /\ q \notin busy
    BY <1>4 DEF TaskBegins
  <2>2. CASE q # r
    BY <1>2, <2>1, <2>2
  <2>3. CASE q = r
    <3>1. closing' = closing /\ stopped' = stopped
      BY <2>1 DEF Made, MayBeClosed, Stopped
    <3>2. AsTask(r)!Begin
      BY <2>1, <2>3, <3>1 DEF AsTask!Begin
    <3> QED BY <3>2 DEF AsTask!Next
  <2> QED BY <2>2, <2>3
<1>5. ASSUME NEW q \in Runner, TaskEnds(q) PROVE [AsTask(r)!Next]_(AsTask(r)!vars)
  <2>1. UNCHANGED <<boot, shut, stops>> /\ busy' = busy \ {q} /\ q \in busy
    BY <1>5 DEF TaskEnds
  <2>2. CASE q # r
    BY <1>2, <2>1, <2>2
  <2>3. CASE q = r
    <3>1. closing' = closing /\ stopped' = stopped
      BY <2>1 DEF Made, MayBeClosed, Stopped
    <3>2. AsTask(r)!End
      BY <2>1, <2>3, <3>1 DEF AsTask!End
    <3> QED BY <3>2 DEF AsTask!Next
  <2> QED BY <2>2, <2>3
\* Shutdown: it asks one runner after the other, and goes on when Stop has returned.
<1>6. CASE StopRunner
  <2>1. /\ shut = "runners" /\ shut' = "runners" /\ stops' = stops + 1 /\ boot' = boot /\ busy' = busy
        /\ Made(StopOrder[stops + 1]) /\ StopOrder[stops + 1] \notin busy /\ stops \in 0..5
    BY <1>6 DEF StopRunner, IndInv, TypeOK
  <2>2. \A k \in 1..stops : k \in 1..stops'
    BY <2>1
  <2>3. CASE StopOrder[stops + 1] = r
    <3>1. ~stopped
      BY <2>1, <2>3 DEF Stopped, StopOrder
    <3>2. stopped' /\ closing
      BY <2>1, <2>3 DEF Stopped, MayBeClosed
    <3>3. closing' /\ working' = working
      BY <2>1, <3>2 DEF MayBeClosed, Made
    <3>4. AsTask(r)!StopReturns
      BY <2>1, <2>3, <3>1, <3>2, <3>3 DEF AsTask!StopReturns
    <3> QED BY <3>4 DEF AsTask!Next
  <2>4. CASE StopOrder[stops + 1] # r
    <3>1. stopped' = stopped
      <4>1. \A k \in 1..stops' : k \in 1..stops \/ k = stops + 1
        BY <2>1
      <4> QED BY <2>1, <2>2, <2>4, <4>1 DEF Stopped
    <3>2. closing => closing'
      BY <2>1, <2>4, <3>1 DEF MayBeClosed, Made
    <3> QED BY <1>3, <2>1, <3>1, <3>2
  <2> QED BY <2>3, <2>4
<1>7. CASE HttpDone
  <2>1. /\ shut = "draining" /\ shut' = "runners" /\ stops' = stops /\ stops = 0 /\ boot' = boot
        /\ busy' = busy
    BY <1>7 DEF HttpDone, Advance, IndInv, LateInv
  <2>2. ~closing /\ stopped' = stopped /\ working' = working
    BY <2>1 DEF MayBeClosed, Stopped
  <2> QED BY <1>3, <2>2
<1>8. CASE RunnersStopped
  <2>1. UNCHANGED <<boot, stops, busy>> /\ stops = 6 /\ shut' = "manager"
    BY <1>8 DEF RunnersStopped, Advance
  <2>2. stopped' = stopped /\ working' = working /\ closing' = closing
    BY <2>1 DEF Stopped, MayBeClosed, Made
  <2> QED BY <1>1, <2>2
<1>9. CASE Signal \/ CloseListeners \/ StopManager \/ ExpireAndRemoveAll \/ Wait \/ LeftoverDone
             \/ CloseClients
  <2>1. UNCHANGED <<boot, stops, busy>> /\ shut # "runners" /\ shut' # "runners"
    BY <1>9 DEF Signal, CloseListeners, StopManager, ExpireAndRemoveAll, Wait, LeftoverDone,
                CloseClients, Advance
  <2>2. stopped' = stopped /\ working' = working /\ closing' = closing
    BY <2>1 DEF Stopped, MayBeClosed, Made
  <2> QED BY <1>1, <2>2
\* Only a runner that does not exist makes Shutdown panic, and it is not closing.
<1>10. CASE Panic
  <2>1. UNCHANGED <<boot, stops, busy>> /\ shut' = "panicked"
          /\ (shut = "http" \/ (shut = "runners" /\ ~Made(StopOrder[stops + 1])))
    BY <1>10 DEF Panic
  <2>2. stopped' = stopped /\ working' = working /\ closing' = closing
    BY <2>1 DEF Stopped, MayBeClosed, Made
  <2> QED BY <1>1, <2>2
\* While fields are still being set Shutdown has not come to the runners.
<1>11. CASE SetField
  <2>1. boot < 8 /\ boot' = boot + 1 /\ ~exited /\ UNCHANGED <<shut, stops, busy>>
    BY <1>11 DEF SetField
  <2>2. stops = 0 /\ shut # "runners"
    BY <2>1 DEF IndInv, PanicInv, TypeOK
  <2>3. ~closing /\ ~closing' /\ stopped' = stopped /\ working' = working
    BY <2>1, <2>2 DEF MayBeClosed, Stopped
  <2> QED BY <1>1, <2>3
\* Everything else.
<1>12. CASE RunFails \/ RunReturns \/ UNCHANGED vars
  BY <1>2, <1>12 DEF RunFails, RunReturns, vars
<1>13. ASSUME NEW q \in Runner, Trigger(q) \/ TriggerRuns(q) PROVE [AsTask(r)!Next]_(AsTask(r)!vars)
  BY <1>2, <1>13 DEF Trigger, TriggerRuns
<1>14. ASSUME NEW d \in Client,
             Post(d) \/ PostReturns(d) \/ Connect(d) \/ HandlerStep(d) \/ Leave(d)
               \/ Kill(d) \/ CleanLeftover(d) \/ MarkCleaned(d) \/ MarkAtStart(d)
      PROVE  [AsTask(r)!Next]_(AsTask(r)!vars)
  <2>1. UNCHANGED <<boot, shut, stops, busy>>
    BY <1>14 DEF Post, PostReturns, Connect, HandlerStep, Upgrade, Count, Acquire, EndOfSession,
                 Leave, Kill, CleanLeftover, Past, MarkCleaned, MarkAtStart
  <2> QED BY <1>2, <2>1
<1> QED
  BY <1>4, <1>5, <1>6, <1>7, <1>8, <1>9, <1>10, <1>11, <1>12, <1>13, <1>14 DEF Next, ShutdownStep

\* What this module takes a runner for is what SchedRunner shows one to be (RunnerIsATask
\* there): Shutdown stops each runner it comes to once, and between two calls.
THEOREM RunnersAreTasks == ASSUME NEW r \in Observed PROVE Spec => AsTask(r)!Spec
<1>1. Init => AsTask(r)!Init
  BY TaskInit
<1>2. IndInv /\ [Next]_vars => [AsTask(r)!Next]_(AsTask(r)!vars)
  BY TaskStep
<1> QED BY <1>1, <1>2, Invariance, PTL DEF Spec, AsTask!Spec
=============================================================================
