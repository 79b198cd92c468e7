---------------------------- MODULE AppLifecycle ----------------------------
(***************************************************************************)
(* Starting and stopping the server (Run and Shutdown of app/app.go, main  *)
(* of main.go, instanceWS and handleInstance of app/instance.go).          *)
(*                                                                         *)
(* main calls Run, which creates the fields of App one by one and then     *)
(* listens; a goroutine of main waits for a signal and calls Shutdown,     *)
(* which reads the same fields.  Clients get themselves an instance and    *)
(* connect a websocket to it.  http.Server.Shutdown waits, for five        *)
(* seconds at most, for the requests it tracks; a websocket handler is     *)
(* tracked until it hijacks its connection, and counted by wsWG a little   *)
(* later.  What runners and cleaners do to the rows is taken from          *)
(* InstanceLifecycle, at the grain of one row, and the runners' and the    *)
(* expire manager's promises from SchedRunner and ExpireManager.  The      *)
(* cleanups of Shutdown go through a row in two steps, the kill and then   *)
(* the removal with what follows it, for sessions that wsWG heard of late  *)
(* may start the container between the two; nothing runs beside the one    *)
(* cleanup of Run.                                                         *)
(***************************************************************************)
EXTENDS Naturals, Sequences, FiniteSets

CONSTANTS Client,           \* each has an instance of its own
          Returning,        \* clients whose instance is left from an earlier process
          DisableAutoPull,  \* the option of that name
          ForceInactive,    \* the values the option of that name may have
          EarlySignal,      \* the signal may come before the server listens
          Observed,         \* the runners whose function takes time
          Triggered,        \* the runners that have a trigger route
          Sharing,          \* clients whose instance's image may have a second tag
          Faults            \* calls of sessions and of Run's and Shutdown's cleanups that may fail

ASSUME OptionAssumption == {DisableAutoPull, EarlySignal} \subseteq BOOLEAN /\ ForceInactive \subseteq BOOLEAN
ASSUME ReturningAssumption == Returning \subseteq Client /\ Sharing \subseteq Client
ASSUME FaultAssumption == Faults \in Nat

\* The order in which Run sets the fields, and that in which Shutdown stops the runners.
Fields == <<"cleanInactive", "checkExpired", "autoPull", "prune", "wsManager",
            "dockerCheck", "databaseCheck", "srv">>
StopOrder == <<"cleanInactive", "checkExpired", "autoPull", "prune",
               "dockerCheck", "databaseCheck">>
Runner == {StopOrder[k] : k \in 1..6}

ASSUME ObservedAssumption == Observed \subseteq Runner
ASSUME TriggeredAssumption == Triggered \subseteq Runner

VARIABLES
  force,      \* the option ForceInactive
  boot,       \* how many fields Run has set
  shut,       \* where Shutdown is
  stops,      \* how many runners it has stopped
  timedOut,   \* http.Server.Shutdown gave up waiting
  exited,     \* the process has ended
  failed,     \* Run has returned an error
  busy,       \* runners that are in their function
  asked,      \* runners on which a trigger request has still to call Run
  sentLate,   \* history: Run has sent to a queue that Stop had closed
  phase,      \* where a client's requests are
  wg,         \* the counter of wsWG
  held,       \* sessions with an entry in the expire manager
  told,       \* sessions, not yet over, that ExpireAndRemoveAll has told
  row, box,   \* the client's instance and its container
  todo,       \* rows cleanupLeftoverInstances or markAll has still to visit
  killed,     \* the row it is at, once the container has been killed
  faults,
  late        \* history: clients counted by wsWG after Shutdown's Wait had returned

run     == <<force, boot, exited, failed>>
stop    == <<shut, stops, timedOut, todo, killed>>
session == <<phase, wg, held, told, late>>
store   == <<row, box, faults>>
tasks   == <<busy, asked, sentLate>>
vars    == <<run, stop, tasks, session, store>>

Tracked == {"creating", "upgrading"}   \* requests http.Server.Shutdown waits for
Counted == {"counted", "using", "leaving"}
Waited  == {"leftover", "force", "close", "done"}
Expired == Waited \cup {"wait"}

TypeOK ==
  /\ force \in BOOLEAN /\ boot \in 0..8 /\ stops \in 0..6 /\ wg \in Nat /\ faults \in 0..Faults
  /\ shut \in Expired \cup {"waiting", "http", "draining", "runners", "manager", "expire", "panicked"}
  /\ timedOut \in BOOLEAN /\ exited \in BOOLEAN /\ failed \in BOOLEAN
  /\ busy \subseteq Observed /\ asked \subseteq Triggered /\ sentLate \in BOOLEAN
  /\ phase \in [Client -> Tracked \cup Counted \cup {"none", "created", "hijacked", "over"}]
  /\ held \subseteq Client /\ told \subseteq Client /\ late \subseteq Client
  /\ todo \subseteq Client /\ killed \subseteq todo
  /\ row \in [Client -> {"none", "active", "inactive", "cleaned"}]
  /\ box \in [Client -> {"none", "stopped", "running"}]

Init ==
  /\ force \in ForceInactive /\ boot = 0 /\ shut = "waiting" /\ stops = 0 /\ timedOut = FALSE
  /\ exited = FALSE /\ failed = FALSE
  /\ busy = {} /\ asked = {} /\ sentLate = FALSE /\ wg = 0
  /\ held = {} /\ told = {} /\ late = {} /\ todo = {} /\ killed = {}
  /\ row \in [Client -> {"none", "active", "inactive"}]
  /\ \A c \in Client : row[c] = "none" <=> c \notin Returning
  /\ box = [c \in Client |-> IF c \in Returning THEN "stopped" ELSE "none"]
  /\ phase = [c \in Client |-> IF c \in Returning THEN "created" ELSE "none"]
  /\ faults = Faults
-----------------------------------------------------------------------------
\* autoPullRunner stays nil when auto-pull is disabled.
Made(f) == /\ \E k \in 1..boot : Fields[k] = f
           /\ ~(f = "autoPull" /\ DisableAutoPull)

RowsIn(state) == {c \in Client : row[c] = state}
Killed(c)     == box' = [box EXCEPT ![c] = IF @ = "running" THEN "stopped" ELSE @]
Removed(T)    == box' = [c \in Client |-> IF c \in T THEN "none" ELSE box[c]]
Marked(S, as) == row' = [c \in Client |-> IF c \in S THEN as ELSE row[c]]

\* The rows that markAllInstancesCleanedAndInactive looks for.
Unmarked == RowsIn("active") \cup RowsIn("inactive")

OneFails == faults > 0 /\ faults' = faults - 1

\* The rows markAllInstancesCleanedAndInactive has still to visit before the runners are
\* made, when nobody else changes rows.
ToMark == IF force THEN Unmarked ELSE {}

MarkAtStart(c) ==
  /\ ~exited /\ boot = 0 /\ c \in ToMark
  /\ Marked({c}, "cleaned")
  /\ \/ Removed({c}) /\ UNCHANGED faults
     \/ OneFails /\ UNCHANGED box
  /\ UNCHANGED <<run, stop, tasks, session>>

\* markAllInstancesCleanedAndInactive leaves rows alone when its query fails, when neither
\* service answers, or when the update of a row fails.
SetField ==
  /\ ~exited /\ boot < 8
  /\ boot' = boot + 1
  /\ \/ (boot = 0 => ToMark = {}) /\ UNCHANGED faults
     \/ boot = 0 /\ ToMark # {} /\ OneFails
  /\ UNCHANGED <<force, exited, failed, stop, tasks, session, row, box>>

Listening == boot = 8 /\ shut \in {"waiting", "http"}

\* The database cannot be opened or migrated, the error log cannot be made, or the
\* listener fails: main ends through logger.Fatal.
RunFails ==
  /\ ~exited /\ (boot \in {0, 7} \/ Listening)
  /\ boot = 0 => ~\E c \in Client : row[c] = "cleaned"     \* the database comes first
  /\ exited' = TRUE /\ failed' = TRUE
  /\ UNCHANGED <<force, boot, stop, tasks, session, store>>

\* ListenAndServe returns ErrServerClosed, Run returns nil, main returns.
RunReturns ==
  /\ ~exited /\ boot = 8 /\ ~Listening
  /\ exited' = TRUE /\ UNCHANGED failed
  /\ UNCHANGED <<force, boot, stop, tasks, session, store>>
-----------------------------------------------------------------------------
Stopped(r) == \E k \in 1..stops : StopOrder[k] = r

TaskBegins(r) ==
  /\ ~exited /\ r \in Observed \ busy
  /\ Made(r) /\ ~Stopped(r)
  /\ busy' = busy \cup {r}
  /\ UNCHANGED <<run, stop, asked, sentLate, session, store>>

\* What the functions of checkExpired and cleanInactive do.  Neither gets through with all
\* rows when a call fails; cleaning may stop after the kill, or the removal.  That prune
\* removes old containers is left to InstanceLifecycle.
Deactivate == \E S \in SUBSET RowsIn("active") : Marked(S, "inactive") /\ UNCHANGED box
Clean ==
  \E K \in SUBSET RowsIn("inactive") : \E T \in SUBSET K : \E S \in SUBSET T :
    /\ box' = [c \in Client |-> IF c \in T THEN "none"
                               ELSE IF c \in K /\ box[c] = "running" THEN "stopped" ELSE box[c]]
    /\ Marked(S, "cleaned")

TaskEnds(r) ==
  /\ ~exited /\ r \in busy
  /\ busy' = busy \ {r}
  /\ CASE r = "checkExpired"  -> Deactivate
       [] r = "cleanInactive" -> Clean
       [] OTHER               -> UNCHANGED <<row, box>>
  /\ UNCHANGED <<run, stop, asked, sentLate, session, faults>>

\* A request to a trigger route ...
Trigger(r) ==
  /\ ~exited /\ Listening
  /\ r \in Triggered \ asked /\ Made(r)
  /\ asked' = asked \cup {r}
  /\ UNCHANGED <<run, stop, busy, sentLate, session, store>>

\* Stop closes the queue before it waits.
MayBeClosed(r) == Stopped(r) \/ (shut = "runners" /\ stops < 6 /\ StopOrder[stops + 1] = r)

\* ... calls Run, whose send panics when the queue is closed.  The panic is recovered: it
\* ends the request only.
TriggerRuns(r) ==
  /\ ~exited /\ r \in asked
  /\ asked' = asked \ {r}
  /\ \/ ~Stopped(r) /\ UNCHANGED sentLate
     \/ MayBeClosed(r) /\ sentLate' = TRUE
  /\ UNCHANGED <<run, stop, busy, session, store>>
-----------------------------------------------------------------------------
Goto(c, from, to) == ~exited /\ phase[c] = from /\ phase' = [phase EXCEPT ![c] = to]

\* specPost begins, creates the instance, and answers.
Post(c) ==
  /\ Listening
  /\ Goto(c, "none", "creating")
  /\ UNCHANGED <<run, stop, tasks, wg, held, told, late, store>>

PostReturns(c) ==
  /\ Goto(c, "creating", "created")
  /\ row' = [row EXCEPT ![c] = "active"]
  /\ box' = [box EXCEPT ![c] = "stopped"]
  /\ UNCHANGED <<run, stop, tasks, wg, held, told, late, faults>>

\* instanceWS finds the instance active, hijacks the connection ...
Connect(c) ==
  /\ Listening /\ row[c] = "active"
  /\ Goto(c, "created", "upgrading")
  /\ UNCHANGED <<run, stop, tasks, wg, held, told, late, store>>

Upgrade(c) ==
  /\ \/ Goto(c, "upgrading", "hijacked")
     \/ Goto(c, "upgrading", "over")      \* the handshake fails
  /\ UNCHANGED <<run, stop, tasks, wg, held, told, late, store>>

\* ... and adds to wsWG before it starts handleInstance.
Count(c) ==
  /\ Goto(c, "hijacked", "counted")
  /\ wg' = wg + 1
  /\ late' = IF shut \in Waited THEN late \cup {c} ELSE late
  /\ UNCHANGED <<run, stop, tasks, held, told, store>>

\* Acquire, the update of the row, and ContainerStart, which may fail.
Acquire(c) ==
  /\ Goto(c, "counted", "using")
  /\ held' = held \cup {c}
  /\ \/ box' = [box EXCEPT ![c] = IF @ = "stopped" THEN "running" ELSE @] /\ UNCHANGED faults
     \/ OneFails /\ UNCHANGED box
  /\ UNCHANGED <<run, stop, tasks, wg, told, late, row>>

\* The user leaves, or the manager has closed the connection: its ticker found the session
\* idle, or ExpireAndRemoveAll told it.
Leave(c) ==
  /\ Goto(c, "using", "leaving")
  /\ UNCHANGED <<run, stop, tasks, wg, held, told, late, store>>

EndOfSession_NoStop(c) ==     \* mutant: leaves the container running
  /\ Goto(c, "leaving", "over")
  /\ held' = held \ {c} /\ told' = told \ {c}
  /\ wg' = wg - 1
  /\ UNCHANGED <<run, stop, tasks, late, store>>

\* ContainerStop, which may fail, then Release and Done.
EndOfSession(c) ==
  /\ Goto(c, "leaving", "over")
  /\ \/ Killed(c) /\ UNCHANGED faults
     \/ OneFails /\ UNCHANGED box
  /\ held' = held \ {c} /\ told' = told \ {c}
  /\ wg' = wg - 1
  /\ UNCHANGED <<run, stop, tasks, late, row>>
-----------------------------------------------------------------------------
Advance(from, to) == ~exited /\ shut = from /\ shut' = to

Signal ==
  /\ EarlySignal \/ boot = 8
  /\ Advance("waiting", "http")
  /\ UNCHANGED <<run, stops, timedOut, todo, killed, tasks, session, store>>

\* A nil srv or a nil runner: the panic ends the process.
Panic ==
  /\ ~exited
  /\ \/ shut = "http" /\ ~Made("srv")
     \/ shut = "runners" /\ stops < 6 /\ ~Made(StopOrder[stops + 1])
  /\ shut' = "panicked" /\ exited' = TRUE
  /\ UNCHANGED <<force, boot, failed, stops, timedOut, todo, killed, tasks, session, store>>

CloseListeners_NoDrain ==     \* mutant: closes the server without waiting for requests
  /\ Made("srv")
  /\ Advance("http", "runners")
  /\ UNCHANGED <<run, stops, timedOut, todo, killed, tasks, session, store>>

CloseListeners ==
  /\ Made("srv")
  /\ Advance("http", "draining")
  /\ UNCHANGED <<run, stops, timedOut, todo, killed, tasks, session, store>>

HttpDone ==
  /\ Advance("draining", "runners")
  /\ timedOut' = (asked # {} \/ \E c \in Client : phase[c] \in Tracked)
  /\ UNCHANGED <<run, stops, todo, killed, tasks, session, store>>

StopRunner_NoWait ==          \* mutant: does not wait for the function to return
  /\ ~exited /\ shut = "runners" /\ stops < 6
  /\ Made(StopOrder[stops + 1])
  /\ stops' = stops + 1
  /\ UNCHANGED <<run, shut, timedOut, todo, killed, tasks, session, store>>

\* sched.Runner.Stop returns when the runner's goroutine has.
StopRunner ==
  /\ ~exited /\ shut = "runners" /\ stops < 6
  /\ Made(StopOrder[stops + 1]) /\ StopOrder[stops + 1] \notin busy
  /\ stops' = stops + 1
  /\ UNCHANGED <<run, shut, timedOut, todo, killed, tasks, session, store>>

RunnersStopped ==
  /\ stops = 6
  /\ Advance("runners", "manager")
  /\ UNCHANGED <<run, stops, timedOut, todo, killed, tasks, session, store>>

StopManager ==
  /\ Advance("manager", "expire")
  /\ UNCHANGED <<run, stops, timedOut, todo, killed, tasks, session, store>>

ExpireAndRemoveAll_Keeps ==   \* mutant: removes the entries without running onExpire
  /\ Advance("expire", "wait")
  /\ held' = {}
  /\ UNCHANGED <<run, stops, timedOut, todo, killed, tasks, phase, wg, told, late, store>>

ExpireAndRemoveAll ==
  /\ Advance("expire", "wait")
  /\ told' = told \cup held
  /\ held' = {}
  /\ UNCHANGED <<run, stops, timedOut, todo, killed, tasks, phase, wg, late, store>>

\* A cleanup looks for rows, and does nothing when the query or its prechecks fail.
Finds(rows) ==
  \/ todo' = rows /\ UNCHANGED faults
  \/ OneFails /\ todo' = {}

Wait_Skipped ==               \* mutant: Shutdown does not wait for the sessions
  /\ Advance("wait", "leftover")
  /\ Finds(RowsIn("active"))
  /\ UNCHANGED <<run, stops, timedOut, killed, tasks, session, row, box>>

\* wsWG.Wait returns; cleanupLeftoverInstances queries the active rows.
Wait ==
  /\ wg = 0
  /\ Advance("wait", "leftover")
  /\ Finds(RowsIn("active"))
  /\ UNCHANGED <<run, stops, timedOut, killed, tasks, session, row, box>>

\* cleanInstance kills the container of the next row, whatever comes of it ...
Kill(c) ==
  /\ ~exited /\ shut \in {"leftover", "force"}
  /\ killed = {} /\ c \in todo
  /\ killed' = {c}
  /\ \/ Killed(c) /\ UNCHANGED faults
     \/ OneFails /\ UNCHANGED box
  /\ UNCHANGED <<run, shut, stops, timedOut, todo, tasks, session, row>>

Past(c) == /\ ~exited /\ c \in killed
           /\ todo' = todo \ {c} /\ killed' = {}
           /\ UNCHANGED <<run, shut, stops, timedOut, tasks, session>>

\* ... and removes it, if it is not running again, and the image, if no other tag names it;
\* cleanupInstancesByQuery leaves the row alone if cleanInstance does not get to its end.
CleanLeftover(c) ==
  /\ shut = "leftover" /\ Past(c)
  /\ \/ box[c] # "running" /\ Removed({c}) /\ Marked({c}, "cleaned") /\ UNCHANGED faults
     \/ box[c] # "running" /\ c \in Sharing /\ Removed({c}) /\ UNCHANGED <<row, faults>>
     \/ box[c] = "running" /\ UNCHANGED <<row, box, faults>>
     \/ OneFails /\ UNCHANGED row /\ (UNCHANGED box \/ (box[c] # "running" /\ Removed({c})))

\* markAllInstancesCleanedAndInactive queries the rows that are not yet both.
LeftoverDone ==
  /\ todo = {}
  /\ Advance("leftover", "force")
  /\ IF force THEN Finds(Unmarked) ELSE UNCHANGED <<todo, faults>>
  /\ UNCHANGED <<run, stops, timedOut, killed, tasks, session, row, box>>

\* It marks the row whether cleanInstance has worked or not, unless the update fails: that
\* of its own, when cleanInstance has not come to the one it makes.  That removal and update
\* fail on the same row is left out.
MarkCleaned(c) ==
  /\ shut = "force" /\ Past(c)
  /\ \/ Marked({c}, "cleaned") /\ UNCHANGED faults /\ box[c] # "running" /\ Removed({c})
     \/ Marked({c}, "cleaned") /\ UNCHANGED faults /\ box[c] = "running" /\ UNCHANGED box
     \/ OneFails /\ Marked({c}, "cleaned") /\ UNCHANGED box
     \/ OneFails /\ UNCHANGED row /\ box[c] = "running" /\ UNCHANGED box
     \/ OneFails /\ UNCHANGED row /\ box[c] # "running" /\ c \in Sharing /\ Removed({c})

CloseClients ==
  /\ \/ todo = {} /\ Advance("force", "close")
     \/ Advance("close", "done")
  /\ UNCHANGED <<run, stops, timedOut, todo, killed, tasks, session, store>>
-----------------------------------------------------------------------------
ShutdownStep ==
  \/ Panic \/ CloseListeners \/ HttpDone \/ RunnersStopped \/ StopManager
  \/ ExpireAndRemoveAll \/ Wait \/ LeftoverDone \/ CloseClients
  \/ \E c \in Client : Kill(c) \/ CleanLeftover(c) \/ MarkCleaned(c)

HandlerStep(c) == Upgrade(c) \/ Count(c) \/ Acquire(c) \/ EndOfSession(c)

Next ==
  \/ SetField \/ RunFails \/ RunReturns \/ Signal \/ ShutdownStep \/ StopRunner
  \/ \E r \in Runner : TaskBegins(r) \/ TaskEnds(r) \/ Trigger(r) \/ TriggerRuns(r)
  \/ \E c \in Client : \/ Post(c) \/ PostReturns(c) \/ Connect(c) \/ HandlerStep(c)
                       \/ Leave(c) \/ MarkAtStart(c)

Spec == Init /\ [][Next]_vars

\* Run, Shutdown and the handlers go on; functions of runners return; a connection
\* closed by onExpire ends its session.  StopRunner: the fairness of Task, which
\* SchedRunner has: Stop returns although the function may be called again first.  Users
\* need not leave, requests may outlast the five seconds, and the exit may be slow.
Fairness ==
  /\ WF_vars(SetField) /\ WF_vars(ShutdownStep) /\ SF_vars(StopRunner)
  /\ \A r \in Runner : WF_vars(TaskEnds(r))
  /\ \A c \in Client : /\ WF_vars(HandlerStep(c))
                       /\ WF_vars(c \in told /\ Leave(c))

FairSpec == Spec /\ Fairness
-----------------------------------------------------------------------------
\* What this module takes a runner for, and SchedRunner shows it to be.
AsTask(r) == INSTANCE Task WITH asked   <- Made(r) /\ MayBeClosed(r),
                                working <- r \in busy,
                                stopped <- Stopped(r)

\* Once Shutdown cleans up and closes the clients, no runner is in its function: none
\* works on the rows it cleans, and none finds the database closed.
TasksQuiet == shut \in Expired => busy = {}

\* A trigger finds the queue of its runner closed, and panics, only when it outlived the
\* five seconds: Shutdown stops the runners after the server, which waits for requests.
NoSendAfterStop == sentLate => timedOut

\* From wsWG.Wait on nobody kills or removes the container of a session at work, unless
\* wsWG heard of that session only after Wait had returned.
WaitsForSessions ==
  [][\A c \in Client :
       shut \in Waited /\ phase[c] \in Counted /\ phase'[c] = phase[c] /\ box'[c] # box[c]
         => c \in late]_vars

\* Containers that no row stands for any more: nothing looks at them again but pruning.
Stranded == {c \in Client \ late : row[c] = "cleaned" /\ box[c] # "none"}

\* A shutdown that came to its end leaves nothing active behind when no request outlived
\* the five seconds and nothing failed, except under sessions that wsWG heard of too late:
\* no container runs, and no row is active unless its image is shared, and then without a
\* container.  With ForceInactive every row is marked and no container is left.  Each
\* container whose row is marked all the same has cost a failing call of its own.
LeavesNothing ==
  /\ shut = "done" /\ ~timedOut /\ faults = Faults =>
       /\ \A c \in Client \ late :
            /\ row[c] = "active" => c \in Sharing /\ box[c] = "none"
            /\ box[c] # "running"
            /\ force => box[c] = "none"
       /\ force => Unmarked = {}
  /\ Cardinality(Stranded) <= Faults - faults

\* Shutdown gets to its end, unless the process ends first or a session entered the
\* expire manager after ExpireAndRemoveAll: nobody tells that one.
Unheard(c) == c \in held /\ c \notin told
ShutdownReturns ==
  shut = "draining" ~> \/ shut = "done" \/ exited
                       \/ shut = "wait" /\ \E c \in Client : Unheard(c)

\* What the comments of the code say.
\* app.go, Run: "This function blocks until an error occurs, or the app closes."
RunBlocks == exited /\ ~failed /\ boot = 8 => shut \in {"done", "panicked"}
=============================================================================
