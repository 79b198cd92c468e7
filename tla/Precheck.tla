------------------------------ MODULE Precheck ------------------------------
(***************************************************************************)
(* The health of Docker and of the database as the server sees it          *)
(* (app/precheck.go, and the route group of app/route.go that is guarded   *)
(* by it).                                                                 *)
(*                                                                         *)
(* Two tasks, each driven by its runner every thirty seconds and by the    *)
(* debug route /trigger/checks, ping their service and store what they saw *)
(* in one of two flags.  A request passes two middlewares in turn, which   *)
(* read one flag each.  A service goes down and comes up at any time; a    *)
(* ping takes time, so that its result may be stale when it is stored.     *)
(***************************************************************************)
EXTENDS Naturals

CONSTANTS Req   \* requests for the guarded routes

VARIABLES
  dockerUp, databaseUp,   \* the services
  dockerOk, databaseOk,   \* the flags
  dockerTask, databaseTask, \* where the tasks are: idle, or the ping's result
  negotiated,             \* the client has agreed on an API version with Docker
  prev,                   \* the docker task's copy of the flag
  req                     \* where a request is

services == <<dockerUp, databaseUp>>
flags    == <<dockerOk, databaseOk>>
tasks    == <<dockerTask, databaseTask, negotiated, prev>>
vars     == <<services, flags, tasks, req>>

TaskState == {"idle", "pinging", "up", "down"}

TypeOK ==
  /\ {dockerUp, databaseUp, dockerOk, databaseOk, negotiated, prev} \subseteq BOOLEAN
  /\ dockerTask \in TaskState \cup {"stored"} /\ databaseTask \in TaskState
  /\ req \in [Req -> {"new", "docker", "served", "refused"}]

Init ==
  /\ dockerUp \in BOOLEAN /\ databaseUp \in BOOLEAN
  /\ dockerOk = FALSE /\ databaseOk = FALSE /\ negotiated = FALSE /\ prev = FALSE
  /\ dockerTask = "idle" /\ databaseTask = "idle"
  /\ req = [r \in Req |-> "new"]
-----------------------------------------------------------------------------
DockerChanges ==
  /\ dockerUp' = ~dockerUp
  /\ UNCHANGED <<databaseUp, flags, tasks, req>>

DatabaseChanges ==
  /\ databaseUp' = ~databaseUp
  /\ UNCHANGED <<dockerUp, flags, tasks, req>>
-----------------------------------------------------------------------------
\* precheckDockerTask: load the flag, ping for five seconds at most ...
DockerTaskBegins ==
  /\ dockerTask = "idle"
  /\ dockerTask' = "pinging" /\ prev' = dockerOk
  /\ UNCHANGED <<services, flags, databaseTask, negotiated, req>>

DockerPing ==
  /\ dockerTask = "pinging"
  /\ dockerTask' = IF dockerUp THEN "up" ELSE "down"
  /\ UNCHANGED <<services, flags, databaseTask, negotiated, prev, req>>

DockerOk_LoadsLate ==         \* mutant: prev is loaded after the store
  /\ dockerTask = "up"
  /\ dockerOk' = TRUE /\ prev' = TRUE
  /\ dockerTask' = IF prev' THEN "idle" ELSE "stored"
  /\ UNCHANGED <<services, databaseOk, databaseTask, negotiated, req>>

\* ... store the result, and then negotiate the version if the flag was not set.
DockerOk ==
  /\ dockerTask = "up"
  /\ dockerOk' = TRUE
  /\ dockerTask' = IF prev THEN "idle" ELSE "stored"
  /\ UNCHANGED <<services, databaseOk, databaseTask, negotiated, prev, req>>

Negotiate ==
  /\ dockerTask = "stored"
  /\ negotiated' = TRUE
  /\ dockerTask' = "idle"
  /\ UNCHANGED <<services, flags, databaseTask, prev, req>>

DockerNotOk_OnlyLogs ==       \* mutant: the flag keeps its value
  /\ dockerTask = "down"
  /\ dockerTask' = "idle"
  /\ UNCHANGED <<services, flags, databaseTask, negotiated, prev, req>>

DockerNotOk ==
  /\ dockerTask = "down"
  /\ dockerOk' = FALSE
  /\ dockerTask' = "idle"
  /\ UNCHANGED <<services, databaseOk, databaseTask, negotiated, prev, req>>
-----------------------------------------------------------------------------
\* precheckDatabaseTask.
DatabaseTaskBegins ==
  /\ databaseTask = "idle"
  /\ databaseTask' = "pinging"
  /\ UNCHANGED <<services, flags, dockerTask, negotiated, prev, req>>

DatabasePing ==
  /\ databaseTask = "pinging"
  /\ databaseTask' = IF databaseUp THEN "up" ELSE "down"
  /\ UNCHANGED <<services, flags, dockerTask, negotiated, prev, req>>

DatabaseOk_WrongFlag ==       \* mutant: stores in the flag of Docker, as DatabaseNotOk does
  /\ databaseTask = "up"
  /\ dockerOk' = TRUE
  /\ databaseTask' = "idle"
  /\ UNCHANGED <<services, databaseOk, dockerTask, negotiated, prev, req>>

DatabaseOk ==
  /\ databaseTask = "up"
  /\ databaseOk' = TRUE
  /\ databaseTask' = "idle"
  /\ UNCHANGED <<services, dockerOk, dockerTask, negotiated, prev, req>>

\* A failed ping of the database is stored in the flag of Docker.
DatabaseNotOk ==
  /\ databaseTask = "down"
  /\ dockerOk' = FALSE
  /\ databaseTask' = "idle"
  /\ UNCHANGED <<services, databaseOk, dockerTask, negotiated, prev, req>>
-----------------------------------------------------------------------------
\* precheckDockerMiddleware, then precheckDatabaseMiddleware.
CheckDocker(r) ==
  /\ req[r] = "new"
  /\ req' = [req EXCEPT ![r] = IF dockerOk THEN "docker" ELSE "refused"]
  /\ UNCHANGED <<services, flags, tasks>>

CheckDatabase(r) ==
  /\ req[r] = "docker"
  /\ req' = [req EXCEPT ![r] = IF databaseOk THEN "served" ELSE "refused"]
  /\ UNCHANGED <<services, flags, tasks>>

TaskStep ==
  \/ DockerTaskBegins \/ DockerPing \/ DockerOk \/ Negotiate \/ DockerNotOk

DatabaseTaskStep ==
  \/ DatabaseTaskBegins \/ DatabasePing \/ DatabaseOk \/ DatabaseNotOk

Next ==
  \/ DockerChanges \/ DatabaseChanges \/ TaskStep \/ DatabaseTaskStep
  \/ \E r \in Req : CheckDocker(r) \/ CheckDatabase(r)

Spec == Init /\ [][Next]_vars

\* The runners' periods come round and pings return.
FairSpec == Spec /\ WF_vars(TaskStep) /\ WF_vars(DatabaseTaskStep)
-----------------------------------------------------------------------------
\* Whatever the database's task does to the flag of Docker, requests are let through to a
\* client that has not agreed on a version only while the task that first reached Docker
\* is between its store and the negotiation.
NegotiatedOnceOk == dockerOk /\ ~negotiated => dockerTask = "stored"

\* If Docker stays down, requests are refused from some time on, whatever the database
\* and its task do meanwhile.
DockerDownRefuses == <>[]~dockerUp => <>[]~dockerOk

\* If both services stay up, requests are served from some time on: no late result of
\* an older ping keeps a flag down for good.
UpServes == <>[](dockerUp /\ databaseUp) => <>[](dockerOk /\ databaseOk)

\* precheck.go, precheckDatabaseTask: "error pinging database, setting databaseOk to
\* false".
DatabaseDownRefuses == [][databaseTask = "down" /\ databaseTask' = "idle" => ~databaseOk']_vars
=============================================================================
