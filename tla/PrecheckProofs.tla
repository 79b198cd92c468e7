--------------------------- MODULE PrecheckProofs ---------------------------
(***************************************************************************)
(* Theorems about Precheck for any set of requests: the types of the flags *)
(* and the tasks, and that Docker's flag is not set for long before the    *)
(* client has agreed on a version.                                         *)
(***************************************************************************)
EXTENDS Precheck, TLAPS

\* The copy of the flag that a running task works with was not taken too early: it says
\* that Docker was reached only when the negotiation is over.
PrevInv == dockerTask \in {"pinging", "up"} /\ prev => negotiated

IndInv == TypeOK /\ PrevInv /\ NegotiatedOnceOk

\* The initial state satisfies the invariant.
LEMMA InitInv == Init => IndInv
<1> SUFFICES ASSUME Init PROVE IndInv
  OBVIOUS
<1>1. {dockerUp, databaseUp, dockerOk, databaseOk, negotiated, prev} \subseteq BOOLEAN
  BY Zenon DEF Init
<1> QED BY <1>1 DEF Init, IndInv, TypeOK, TaskState, PrevInv, NegotiatedOnceOk

\* Flags, tasks and requests keep their types.
LEMMA StepTypes == TypeOK /\ [Next]_vars => TypeOK'
<1> SUFFICES ASSUME TypeOK, [Next]_vars PROVE TypeOK'
  OBVIOUS
<1> USE DEF TypeOK, TaskState, services, flags, tasks, vars, Next, TaskStep, DatabaseTaskStep,
            DockerChanges, DatabaseChanges, DockerTaskBegins, DockerPing, DockerOk, Negotiate,
            DockerNotOk, DatabaseTaskBegins, DatabasePing, DatabaseOk, DatabaseNotOk,
            CheckDocker, CheckDatabase
<1>1. {dockerUp, databaseUp}' \subseteq BOOLEAN
  BY Zenon
<1>2. {dockerOk, databaseOk}' \subseteq BOOLEAN
  BY Zenon
<1>3. {negotiated, prev}' \subseteq BOOLEAN
  BY Zenon
<1>4. dockerTask' \in TaskState \cup {"stored"} /\ databaseTask' \in TaskState
  OBVIOUS
<1>5. req' \in [Req -> {"new", "docker", "served", "refused"}]
  OBVIOUS
<1> QED BY <1>1, <1>2, <1>3, <1>4, <1>5

\* Only the task that reaches Docker sets the flag, and it goes on to negotiate unless its
\* copy of the flag says that this has been done.
LEMMA StepNegotiated == IndInv /\ [Next]_vars => PrevInv' /\ NegotiatedOnceOk'
<1> SUFFICES ASSUME IndInv, [Next]_vars PROVE PrevInv' /\ NegotiatedOnceOk'
  OBVIOUS
<1> USE DEF IndInv, PrevInv, NegotiatedOnceOk, services, flags, tasks
<1>1. CASE DockerTaskBegins
  BY <1>1 DEF DockerTaskBegins
<1>2. CASE DockerPing
  BY <1>2 DEF DockerPing
<1>3. CASE DockerOk
  BY <1>3 DEF DockerOk
<1>4. CASE Negotiate
  BY <1>4 DEF Negotiate
<1>5. CASE DockerNotOk \/ DatabaseNotOk
  BY <1>5 DEF DockerNotOk, DatabaseNotOk
<1>6. CASE DockerChanges \/ DatabaseChanges \/ DatabaseTaskBegins \/ DatabasePing \/ DatabaseOk
             \/ UNCHANGED vars
  BY <1>6 DEF DockerChanges, DatabaseChanges, DatabaseTaskBegins, DatabasePing, DatabaseOk, vars
<1>7. ASSUME NEW r \in Req, CheckDocker(r) \/ CheckDatabase(r)
      PROVE  PrevInv' /\ NegotiatedOnceOk'
  BY <1>7 DEF CheckDocker, CheckDatabase
<1> QED
  BY <1>1, <1>2, <1>3, <1>4, <1>5, <1>6, <1>7 DEF Next, TaskStep, DatabaseTaskStep

\* The invariant holds in every reachable state.
THEOREM Invariance == Spec => []IndInv
<1>1. IndInv /\ [Next]_vars => IndInv'
  BY StepTypes, StepNegotiated DEF IndInv
<1> QED BY InitInv, <1>1, PTL DEF Spec

\* The types of the services, flags, tasks and requests.
THEOREM TypeCorrect == Spec => []TypeOK
BY Invariance, PTL DEF IndInv

\* Requests reach a client without an agreed version only between a store of the flag and
\* the negotiation that follows it.
THEOREM NegotiatedOnceOkHolds == Spec => []NegotiatedOnceOk
BY Invariance, PTL DEF IndInv
=============================================================================
