----------------------- MODULE InstanceLifecycleProofs -----------------------
(***************************************************************************)
(* Theorems about InstanceLifecycle for any instances, sessions, clean     *)
(* requests, times and numbers of faults and crashes.  The inductive       *)
(* invariant IndInv says that sessions work under the handover lock; from  *)
(* that the row and the container never see two sessions at once.          *)
(***************************************************************************)
EXTENDS InstanceLifecycle, TLAPS

\* Two sessions of one instance are not both between Acquire and Release.
LEMMA Alone ==
  ASSUME SessionInv, LockInv, TypeOK,
         NEW s \in Session, NEW r \in Session,
         st[s] = "held", st[r] = "held", inst[s] = inst[r]
  PROVE  s = r
<1>1. grp[s] = grp[r] /\ grp[s] # NoInst
  BY InstAssumption DEF SessionInv, TypeOK, Lock!TypeOK
<1> QED BY <1>1 DEF LockInv, Lock!AllReleased

\* The initial state satisfies the inductive invariant.
LEMMA InitInv == Init => IndInv
<1> SUFFICES ASSUME Init PROVE IndInv
  OBVIOUS
<1> USE InstAssumption, TimeAssumption, FaultAssumption DEF Init, Lock!Init
<1>1. TypeOK
  BY DEF TypeOK, Lock!TypeOK, NoExpiry
<1>2. SessionInv /\ LockInv
  BY DEF SessionInv, LockInv, Lock!AllReleased
<1>3. CleanerInv /\ NullWhileUsed /\ CleanedIsGone /\ NoRunawayContainer
  BY DEF CleanerInv, NullWhileUsed, CleanedIsGone, NoRunawayContainer
<1> QED BY <1>1, <1>2, <1>3 DEF IndInv
-----------------------------------------------------------------------------
\* Types are preserved by every step.
LEMMA StepTypes == TypeOK /\ SessionInv /\ CleanerInv /\ Next => TypeOK'
<1> SUFFICES ASSUME TypeOK, SessionInv, CleanerInv, Next PROVE TypeOK'
  OBVIOUS
<1> USE InstAssumption, TimeAssumption, FaultAssumption
    DEF TypeOK, Lock!TypeOK, NoExpiry, row, sess, lock, clean, left
<1>1. ASSUME NEW s \in Session, NEW i \in Inst, Connect(s, i) PROVE TypeOK'
  BY <1>1 DEF Connect, Goto
<1>2. ASSUME NEW s \in Session, Acquire(s) PROVE TypeOK'
  BY <1>2 DEF Acquire, Goto, Lock!Request, SessionInv
<1>3. ASSUME NEW s \in Session, AcquireReturns(s) \/ Release(s) PROVE TypeOK'
  BY <1>3 DEF AcquireReturns, Release, Goto, Lock!Grant, Lock!Release
<1>4. ASSUME NEW s \in Session, DisableExpiry(s) \/ EnableExpiry(s) PROVE TypeOK'
  BY <1>4 DEF DisableExpiry, EnableExpiry, Goto, Works, DbFails
<1>5. ASSUME NEW s \in Session, StartContainer(s) \/ EndProxy(s) \/ StopContainer(s) PROVE TypeOK'
  BY <1>5 DEF StartContainer, EndProxy, StopContainer, Goto, Works, DockerFails
<1>6. CASE FindExpired \/ \E i \in Inst : Deactivate(i) \/ Share(i)
  <2>1. active' \in [Inst -> BOOLEAN]
    BY <1>6 DEF FindExpired, Deactivate, Share
  <2> QED BY <1>6, <2>1 DEF FindExpired, Deactivate, Share, Works, DbFails
<1>7. ASSUME NEW k \in Cleaner, FindUncleaned(k) \/ CleanupDone(k) \/ \E i \in Inst : NextInstance(k, i)
      PROVE  TypeOK'
  BY <1>7 DEF FindUncleaned, CleanupDone, NextInstance, CleanStep
<1>8. ASSUME NEW k \in Cleaner, Kill(k) \/ Remove(k) \/ RemoveImage(k) PROVE TypeOK'
  BY <1>8 DEF Kill, Remove, RemoveImage, CleanStep, Works, DockerFails
<1>9. ASSUME NEW k \in Cleaner, MarkCleaned(k) PROVE TypeOK'
  <2>1. active' \in [Inst -> BOOLEAN] /\ cleaned' \in [Inst -> BOOLEAN]
    BY <1>9 DEF MarkCleaned
  <2> QED BY <1>9, <2>1 DEF MarkCleaned, CleanStep, Works, DbFails
<1>10. CASE Prune \/ Tick
  BY <1>10 DEF Prune, Tick
<1>11. CASE Crash
  BY <1>11 DEF Crash
<1> QED
  BY <1>1, <1>2, <1>3, <1>4, <1>5, <1>6, <1>7, <1>8, <1>9, <1>10, <1>11
     DEF Next, SessionStep, CleanerStep

\* The lock and the program counters of the sessions stay in step.
LEMMA StepSessions == TypeOK /\ SessionInv /\ Next => SessionInv'
<1> SUFFICES ASSUME TypeOK, SessionInv, Next PROVE SessionInv'
  OBVIOUS
<1> USE DEF TypeOK, Lock!TypeOK, SessionInv, row, sess, lock, clean, left
<1>1. ASSUME NEW s \in Session, NEW i \in Inst, Connect(s, i) PROVE SessionInv'
  BY <1>1 DEF Connect, Goto
<1>2. ASSUME NEW s \in Session, Acquire(s) PROVE SessionInv'
  BY <1>2 DEF Acquire, Goto, Lock!Request
<1>3. ASSUME NEW s \in Session, AcquireReturns(s) \/ Release(s) PROVE SessionInv'
  BY <1>3 DEF AcquireReturns, Release, Goto, Lock!Grant, Lock!Release
<1>4. ASSUME NEW s \in Session, DisableExpiry(s) \/ StartContainer(s) PROVE SessionInv'
  BY <1>4 DEF DisableExpiry, StartContainer, Goto
<1>5. ASSUME NEW s \in Session, EnableExpiry(s) \/ EndProxy(s) \/ StopContainer(s)
      PROVE  SessionInv'
  BY <1>5 DEF EnableExpiry, EndProxy, StopContainer, Goto
<1>6. CASE UNCHANGED <<sess, lock>>
  BY <1>6
<1>7. CASE Crash
  BY <1>7 DEF Crash
<1> QED
  BY <1>1, <1>2, <1>3, <1>4, <1>5, <1>6, <1>7
     DEF Next, SessionStep, CleanerStep, FindExpired, Deactivate, Share, FindUncleaned,
         NextInstance,
         CleanupDone, Kill, Remove, RemoveImage, MarkCleaned, Prune, Tick

\* The lock's own invariant: a request sees all earlier ones of its instance.
LEMMA StepLock == TypeOK /\ SessionInv /\ LockInv /\ Next => LockInv'
<1> SUFFICES ASSUME TypeOK, SessionInv, LockInv, Next PROVE LockInv'
  OBVIOUS
<1> USE DEF TypeOK, Lock!TypeOK, LockInv, Lock!AllReleased, lock
<1>1. ASSUME NEW s \in Session, Acquire(s) PROVE LockInv'
  BY <1>1 DEF Acquire, Goto, Lock!Request, SessionInv
<1>2. ASSUME NEW s \in Session, AcquireReturns(s) \/ Release(s) PROVE LockInv'
  BY <1>2 DEF AcquireReturns, Release, Lock!Grant, Lock!Release
<1>3. CASE UNCHANGED lock
  BY <1>3
<1>4. CASE Crash
  BY <1>4 DEF Crash, SessionInv
<1> QED
  BY <1>1, <1>2, <1>3, <1>4
     DEF Next, SessionStep, CleanerStep, Connect, DisableExpiry, StartContainer, EndProxy,
         EnableExpiry, StopContainer, FindExpired, Deactivate, Share, FindUncleaned, NextInstance,
         CleanupDone, Kill, Remove, RemoveImage, MarkCleaned, Prune, Tick
-----------------------------------------------------------------------------
\* A container that is gone stays gone.
LEMMA GoneForever ==
  TypeOK /\ Next => \A i \in Inst : box[i] = "gone" => box'[i] = "gone"
<1> SUFFICES ASSUME TypeOK, Next, NEW i \in Inst, box[i] = "gone" PROVE box'[i] = "gone"
  OBVIOUS
<1>1. ASSUME NEW s \in Session, StartContainer(s) \/ StopContainer(s) PROVE box'[i] = "gone"
  BY <1>1 DEF StartContainer, StopContainer, TypeOK
<1>2. ASSUME NEW k \in Cleaner, Kill(k) \/ Remove(k) PROVE box'[i] = "gone"
  BY <1>2 DEF Kill, Remove, TypeOK
<1>3. CASE Prune
  BY <1>3 DEF Prune
<1>4. CASE UNCHANGED box
  BY <1>4
<1> QED
  BY <1>1, <1>2, <1>3, <1>4
     DEF Next, SessionStep, CleanerStep, Connect, Acquire, AcquireReturns, DisableExpiry,
         EndProxy, EnableExpiry, Release, FindExpired, Deactivate, Share, FindUncleaned,
         NextInstance, CleanupDone, RemoveImage, MarkCleaned, Tick, Crash

\* Cleaners remove before they mark, and nothing marks a row that was not removed.
LEMMA StepCleaned ==
  TypeOK /\ CleanerInv /\ CleanedIsGone /\ Next => CleanerInv' /\ CleanedIsGone'
<1> SUFFICES ASSUME TypeOK, CleanerInv, CleanedIsGone, Next
             PROVE  CleanerInv' /\ CleanedIsGone'
  OBVIOUS
<1>1. \A i \in Inst : box[i] = "gone" => box'[i] = "gone"
  BY GoneForever
<1> USE DEF TypeOK, CleanerInv, CleanedIsGone, row, clean
<1>2. CASE UNCHANGED <<active, cleaned, clean>>
  BY <1>1, <1>2
<1>3. ASSUME NEW i \in Inst, Deactivate(i) \/ Share(i) PROVE CleanerInv' /\ CleanedIsGone'
  BY <1>3, <1>1 DEF Deactivate, Share
<1>4. ASSUME NEW k \in Cleaner, FindUncleaned(k) \/ CleanupDone(k) \/ \E i \in Inst : NextInstance(k, i)
      PROVE  CleanerInv' /\ CleanedIsGone'
  BY <1>4, <1>1 DEF FindUncleaned, CleanupDone, NextInstance, CleanStep
<1>5. ASSUME NEW k \in Cleaner, Kill(k) \/ Remove(k) \/ RemoveImage(k)
      PROVE  CleanerInv' /\ CleanedIsGone'
  BY <1>5, <1>1 DEF Kill, Remove, RemoveImage, CleanStep
<1>6. ASSUME NEW k \in Cleaner, MarkCleaned(k) PROVE CleanerInv' /\ CleanedIsGone'
  BY <1>6, <1>1 DEF MarkCleaned, CleanStep
<1>7. CASE Crash
  BY <1>7, <1>1 DEF Crash
<1> QED
  BY <1>2, <1>3, <1>4, <1>5, <1>6, <1>7
     DEF Next, SessionStep, CleanerStep, Connect, Acquire, AcquireReturns, DisableExpiry,
         StartContainer, EndProxy, EnableExpiry, StopContainer, Release, FindExpired, Prune, Tick

\* A container that runs has a session that will stop it.
LEMMA StepRunaway == IndInv /\ Next => NoRunawayContainer'
<1> DEFINE Minds(s, i) == /\ Working(s) /\ inst[s] = i
                          /\ pc[s] \in {"proxy", "restamp", "stop"}
<1> SUFFICES ASSUME IndInv, Next, docker' = DockerFaults, up' = Crashes,
                    NEW i \in Inst, box'[i] = "running"
             PROVE  \E s \in Session : Minds(s, i)'
  BY DEF NoRunawayContainer
<1> USE DEF IndInv, TypeOK, Lock!TypeOK, row, sess, lock, left, Working
<1>1. ASSUME docker = DockerFaults, up = Crashes, box[i] = "running"
      PROVE  \E s \in Session : Minds(s, i)
  BY <1>1 DEF NoRunawayContainer
<1>2. ASSUME NEW r \in Session, StartContainer(r) PROVE \E s \in Session : Minds(s, i)'
  <2>1. Works /\ st[r] = "held" /\ inst[r] \in Inst
    BY <1>2, FaultAssumption DEF StartContainer, DockerFails, SessionInv, Goto
  <2>2. CASE inst[r] = i
    BY <1>2, <2>1, <2>2 DEF StartContainer, Goto
  <2>3. CASE inst[r] # i
    BY <1>1, <1>2, <2>1, <2>3 DEF StartContainer, Goto, Works
  <2> QED BY <2>2, <2>3
<1>3. ASSUME NEW r \in Session, StopContainer(r) PROVE \E s \in Session : Minds(s, i)'
  <2>1. /\ Works /\ inst[r] \in Inst
        /\ box' = [box EXCEPT ![inst[r]] = IF @ = "running" THEN "stopped" ELSE @]
    BY <1>3, FaultAssumption DEF StopContainer, DockerFails, SessionInv, Goto
  <2>2. inst[r] # i /\ box[i] = "running"
    BY <2>1
  <2> QED BY <1>1, <1>3, <2>1, <2>2 DEF StopContainer, Goto, Works
<1>4. ASSUME NEW r \in Session, NEW j \in Inst, Connect(r, j) PROVE \E s \in Session : Minds(s, i)'
  BY <1>1, <1>4 DEF Connect, Goto
<1>5. ASSUME NEW r \in Session, Acquire(r) \/ AcquireReturns(r) PROVE \E s \in Session : Minds(s, i)'
  BY <1>1, <1>5 DEF Acquire, AcquireReturns, Goto, Lock!Request, Lock!Grant, SessionInv
<1>6. ASSUME NEW r \in Session, DisableExpiry(r) \/ EndProxy(r) \/ EnableExpiry(r)
      PROVE  \E s \in Session : Minds(s, i)'
  BY <1>1, <1>6 DEF DisableExpiry, EndProxy, EnableExpiry, Goto, Works, DbFails
<1>7. ASSUME NEW r \in Session, Release(r) PROVE \E s \in Session : Minds(s, i)'
  BY <1>1, <1>7 DEF Release, Goto, Lock!Release
<1>8. CASE \E j \in Inst : FindExpired \/ Deactivate(j) \/ Share(j)
  BY <1>1, <1>8 DEF FindExpired, Deactivate, Share, Works, DbFails
<1>9. ASSUME NEW k \in Cleaner, FindUncleaned(k) \/ CleanerStep(k)
      PROVE  \E s \in Session : Minds(s, i)'
  <2>1. UNCHANGED <<pc, inst, st>>
    BY <1>9 DEF FindUncleaned, CleanerStep, NextInstance, CleanupDone, Kill, Remove,
                RemoveImage, MarkCleaned
  <2>2. docker = docker' /\ up = up'
    BY <1>9, FaultAssumption
       DEF FindUncleaned, CleanerStep, NextInstance, CleanupDone, Kill, Remove, RemoveImage,
           MarkCleaned, Works, DockerFails, DbFails
  <2>3. box[i] = "running"
    BY <1>9 DEF FindUncleaned, CleanerStep, NextInstance, CleanupDone, Kill, Remove,
                RemoveImage, MarkCleaned
  <2> QED BY <1>1, <2>1, <2>2, <2>3
<1>10. CASE Prune \/ Tick
  BY <1>1, <1>10 DEF Prune, Tick
<1>11. CASE Crash
  BY <1>11, FaultAssumption DEF Crash
<1> QED
  BY <1>2, <1>3, <1>4, <1>5, <1>6, <1>7, <1>8, <1>9, <1>10, <1>11 DEF Next, SessionStep,
     FindExpired, Deactivate

\* The ExpiresAt of the session before arrives before the next one clears it.
LEMMA StepUsed == IndInv /\ Next => NullWhileUsed'
<1> SUFFICES ASSUME IndInv, Next,
                    NEW s \in cleared', pc'[s] \in {"start", "proxy", "restamp"}
             PROVE  ttl'[inst'[s]] = NoExpiry
  BY DEF NullWhileUsed, NoExpiry
<1> USE DEF IndInv, TypeOK, row, sess, lock
<1>0. s \in Session
  BY StepTypes DEF TypeOK
<1>1. CASE UNCHANGED <<ttl, sess>>
  BY <1>1 DEF NullWhileUsed
<1>2. ASSUME NEW r \in Session, NEW i \in Inst, Connect(r, i) PROVE ttl'[inst'[s]] = NoExpiry
  BY <1>0, <1>2 DEF Connect, Goto, NullWhileUsed
<1>3. ASSUME NEW r \in Session,
             Acquire(r) \/ AcquireReturns(r) \/ StartContainer(r) \/ EndProxy(r)
               \/ StopContainer(r) \/ Release(r)
      PROVE  ttl'[inst'[s]] = NoExpiry
  BY <1>0, <1>3 DEF Acquire, AcquireReturns, StartContainer, EndProxy, StopContainer, Release,
                    Goto, NullWhileUsed
<1>4. ASSUME NEW r \in Session, DisableExpiry(r) PROVE ttl'[inst'[s]] = NoExpiry
  BY <1>0, <1>4 DEF DisableExpiry, Goto, NullWhileUsed, SessionInv
<1>5. ASSUME NEW r \in Session, EnableExpiry(r) PROVE ttl'[inst'[s]] = NoExpiry
  <2>1. s # r /\ pc[s] \in {"start", "proxy", "restamp"} /\ s \in cleared
    BY <1>0, <1>5 DEF EnableExpiry, Goto
  <2>2. inst[s] # inst[r]
    BY <1>0, <1>5, <2>1, Alone DEF EnableExpiry, Goto, SessionInv
  <2> QED BY <1>0, <1>5, <2>1, <2>2 DEF EnableExpiry, NullWhileUsed, SessionInv
<1>6. CASE Tick
  <2>1. ttl[inst[s]] = NoExpiry /\ inst[s] \in Inst
    BY <1>0, <1>6 DEF Tick, NullWhileUsed, SessionInv
  <2>2. NoExpiry \notin 1 .. TTL
    BY TimeAssumption DEF NoExpiry
  <2> QED BY <1>6, <2>1, <2>2 DEF Tick
<1>7. CASE Crash
  BY <1>0, <1>7 DEF Crash, NullWhileUsed
<1> QED
  BY <1>1, <1>2, <1>3, <1>4, <1>5, <1>6, <1>7
     DEF Next, SessionStep, CleanerStep, FindExpired, Deactivate, Share, FindUncleaned,
         NextInstance,
         CleanupDone, Kill, Remove, RemoveImage, MarkCleaned, Prune
-----------------------------------------------------------------------------
\* Every step preserves the inductive invariant.
LEMMA StepInv == IndInv /\ [Next]_vars => IndInv'
<1>1. IndInv /\ Next => IndInv'
  BY StepTypes, StepSessions, StepLock, StepCleaned, StepUsed, StepRunaway DEF IndInv
<1>2. IndInv /\ UNCHANGED vars => IndInv'
  <2> SUFFICES ASSUME IndInv, UNCHANGED vars PROVE IndInv'
    OBVIOUS
  <2> USE DEF vars, row, sess, lock, clean, left
  <2>1. TypeOK' /\ SessionInv' /\ LockInv'
    BY DEF IndInv, TypeOK, Lock!TypeOK, SessionInv, LockInv, Lock!AllReleased, NoExpiry
  <2>2. CleanerInv' /\ NullWhileUsed' /\ CleanedIsGone' /\ NoRunawayContainer'
    BY DEF IndInv, CleanerInv, NullWhileUsed, CleanedIsGone, NoRunawayContainer, Working,
           NoExpiry
  <2> QED BY <2>1, <2>2 DEF IndInv
<1> QED BY <1>1, <1>2

\* The inductive invariant holds in every reachable state.
THEOREM Invariance == Spec => []IndInv
BY InitInv, StepInv, PTL DEF Spec

\* The types of rows, containers, sessions and cleaners.
THEOREM TypeCorrect == Spec => []TypeOK
BY Invariance, PTL DEF IndInv

\* At most one session of an instance is between Acquire and Release.
THEOREM OneSessionHolds == Spec => []OneSession
<1>1. IndInv => OneSession
  BY Alone DEF IndInv, OneSession, Working
<1> QED BY <1>1, Invariance, PTL

\* An instance in use keeps the NULL its session wrote: no earlier session overwrites it.
THEOREM NullWhileUsedHolds == Spec => []NullWhileUsed
BY Invariance, PTL DEF IndInv

\* A cleaned row has no container, whatever sessions and cleaners were doing.
THEOREM CleanedIsGoneHolds == Spec => []CleanedIsGone
BY Invariance, PTL DEF IndInv

\* Without failures no container runs that no session will stop.
THEOREM NoRunawayHolds == Spec => []NoRunawayContainer
BY Invariance, PTL DEF IndInv

\* A session's container is stopped under it by a cleaner's kill and nothing else.
THEOREM OnlyKillHolds == Spec => OnlyKillInterrupts
<1>1. IndInv /\ [Next]_vars =>
        [\A s \in Session :
           Proxying(s) /\ box[inst[s]] = "running" /\ box'[inst[s]] # "running" =>
             \E k \in Cleaner : step[k] = "kill" /\ step'[k] = "remove" /\ cur[k] = inst[s]]_vars
  <2> SUFFICES ASSUME IndInv, [Next]_vars, NEW s \in Session, Proxying(s),
                      box[inst[s]] = "running", box'[inst[s]] # "running"
               PROVE  \E k \in Cleaner :
                        step[k] = "kill" /\ step'[k] = "remove" /\ cur[k] = inst[s]
    OBVIOUS
  <2> USE DEF IndInv, TypeOK, Proxying, row, sess, lock
  <2>0. inst[s] \in Inst /\ st[s] = "held"
    BY DEF SessionInv
  <2>1. ASSUME NEW r \in Session, StopContainer(r) PROVE FALSE
    <3>1. st[r] = "held" /\ r # s
      BY <2>1 DEF StopContainer, Goto, SessionInv
    <3>2. inst[r] # inst[s]
      BY <2>0, <3>1, Alone
    <3> QED BY <2>0, <2>1, <3>2 DEF StopContainer
  <2>2. ASSUME NEW r \in Session, StartContainer(r) PROVE FALSE
    BY <2>0, <2>2 DEF StartContainer
  <2>3. ASSUME NEW k \in Cleaner, Kill(k)
        PROVE  step[k] = "kill" /\ step'[k] = "remove" /\ cur[k] = inst[s]
    BY <2>0, <2>3 DEF Kill, CleanStep
  <2>4. ASSUME NEW k \in Cleaner, Remove(k) PROVE FALSE
    BY <2>0, <2>4 DEF Remove
  <2>5. CASE Prune
    BY <2>0, <2>5 DEF Prune, Prunable
  <2>6. CASE UNCHANGED box
    BY <2>6
  <2> QED
    BY <2>1, <2>2, <2>3, <2>4, <2>5, <2>6
       DEF Next, SessionStep, CleanerStep, Connect, Acquire, AcquireReturns, DisableExpiry,
           EndProxy, EnableExpiry, Release, FindExpired, Deactivate, Share, FindUncleaned,
           NextInstance, CleanupDone, RemoveImage, MarkCleaned, Tick, Crash, vars
<1> QED BY <1>1, Invariance, PTL DEF Spec, OnlyKillInterrupts
-----------------------------------------------------------------------------
\* Without faults, a row with an image of its own is active without a (fresh) container
\* only while the cleaner that removed the container is about to mark the row.
Unfaulted == docker = DockerFaults /\ db = DbFaults /\ up = Crashes
Marks(k, i) == cur[k] = i /\ step[k] \in {"image", "mark"}
RemovedInv ==
  Unfaulted => \A i \in Inst :
    active[i] /\ age[i] < PruneAge /\ image[i] # "shared" /\ box[i] = "gone" =>
      \E k \in Cleaner : Marks(k, i)

\* A step after which no fault has occurred is one of a system without faults.
LEMMA NoFaultsBefore == TypeOK /\ [Next]_vars /\ Unfaulted' => Unfaulted /\ UNCHANGED left
<1> SUFFICES ASSUME TypeOK, [Next]_vars, Unfaulted' PROVE Unfaulted /\ UNCHANGED left
  OBVIOUS
<1>1. docker \in Nat /\ db \in Nat /\ up \in Nat
      /\ docker <= DockerFaults /\ db <= DbFaults /\ up <= Crashes
  BY FaultAssumption DEF TypeOK
<1>2. CASE UNCHANGED left
  BY <1>2 DEF Unfaulted, left
<1>3. CASE DockerFails \/ DbFails
  BY <1>1, <1>3, FaultAssumption DEF DockerFails, DbFails, Unfaulted
<1>4. CASE Crash
  BY <1>1, <1>4, FaultAssumption DEF Crash, Unfaulted
<1> QED
  BY <1>2, <1>3, <1>4
     DEF Next, SessionStep, CleanerStep, Connect, Acquire, AcquireReturns, DisableExpiry,
         StartContainer, EndProxy, EnableExpiry, StopContainer, Release, FindExpired,
         Deactivate, Share, FindUncleaned, NextInstance, CleanupDone, Kill, Remove, RemoveImage,
         MarkCleaned, Prune, Tick, Works, vars

\* Whoever removes a container goes on to mark its row.
LEMMA StepRemoved == TypeOK /\ CleanerInv /\ RemovedInv /\ [Next]_vars => RemovedInv'
<1> SUFFICES ASSUME TypeOK, CleanerInv, RemovedInv, [Next]_vars, Unfaulted', NEW i \in Inst,
                    active'[i], age'[i] < PruneAge, image'[i] # "shared", box'[i] = "gone"
             PROVE  \E k \in Cleaner : Marks(k, i)'
  BY DEF RemovedInv
<1>0. Unfaulted /\ UNCHANGED left
  BY NoFaultsBefore
<1> USE DEF TypeOK, Marks, row, sess, lock, clean
<1>1. docker = DockerFaults /\ db = DbFaults /\ docker' = docker /\ db' = db /\ up' = up
  BY <1>0 DEF Unfaulted, left
<1>2. docker # docker - 1 /\ db # db - 1 /\ up # up - 1
  BY FaultAssumption
<1>3. ASSUME active[i], age[i] < PruneAge, image[i] # "shared", box[i] = "gone",
             UNCHANGED <<step, cur>>
      PROVE  \E k \in Cleaner : Marks(k, i)'
  BY <1>0, <1>3 DEF RemovedInv
<1>4. ASSUME NEW s \in Session, (\E j \in Inst : Connect(s, j)) \/ SessionStep(s)
      PROVE  \E k \in Cleaner : Marks(k, i)'
  <2>1. box[i] = "gone" /\ UNCHANGED <<active, age, image, step, cur>>
    BY <1>4 DEF SessionStep, Connect, Acquire, AcquireReturns, DisableExpiry, StartContainer,
               EndProxy, EnableExpiry, StopContainer, Release
  <2> QED BY <1>3, <2>1
<1>5. CASE FindExpired \/ \E j \in Inst : Deactivate(j) \/ Share(j)
  <2>1. active[i] /\ image[i] # "shared" /\ UNCHANGED <<box, age, step, cur>>
    BY <1>5 DEF FindExpired, Deactivate, Share
  <2> QED BY <1>3, <2>1
<1>6. CASE Prune
  <2>1. box[i] = "gone" /\ UNCHANGED <<active, age, image, step, cur>>
    BY <1>6, TimeAssumption DEF Prune, Prunable
  <2> QED BY <1>3, <2>1
<1>7. CASE Tick
  <2>1. age[i] < PruneAge /\ UNCHANGED <<active, box, image, step, cur>>
    BY <1>7, TimeAssumption DEF Tick
  <2> QED BY <1>3, <2>1
<1>8. CASE Crash
  BY <1>1, <1>2, <1>8 DEF Crash
<1>9. ASSUME NEW k \in Cleaner, Remove(k)
      PROVE  \E q \in Cleaner : Marks(q, i)'
  <2>1. CASE cur[k] = i /\ box[i] # "gone"
    BY <1>1, <1>2, <1>9, <2>1 DEF Remove, DockerFails
  <2>2. CASE box[i] = "gone"
    <3>1. PICK q \in Cleaner : Marks(q, i)
      BY <1>0, <1>9, <2>2 DEF RemovedInv, Remove
    <3> QED BY <1>9, <3>1 DEF Remove
  <2> QED BY <1>9, <2>1, <2>2 DEF Remove
<1>10. ASSUME NEW k \in Cleaner,
              FindUncleaned(k) \/ (\E j \in Inst : NextInstance(k, j)) \/ CleanupDone(k)
                \/ Kill(k) \/ RemoveImage(k) \/ MarkCleaned(k)
       PROVE  \E q \in Cleaner : Marks(q, i)'
  <2>1. active[i] /\ age[i] < PruneAge /\ image[i] # "shared" /\ box[i] = "gone"
    BY <1>10 DEF FindUncleaned, NextInstance, CleanupDone, Kill, RemoveImage, MarkCleaned
  <2>2. PICK q \in Cleaner : Marks(q, i)
    BY <1>0, <2>1 DEF RemovedInv
  <2>3. CASE q # k
    BY <1>10, <2>2, <2>3 DEF FindUncleaned, NextInstance, CleanupDone, Kill, RemoveImage,
                             MarkCleaned, CleanStep
  <2>4. CASE q = k /\ RemoveImage(k)
    BY <1>1, <1>2, <2>2, <2>4 DEF RemoveImage, CleanStep, DockerFails
  <2>5. CASE q = k /\ MarkCleaned(k)
    BY <1>1, <1>2, <2>2, <2>5 DEF MarkCleaned, CleanStep, DbFails
  <2>6. CASE q = k /\ ~RemoveImage(k) /\ ~MarkCleaned(k)
    BY <1>10, <2>2, <2>6 DEF FindUncleaned, NextInstance, CleanupDone, Kill, CleanStep
  <2> QED BY <2>3, <2>4, <2>5, <2>6
<1>11. CASE UNCHANGED vars
  BY <1>3, <1>11 DEF vars
<1> QED
  BY <1>4, <1>5, <1>6, <1>7, <1>8, <1>9, <1>10, <1>11 DEF Next, CleanerStep

\* Without faults, an active instance whose image is its own keeps its container for
\* PruneAge ticks at least, except under the hands of a cleaner.
THEOREM KeepsContainerHolds == Spec => []KeepsContainer
<1>1. Init => RemovedInv
  BY DEF Init, RemovedInv
<1>2. IndInv /\ RemovedInv /\ [Next]_vars => RemovedInv'
  BY StepRemoved DEF IndInv
<1>3. RemovedInv => KeepsContainer
  BY DEF RemovedInv, KeepsContainer, Unfaulted, Marks, left
<1> QED BY <1>1, <1>2, <1>3, Invariance, PTL DEF Spec
-----------------------------------------------------------------------------
\* ExpiresAt is NULL only while a session that set it so has still to write a new one:
\* without failing writes and without a crash, no row is left out of the expirer's
\* reach when its last session is over (one of the cases ReclaimedUnlessNull leaves open).
Restamps(s, i) == /\ s \in cleared /\ inst[s] = i
                  /\ pc[s] \in {"start", "proxy", "restamp"}

NullOnlyInUse ==
  db = DbFaults /\ up = Crashes =>
    \A i \in Inst : ttl[i] = NoExpiry => \E s \in Session : Restamps(s, i)

\* Whoever clears ExpiresAt restamps it, and nobody else clears it.
LEMMA StepNull == TypeOK /\ SessionInv /\ NullOnlyInUse /\ [Next]_vars => NullOnlyInUse'
<1> SUFFICES ASSUME TypeOK, SessionInv, NullOnlyInUse, [Next]_vars,
                    db' = DbFaults, up' = Crashes, NEW i \in Inst, ttl'[i] = NoExpiry
             PROVE  \E s \in Session : Restamps(s, i)'
  BY DEF NullOnlyInUse, NoExpiry
<1> USE DEF TypeOK, Lock!TypeOK, row, sess, lock, left
<1>1. ASSUME ttl[i] = NoExpiry, db = DbFaults, up = Crashes, UNCHANGED sess
      PROVE  \E s \in Session : Restamps(s, i)'
  BY <1>1 DEF NullOnlyInUse, Restamps
<1>2. ASSUME ttl[i] = NoExpiry, db = DbFaults, up = Crashes
      PROVE  \E s \in Session : Restamps(s, i)
  BY <1>2 DEF NullOnlyInUse
<1>3. db # db - 1 /\ up # up - 1 /\ ~ (db > 0 /\ DbFaults = db - 1) /\ ~ (up > 0 /\ Crashes = up - 1)
  BY FaultAssumption
<1>4. ASSUME NEW r \in Session, DisableExpiry(r) PROVE \E s \in Session : Restamps(s, i)'
  <2>1. Works /\ ttl' = [ttl EXCEPT ![inst[r]] = NoExpiry] /\ cleared' = cleared \cup {r}
    BY <1>3, <1>4 DEF DisableExpiry, DbFails
  <2>2. CASE inst[r] = i
    BY <1>4, <2>1, <2>2 DEF DisableExpiry, Goto, Restamps
  <2>3. CASE inst[r] # i
    <3>1. PICK s \in Session : Restamps(s, i)
      BY <1>2, <2>1, <2>3 DEF Works
    <3> QED BY <1>4, <2>1, <3>1 DEF DisableExpiry, Goto, Restamps
  <2> QED BY <2>2, <2>3
<1>5. ASSUME NEW r \in Session, EnableExpiry(r) PROVE \E s \in Session : Restamps(s, i)'
  <2>1. Works /\ ttl' = [ttl EXCEPT ![inst[r]] = TTL] /\ inst[r] \in Inst
    BY <1>3, <1>5 DEF EnableExpiry, DbFails, Goto, SessionInv
  <2>2. TTL # NoExpiry
    BY TimeAssumption DEF NoExpiry
  <2>3. inst[r] # i /\ ttl[i] = NoExpiry
    BY <2>1, <2>2
  <2>4. PICK s \in Session : Restamps(s, i)
    BY <1>2, <2>1, <2>3 DEF Works
  <2> QED BY <1>5, <2>3, <2>4 DEF EnableExpiry, Goto, Restamps
<1>6. ASSUME NEW r \in Session,
             (\E j \in Inst : Connect(r, j)) \/ Acquire(r) \/ AcquireReturns(r)
               \/ StartContainer(r) \/ EndProxy(r) \/ StopContainer(r) \/ Release(r)
      PROVE  \E s \in Session : Restamps(s, i)'
  <2>1. UNCHANGED <<ttl, cleared>> /\ db' = db /\ up' = up
    BY <1>6 DEF Connect, Acquire, AcquireReturns, StartContainer, EndProxy, StopContainer,
               Release, Works, DockerFails
  <2>2. PICK s \in Session : Restamps(s, i)
    BY <1>2, <2>1
  <2> QED
    BY <1>6, <2>1, <2>2 DEF Connect, Acquire, AcquireReturns, StartContainer, EndProxy,
       StopContainer, Release, Goto, Restamps
<1>7. CASE Tick
  <2>1. ttl[i] = NoExpiry
    BY <1>7, TimeAssumption DEF Tick, NoExpiry
  <2> QED BY <1>1, <1>7, <2>1 DEF Tick
<1>8. CASE Crash
  BY <1>3, <1>8 DEF Crash
<1>9. CASE FindExpired \/ (\E j \in Inst : Deactivate(j) \/ Share(j)) \/ Prune \/ UNCHANGED vars
           \/ \E k \in Cleaner : FindUncleaned(k) \/ CleanerStep(k)
  <2>1. UNCHANGED <<ttl, sess, up>>
    BY <1>9 DEF FindExpired, Deactivate, Share, Prune, vars, FindUncleaned, CleanerStep,
       NextInstance,
       CleanupDone, Kill, Remove, RemoveImage, MarkCleaned, Works, DockerFails, DbFails
  <2>2. db' = db \/ DbFails
    BY <1>9 DEF FindExpired, Deactivate, Share, Prune, vars, FindUncleaned, CleanerStep,
       NextInstance,
       CleanupDone, Kill, Remove, RemoveImage, MarkCleaned, Works, DockerFails
  <2> QED BY <1>1, <1>3, <2>1, <2>2 DEF DbFails
<1> QED
  BY <1>4, <1>5, <1>6, <1>7, <1>8, <1>9 DEF Next, SessionStep

\* A row whose ExpiresAt is NULL is in use, unless a write failed or the process died.
THEOREM NullOnlyWhileInUse == Spec => []NullOnlyInUse
<1>1. Init => NullOnlyInUse
  BY TimeAssumption DEF Init, NullOnlyInUse, NoExpiry
<1>2. IndInv /\ NullOnlyInUse /\ [Next]_vars => NullOnlyInUse'
  BY StepNull DEF IndInv
<1> QED BY <1>1, <1>2, Invariance, PTL DEF Spec
=============================================================================
