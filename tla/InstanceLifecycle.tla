-------------------------- MODULE InstanceLifecycle --------------------------
(***************************************************************************)
(* The life of the instances of one spec (app/instance.go, app/cleanup.go, *)
(* specClean of app/spec.go): a row in the database, a container in Docker *)
(* and the processes that change both with no transaction around them.     *)
(*                                                                         *)
(*  - websocket sessions: handleInstance, one session at a time per        *)
(*    instance thanks to the expire manager (HandoverLock, implemented by  *)
(*    ExpireManager);                                                      *)
(*  - the expirer (checkExpiredInstances), which works through the rows it *)
(*    found and only marks them inactive;                                  *)
(*  - cleaners: the periodic cleanInactiveInstances and the clean requests *)
(*    of users, which kill, remove and mark the rows they found;           *)
(*  - pruneDocker, which removes old containers that are stopped.          *)
(*                                                                         *)
(* An image is known by the hash of its content.  A build from the same    *)
(* Dockerfile can come to the same image as long as it exists, and gives   *)
(* it a second tag; a hash that was removed does not come back.            *)
(*                                                                         *)
(* Instances exist from the start (createInstance).  Calls to Docker and   *)
(* the database can fail, and the process can die and be started again,    *)
(* within the bounds DockerFaults, DbFaults and Crashes.                   *)
(***************************************************************************)
EXTENDS Naturals

CONSTANTS Inst, Session, NoInst,
          Janitor,       \* the periodic cleaner
          CleanRequest,  \* clean requests, one cleanup each
          TTL,           \* InstanceExpire, in ticks
          PruneAge,      \* "until=24h", in ticks
          DockerFaults, DbFaults, Crashes

ASSUME InstAssumption == NoInst \notin Inst
ASSUME JanitorAssumption == Janitor \notin CleanRequest
ASSUME TimeAssumption == TTL \in Nat \ {0} /\ PruneAge \in Nat /\ TTL < PruneAge
ASSUME FaultAssumption == DockerFaults \in Nat /\ DbFaults \in Nat /\ Crashes \in Nat

Cleaner == CleanRequest \cup {Janitor}

VARIABLES
  active, cleaned,  \* the row's flags
  ttl,              \* the row's ExpiresAt, as the time left; NoExpiry is NULL
  box,              \* the container
  image,            \* the image: named by this instance's tag only, by others too, or gone
  age,              \* ticks since the container was created, up to PruneAge
  pc, inst,         \* where a session is, and the instance it is about
  st, grp, before,  \* the expire manager's view of the session (HandoverLock)
  cleared,          \* history: sessions that have set ExpiresAt to NULL, up to EnableExpiry
  found,            \* rows checkExpiredInstances has still to visit
  todo, step, cur,  \* rows a cleaner has still to visit, where it is, on which row
  docker, db, up    \* faults and crashes still to come

row   == <<active, cleaned, ttl>>
sess  == <<pc, inst, cleared>>
lock  == <<st, grp, before>>
clean == <<todo, step, cur>>
left  == <<docker, db, up>>
vars  == <<row, box, image, age, sess, lock, found, clean, left>>

Lock == INSTANCE HandoverLock WITH Token <- Session, Group <- Inst, NoGroup <- NoInst

NoExpiry == TTL + 1

TypeOK ==
  /\ active \in [Inst -> BOOLEAN] /\ cleaned \in [Inst -> BOOLEAN]
  /\ ttl \in [Inst -> 0 .. NoExpiry]
  /\ box \in [Inst -> {"running", "stopped", "gone"}]
  /\ image \in [Inst -> {"own", "shared", "gone"}]
  /\ age \in [Inst -> 0 .. PruneAge]
  /\ pc \in [Session -> {"idle", "admitted", "acquired", "start", "proxy",
                         "restamp", "stop", "release", "over"}]
  /\ inst \in [Session -> Inst \cup {NoInst}]
  /\ Lock!TypeOK
  /\ cleared \subseteq Session
  /\ found \subseteq Inst
  /\ todo \in [Cleaner -> SUBSET Inst]
  /\ step \in [Cleaner -> {"idle", "next", "kill", "remove", "image", "mark", "over"}]
  /\ cur \in [Cleaner -> Inst \cup {NoInst}]
  /\ docker \in 0 .. DockerFaults /\ db \in 0 .. DbFaults /\ up \in 0 .. Crashes

\* createInstance leaves an active row, and a container that was set up and stopped.
Init ==
  /\ active = [i \in Inst |-> TRUE] /\ cleaned = [i \in Inst |-> FALSE]
  /\ ttl = [i \in Inst |-> TTL]
  /\ box = [i \in Inst |-> "stopped"] /\ age = [i \in Inst |-> 0]
  /\ image \in [Inst -> {"own", "shared"}]
  /\ pc = [s \in Session |-> "idle"] /\ inst = [s \in Session |-> NoInst]
  /\ Lock!Init
  /\ cleared = {} /\ found = {}
  /\ todo = [k \in Cleaner |-> {}] /\ step = [k \in Cleaner |-> "idle"]
  /\ cur = [k \in Cleaner |-> NoInst]
  /\ docker = DockerFaults /\ db = DbFaults /\ up = Crashes

DockerFails == docker > 0 /\ docker' = docker - 1 /\ UNCHANGED <<db, up>>
DbFails == db > 0 /\ db' = db - 1 /\ UNCHANGED <<docker, up>>
Works == UNCHANGED left
-----------------------------------------------------------------------------
Goto(s, from, to) == pc[s] = from /\ pc' = [pc EXCEPT ![s] = to]

\* instanceWS: only an active instance can be connected to.
Connect(s, i) ==
  /\ Goto(s, "idle", "admitted")
  /\ active[i]
  /\ inst' = [inst EXCEPT ![s] = i]
  /\ UNCHANGED <<row, box, image, age, lock, cleared, found, clean, left>>

\* handleInstance calls Acquire ...
Acquire(s) ==
  /\ Goto(s, "admitted", "acquired")
  /\ Lock!Request(s, inst[s])
  /\ UNCHANGED <<row, box, image, age, inst, cleared, found, clean, left>>

\* ... which returns once the session before it has released.
AcquireReturns(s) ==
  /\ Lock!Grant(s)
  /\ UNCHANGED <<row, box, image, age, sess, found, clean, left>>

DisableExpiry(s) ==
  /\ Goto(s, "acquired", "start")
  /\ st[s] = "held"
  /\ \/ /\ Works
        /\ ttl' = [ttl EXCEPT ![inst[s]] = NoExpiry]
        /\ cleared' = cleared \cup {s}
     \/ DbFails /\ UNCHANGED <<ttl, cleared>>
  /\ UNCHANGED <<active, cleaned, box, image, age, inst, lock, found, clean>>

\* ContainerStart accepts a running container; its errors are only logged.
StartContainer(s) ==
  /\ Goto(s, "start", "proxy")
  /\ \/ /\ Works
        /\ box' = [box EXCEPT ![inst[s]] = IF @ = "stopped" THEN "running" ELSE @]
     \/ DockerFails /\ UNCHANGED box
  /\ UNCHANGED <<row, image, age, inst, cleared, lock, found, clean>>

EndProxy_Releases(s) ==       \* mutant: releases as soon as the connection ends
  /\ Goto(s, "proxy", "restamp")
  /\ Lock!Release(s)
  /\ UNCHANGED <<row, box, image, age, inst, cleared, found, clean, left>>

\* Proxy returns: the user leaves or is told to, or the command cannot run (any more).
EndProxy(s) ==
  /\ Goto(s, "proxy", "restamp")
  /\ UNCHANGED <<row, box, image, age, inst, cleared, lock, found, clean, left>>

EnableExpiry_Returns(s) ==    \* mutant: a database error ends the session at once
  /\ \/ Works /\ Goto(s, "restamp", "stop") /\ ttl' = [ttl EXCEPT ![inst[s]] = TTL]
     \/ DbFails /\ Goto(s, "restamp", "release") /\ UNCHANGED ttl
  /\ UNCHANGED <<active, cleaned, box, image, age, inst, cleared, lock, found, clean>>

EnableExpiry(s) ==
  /\ Goto(s, "restamp", "stop")
  /\ \/ Works /\ ttl' = [ttl EXCEPT ![inst[s]] = TTL]
     \/ DbFails /\ UNCHANGED ttl
  /\ cleared' = cleared \ {s}
  /\ UNCHANGED <<active, cleaned, box, image, age, inst, lock, found, clean>>

StopContainer(s) ==
  /\ Goto(s, "stop", "release")
  /\ \/ /\ Works
        /\ box' = [box EXCEPT ![inst[s]] = IF @ = "running" THEN "stopped" ELSE @]
     \/ DockerFails /\ UNCHANGED box
  /\ UNCHANGED <<row, image, age, inst, cleared, lock, found, clean>>

\* The deferred Release runs when handleInstance returns.
Release(s) ==
  /\ Goto(s, "release", "over")
  /\ Lock!Release(s)
  /\ UNCHANGED <<row, box, image, age, inst, cleared, found, clean, left>>

SessionStep(s) ==
  \/ Acquire(s) \/ AcquireReturns(s) \/ DisableExpiry(s) \/ StartContainer(s)
  \/ EndProxy(s) \/ EnableExpiry(s) \/ StopContainer(s) \/ Release(s)
-----------------------------------------------------------------------------
Expired(i) == active[i] /\ ttl[i] = 0

\* checkExpiredInstances: the query, and one Update per row it returned.
FindExpired ==
  /\ found = {}
  /\ \E i \in Inst : Expired(i)
  /\ found' = {i \in Inst : Expired(i)}
  /\ UNCHANGED <<row, box, image, age, sess, lock, clean, left>>

Deactivate(i) ==
  /\ i \in found
  /\ found' = found \ {i}
  /\ \/ Works /\ active' = [active EXCEPT ![i] = FALSE]
     \/ DbFails /\ UNCHANGED active
  /\ UNCHANGED <<cleaned, ttl, box, image, age, sess, lock, clean>>

\* The periodic cleaner looks for inactive rows, a request for any row of its spec.
Wanted_NotPruned(k, i) ==     \* mutant: only rows that still have a container
  ~cleaned[i] /\ (k = Janitor => ~active[i]) /\ box[i] # "gone"
Wanted(k, i) == ~cleaned[i] /\ (k = Janitor => ~active[i])

FindUncleaned(k) ==
  /\ step[k] = "idle"
  /\ \E i \in Inst : Wanted(k, i)
  /\ todo' = [todo EXCEPT ![k] = {i \in Inst : Wanted(k, i)}]
  /\ step' = [step EXCEPT ![k] = "next"]
  /\ UNCHANGED <<row, box, image, age, sess, lock, found, cur, left>>

CleanStep(k, from, to) == step[k] = from /\ step' = [step EXCEPT ![k] = to]

NextInstance(k, i) ==
  /\ CleanStep(k, "next", "kill")
  /\ i \in todo[k]
  /\ cur' = [cur EXCEPT ![k] = i]
  /\ todo' = [todo EXCEPT ![k] = @ \ {i}]
  /\ UNCHANGED <<row, box, image, age, sess, lock, found, left>>

CleanupDone(k) ==
  /\ CleanStep(k, "next", IF k = Janitor THEN "idle" ELSE "over")
  /\ todo[k] = {}
  /\ cur' = [cur EXCEPT ![k] = NoInst]
  /\ UNCHANGED <<row, box, image, age, sess, lock, found, todo, left>>

\* cleanInstance: the container is killed, whatever comes of it, ...
Kill(k) ==
  /\ CleanStep(k, "kill", "remove")
  /\ \/ /\ Works
        /\ box' = [box EXCEPT ![cur[k]] = IF @ = "running" THEN "stopped" ELSE @]
     \/ DockerFails /\ UNCHANGED box
  /\ UNCHANGED <<row, image, age, sess, lock, found, todo, cur>>

Remove_Continues(k) ==        \* mutant: logs the error and goes on, like Kill
  /\ CleanStep(k, "remove", "image")
  /\ \/ /\ Works
        /\ box' = [box EXCEPT ![cur[k]] = IF @ = "running" THEN @ ELSE "gone"]
     \/ DockerFails /\ UNCHANGED box
  /\ UNCHANGED <<row, image, age, sess, lock, found, todo, cur>>

\* ... then removed, which Docker refuses for a running container, ...
Remove(k) ==
  /\ step[k] = "remove"
  /\ \/ /\ Works /\ box[cur[k]] # "running"
        /\ box' = [box EXCEPT ![cur[k]] = "gone"]
        /\ step' = [step EXCEPT ![k] = "image"]
     \/ /\ (Works /\ box[cur[k]] = "running") \/ DockerFails
        /\ UNCHANGED box
        /\ step' = [step EXCEPT ![k] = "next"]
  /\ UNCHANGED <<row, image, age, sess, lock, found, todo, cur>>

\* ... then its image by the hash, which Docker refuses if other tags name it (one that
\* is gone is no error), ...
RemoveImage(k) ==
  /\ step[k] = "image"
  /\ \/ /\ Works /\ image[cur[k]] # "shared"
        /\ image' = [image EXCEPT ![cur[k]] = "gone"]
        /\ step' = [step EXCEPT ![k] = "mark"]
     \/ /\ (Works /\ image[cur[k]] = "shared") \/ DockerFails
        /\ UNCHANGED image
        /\ step' = [step EXCEPT ![k] = "next"]
  /\ UNCHANGED <<row, box, age, sess, lock, found, todo, cur>>

\* ... and only then is the row marked.  An error leaves the row to the next cleanup.
MarkCleaned(k) ==
  /\ CleanStep(k, "mark", "next")
  /\ \/ /\ Works
        /\ active' = [active EXCEPT ![cur[k]] = FALSE]
        /\ cleaned' = [cleaned EXCEPT ![cur[k]] = TRUE]
     \/ DbFails /\ UNCHANGED <<active, cleaned>>
  /\ UNCHANGED <<ttl, box, image, age, sess, lock, found, todo, cur>>

CleanerStep(k) ==
  \/ \E i \in Inst : NextInstance(k, i)
  \/ CleanupDone(k) \/ Kill(k) \/ Remove(k) \/ RemoveImage(k) \/ MarkCleaned(k)

\* pruneDocker: every owned container that is old enough and not running.
Prunable_Any == {i \in Inst : box[i] # "gone" /\ age[i] = PruneAge}  \* mutant: running as well
Prunable_New == {i \in Inst : box[i] = "stopped"}                    \* mutant: of any age
Prunable == {i \in Inst : box[i] = "stopped" /\ age[i] = PruneAge}

Prune ==
  /\ Prunable # {}
  /\ box' = [i \in Inst |-> IF i \in Prunable THEN "gone" ELSE box[i]]
  /\ UNCHANGED <<row, image, age, sess, lock, found, clean, left>>

\* Another request's build comes to the image of an instance.
Share(i) ==
  /\ image[i] = "own"
  /\ image' = [image EXCEPT ![i] = "shared"]
  /\ UNCHANGED <<row, box, age, sess, lock, found, clean, left>>
-----------------------------------------------------------------------------
\* Time passes; an ExpiresAt in the past stays there.
Tick ==
  /\ age' = [i \in Inst |-> IF age[i] < PruneAge THEN age[i] + 1 ELSE PruneAge]
  /\ ttl' = [i \in Inst |-> IF ttl[i] \in 1 .. TTL THEN ttl[i] - 1 ELSE ttl[i]]
  /\ UNCHANGED <<active, cleaned, box, image, sess, lock, found, clean, left>>

\* The process dies, is started again, and knows nothing of the sessions it had.
Crash ==
  LET dead == {s \in Session : pc[s] \notin {"idle", "over"}} IN
  /\ up > 0 /\ up' = up - 1
  /\ pc' = [s \in Session |-> IF s \in dead THEN "over" ELSE pc[s]]
  /\ st' = [s \in Session |-> IF s \in dead THEN "released" ELSE st[s]]
  /\ cleared' = cleared \ dead
  /\ found' = {}
  /\ todo' = [k \in Cleaner |-> {}]
  /\ step' = [k \in Cleaner |-> IF k = Janitor \/ step[k] = "idle" THEN "idle" ELSE "over"]
  /\ cur' = [k \in Cleaner |-> NoInst]
  /\ UNCHANGED <<row, box, image, age, inst, grp, before, docker, db>>

Next ==
  \/ \E s \in Session : (\E i \in Inst : Connect(s, i)) \/ SessionStep(s)
  \/ FindExpired \/ \E i \in Inst : Deactivate(i) \/ Share(i)
  \/ \E k \in Cleaner : FindUncleaned(k) \/ CleanerStep(k)
  \/ Prune \/ Tick \/ Crash

Spec == Init /\ [][Next]_vars

\* Every session ends (its user leaves, or is idle for WebsocketTimeout), goroutines
\* run, the runners' periods come round, and time passes.
Fairness ==
  /\ \A s \in Session : WF_vars(SessionStep(s))
  /\ WF_vars(FindExpired) /\ \A i \in Inst : WF_vars(Deactivate(i))
  /\ WF_vars(FindUncleaned(Janitor))
  /\ \A k \in Cleaner : WF_vars(CleanerStep(k))
  /\ WF_vars(Tick)

FairSpec == Spec /\ Fairness
-----------------------------------------------------------------------------
\* What handleInstance does between Acquire and Release.
Working(s) == st[s] = "held" /\ pc[s] # "over"
Proxying(s) == pc[s] = "proxy"

\* No two sessions work on one instance, although each writes the row and starts and
\* stops the container without looking at the other.
OneSession ==
  \A s, r \in Session : Working(s) /\ Working(r) /\ inst[s] = inst[r] => s = r

\* ExpiresAt stays NULL while a session that set it so uses the instance: the new one of
\* the session before cannot arrive late.  An expirer that has found the row earlier may
\* still mark it inactive.
NullWhileUsed ==
  \A s \in cleared : pc[s] \in {"start", "proxy", "restamp"} => ttl[inst[s]] = NoExpiry

\* A row is marked cleaned only when its container is gone, and it stays so: no
\* session that connected before brings it back.
CleanedIsGone ==
  \A i \in Inst : cleaned[i] => ~active[i] /\ box[i] = "gone"

\* A running container has a session that will stop it, unless a call or the process
\* failed.
NoRunawayContainer ==
  docker = DockerFaults /\ up = Crashes =>
    \A i \in Inst : box[i] = "running" =>
      \E s \in Session : Working(s) /\ inst[s] = i /\ pc[s] \in {"proxy", "restamp", "stop"}

\* While nothing fails, an active instance keeps its container until it is a day old,
\* unless a cleaner is at work on it, or has given up on an image that is shared:
\* pruning does not take what users can return to.
KeepsContainer ==
  left = <<DockerFaults, DbFaults, Crashes>> =>
    \A i \in Inst :
      active[i] /\ age[i] < PruneAge /\ image[i] # "shared" /\ (\A k \in Cleaner : cur[k] # i) =>
        box[i] # "gone"

\* What makes the invariants inductive (proved in InstanceLifecycleProofs).
SessionInv == \* handleInstance works under the lock, on the instance it asked for
  \A s \in Session :
    /\ pc[s] # "idle" => inst[s] \in Inst
    /\ pc[s] \in {"idle", "admitted"} => st[s] = "idle"
    /\ pc[s] = "acquired" => st[s] \in {"waiting", "held"}
    /\ pc[s] \in {"start", "proxy", "restamp", "stop", "release"} => st[s] = "held"
    /\ pc[s] = "over" => st[s] = "released"
    /\ pc[s] \in {"idle", "admitted"} => grp[s] = NoInst
    /\ st[s] \in {"waiting", "held"} => grp[s] = inst[s]
    /\ pc[s] \in {"idle", "admitted", "acquired"} => s \notin cleared

LockInv ==    \* the holder saw everybody who came before it, all of them are over
  /\ \A s \in Session : st[s] = "held" => Lock!AllReleased(before[s])
  /\ \A s, r \in Session :
       grp[s] = grp[r] /\ grp[s] # NoInst => s = r \/ s \in before[r] \/ r \in before[s]

CleanerInv == \* a cleaner that is past the removal has removed the container
  \A k \in Cleaner :
    /\ step[k] \in {"kill", "remove", "image", "mark"} => cur[k] \in Inst
    /\ step[k] \in {"image", "mark"} => box[cur[k]] = "gone"

IndInv == /\ TypeOK /\ SessionInv /\ LockInv /\ CleanerInv
          /\ NullWhileUsed /\ CleanedIsGone /\ NoRunawayContainer

\* The container of a proxied session is stopped by nobody but a cleaner's kill.
OnlyKillInterrupts ==
  [][\A s \in Session :
       Proxying(s) /\ box[inst[s]] = "running" /\ box'[inst[s]] # "running" =>
         \E k \in Cleaner : step[k] = "kill" /\ step'[k] = "remove" /\ cur[k] = inst[s]]_vars

\* Every instance is cleaned in the end, whatever fails, unless its ExpiresAt was left NULL
\* or its image has come to be shared.
ReclaimedUnlessNull ==
  \A i \in Inst : <>cleaned[i] \/ <>[](ttl[i] = NoExpiry) \/ <>[](image[i] = "shared")
=============================================================================
