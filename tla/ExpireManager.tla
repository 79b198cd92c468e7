---------------------------- MODULE ExpireManager ----------------------------
(***************************************************************************)
(* pkg/expire: the Manager that owns the websocket sessions of a server.   *)
(* One session per name (an instance id) may run; a newer Acquire of the   *)
(* name tells the older session to end (onExpire closes its connection)    *)
(* and blocks until that session has released its token.  A ticker expires *)
(* tokens that were not updated for ExpireLimit.  Mutex-protected sections *)
(* are one action each; onExpire runs in goroutines of its own.            *)
(*                                                                         *)
(* The sessions are those of app/instance.go: acquire, use the connection  *)
(* (updating the token at every read and write), release exactly once.     *)
(***************************************************************************)
EXTENDS Naturals

CONSTANTS Name, Token, NoName, NoToken,
          ExpireLimit   \* expireLimit, in periods of checkEvery

ASSUME NamesAssumption == NoName \notin Name /\ NoToken \notin Token
ASSUME LimitAssumption == ExpireLimit \in Nat \ {0}

VARIABLES
  entries,    \* Manager.entries: the token that owns each name
  tokens,     \* Manager.tokens: the name each tracked token owns
  blockers,   \* Manager.blockers: blockers[p] is the token whose Acquire waits for p
  closed,     \* the waiters whose blocker channel is closed
  pc,         \* where the session of a token is
  expiring,   \* tokens whose onExpire goroutine is running
  connClosed, \* tokens whose onExpire has closed the session's connection
  age,        \* ticks since the last update of a token, saturating
  loop,       \* the manager's goroutine
  era,        \* history: the first token of the present uninterrupted ownership of a name
  grp,        \* history: the era a token belongs to
  before      \* history: the tokens acquired before it in the same era

mgr  == <<entries, tokens, blockers, closed>>
hist == <<era, grp, before>>
vars == <<mgr, pc, expiring, connClosed, age, loop, hist>>

MaxAge == ExpireLimit + 1
Live(t) == pc[t] \in {"waiting", "held"}

TypeOK ==
  /\ entries \in [Name -> Token \cup {NoToken}]
  /\ tokens \in [Token -> Name \cup {NoName}]
  /\ blockers \in [Token -> Token \cup {NoToken}]
  /\ closed \subseteq Token
  /\ pc \in [Token -> {"idle", "waiting", "held", "released"}]
  /\ expiring \subseteq Token
  /\ connClosed \subseteq Token
  /\ age \in [Token -> 0 .. MaxAge]
  /\ loop \in {"new", "running", "stopped"}
  /\ era \in [Name -> Token \cup {NoToken}]
  /\ grp \in [Token -> Token \cup {NoToken}]
  /\ before \in [Token -> SUBSET Token]

Init ==
  /\ entries = [n \in Name |-> NoToken]
  /\ tokens = [t \in Token |-> NoName]
  /\ blockers = [t \in Token |-> NoToken]
  /\ closed = {}
  /\ pc = [t \in Token |-> "idle"]
  /\ expiring = {}
  /\ connClosed = {}
  /\ age = [t \in Token |-> 0]
  /\ loop = "new"
  /\ era = [n \in Name |-> NoToken]
  /\ grp = [t \in Token |-> NoToken]
  /\ before = [t \in Token |-> {}]
-----------------------------------------------------------------------------
\* The tokens Acquire(n) has to wait for, and the era it joins.
EraOf(t, n) == IF era[n] = NoToken THEN t ELSE era[n]

Remember(t, n) ==
  /\ era' = [era EXCEPT ![n] = EraOf(t, n)]
  /\ grp' = [grp EXCEPT ![t] = EraOf(t, n)]
  /\ before' = [before EXCEPT ![t] = {s \in Token : grp[s] = EraOf(t, n)}]

\* go onExpire(): the sessions that are told to end.
Told_Nobody(S) == expiring                                \* mutant: not started
Told(S) == expiring \cup S

\* A token that lost its name is not tracked any more.
Owner(t, n) == [tokens EXCEPT ![entries[n]] = NoName, ![t] = n]

\* Acquire of a name that has no entry returns at once.
AcquireFree(t, n) ==
  /\ pc[t] = "idle"
  /\ entries[n] = NoToken
  /\ entries' = [entries EXCEPT ![n] = t]
  /\ tokens' = [tokens EXCEPT ![t] = n]
  /\ pc' = [pc EXCEPT ![t] = "held"]
  /\ Remember(t, n)
  /\ UNCHANGED <<blockers, closed, expiring, connClosed, age, loop>>

\* Acquire of a name that has an entry: take it over, tell the owner to end, block.
AcquireOver(t, n) ==
  LET old == entries[n] IN
  /\ pc[t] = "idle"
  /\ old # NoToken
  /\ entries' = [entries EXCEPT ![n] = t]
  /\ tokens' = Owner(t, n)
  /\ blockers' = [blockers EXCEPT ![old] = t]
  /\ expiring' = Told({old})
  /\ pc' = [pc EXCEPT ![t] = "waiting"]
  /\ Remember(t, n)
  /\ UNCHANGED <<closed, connClosed, age, loop>>

\* The receive from the blocker channel: Acquire returns.
Received_Skipped(t) == TRUE                               \* mutant: no receive
Received_OrClosed(t) == t \in closed \cup connClosed      \* mutant: gives up waiting
Received(t) == t \in closed

Wake(t) ==
  /\ pc[t] = "waiting"
  /\ Received(t)
  /\ pc' = [pc EXCEPT ![t] = "held"]
  /\ UNCHANGED <<mgr, expiring, connClosed, age, loop, hist>>

Update(t) ==
  /\ pc[t] = "held"
  /\ age' = [age EXCEPT ![t] = 0]
  /\ UNCHANGED <<mgr, pc, expiring, connClosed, loop, hist>>

\* The entry goes with the token, but only if the token still owns the name.
Kept_ByName(t) ==                                         \* mutant: released by name
  [n \in Name |-> IF era[n] = grp[t] THEN NoToken ELSE entries[n]]
Kept(t) == [n \in Name |-> IF tokens[t] = n THEN NoToken ELSE entries[n]]

\* close(blocker), if there is one; it is closed once.
Woken_IfTracked(t) ==                                     \* mutant: only with an entry
  IF tokens[t] = NoName THEN {} ELSE {blockers[t]} \ {NoToken}
Woken(t) == {blockers[t]} \ {NoToken}

Unblocked(t) == [blockers EXCEPT ![t] = NoToken]

Release(t) ==
  /\ pc[t] = "held"
  /\ entries' = Kept(t)
  /\ tokens' = [tokens EXCEPT ![t] = NoName]
  /\ closed' = closed \cup Woken(t)
  /\ blockers' = Unblocked(t)
  /\ pc' = [pc EXCEPT ![t] = "released"]
  /\ age' = [age EXCEPT ![t] = 0]   \* nobody looks at a released token's age
  /\ UNCHANGED <<expiring, connClosed, loop, hist>>

\* Entries leave the manager while their sessions may go on: a later Acquire
\* of the name will not wait for them, so the era of the name ends.
Remove(N) ==
  LET gone == {entries[n] : n \in N} IN
  /\ \A n \in N : entries[n] # NoToken
  /\ entries' = [n \in Name |-> IF n \in N THEN NoToken ELSE entries[n]]
  /\ tokens' = [t \in Token |-> IF t \in gone THEN NoName ELSE tokens[t]]
  /\ expiring' = Told(gone)
  /\ era' = [n \in Name |-> IF n \in N THEN NoToken ELSE era[n]]
  /\ UNCHANGED <<blockers, closed, pc, connClosed, age, loop, grp, before>>

ExpireAndRemove(n) == Remove({n})

Owned == {n \in Name : entries[n] # NoToken}
ExpireAndRemoveAll == Owned # {} /\ Remove(Owned)

\* The goroutine started with go entry.onExpire().
RunOnExpire(t) ==
  /\ t \in expiring
  /\ expiring' = expiring \ {t}
  /\ connClosed' = connClosed \cup {t}
  /\ UNCHANGED <<mgr, pc, age, loop, hist>>
-----------------------------------------------------------------------------
Run ==
  /\ loop = "new"
  /\ loop' = "running"
  /\ UNCHANGED <<mgr, pc, expiring, connClosed, age, hist>>

\* The owners of names that are expired.  Timestamps are whole seconds, so a token
\* stamped in the second of a tick may or may not count as older than ExpireLimit.
Entered == {entries[n] : n \in Owned}
Due_Inverted ==                                           \* mutant: the fresh ones
  {X \in SUBSET Entered : \A t \in Entered : t \in X <=> age'[t] < ExpireLimit}
Due ==
  {X \in SUBSET Entered :
     \A t \in Entered : /\ t \in X => age'[t] >= ExpireLimit
                        /\ age'[t] = MaxAge => t \in X}

\* One tick.  The entry stays until its session releases it.
Tick ==
  /\ loop = "running"
  /\ age' = [t \in Token |-> IF Live(t) /\ age[t] < MaxAge THEN age[t] + 1 ELSE age[t]]
  /\ \E X \in Due : expiring' = Told(X)
  /\ UNCHANGED <<mgr, pc, connClosed, loop, hist>>

\* Stop hands its value to the goroutine, which returns.
Stop ==
  /\ loop = "running"
  /\ loop' = "stopped"
  /\ UNCHANGED <<mgr, pc, expiring, connClosed, age, hist>>

Session(t) ==
  \/ \E n \in Name : AcquireFree(t, n) \/ AcquireOver(t, n)
  \/ Wake(t) \/ Update(t) \/ Release(t) \/ RunOnExpire(t)

Terminated ==
  /\ loop = "stopped" /\ expiring = {}
  /\ \A t \in Token : pc[t] = "released"
  /\ UNCHANGED vars

Next ==
  \/ \E t \in Token : Session(t)
  \/ \E n \in Name : ExpireAndRemove(n)
  \/ ExpireAndRemoveAll \/ Run \/ Tick \/ Stop
  \/ Terminated

Spec == Init /\ [][Next]_vars

\* Goroutines run; a session whose connection was closed ends and releases.
Fairness ==
  /\ WF_vars(Tick)
  /\ \A t \in Token : /\ WF_vars(Wake(t))
                      /\ WF_vars(RunOnExpire(t))
                      /\ WF_vars(t \in connClosed /\ Release(t))

FairSpec == Spec /\ Fairness
-----------------------------------------------------------------------------
\* The manager seen as a handover lock: a name is locked once per era.
Lock == INSTANCE HandoverLock WITH st <- pc, Group <- Token, NoGroup <- NoToken

\* Acquire returns a name only when all earlier owners of it have released: the
\* session that starts the container never overlaps the one that will stop it.
Handover == Lock!Handover

\* Two sessions hold one name together only if an ExpireAndRemove parted them.
Exclusive == Lock!Exclusive

\* entries and tokens are inverse to each other, through every takeover,
\* stale release and removal.
MapsAgree ==
  \A t \in Token, n \in Name : tokens[t] = n <=> entries[n] = t

\* A blocked Acquire has been woken, or a session that is not over yet will wake
\* exactly it: no close of a blocker channel can be lost or go to another waiter.
NoLostWakeup ==
  \A t \in Token :
    pc[t] = "waiting" /\ t \notin closed => \E p \in Token : Live(p) /\ blockers[p] = t

\* However long the queue for a name is, a blocked Acquire waits, through the ones
\* before it, for a session that can move: one whose Acquire was woken, or one that
\* holds the name and was told to end.  Nobody waits in a circle, and nobody waits
\* for a session that was never asked to go.
CanMove(t) ==
  \/ pc[t] = "waiting" /\ t \in closed
  \/ pc[t] = "held" /\ t \in expiring \cup connClosed

QueueMoves ==
  \A t \in Token : pc[t] = "waiting" => \E h \in before[t] \cup {t} : CanMove(h)

\* What makes the above inductive (proved in ExpireManagerProofs).
EntryInv ==   \* the owner of a name is the newest of its era, and nobody waits for it
  \A n \in Name : LET t == entries[n] IN
    t # NoToken =>
      /\ Live(t) /\ blockers[t] = NoToken
      /\ era[n] = grp[t]
      /\ \A s \in Token : grp[s] = grp[t] => s = t \/ s \in before[t]

VacantInv ==  \* a name that nobody took away from its owner has no live session
  \A n \in Name : entries[n] = NoToken /\ era[n] # NoToken =>
    \A s \in Token : grp[s] = era[n] => pc[s] = "released"

BlockerInv == \* a waiter waits for its direct predecessor, and for nobody else
  \A p \in Token : LET t == blockers[p] IN
    t # NoToken =>
      /\ Live(p) /\ tokens[p] = NoName
      /\ pc[t] = "waiting" /\ t \notin closed
      /\ before[t] = before[p] \cup {p}
      /\ \A q \in Token : blockers[q] = t => q = p

GrantedInv == \* woken or running: everything earlier is over
  \A t \in Token : pc[t] = "held" \/ t \in closed => Lock!AllReleased(before[t])

FreshInv ==   \* a token that was never acquired appears nowhere
  \A t \in Token :
    IF pc[t] = "idle"
      THEN /\ grp[t] = NoToken /\ t \notin closed
           /\ \A n \in Name : era[n] # t
           /\ \A s \in Token : grp[s] # t
      ELSE grp[t] # NoToken

HistoryInv == \* eras belong to one name; in an era everybody is ordered
  /\ \A n, m \in Name : era[n] = era[m] /\ era[n] # NoToken => n = m
  /\ \A s, t \in Token : s \in before[t] => grp[s] = grp[t] /\ grp[s] # NoToken
  /\ \A s, t \in Token :
       grp[s] = grp[t] /\ grp[s] # NoToken => s = t \/ s \in before[t] \/ t \in before[s]

IndInv == /\ TypeOK /\ MapsAgree /\ NoLostWakeup
          /\ EntryInv /\ VacantInv /\ BlockerInv /\ GrantedInv /\ FreshInv /\ HistoryInv

QueueInv ==   \* who is waited for was told; the tokens of an era are in one line
  /\ \A p \in Token : blockers[p] # NoToken => p \in expiring \cup connClosed
  /\ \A t \in Token : t \notin before[t] /\ \A s \in before[t] : before[s] \subseteq before[t]

\* A session loses its entry only by releasing it, or after it was told to end; the
\* release of a session that was taken over never removes the newcomer's entry.
EntryLeavesSafely ==
  [][\A n \in Name :
       LET t == entries[n] IN
         t # NoToken /\ entries'[n] # t => pc'[t] = "released" \/ t \in expiring']_vars

\* A blocked Acquire always returns.
AcquireReturns == \A t \in Token : pc[t] = "waiting" ~> pc[t] # "waiting"

\* A session that stays open under a running manager keeps updating its token.
IdleExpires ==
  \A t \in Token :
    <>[](pc[t] = "held" /\ t \notin connClosed /\ loop = "running") => []<>(age[t] = 0)

\* The manager implements the abstract lock: a step of a session is a step of
\* the lock, anything else the manager does is invisible to it ...
ImplementsHandoverSafety == Lock!Spec

\* ... and a waiter whose predecessors are over does get the name.
ImplementsHandoverLock == Lock!FairSpec
=============================================================================
