------------------------- MODULE ExpireManagerProofs -------------------------
(***************************************************************************)
(* Theorems about ExpireManager for any sets of names and tokens and any   *)
(* expiry limit: types, the handover of a name, that a queue for a name    *)
(* can always move, and that the manager implements HandoverLock.  All     *)
(* follow from the inductive invariant IndInv, one lemma per action.       *)
(***************************************************************************)
EXTENDS ExpireManager, TLAPS, FiniteSetTheorems, WellFoundedInduction

\* The initial state satisfies the inductive invariant.
LEMMA InitInv == Init => IndInv
<1> SUFFICES ASSUME Init PROVE IndInv
  OBVIOUS
<1> USE DEF Init
<1>1. TypeOK
  BY LimitAssumption DEF TypeOK, MaxAge
<1>2. MapsAgree /\ NoLostWakeup
  BY NamesAssumption DEF MapsAgree, NoLostWakeup
<1>3. EntryInv /\ VacantInv /\ BlockerInv
  BY DEF EntryInv, VacantInv, BlockerInv
<1>4. GrantedInv /\ FreshInv /\ HistoryInv
  BY NamesAssumption DEF GrantedInv, FreshInv, HistoryInv
<1> QED BY <1>1, <1>2, <1>3, <1>4 DEF IndInv

\* Acquire of a vacant name.
LEMMA AcquireFreeInv ==
  ASSUME IndInv, NEW t \in Token, NEW n \in Name, AcquireFree(t, n)
  PROVE  IndInv'
<1> DEFINE g == EraOf(t, n)
<1> USE DEF IndInv, AcquireFree, Remember
<1>1. TypeOK'
  BY DEF TypeOK, EraOf
<1>2. g # NoToken /\ g \in Token /\ \A m \in Name : era[m] = g => m = n
  BY DEF EraOf, FreshInv, HistoryInv, TypeOK
<1>3. \A s \in Token : grp[s] = g => pc[s] = "released"
  BY DEF EraOf, FreshInv, VacantInv, TypeOK
<1>4. MapsAgree'
  BY NamesAssumption DEF TypeOK, MapsAgree, EntryInv, Live
<1>5. NoLostWakeup'
  BY DEF TypeOK, NoLostWakeup, Live
<1>6. EntryInv'
  <2> SUFFICES ASSUME NEW m \in Name, entries'[m] # NoToken
               PROVE  EntryInv!(m)'
    BY DEF EntryInv
  <2>1. CASE m = n
    BY <2>1, <1>2 DEF EntryInv, BlockerInv, TypeOK, Live
  <2>2. CASE m # n
    BY <2>2, <1>2 DEF EntryInv, TypeOK, Live
  <2> QED BY <2>1, <2>2
<1>7. VacantInv'
  BY <1>2, NamesAssumption DEF TypeOK, VacantInv
<1>8. BlockerInv'
  BY DEF TypeOK, BlockerInv, Live
<1>9. GrantedInv'
  BY <1>3 DEF TypeOK, GrantedInv, Lock!AllReleased, FreshInv
<1>10. FreshInv'
  BY <1>2 DEF TypeOK, FreshInv, EraOf
<1>11. HistoryInv'
  <2>1. era' = [era EXCEPT ![n] = g] /\ grp' = [grp EXCEPT ![t] = g]
        /\ before' = [before EXCEPT ![t] = {s \in Token : grp[s] = g}]
    OBVIOUS
  <2>2. grp[t] = NoToken /\ \A s \in Token : t \notin before[s]
    BY <1>2 DEF TypeOK, HistoryInv, FreshInv
  <2> HIDE DEF g
  <2>3. \A a, b \in Name : era'[a] = era'[b] /\ era'[a] # NoToken => a = b
    BY <1>2, <2>1 DEF TypeOK, HistoryInv
  <2>4. \A a, b \in Token : a \in before'[b] => grp'[a] = grp'[b] /\ grp'[a] # NoToken
    BY <1>2, <2>1, <2>2 DEF TypeOK, HistoryInv
  <2>5. \A a, b \in Token : grp'[a] = grp'[b] /\ grp'[a] # NoToken
                            => a = b \/ a \in before'[b] \/ b \in before'[a]
    BY <1>2, <2>1, <2>2 DEF TypeOK, HistoryInv
  <2> QED BY <2>3, <2>4, <2>5 DEF HistoryInv
<1> QED BY <1>1, <1>4, <1>5, <1>6, <1>7, <1>8, <1>9, <1>10, <1>11

\* Acquire of a name that another token owns.
LEMMA AcquireOverInv ==
  ASSUME IndInv, NEW t \in Token, NEW n \in Name, AcquireOver(t, n)
  PROVE  IndInv'
<1> DEFINE old == entries[n]
           g   == EraOf(t, n)
<1> USE DEF IndInv, AcquireOver, Remember, Owner, Told
<1>1. TypeOK'
  BY DEF TypeOK, EraOf
<1>2. /\ old \in Token /\ Live(old) /\ old # t /\ tokens[old] = n
      /\ g = grp[old] /\ g # NoToken /\ g \in Token
      /\ \A m \in Name : era[m] = g => m = n
  BY DEF EraOf, EntryInv, HistoryInv, TypeOK, MapsAgree, FreshInv, Live
<1>3. {s \in Token : grp[s] = g} = before[old] \cup {old}
  BY <1>2 DEF EntryInv, HistoryInv, TypeOK
<1>4. MapsAgree'
  BY <1>2, NamesAssumption DEF TypeOK, MapsAgree, EntryInv, Live
<1>5. NoLostWakeup'
  BY <1>2, NamesAssumption DEF TypeOK, NoLostWakeup, EntryInv, Live
<1>6. EntryInv'
  <2> SUFFICES ASSUME NEW m \in Name, entries'[m] # NoToken
               PROVE  EntryInv!(m)'
    BY DEF EntryInv
  <2>1. CASE m = n
    BY <2>1, <1>2, <1>3 DEF EntryInv, BlockerInv, TypeOK, Live
  <2>2. CASE m # n
    BY <2>2, <1>2 DEF EntryInv, TypeOK, MapsAgree, Live
  <2> QED BY <2>1, <2>2
<1>7. VacantInv'
  BY <1>2, NamesAssumption DEF TypeOK, VacantInv
<1>8. BlockerInv'
  <2> SUFFICES ASSUME NEW p \in Token, blockers'[p] # NoToken
               PROVE  BlockerInv!(p)'
    BY DEF BlockerInv
  <2>1. \A q \in Token : blockers[q] # t
    BY NamesAssumption DEF BlockerInv, TypeOK
  <2>2. CASE p = old
    BY <2>1, <2>2, <1>2, <1>3, NamesAssumption DEF BlockerInv, TypeOK, Live, FreshInv
  <2>3. CASE p # old
    BY <2>1, <2>3, <1>2 DEF BlockerInv, TypeOK, Live
  <2> QED BY <2>2, <2>3
<1>9. GrantedInv'
  BY DEF TypeOK, GrantedInv, Lock!AllReleased, FreshInv
<1>10. FreshInv'
  BY <1>2 DEF TypeOK, FreshInv
<1>11. HistoryInv'
  <2>1. era' = [era EXCEPT ![n] = g] /\ grp' = [grp EXCEPT ![t] = g]
        /\ before' = [before EXCEPT ![t] = {s \in Token : grp[s] = g}]
    OBVIOUS
  <2>2. grp[t] = NoToken /\ \A s \in Token : t \notin before[s]
    BY <1>2 DEF TypeOK, HistoryInv, FreshInv
  <2> HIDE DEF g
  <2>3. \A a, b \in Name : era'[a] = era'[b] /\ era'[a] # NoToken => a = b
    BY <1>2, <2>1 DEF TypeOK, HistoryInv
  <2>4. \A a, b \in Token : a \in before'[b] => grp'[a] = grp'[b] /\ grp'[a] # NoToken
    BY <1>2, <2>1, <2>2 DEF TypeOK, HistoryInv
  <2>5. \A a, b \in Token : grp'[a] = grp'[b] /\ grp'[a] # NoToken
                            => a = b \/ a \in before'[b] \/ b \in before'[a]
    BY <1>2, <2>1, <2>2 DEF TypeOK, HistoryInv
  <2> QED BY <2>3, <2>4, <2>5 DEF HistoryInv
<1> QED BY <1>1, <1>4, <1>5, <1>6, <1>7, <1>8, <1>9, <1>10, <1>11

\* The blocked Acquire returns.
LEMMA WakeInv ==
  ASSUME IndInv, NEW t \in Token, Wake(t)
  PROVE  IndInv'
<1> USE DEF IndInv, Wake, Received, mgr, hist
<1>1. TypeOK' /\ MapsAgree' /\ NoLostWakeup'
  BY DEF TypeOK, MapsAgree, NoLostWakeup, Live
<1>2. EntryInv' /\ VacantInv' /\ BlockerInv'
  BY DEF TypeOK, EntryInv, VacantInv, BlockerInv, Live
<1>3. GrantedInv' /\ FreshInv' /\ HistoryInv'
  BY DEF TypeOK, GrantedInv, Lock!AllReleased, FreshInv, HistoryInv
<1> QED BY <1>1, <1>2, <1>3

\* A session ends: its name becomes vacant unless it was taken over, and the one
\* that took it over is woken.
LEMMA ReleaseInv ==
  ASSUME IndInv, NEW t \in Token, Release(t)
  PROVE  IndInv'
<1> USE DEF IndInv, Release, Kept, Woken, Unblocked, hist
<1>1. TypeOK'
  <2>1. closed' \subseteq Token
    BY DEF TypeOK
  <2>2. age' \in [Token -> 0 .. MaxAge]
    BY LimitAssumption DEF TypeOK, MaxAge
  <2> QED BY <2>1, <2>2 DEF TypeOK
<1>2. Lock!AllReleased(before[t])
  BY DEF GrantedInv
<1>3. \A n \in Name : IF tokens[t] = n THEN entries[n] = t /\ entries'[n] = NoToken
                                      ELSE entries[n] # t /\ entries'[n] = entries[n]
  BY DEF MapsAgree, TypeOK
<1>4. MapsAgree'
  BY <1>3, NamesAssumption DEF MapsAgree, TypeOK
<1>5. NoLostWakeup'
  BY NamesAssumption DEF TypeOK, NoLostWakeup, Live
<1>6. EntryInv'
  BY <1>3 DEF TypeOK, EntryInv, Live
<1>7. VacantInv'
  BY <1>2, <1>3 DEF TypeOK, VacantInv, EntryInv, Lock!AllReleased
<1>8. BlockerInv'
  BY DEF TypeOK, BlockerInv, Live
<1>9. GrantedInv'
  BY <1>2 DEF TypeOK, GrantedInv, Lock!AllReleased, BlockerInv
<1>10. FreshInv' /\ HistoryInv'
  BY DEF TypeOK, FreshInv, HistoryInv, BlockerInv
<1> QED BY <1>1, <1>4, <1>5, <1>6, <1>7, <1>8, <1>9, <1>10

\* Entries removed while their sessions go on: the era of the name ends.
LEMMA RemoveInv ==
  ASSUME IndInv, NEW N \in SUBSET Name, Remove(N)
  PROVE  IndInv'
<1> USE DEF IndInv, Remove, Told
<1>1. TypeOK'
  BY DEF TypeOK
<1>2. MapsAgree'
  BY NamesAssumption DEF MapsAgree, TypeOK
<1>3. NoLostWakeup' /\ GrantedInv' /\ FreshInv'
  BY DEF TypeOK, NoLostWakeup, GrantedInv, Lock!AllReleased, FreshInv, Live
<1>4. EntryInv' /\ VacantInv'
  BY DEF TypeOK, EntryInv, VacantInv, Live
<1>5. BlockerInv' /\ HistoryInv'
  BY DEF TypeOK, BlockerInv, HistoryInv, Live
<1> QED BY <1>1, <1>2, <1>3, <1>4, <1>5

\* The other steps move no entry, no blocker and no session.
LEMMA QuietInv ==
  ASSUME IndInv, TypeOK', UNCHANGED <<mgr, pc, hist>>
  PROVE  IndInv'
<1> USE DEF IndInv, mgr, hist
<1>1. MapsAgree' /\ NoLostWakeup'
  BY DEF MapsAgree, NoLostWakeup, Live
<1>2. EntryInv' /\ VacantInv' /\ BlockerInv'
  BY DEF EntryInv, VacantInv, BlockerInv, Live
<1>3. GrantedInv' /\ FreshInv' /\ HistoryInv'
  BY DEF GrantedInv, Lock!AllReleased, FreshInv, HistoryInv
<1> QED BY <1>1, <1>2, <1>3

\* A tick ages tokens within bounds and expires owners of names only.
LEMMA TickTypes == TypeOK /\ Tick => TypeOK'
<1> SUFFICES ASSUME TypeOK, Tick PROVE TypeOK'
  OBVIOUS
<1>1. age' \in [Token -> 0 .. MaxAge]
  <2>1. \A t \in Token : age[t] \in 0 .. MaxAge
    BY DEF TypeOK
  <2>2. MaxAge \in Nat
    BY LimitAssumption DEF MaxAge
  <2>3. \A t \in Token : (IF Live(t) /\ age[t] < MaxAge THEN age[t] + 1 ELSE age[t]) \in 0 .. MaxAge
    BY <2>1, <2>2
  <2> QED BY <2>3 DEF Tick
<1>2. expiring' \subseteq Token
  BY DEF TypeOK, Tick, Due, Told, Entered, Owned
<1> QED BY <1>1, <1>2 DEF TypeOK, Tick, mgr, hist

\* Every step preserves the inductive invariant.
LEMMA StepInv == IndInv /\ [Next]_vars => IndInv'
<1> SUFFICES ASSUME IndInv, [Next]_vars PROVE IndInv'
  OBVIOUS
<1>1. ASSUME NEW t \in Token, NEW n \in Name, AcquireFree(t, n) \/ AcquireOver(t, n)
      PROVE  IndInv'
  BY <1>1, AcquireFreeInv, AcquireOverInv
<1>2. ASSUME NEW t \in Token, Wake(t) \/ Release(t)
      PROVE  IndInv'
  BY <1>2, WakeInv, ReleaseInv
<1>3. ASSUME NEW t \in Token, Update(t) \/ RunOnExpire(t)
      PROVE  IndInv'
  <2>1. TypeOK'
    BY <1>3, LimitAssumption DEF IndInv, TypeOK, Update, RunOnExpire, MaxAge, mgr, hist
  <2> QED BY <1>3, <2>1, QuietInv DEF Update, RunOnExpire
<1>4. ASSUME NEW n \in Name, ExpireAndRemove(n)
      PROVE  IndInv'
  BY <1>4, RemoveInv DEF ExpireAndRemove
<1>5. CASE ExpireAndRemoveAll
  BY <1>5, RemoveInv DEF ExpireAndRemoveAll, Owned
<1>6. CASE Tick
  BY <1>6, TickTypes, QuietInv DEF Tick, IndInv
<1>7. CASE Run \/ Stop
  <2>1. TypeOK'
    BY <1>7 DEF IndInv, TypeOK, Run, Stop, mgr, hist
  <2> QED BY <1>7, <2>1, QuietInv DEF Run, Stop
<1>8. CASE UNCHANGED vars
  <2>1. TypeOK'
    BY <1>8 DEF IndInv, TypeOK, vars, mgr, hist
  <2> QED BY <1>8, <2>1, QuietInv DEF vars
<1> QED
  BY <1>1, <1>2, <1>3, <1>4, <1>5, <1>6, <1>7, <1>8 DEF Next, Session, Terminated

\* The inductive invariant holds in every reachable state.
THEOREM Invariance == Spec => []IndInv
BY InitInv, StepInv, PTL DEF Spec

\* The types of Manager's maps and of the sessions' program counters.
THEOREM TypeCorrect == Spec => []TypeOK
BY Invariance, PTL DEF IndInv

\* entries and tokens stay inverse to each other.
THEOREM MapsAlwaysAgree == Spec => []MapsAgree
BY Invariance, PTL DEF IndInv

\* No blocked Acquire is ever left without a session that will wake it.
THEOREM NoWakeupIsLost == Spec => []NoLostWakeup
BY Invariance, PTL DEF IndInv

\* Acquire returns only when every earlier owner of the name has released.
THEOREM HandoverHolds == Spec => []Handover
<1>1. IndInv => Handover
  BY DEF IndInv, GrantedInv, Handover, Lock!Handover
<1> QED BY <1>1, Invariance, PTL

\* At most one session of an era holds the name.
THEOREM ExclusiveHolds == Spec => []Exclusive
<1>1. IndInv => Exclusive
  BY DEF IndInv, GrantedInv, HistoryInv, FreshInv, Lock!AllReleased,
         Exclusive, Lock!Exclusive
<1> QED BY <1>1, Invariance, PTL
\* Nobody loses a name's entry but by releasing it, or with onExpire on its way.
THEOREM EntriesLeaveSafely == Spec => EntryLeavesSafely
<1>1. IndInv /\ [Next]_vars =>
        [\A n \in Name :
           LET t == entries[n] IN
             t # NoToken /\ entries'[n] # t => pc'[t] = "released" \/ t \in expiring']_vars
  <2> SUFFICES ASSUME IndInv, [Next]_vars, NEW n \in Name,
                      entries[n] # NoToken, entries'[n] # entries[n]
               PROVE  pc'[entries[n]] = "released" \/ entries[n] \in expiring'
    OBVIOUS
  <2>0. entries[n] \in Token /\ entries \in [Name -> Token \cup {NoToken}]
    BY DEF IndInv, TypeOK
  <2>1. ASSUME NEW t \in Token, NEW m \in Name, AcquireFree(t, m)
        PROVE  FALSE
    BY <2>0, <2>1 DEF AcquireFree
  <2>2. ASSUME NEW t \in Token, NEW m \in Name, AcquireOver(t, m)
        PROVE  entries[n] \in expiring'
    BY <2>0, <2>2 DEF AcquireOver, Told
  <2>3. ASSUME NEW t \in Token, Release(t)
        PROVE  pc'[entries[n]] = "released"
    <3>1. tokens[t] = n
      BY <2>0, <2>3 DEF Release, Kept
    <3>2. entries[n] = t
      BY <3>1 DEF IndInv, MapsAgree
    <3> QED BY <3>2, <2>3 DEF Release, IndInv, TypeOK
  <2>4. ASSUME NEW N \in SUBSET Name, Remove(N)
        PROVE  entries[n] \in expiring'
    <3>1. n \in N
      BY <2>0, <2>4 DEF Remove
    <3> QED BY <3>1, <2>4 DEF Remove, Told
  <2>5. ASSUME UNCHANGED entries PROVE FALSE
    BY <2>5
  <2>6. ASSUME NEW t \in Token, Wake(t) \/ Update(t) \/ RunOnExpire(t) PROVE FALSE
    BY <2>6, <2>5 DEF Wake, Update, RunOnExpire, mgr
  <2>7. ASSUME NEW m \in Name, ExpireAndRemove(m)
        PROVE  entries[n] \in expiring'
    BY <2>7, <2>4 DEF ExpireAndRemove
  <2>8. CASE ExpireAndRemoveAll
    BY <2>8, <2>4 DEF ExpireAndRemoveAll, Owned
  <2>9. CASE Run \/ Tick \/ Stop \/ UNCHANGED vars
    BY <2>9, <2>5 DEF Run, Tick, Stop, mgr, vars
  <2> QED
    BY <2>1, <2>2, <2>3, <2>4, <2>6, <2>7, <2>8, <2>9 DEF Next, Session, Terminated
<1> QED BY <1>1, Invariance, PTL DEF Spec, EntryLeavesSafely
-----------------------------------------------------------------------------
\* QueueInv: the tokens of an era stay in one line, and whoever is waited for was told.
LEMMA StepQueue == IndInv /\ QueueInv /\ [Next]_vars => QueueInv'
<1> SUFFICES ASSUME IndInv, QueueInv, [Next]_vars PROVE QueueInv'
  OBVIOUS
<1>1. ASSUME UNCHANGED before
      PROVE  QueueInv!2'
  BY <1>1 DEF QueueInv
<1>2. ASSUME UNCHANGED blockers, expiring \cup connClosed \subseteq (expiring \cup connClosed)'
      PROVE  QueueInv!1'
  BY <1>2 DEF QueueInv
<1>3. ASSUME NEW t \in Token, NEW n \in Name, pc[t] = "idle", Remember(t, n)
      PROVE  QueueInv!2'
  <2>1. grp[t] = NoToken /\ EraOf(t, n) # NoToken
    BY <1>3 DEF IndInv, FreshInv, EraOf, TypeOK
  <2>2. \A r, s \in Token : r \in before[s] => grp[r] = grp[s] /\ grp[r] # NoToken
    BY DEF IndInv, HistoryInv
  <2>3. /\ before \in [Token -> SUBSET Token]
        /\ before' = [before EXCEPT ![t] = {s \in Token : grp[s] = EraOf(t, n)}]
    BY <1>3 DEF IndInv, TypeOK, Remember
  <2>4. \A s \in Token : t \notin before[s]
    BY <2>1, <2>2
  <2>5. /\ before'[t] = {s \in Token : grp[s] = EraOf(t, n)}
        /\ \A s \in Token \ {t} : before'[s] = before[s]
    BY <2>3
  <2>6. \A s \in Token : s \notin before'[s]
    BY <2>1, <2>5 DEF QueueInv
  <2>7. ASSUME NEW s \in before'[t] PROVE before'[s] \subseteq before'[t]
    BY <2>1, <2>2, <2>3, <2>5, <2>7
  <2>8. ASSUME NEW r \in Token, r # t, NEW s \in before'[r] PROVE before'[s] \subseteq before'[r]
    BY <2>3, <2>4, <2>5, <2>8 DEF QueueInv
  <2> QED BY <2>6, <2>7, <2>8
<1>4. ASSUME NEW t \in Token, NEW n \in Name, AcquireFree(t, n)
      PROVE  QueueInv'
  BY <1>4, <1>2, <1>3 DEF AcquireFree, QueueInv
<1>5. ASSUME NEW t \in Token, NEW n \in Name, AcquireOver(t, n)
      PROVE  QueueInv'
  <2>1. QueueInv!1'
    BY <1>5 DEF AcquireOver, Told, IndInv, TypeOK, QueueInv
  <2> QED BY <1>5, <2>1, <1>3 DEF AcquireOver, QueueInv
<1>6. ASSUME NEW t \in Token, Release(t)
      PROVE  QueueInv'
  <2>1. QueueInv!1'
    BY <1>6 DEF Release, Unblocked, IndInv, TypeOK, QueueInv
  <2> QED BY <1>6, <2>1, <1>1 DEF Release, hist, QueueInv
<1>7. ASSUME NEW t \in Token, Wake(t) \/ Update(t) \/ RunOnExpire(t)
      PROVE  QueueInv'
  BY <1>7, <1>1, <1>2 DEF Wake, Update, RunOnExpire, mgr, hist, QueueInv
<1>8. ASSUME NEW N \in SUBSET Name, Remove(N)
      PROVE  QueueInv'
  BY <1>8, <1>1, <1>2 DEF Remove, Told, QueueInv
<1>9. CASE Run \/ Tick \/ Stop \/ UNCHANGED vars
  BY <1>9, <1>1, <1>2 DEF Run, Tick, Told, Stop, mgr, hist, vars, QueueInv
<1>10. CASE (\E n \in Name : ExpireAndRemove(n)) \/ ExpireAndRemoveAll
  BY <1>10, <1>8 DEF ExpireAndRemove, ExpireAndRemoveAll, Owned
<1> QED
  BY <1>4, <1>5, <1>6, <1>7, <1>9, <1>10 DEF Next, Session, Terminated

\* Only finitely many tokens have been acquired, so every queue has a first one.
Acquired == {t \in Token : pc[t] # "idle"}
FiniteInv == IsFiniteSet(Acquired)

LEMMA StepFinite == IndInv /\ FiniteInv /\ [Next]_vars => FiniteInv'
<1> SUFFICES ASSUME IndInv, IsFiniteSet(Acquired), [Next]_vars PROVE IsFiniteSet(Acquired')
  BY DEF FiniteInv
<1>1. ASSUME NEW t \in Token, Acquired' \subseteq Acquired \cup {t}
      PROVE  IsFiniteSet(Acquired')
  BY <1>1, FS_AddElement, FS_Subset
<1>2. CASE \E t \in Token : Session(t)
  <2> PICK t \in Token : Session(t)
    BY <1>2
  <2>1. \A s \in Token \ {t} : pc'[s] = pc[s]
    BY DEF Session, AcquireFree, AcquireOver, Wake, Update, Release, RunOnExpire, IndInv, TypeOK
  <2> QED BY <2>1, <1>1 DEF Acquired
<1>3. CASE ~ \E t \in Token : Session(t)
  <2>1. UNCHANGED pc
    BY <1>3 DEF Next, ExpireAndRemove, ExpireAndRemoveAll, Remove, Run, Tick, Stop, Terminated, vars
  <2> QED BY <2>1 DEF Acquired
<1> QED BY <1>2, <1>3

\* The queue before a blocked Acquire has an end, and the end can move: follow the
\* line back to a waiter with the fewest tokens before it; whoever blocks that one
\* has fewer, so it is no blocked waiter itself.
LEMMA QueueHasEnd == IndInv /\ QueueInv /\ FiniteInv => QueueMoves
<1> SUFFICES ASSUME IndInv, QueueInv, IsFiniteSet(Acquired),
                    NEW t \in Token, pc[t] = "waiting"
             PROVE  \E h \in before[t] \cup {t} : CanMove(h)
  BY DEF QueueMoves, FiniteInv
<1> DEFINE Blocked == {s \in before[t] \cup {t} : pc[s] = "waiting" /\ s \notin closed}
           B == {before[s] : s \in Blocked}
<1>1. CASE t \in closed
  BY <1>1 DEF CanMove
<1>2. CASE t \notin closed
  <2>1. \A s \in Token : before[s] \subseteq Token /\ before[s] \subseteq Acquired
    BY DEF IndInv, HistoryInv, FreshInv, TypeOK, Acquired
  <2>2. \A s \in Token : IsFiniteSet(before[s])
    BY <2>1, FS_Subset
  <2>3. B \subseteq FiniteSubsetsOf(Token)
    BY <2>1, <2>2 DEF FiniteSubsetsOf
  <2>4. before[t] \in B
    BY <1>2
  <2>5. PICK m \in B : \A y \in B : <<y, m>> \notin StrictSubsetOrdering(Token)
    <3> HIDE DEF B
    <3>1. IsWellFoundedOn(StrictSubsetOrdering(Token), FiniteSubsetsOf(Token))
      BY FS_StrictSubsetOrderingWellFounded
    <3> QED BY <2>3, <2>4, <3>1, WFMin
  <2>6. PICK s \in Blocked : m = before[s]
    OBVIOUS
  <2>7. s \in Token
    BY <2>1
  <2>8. PICK p \in Token : Live(p) /\ blockers[p] = s
    BY <2>6, <2>7 DEF IndInv, NoLostWakeup
  <2>9. before[s] = before[p] \cup {p} /\ p \notin before[p]
    BY <2>7, <2>8, NamesAssumption DEF IndInv, BlockerInv, QueueInv
  <2>10. p \in before[t]
    BY <2>6, <2>9 DEF QueueInv
  <2>11. p \notin Blocked
    <3>1. p \in Blocked => before[p] \in B
      OBVIOUS
    <3>2. <<before[p], before[s]>> \in StrictSubsetOrdering(Token)
      BY <2>1, <2>7, <2>9 DEF StrictSubsetOrdering
    <3> QED BY <3>1, <3>2, <2>5, <2>6
  <2>12. p \in expiring \cup connClosed
    BY <2>7, <2>8, NamesAssumption DEF QueueInv
  <2>13. CanMove(p)
    BY <2>8, <2>10, <2>11, <2>12 DEF CanMove, Live
  <2> QED BY <2>10, <2>13
<1> QED BY <1>1, <1>2

\* However long the queue for a name, a blocked Acquire waits for a session that can
\* move: no circle of waiters, and none that waits for a session nobody told to end.
THEOREM QueuesMove == Spec => []QueueMoves
<1>1. Init => QueueInv /\ FiniteInv
  <2> SUFFICES ASSUME Init PROVE QueueInv /\ FiniteInv
    OBVIOUS
  <2>1. Acquired = {}
    BY DEF Init, Acquired
  <2>2. QueueInv
    BY DEF Init, QueueInv
  <2> QED BY <2>1, <2>2, FS_EmptySet DEF FiniteInv
<1>2. Spec => [](IndInv /\ QueueInv /\ FiniteInv)
  BY <1>1, Invariance, StepQueue, StepFinite, PTL DEF Spec
<1> QED BY <1>2, QueueHasEnd, PTL
-----------------------------------------------------------------------------
\* Every step of the manager is a step of the abstract lock, or invisible to it.
LEMMA StepRefines == IndInv /\ [Next]_vars => [Lock!Next]_(Lock!vars)
<1> SUFFICES ASSUME IndInv, [Next]_vars PROVE [Lock!Next]_(Lock!vars)
  OBVIOUS
<1>1. ASSUME NEW t \in Token, NEW n \in Name, AcquireFree(t, n)
      PROVE  Lock!Request(t, EraOf(t, n)) /\ EraOf(t, n) \in Token
  <2>1. \A s \in Token : grp[s] = EraOf(t, n) => pc[s] = "released"
    BY <1>1 DEF AcquireFree, IndInv, EraOf, FreshInv, VacantInv, TypeOK
  <2>2. EraOf(t, n) \in Token
    BY DEF EraOf, IndInv, TypeOK
  <2> QED
    BY <1>1, <2>1, <2>2 DEF AcquireFree, Remember, Lock!Request, Lock!AllReleased
<1>2. ASSUME NEW t \in Token, NEW n \in Name, AcquireOver(t, n)
      PROVE  Lock!Request(t, EraOf(t, n)) /\ EraOf(t, n) \in Token
  <2>1. /\ entries[n] \in Token /\ Live(entries[n])
        /\ grp[entries[n]] = EraOf(t, n) /\ EraOf(t, n) \in Token
    BY <1>2 DEF AcquireOver, IndInv, EntryInv, FreshInv, TypeOK, EraOf, Live
  <2>2. ~ Lock!AllReleased({s \in Token : grp[s] = EraOf(t, n)})
    BY <2>1 DEF Lock!AllReleased, Live
  <2> QED
    BY <1>2, <2>1, <2>2 DEF AcquireOver, Remember, Lock!Request
<1>3. ASSUME NEW t \in Token, Wake(t)
      PROVE  Lock!Grant(t)
  BY <1>3 DEF Wake, Received, IndInv, GrantedInv, Lock!AllReleased, Lock!Grant, hist
<1>4. ASSUME NEW t \in Token, Release(t)
      PROVE  Lock!Release(t)
  BY <1>4 DEF Release, Lock!Release, hist
<1>5. ASSUME NEW N \in SUBSET Name, Remove(N)
      PROVE  UNCHANGED Lock!vars
  BY <1>5 DEF Remove, Lock!vars
<1>6. ASSUME UNCHANGED <<pc, hist>>
      PROVE  UNCHANGED Lock!vars
  BY <1>6 DEF hist, Lock!vars
<1>7. ASSUME NEW t \in Token, Session(t)
      PROVE  [Lock!Next]_(Lock!vars)
  <2>1. CASE \E n \in Name : AcquireFree(t, n) \/ AcquireOver(t, n)
    BY <2>1, <1>1, <1>2 DEF Lock!Next
  <2>2. CASE Wake(t) \/ Release(t)
    BY <2>2, <1>3, <1>4 DEF Lock!Next
  <2>3. CASE Update(t) \/ RunOnExpire(t)
    BY <2>3, <1>6 DEF Update, RunOnExpire
  <2> QED BY <1>7, <2>1, <2>2, <2>3 DEF Session
<1>8. ASSUME (\E n \in Name : ExpireAndRemove(n)) \/ ExpireAndRemoveAll
      PROVE  UNCHANGED Lock!vars
  BY <1>8, <1>5 DEF ExpireAndRemove, ExpireAndRemoveAll, Owned
<1>9. ASSUME Run \/ Tick \/ Stop \/ UNCHANGED vars
      PROVE  UNCHANGED Lock!vars
  BY <1>9, <1>6 DEF Run, Tick, Stop, vars
<1> QED
  BY <1>7, <1>8, <1>9 DEF Next, Terminated

\* pkg/expire implements the handover lock, whatever the names, tokens and limit.
THEOREM ImplementsLock == Spec => ImplementsHandoverSafety
<1>1. Init => Lock!Init
  BY DEF Init, Lock!Init
<1> QED
  BY <1>1, StepRefines, Invariance, PTL DEF Spec, Lock!Spec, ImplementsHandoverSafety
=============================================================================
