---------------------------- MODULE HandoverLock ----------------------------
(***************************************************************************)
(* What pkg/expire promises to its callers about a name: the newest        *)
(* request for it always wins, but gets the name only when every request   *)
(* made before it has been released.  A request never fails and is never   *)
(* overtaken.  Requests that compete with each other share a group.        *)
(***************************************************************************)

CONSTANTS Token,    \* one per call of Acquire
          Group,    \* what is being locked
          NoGroup   \* the group of a token that was not requested yet

VARIABLES st,       \* "idle" -> ("waiting" ->) "held" -> "released"
          grp,      \* the group a token was requested for
          before    \* the tokens requested for that group before it

vars == <<st, grp, before>>

AllReleased(S) == \A s \in S : st[s] = "released"

TypeOK ==
  /\ st \in [Token -> {"idle", "waiting", "held", "released"}]
  /\ grp \in [Token -> Group \cup {NoGroup}]
  /\ before \in [Token -> SUBSET Token]

Init ==
  /\ st = [t \in Token |-> "idle"]
  /\ grp = [t \in Token |-> NoGroup]
  /\ before = [t \in Token |-> {}]

\* Acquire up to the point where it may block.
Request(t, g) ==
  /\ st[t] = "idle"
  /\ LET earlier == {s \in Token : grp[s] = g}
     IN /\ before' = [before EXCEPT ![t] = earlier]
        /\ st' = [st EXCEPT ![t] = IF AllReleased(earlier) THEN "held" ELSE "waiting"]
  /\ grp' = [grp EXCEPT ![t] = g]

\* A blocked Acquire returns.
Grant(t) ==
  /\ st[t] = "waiting"
  /\ AllReleased(before[t])
  /\ st' = [st EXCEPT ![t] = "held"]
  /\ UNCHANGED <<grp, before>>

Release(t) ==
  /\ st[t] = "held"
  /\ st' = [st EXCEPT ![t] = "released"]
  /\ UNCHANGED <<grp, before>>

Next == \E t \in Token : (\E g \in Group : Request(t, g)) \/ Grant(t) \/ Release(t)

Spec == Init /\ [][Next]_vars

\* The last waiter to be unblocked does not stay blocked.
FairSpec == Spec /\ \A t \in Token : WF_vars(Grant(t))
-----------------------------------------------------------------------------
\* A name has at most one owner: tokens of one group are never held together.
Exclusive ==
  \A s, t \in Token :
    st[s] = "held" /\ st[t] = "held" /\ grp[s] = grp[t] => s = t

\* A token is held only once everything requested before it is released.
Handover == \A t \in Token : st[t] = "held" => AllReleased(before[t])
=============================================================================
