---------------------------- MODULE ActionsProofs ----------------------------
(***************************************************************************)
(* Proofs about Actions, for lists of any shape and depth.                 *)
(*                                                                         *)
(* Four lemmas say what the proofs need of the tree of paths.  After them  *)
(* a step is a change of one action, and every invariant is local: it      *)
(* relates an action to those under it, so that a parent inherits from its *)
(* children what they have from theirs, without an induction over depth.   *)
(***************************************************************************)
EXTENDS Actions, SequenceTheorems, FiniteSetTheorems, WellFoundedInduction, TLAPS

\* Two actions directly under the same one have an order.
LEMMA Ordered ==
  ASSUME NEW p \in Node, NEW c \in Children(p), NEW d \in Children(p), c # d
  PROVE  Earlier(c, d) \/ Earlier(d, c)
<1>1. /\ c \in Seq(Nat) /\ d \in Seq(Nat) /\ Len(p) \in Nat
      /\ Len(c) = Len(p) + 1 /\ Len(d) = Len(p) + 1
      /\ \A k \in 1..Len(p) : c[k] = d[k]
  BY TreeAssumption DEF Children, Under
<1>2. c[Len(c)] # d[Len(d)]
  <2> SUFFICES ASSUME c[Len(c)] = d[Len(d)] PROVE FALSE
    OBVIOUS
  <2>1. \A k \in 1..Len(c) : c[k] = d[k]
    BY <1>1
  <2> QED BY <1>1, <2>1, SeqEqual
<1>3. c[Len(c)] \in Nat /\ d[Len(d)] \in Nat
  BY <1>1, ElementOfSeq
<1> QED BY <1>2, <1>3 DEF Earlier

\* What is under an action is one of those directly under it, or under one of them.
LEMMA ThroughChild ==
  ASSUME NEW n \in Node, NEW m \in Under(n)
  PROVE  \E c \in Children(n) : m \in Within(c)
<1> DEFINE c == SubSeq(m, 1, Len(n) + 1)
<1>1. /\ m \in Node /\ m \in Seq(Nat) /\ n \in Seq(Nat) /\ Len(n) \in Nat /\ Len(m) \in Nat
      /\ Len(n) < Len(m) /\ \A k \in 1..Len(n) : m[k] = n[k]
  BY TreeAssumption DEF Under
<1>2. /\ c \in Seq(Nat) /\ Len(c) = Len(n) + 1
      /\ \A k \in 1..(Len(n) + 1) : c[k] = m[k]
  BY <1>1, SubSeqProperties
<1>3. c \in Node
  BY <1>1, TreeAssumption
<1> HIDE DEF c
<1>4. c \in Children(n)
  <2>1. ASSUME NEW k \in 1..Len(n) PROVE c[k] = n[k]
    <3>1. k \in 1..(Len(n) + 1)
      BY <1>1
    <3>2. c[k] = m[k]
      BY <1>2, <3>1
    <3> QED BY <1>1, <3>2
  <2>2. c \in Under(n)
    BY <1>1, <1>2, <1>3, <2>1 DEF Under
  <2> QED BY <1>2, <2>2 DEF Children
<1>5. CASE Len(m) = Len(n) + 1
  BY <1>1, <1>2, <1>4, <1>5, SeqEqual DEF Within
<1>6. CASE Len(m) > Len(n) + 1
  BY <1>1, <1>2, <1>4, <1>6 DEF Within, Under
<1> QED BY <1>1, <1>5, <1>6

\* The parent of what is under an action is that action, or under it.
LEMMA ParentUnder ==
  ASSUME NEW n \in Node, NEW p \in Node, NEW m \in Children(p), m \in Under(n)
  PROVE  p = n \/ p \in Under(n)
<1>1. /\ n \in Seq(Nat) /\ p \in Seq(Nat) /\ Len(n) \in Nat /\ Len(p) \in Nat
      /\ Len(m) = Len(p) + 1 /\ Len(n) < Len(m)
      /\ \A k \in 1..Len(p) : m[k] = p[k]
      /\ \A k \in 1..Len(n) : m[k] = n[k]
  BY TreeAssumption DEF Children, Under
<1>2. CASE Len(n) = Len(p)
  BY <1>1, <1>2, SeqEqual
<1>3. CASE Len(n) < Len(p)
  BY <1>1, <1>3 DEF Under
<1> QED BY <1>1, <1>2, <1>3

\* Everything is under the list itself, and nothing is directly under two actions.
LEMMA AllUnderRoot == Root \in Node /\ \A n \in Node : n \in Within(Root)
<1> SUFFICES ASSUME NEW n \in Node PROVE n \in Within(Root)
  BY TreeAssumption
<1>1. n \in Seq(Nat) /\ Len(n) \in Nat /\ Len(Root) = 0
  BY TreeAssumption DEF Root
<1>2. CASE Len(n) = 0
  BY <1>1, <1>2 DEF Within, Root
<1>3. CASE Len(n) > 0
  BY <1>1, <1>3 DEF Within, Under
<1> QED BY <1>1, <1>2, <1>3

LEMMA ChildIn == \A n \in Node : Children(n) \subseteq Under(n) /\ Under(n) \subseteq Node /\ n \notin Under(n)
<1> SUFFICES ASSUME NEW n \in Node PROVE n \notin Under(n)
  BY DEF Children, Under
<1>1. Len(n) \in Nat
  BY TreeAssumption
<1> QED BY <1>1 DEF Under

LEMMA OneParent ==
  ASSUME NEW p \in Node, NEW q \in Node, NEW m \in Children(p), m \in Children(q)
  PROVE  p = q
<1>1. p \in Seq(Nat) /\ q \in Seq(Nat) /\ Len(q) \in Nat /\ Len(p) \in Nat
  BY TreeAssumption
<1>2. Len(m) = Len(p) + 1 /\ \A k \in 1..Len(p) : m[k] = p[k]
  BY DEF Children, Under
<1>3. Len(m) = Len(q) + 1 /\ \A k \in 1..Len(q) : m[k] = q[k]
  BY DEF Children, Under
<1>4. Len(p) = Len(q)
  BY <1>1, <1>2, <1>3
<1>5. \A k \in 1..Len(p) : p[k] = q[k]
  BY <1>2, <1>3, <1>4
<1> QED BY <1>1, <1>4, <1>5, SeqEqual
-----------------------------------------------------------------------------
\* Places, commands and builders keep their types.
LEMMA StepType == TypeOK /\ [Next]_vars => TypeOK'
<1> SUFFICES ASSUME TypeOK, [Next]_vars PROVE TypeOK'
  OBVIOUS
<1>0. /\ Works => docker' \in 0..DockerFaults
      /\ DockerFails => docker' \in 0..DockerFaults
  BY FaultAssumption DEF TypeOK, Works, DockerFails
<1> USE <1>0 DEF TypeOK, Over, Exec, Build, Goto
<1>1. CASE HangUp
  BY <1>1 DEF HangUp
<1>2. ASSUME NEW n \in Node, NEW p \in Node, Perform(p, n) PROVE TypeOK'
  BY <1>2 DEF Perform, First
<1>3. ASSUME NEW n \in Node, EndOrdered(n) \/ EndParallel(n) PROVE TypeOK'
  BY <1>3 DEF EndOrdered, EndParallel
<1>4. ASSUME NEW n \in Node, ExecStep(n) PROVE TypeOK'
  BY <1>4 DEF ExecStep, CreateExec, AttachExec, WaitForExit, Call, CallWorks, CallFails
<1>5. ASSUME NEW n \in Node, BuildStep(n) PROVE TypeOK'
  <2>1. CASE Pull(n) \/ AttachBuilder(n)
    BY <2>1 DEF Pull, AttachBuilder, Call, CallWorks, CallFails
  <2>2. CASE CreateBuilder(n)
    BY <2>2 DEF CreateBuilder, Call, CallWorks, CallFails
  <2>3. CASE StartBuilder(n)
    BY <2>3 DEF StartBuilder, Call, CallWorks, CallFails
  <2>4. CASE KillBuilder(n)
    BY <2>4 DEF KillBuilder, Call, CallWorks, CallFails
  <2>5. CASE RemoveBuilder(n)
    BY <2>5 DEF RemoveBuilder
  <2>6. CASE EndBuild(n)
    BY <2>6 DEF EndBuild, CallFails
  <2> QED BY <1>5, <2>1, <2>2, <2>3, <2>4, <2>5, <2>6 DEF BuildStep
<1>6. ASSUME NEW n \in Node, World(n) PROVE TypeOK'
  BY <1>6 DEF World, StreamsClose, CommandEnds, BuilderEnds
<1>7. CASE UNCHANGED vars
  BY <1>7 DEF vars
<1> QED BY <1>1, <1>2, <1>3, <1>4, <1>5, <1>6, <1>7 DEF Next, Step

\* For every list, whatever its shape, and any number of faults.
THEOREM TypeCorrect == Spec => []TypeOK
<1>1. Init => TypeOK
  <2> SUFFICES ASSUME Init PROVE TypeOK
    OBVIOUS
  <2>1. docker \in 0..DockerFaults
    BY FaultAssumption DEF Init
  <2>2. at \in [Node -> {"idle", "running"} \cup Exec \cup Build \cup Over]
    BY DEF Init
  <2> QED BY <2>1, <2>2 DEF Init, TypeOK
<1> QED BY <1>1, StepType, PTL DEF Spec
-----------------------------------------------------------------------------
Busy == Exec \cup Build

\* A step of a command, a build or the world moves one leaf at most, within its work or
\* out of it.
LEMMA LeafMoves ==
  ASSUME TypeOK, NEW n \in Node, ExecStep(n) \/ BuildStep(n) \/ World(n)
  PROVE  /\ UNCHANGED kind /\ UNCHANGED gone
         /\ \/ UNCHANGED at
            \/ at[n] \in Busy /\ \E x \in Busy \cup Over : at' = [at EXCEPT ![n] = x]
<1> USE DEF TypeOK, Over, Exec, Build, Busy, Goto, Call
<1>1. CASE ExecStep(n)
  BY <1>1 DEF ExecStep, CreateExec, AttachExec, WaitForExit
<1>2. CASE BuildStep(n)
  BY <1>2 DEF BuildStep, Pull, CreateBuilder, AttachBuilder, StartBuilder, KillBuilder,
              RemoveBuilder, EndBuild
<1>3. CASE World(n)
  BY <1>3 DEF World, StreamsClose, CommandEnds, BuilderEnds
<1> QED BY <1>1, <1>2, <1>3

\* The invariant about the tree.  What has not begun has nothing begun under it, what is
\* over nothing at work, what succeeded nothing that did not; earlier actions of an
\* ordered list have succeeded.
IdleInv == \A n \in Node : at[n] = "idle" => \A m \in Under(n) : at[m] = "idle"
OkInv == \A n \in Node : at[n] = "ok" => \A m \in Under(n) : at[m] = "ok"
TurnInv ==
  \A p \in Node : \A i, j \in Children(p) :
    kind[p] = "ordered" /\ Earlier(i, j) /\ at[j] # "idle" => at[i] = "ok"
PlaceInv ==
  \A n \in Node : /\ at[n] \in Busy => kind[n] \in {"exec", "gobuild"}
                  /\ at[n] = "running" => kind[n] \in {"ordered", "parallel"}
TreeInv == IdleInv /\ QuietBelow /\ OkInv /\ TurnInv /\ PlaceInv

\* Leaves have nothing under them.
LEMMA LeafIsLeaf == TypeOK => \A n \in Node : kind[n] \in Leaves => Under(n) = {}
  BY ListsAssumption DEF TypeOK

\* A leaf at work moves on.
LEMMA TreeByLeaf ==
  ASSUME TypeOK, TreeInv, UNCHANGED kind, NEW n \in Node, at[n] \in Busy,
         NEW x \in Busy \cup Over, at' = [at EXCEPT ![n] = x]
  PROVE  TreeInv'
<1>1. kind[n] \in {"exec", "gobuild"} /\ Under(n) = {}
  BY LeafIsLeaf DEF TreeInv, PlaceInv, Leaves
<1>2. /\ at[n] \notin {"idle", "running"} \cup Over /\ x \notin {"idle", "running"}
      /\ at'[n] = x /\ \A m \in Node : m # n => at'[m] = at[m]
  BY DEF TypeOK, Busy, Exec, Build, Over
<1>3. IdleInv'
  BY <1>1, <1>2, ChildIn DEF TreeInv, IdleInv
<1>4. QuietBelow'
  BY <1>1, <1>2, ChildIn DEF TreeInv, QuietBelow, Over
<1>5. OkInv'
  BY <1>1, <1>2, ChildIn DEF TreeInv, OkInv, Over
<1>6. TurnInv'
  BY <1>1, <1>2, ChildIn DEF TreeInv, TurnInv, Over
<1>7. PlaceInv'
  BY <1>1, <1>2 DEF TreeInv, PlaceInv, Busy, Exec, Build, Over
<1> QED BY <1>3, <1>4, <1>5, <1>6, <1>7 DEF TreeInv

\* An action begins: only under one that is running.
LEMMA TreeByPerform ==
  ASSUME TypeOK, TreeInv, NEW p \in Node, NEW n \in Node, Perform(p, n)
  PROVE  TreeInv'
<1>1. /\ n \in Children(p) /\ at[p] = "running" /\ at[n] = "idle" /\ UNCHANGED kind
      /\ kind[p] = "ordered" => InTurn(p, n)
  BY DEF Perform, Goto
<1>2. /\ at'[n] = First(n) /\ \A m \in Node : m # n => at'[m] = at[m]
  BY DEF Perform, Goto, TypeOK
<1>3. /\ First(n) \in {"create", "pull", "failed", "running"}
      /\ First(n) \in {"create", "pull"} => kind[n] \in {"exec", "gobuild"}
      /\ First(n) = "running" => kind[n] \in {"ordered", "parallel"}
      /\ First(n) = "failed" => Under(n) = {}
  BY LeafIsLeaf, ListsAssumption DEF First, TypeOK, Kinds, Leaves
\* Whatever is above n is running.
<1>4. ASSUME NEW m \in Node, n \in Under(m) PROVE at[m] \notin {"idle"} \cup Over
  <2>1. m = p \/ p \in Under(m)
    BY <1>1, <1>4, ParentUnder
  <2> QED BY <1>1, <2>1 DEF TreeInv, IdleInv, QuietBelow, Over
<1>5. IdleInv'
  BY <1>2, <1>3, <1>4, ChildIn DEF TreeInv, IdleInv
<1>6. QuietBelow'
  BY <1>2, <1>3, <1>4, ChildIn DEF TreeInv, QuietBelow, Over
<1>7. OkInv'
  BY <1>1, <1>2, <1>3, <1>4, ChildIn DEF TreeInv, OkInv, Over
<1>8. TurnInv'
  <2> SUFFICES ASSUME NEW q \in Node, NEW i \in Children(q), NEW j \in Children(q),
                      kind[q] = "ordered", Earlier(i, j), at'[j] # "idle"
               PROVE  at'[i] = "ok"
    BY <1>1 DEF TurnInv
  <2>1. at[i] = "ok"
    <3>1. CASE j = n
      <4>1. q = p
        BY <1>1, <3>1, OneParent
      <4> QED BY <1>1, <3>1, <4>1 DEF InTurn
    <3>2. CASE j # n
      BY <1>2, <3>2, ChildIn DEF TreeInv, TurnInv
    <3> QED BY <3>1, <3>2
  <2> QED BY <1>1, <1>2, <2>1, ChildIn
<1>9. PlaceInv'
  BY <1>1, <1>2, <1>3 DEF TreeInv, PlaceInv, Busy, Exec, Build
<1> QED BY <1>5, <1>6, <1>7, <1>8, <1>9 DEF TreeInv

\* An ordered list or a group ends: nothing under it is at work.
LEMMA TreeByEnd ==
  ASSUME TypeOK, TreeInv, NEW n \in Node, EndOrdered(n) \/ EndParallel(n)
  PROVE  TreeInv'
<1>1. /\ at[n] = "running" /\ at'[n] \in Over /\ UNCHANGED kind
      /\ \A m \in Node : m # n => at'[m] = at[m]
      /\ at'[n] = "ok" => \A c \in Children(n) : at[c] = "ok"
  BY DEF EndOrdered, EndParallel, Goto, TypeOK, Over
<1>2. \A c \in Children(n) : at[c] \in Over \cup {"idle"}
  <2>1. CASE EndParallel(n)
    BY <2>1 DEF EndParallel
  <2>2. CASE EndOrdered(n)
    <3>1. CASE \A c \in Children(n) : at[c] = "ok"
      BY <3>1 DEF Over
    <3>2. CASE \E d \in Children(n) : at[d] = "failed"
      <4>1. PICK d \in Children(n) : at[d] = "failed"
        BY <3>2
      <4>2. ASSUME NEW c \in Children(n), c # d PROVE at[c] = "ok" \/ at[c] = "idle"
        BY <2>2, <4>1, <4>2, Ordered DEF EndOrdered, TreeInv, TurnInv
      <4> QED BY <4>1, <4>2 DEF Over
    <3> QED BY <2>2, <3>1, <3>2 DEF EndOrdered
  <2> QED BY <2>1, <2>2
<1>3. ASSUME NEW m \in Under(n) PROVE at[m] \in Over \cup {"idle"} /\ (at'[n] = "ok" => at[m] = "ok")
  <2>1. PICK c \in Children(n) : m \in Within(c)
    BY ThroughChild
  <2> QED BY <1>1, <1>2, <2>1, ChildIn DEF Within, TreeInv, QuietBelow, OkInv, IdleInv, Over
<1>4. IdleInv'
  BY <1>1, ChildIn DEF TreeInv, IdleInv, Over
<1>5. QuietBelow'
  BY <1>1, <1>3, ChildIn DEF TreeInv, QuietBelow
<1>6. OkInv'
  BY <1>1, <1>3, ChildIn DEF TreeInv, OkInv, Over
<1>7. TurnInv'
  BY <1>1, ChildIn DEF TreeInv, TurnInv, Over
<1>8. PlaceInv'
  BY <1>1 DEF TreeInv, PlaceInv, Busy, Exec, Build, Over
<1> QED BY <1>4, <1>5, <1>6, <1>7, <1>8 DEF TreeInv

LEMMA StepTree == TypeOK /\ TreeInv /\ [Next]_vars => TreeInv'
<1> SUFFICES ASSUME TypeOK, TreeInv, [Next]_vars PROVE TreeInv'
  OBVIOUS
<1>1. ASSUME UNCHANGED kind, UNCHANGED at PROVE TreeInv'
  BY <1>1 DEF TreeInv, IdleInv, QuietBelow, OkInv, TurnInv, PlaceInv
<1>2. CASE HangUp \/ UNCHANGED vars
  BY <1>1, <1>2 DEF HangUp, vars
<1>3. ASSUME NEW n \in Node, NEW p \in Node, Perform(p, n) PROVE TreeInv'
  BY <1>3, TreeByPerform
<1>4. ASSUME NEW n \in Node, EndOrdered(n) \/ EndParallel(n) PROVE TreeInv'
  BY <1>4, TreeByEnd
<1>5. ASSUME NEW n \in Node, ExecStep(n) \/ BuildStep(n) \/ World(n) PROVE TreeInv'
  BY <1>1, <1>5, LeafMoves, TreeByLeaf
<1> QED BY <1>2, <1>3, <1>4, <1>5 DEF Next, Step
-----------------------------------------------------------------------------
\* Commands and builders: where an action is says what they can be.
CmdInv ==
  \A n \in Node : /\ cmd[n] # "none" => kind[n] \in Leaves /\ at[n] \in {"copy", "wait"} \cup Over
                  /\ kind[n] \in Leaves /\ at[n] = "ok" => cmd[n] = "done"
BuilderInv ==
  \A n \in Node : /\ at[n] \in {"idle", "pull", "make", "running"} => builder[n] = "none"
                  /\ at[n] \in {"join", "start"} => builder[n] = "created"
                  /\ at[n] = "build" => builder[n] \in {"running", "done", "bad"}
                  /\ at[n] \in Exec => builder[n] \in {"none", "done"}
                  /\ builder[n] = "orphan" => at[n] = "failed"
DataInv == CmdInv /\ BuilderInv

LEMMA StepCmd == TypeOK /\ TreeInv /\ CmdInv /\ [Next]_vars => CmdInv'
<1> SUFFICES ASSUME TypeOK, TreeInv, CmdInv, [Next]_vars PROVE CmdInv'
  OBVIOUS
<1>1. CASE HangUp \/ UNCHANGED vars
  BY <1>1 DEF HangUp, vars, CmdInv
<1>2. ASSUME NEW n \in Node, NEW p \in Node, Perform(p, n) PROVE CmdInv'
  BY <1>2, ListsAssumption DEF Perform, Goto, First, CmdInv, TypeOK, Over, Leaves, Kinds
<1>3. ASSUME NEW n \in Node, EndOrdered(n) \/ EndParallel(n) PROVE CmdInv'
  BY <1>3 DEF EndOrdered, EndParallel, Goto, CmdInv, TypeOK, Over, Leaves
<1> USE DEF TypeOK, CmdInv, TreeInv, PlaceInv, Busy, Exec, Build, Over, Leaves, Goto, Call
<1>4. ASSUME NEW n \in Node, ExecStep(n) PROVE CmdInv'
  BY <1>4 DEF ExecStep, CreateExec, AttachExec, WaitForExit
<1>5. ASSUME NEW n \in Node, BuildStep(n) PROVE CmdInv'
  BY <1>5 DEF BuildStep, Pull, CreateBuilder, AttachBuilder, StartBuilder, KillBuilder,
              RemoveBuilder, EndBuild
<1>6. ASSUME NEW n \in Node, World(n) PROVE CmdInv'
  BY <1>6 DEF World, StreamsClose, CommandEnds, BuilderEnds
<1> QED BY <1>1, <1>2, <1>3, <1>4, <1>5, <1>6 DEF Next, Step

LEMMA StepBuilder == TypeOK /\ TreeInv /\ BuilderInv /\ [Next]_vars => BuilderInv'
<1> SUFFICES ASSUME TypeOK, TreeInv, BuilderInv, [Next]_vars PROVE BuilderInv'
  OBVIOUS
<1>1. CASE HangUp \/ UNCHANGED vars
  BY <1>1 DEF HangUp, vars, BuilderInv
<1>2. ASSUME NEW n \in Node, NEW p \in Node, Perform(p, n) PROVE BuilderInv'
  BY <1>2, ListsAssumption DEF Perform, Goto, First, BuilderInv, TypeOK, Exec, Leaves, Kinds
<1>3. ASSUME NEW n \in Node, EndOrdered(n) \/ EndParallel(n) PROVE BuilderInv'
  BY <1>3 DEF EndOrdered, EndParallel, Goto, BuilderInv, TypeOK, Exec
<1> USE DEF TypeOK, BuilderInv, TreeInv, PlaceInv, Busy, Exec, Build, Over, Goto, Call
<1>4. ASSUME NEW n \in Node, ExecStep(n) PROVE BuilderInv'
  BY <1>4 DEF ExecStep, CreateExec, AttachExec, WaitForExit
<1>5. ASSUME NEW n \in Node, BuildStep(n) PROVE BuilderInv'
  <2>1. CASE Pull(n) \/ AttachBuilder(n) \/ EndBuild(n)
    BY <2>1 DEF Pull, AttachBuilder, EndBuild
  <2>2. CASE CreateBuilder(n) \/ StartBuilder(n)
    BY <2>2 DEF CreateBuilder, StartBuilder
  <2>3. CASE KillBuilder(n) \/ RemoveBuilder(n)
    BY <2>3 DEF KillBuilder, RemoveBuilder
  <2> QED BY <1>5, <2>1, <2>2, <2>3 DEF BuildStep
<1>6. ASSUME NEW n \in Node, World(n) PROVE BuilderInv'
  BY <1>6 DEF World, StreamsClose, CommandEnds, BuilderEnds
<1> QED BY <1>1, <1>2, <1>3, <1>4, <1>5, <1>6 DEF Next, Step
-----------------------------------------------------------------------------
Inv == TypeOK /\ TreeInv /\ DataInv

THEOREM Invariance == Spec => []Inv
<1>1. Init => Inv
  <2> SUFFICES ASSUME Init PROVE TreeInv /\ DataInv /\ TypeOK
    BY DEF Inv
  <2>1. \A n \in Node : at[n] = IF n = Root THEN "running" ELSE "idle"
    BY DEF Init
  <2>2. kind[Root] = "ordered" /\ \A n \in Node : Root \notin Under(n)
    BY ListsAssumption, TreeAssumption DEF Init, Under, Root
  <2>3. TreeInv
    BY <2>1, <2>2, ChildIn DEF TreeInv, IdleInv, QuietBelow, OkInv, TurnInv, PlaceInv,
       Over, Busy, Exec, Build
  <2>4. DataInv
    BY <2>1 DEF Init, DataInv, CmdInv, BuilderInv, Exec
  <2>5. docker \in 0..DockerFaults
    BY FaultAssumption DEF Init
  <2>6. at \in [Node -> {"idle", "running"} \cup Exec \cup Build \cup Over]
    BY DEF Init
  <2>7. TypeOK
    BY <2>5, <2>6 DEF Init, TypeOK
  <2> QED BY <2>3, <2>4, <2>7
<1>2. Inv /\ [Next]_vars => Inv'
  BY StepType, StepTree, StepCmd, StepBuilder DEF Inv, DataInv
<1> QED BY <1>1, <1>2, PTL DEF Spec

\* An action that has returned, list, group or leaf, has left nothing at work under it.
THEOREM QuietBelowHolds == Spec => []QuietBelow
<1>1. Inv => QuietBelow
  BY DEF Inv, TreeInv
<1> QED BY <1>1, Invariance, PTL

\* Every step is one of the tree of calls, or invisible there.
LEMMA SeenMoves ==
  ASSUME TypeOK, NEW n \in Node, NEW x, at' = [at EXCEPT ![n] = x]
  PROVE  Calls!Move(n, Seen(at[n]), Seen(x))
<1>1. at'[n] = x /\ \A m \in Node : m # n => at'[m] = at[m]
  BY DEF TypeOK
<1> DEFINE s == [m \in Node |-> Seen(at[m])]
<1>2. s[n] = Seen(at[n])
  OBVIOUS
<1>3. s' = [m \in Node |-> Seen(at'[m])]
  BY DEF Seen
<1>4. \A m \in Node : Seen(at'[m]) = IF m = n THEN Seen(x) ELSE s[m]
  BY <1>1
<1>5. s' = [m \in Node |-> IF m = n THEN Seen(x) ELSE s[m]]
  BY <1>3, <1>4
<1>6. s' = [s EXCEPT ![n] = Seen(x)]
  BY <1>5
<1> QED BY <1>2, <1>6 DEF Calls!Move

LEMMA StepCalls == Inv /\ [Next]_vars => [Calls!Next]_(Calls!vars)
<1> SUFFICES ASSUME Inv, [Next]_vars PROVE [Calls!Next]_(Calls!vars)
  OBVIOUS
<1>0. TypeOK /\ TreeInv /\ TypeOK' /\ TreeInv'
  BY StepType, StepTree DEF Inv
<1>1. ASSUME UNCHANGED at PROVE [Calls!Next]_(Calls!vars)
  BY <1>1 DEF Calls!vars, Seen
<1>2. ASSUME NEW n \in Node, NEW x, at' = [at EXCEPT ![n] = x], Seen(at[n]) = "working",
             x \in Over,
             x = "failed" => Under(n) = {} \/ \E c \in Children(n) : at[c] = "failed"
      PROVE  Calls!Next
  <2>1. Calls!Move(n, "working", x)
    BY <1>0, <1>2, SeenMoves DEF Seen, Over
  <2>2. at'[n] = x /\ \A m \in Under(n) : at'[m] = at[m]
    BY <1>0, <1>2, ChildIn DEF TypeOK
  <2>3. CASE x = "ok"
    <3>1. \A m \in Under(n) : Seen(at[m]) = "ok"
      BY <1>0, <2>2, <2>3 DEF TreeInv, OkInv, Seen, Over
    <3>2. Calls!Succeed(n)
      BY <2>1, <2>3, <3>1, ChildIn DEF Calls!Succeed
    <3> QED BY <3>2 DEF Calls!Next
  <2>4. CASE x = "failed"
    <3>1. \A m \in Under(n) : Seen(at[m]) # "working"
      BY <1>0, <2>2, <2>4 DEF TreeInv, QuietBelow, Seen, Over
    <3>2. Under(n) = {} \/ \E c \in Children(n) : Seen(at[c]) = "failed"
      BY <1>2, <2>4 DEF Seen, Over
    <3>3. Calls!Fail(n)
      BY <2>1, <2>4, <3>1, <3>2, ChildIn DEF Calls!Fail
    <3> QED BY <3>3 DEF Calls!Next
  <2> QED BY <1>2, <2>3, <2>4 DEF Over
<1>3. ASSUME NEW n \in Node, NEW p \in Node, Perform(p, n) PROVE Calls!Next
  <2>1. /\ at' = [at EXCEPT ![n] = First(n)] /\ at[n] = "idle" /\ n \in Children(p)
        /\ at[p] = "running"
    BY <1>3 DEF Perform, Goto
  <2>2. Calls!Move(n, "idle", Seen(First(n)))
    <3>1. Seen(at[n]) = "idle"
      BY <2>1 DEF Seen
    <3>2. Calls!Move(n, Seen(at[n]), Seen(First(n)))
      BY <1>0, <2>1, SeenMoves
    <3> QED BY <3>1, <3>2
  <2>3. (First(n) = "failed" /\ Under(n) = {}) \/ Seen(First(n)) = "working"
    BY <1>0, LeafIsLeaf, ListsAssumption DEF First, Seen, Over, TypeOK, Kinds, Leaves
  <2>4. Seen(at[p]) = "working" /\ ("failed" = Seen("failed"))
    BY <2>1 DEF Seen, Over
  <2>5. Calls!Begin(p, n)
    BY <2>1, <2>2, <2>3, <2>4 DEF Calls!Begin
  <2> QED BY <2>5 DEF Calls!Next
<1>4. ASSUME NEW n \in Node, EndOrdered(n) \/ EndParallel(n) PROVE Calls!Next
  <2>1. /\ Seen(at[n]) = "working"
        /\ \/ at' = [at EXCEPT ![n] = "ok"]
           \/ at' = [at EXCEPT ![n] = "failed"] /\ \E c \in Children(n) : at[c] = "failed"
    BY <1>4 DEF EndOrdered, EndParallel, Goto, Seen, Over
  <2>2. CASE at' = [at EXCEPT ![n] = "ok"]
    <3>1. "ok" \in Over /\ "ok" # "failed"
      BY DEF Over
    <3> QED BY <1>2, <2>1, <2>2, <3>1
  <2>3. CASE at' = [at EXCEPT ![n] = "failed"] /\ \E c \in Children(n) : at[c] = "failed"
    BY <1>2, <2>1, <2>3 DEF Over
  <2> QED BY <2>1, <2>2, <2>3
<1>5. ASSUME NEW n \in Node, ExecStep(n) \/ BuildStep(n) \/ World(n)
      PROVE  [Calls!Next]_(Calls!vars)
  <2>1. CASE UNCHANGED at
    BY <1>1, <2>1
  <2>2. CASE at[n] \in Busy
    <3>1. Under(n) = {} /\ Seen(at[n]) = "working"
      BY <1>0, <2>2, LeafIsLeaf DEF TreeInv, PlaceInv, Leaves, Busy, Exec, Build, Seen, Over
    <3>2. ASSUME NEW x \in Busy, at' = [at EXCEPT ![n] = x] PROVE UNCHANGED Calls!vars
      <4>1. Seen(x) = "working"
        BY DEF Busy, Exec, Build, Seen, Over
      <4>2. \A m \in Node : Seen(at'[m]) = Seen(at[m])
        BY <1>0, <3>1, <3>2, <4>1 DEF TypeOK
      <4>3. [m \in Node |-> Seen(at[m])]' = [m \in Node |-> Seen(at'[m])]
        BY DEF Seen
      <4> QED BY <4>2, <4>3 DEF Calls!vars
    <3>3. ASSUME NEW x \in Over, at' = [at EXCEPT ![n] = x] PROVE Calls!Next
      BY <1>2, <3>1, <3>3 DEF Over
    <3> QED BY <1>0, <1>5, <3>2, <3>3, <2>2, <1>1, LeafMoves
  <2> QED BY <1>0, <1>5, <2>1, <2>2, LeafMoves
<1>6. CASE HangUp \/ UNCHANGED vars
  BY <1>1, <1>6 DEF HangUp, vars
<1> QED BY <1>3, <1>4, <1>5, <1>6 DEF Next, Step

\* PerformActions, actionParallel and actionOrdered make a tree of calls, whatever the
\* list: nothing begins under what has returned, and success and failure go up.
THEOREM ActionsAreCalls == Spec => ImplementsCallTree
<1>1. Init => Calls!Init
  <2> SUFFICES ASSUME Init
               PROVE  [n \in Node |-> Seen(at[n])] = [n \in Node |-> IF n = Root THEN "working" ELSE "idle"]
    BY DEF Calls!Init
  <2>1. \A n \in Node : Seen(at[n]) = IF n = Root THEN "working" ELSE "idle"
    BY DEF Init, Seen, Over
  <2> QED BY <2>1
<1> QED BY <1>1, StepCalls, Invariance, PTL DEF Spec, Calls!Spec, ImplementsCallTree

\* A list succeeds only altogether, through all groups and nested lists.
THEOREM SuccessIsWholeHolds == Spec => []SuccessIsWhole
<1>1. Inv => SuccessIsWhole
  <2> SUFFICES ASSUME Inv, at[Root] = "ok", NEW n \in Node, kind[n] \in Leaves
               PROVE  cmd[n] = "done"
    BY DEF SuccessIsWhole
  <2>1. at[n] = "ok"
    BY AllUnderRoot DEF Within, Inv, TreeInv, OkInv
  <2> QED BY <2>1 DEF Inv, DataInv, CmdInv
<1> QED BY <1>1, Invariance, PTL

\* Later actions of an ordered list find all earlier ones ended well, to the last command.
THEOREM InOrderHolds == Spec => []InOrder
<1>1. Inv => InOrder
  <2> SUFFICES ASSUME Inv, NEW p \in Node, NEW i \in Children(p), NEW j \in Children(p),
                      kind[p] = "ordered", Earlier(i, j), at[j] # "idle", NEW m \in Within(i)
               PROVE  at[m] = "ok" /\ cmd[m] # "running"
    BY DEF InOrder
  <2>1. at[i] = "ok" /\ i \in Node /\ m \in Node
    BY ChildIn DEF Inv, TreeInv, TurnInv, Within
  <2>2. at[m] = "ok"
    BY <2>1 DEF Within, Inv, TreeInv, OkInv
  <2> QED BY <2>1, <2>2 DEF Inv, DataInv, CmdInv
<1> QED BY <1>1, Invariance, PTL
-----------------------------------------------------------------------------
Reason == gone \/ docker < DockerFaults \/ \E m \in Node : Culprit(m)

\* What counts as a reason stays one.
LEMMA ReasonsStay ==
  ASSUME Inv, [Next]_vars
  PROVE  /\ gone => gone'
         /\ docker' \in Nat /\ docker \in Nat /\ docker' <= docker
         /\ \A n \in Node : at[n] = "failed" => at'[n] = "failed"
         /\ UNCHANGED kind
         /\ \A m \in Node : Culprit(m) => Culprit(m)'
<1> USE DEF Inv
<1>1. docker \in Nat /\ docker' \in Nat
  BY StepType, FaultAssumption DEF TypeOK
<1>2. /\ Works => docker' <= docker
      /\ DockerFails => docker' <= docker
  BY <1>1 DEF Works, DockerFails
<1> DEFINE Goal == /\ gone => gone'
                   /\ docker' <= docker
                   /\ \A n \in Node : at[n] = "failed" => at'[n] = "failed"
                   /\ UNCHANGED kind
                   /\ \A m \in Node : Culprit(m) => Culprit(m)'
<1> USE <1>1, <1>2 DEF TypeOK, Culprit, Goto, Call, CallWorks, CallFails
<1>3. CASE HangUp \/ UNCHANGED vars
  BY <1>3 DEF HangUp, vars
<1>4. ASSUME NEW n \in Node, NEW p \in Node, Perform(p, n) PROVE Goal
  BY <1>4 DEF Perform
<1>5. ASSUME NEW n \in Node, EndOrdered(n) \/ EndParallel(n) PROVE Goal
  BY <1>5 DEF EndOrdered, EndParallel
<1>6. ASSUME NEW n \in Node, ExecStep(n) PROVE Goal
  BY <1>6 DEF ExecStep, CreateExec, AttachExec, WaitForExit, DataInv, CmdInv, Over
<1>7. ASSUME NEW n \in Node, BuildStep(n) PROVE Goal
  <2>1. CASE Pull(n) \/ AttachBuilder(n) \/ EndBuild(n)
    BY <2>1 DEF Pull, AttachBuilder, EndBuild
  <2>2. CASE CreateBuilder(n) \/ StartBuilder(n)
    BY <2>2 DEF CreateBuilder, StartBuilder, DataInv, BuilderInv
  <2>3. CASE KillBuilder(n) \/ RemoveBuilder(n)
    BY <2>3 DEF KillBuilder, RemoveBuilder
  <2> QED BY <1>7, <2>1, <2>2, <2>3 DEF BuildStep
<1>8. ASSUME NEW n \in Node, World(n) PROVE Goal
  BY <1>8 DEF World, StreamsClose, CommandEnds, BuilderEnds
<1> QED BY <1>3, <1>4, <1>5, <1>6, <1>7, <1>8 DEF Next, Step

LEMMA CancelStays ==
  ASSUME Inv, [Next]_vars, NEW n \in Node, Cancelled(n)
  PROVE  Cancelled(n)'
<1>1. ASSUME gone PROVE Cancelled(n)'
  BY <1>1, ReasonsStay DEF Cancelled
<1>2. ASSUME NEW p \in Node, n \in Under(p), kind[p] = "parallel",
             NEW c \in Children(p), at[c] = "failed"
      PROVE  Cancelled(n)'
  BY <1>2, ReasonsStay, ChildIn DEF Cancelled
<1> QED BY <1>1, <1>2 DEF Cancelled
-----------------------------------------------------------------------------
\* A command is left running only by an action that failed for want of Docker.
LEMMA StepLeft == Inv /\ LeftRunning /\ [Next]_vars => LeftRunning'
<1> SUFFICES ASSUME Inv, LeftRunning, [Next]_vars, NEW m \in Node,
                    cmd'[m] = "running", at'[m] \in Over
             PROVE  at'[m] = "failed" /\ (Cancelled(m)' \/ docker' < DockerFaults)
  BY DEF LeftRunning
<1>0. /\ Cancelled(m) => Cancelled(m)'
      /\ docker' \in Nat /\ docker \in Nat /\ docker' <= docker /\ docker <= DockerFaults
      /\ DockerFaults \in Nat
  BY CancelStays, ReasonsStay, FaultAssumption DEF Inv, TypeOK
<1>1. CASE cmd[m] = "running" /\ at[m] \in Over
  BY <1>0, <1>1, ReasonsStay DEF LeftRunning, Inv
<1>2. ASSUME ~(cmd[m] = "running" /\ at[m] \in Over)
      PROVE  at'[m] = "failed" /\ (Cancelled(m) \/ docker' < DockerFaults)
  <2> USE <1>0, <1>2 DEF Inv, TypeOK, DataInv, CmdInv, Over, Goto
  <2>1. CASE HangUp \/ UNCHANGED vars
    BY <2>1 DEF HangUp, vars
  <2>2. ASSUME NEW n \in Node, NEW p \in Node, Perform(p, n) PROVE FALSE
    BY <2>2 DEF Perform
  <2>3. ASSUME NEW n \in Node, EndOrdered(n) \/ EndParallel(n) PROVE FALSE
    BY <2>3 DEF EndOrdered, EndParallel, Leaves
  <2>4. ASSUME NEW n \in Node, ExecStep(n)
        PROVE  at'[m] = "failed" /\ (Cancelled(m) \/ docker' < DockerFaults)
    BY <2>4 DEF ExecStep, CreateExec, AttachExec, WaitForExit, Call, CallWorks, CallFails, DockerFails
  <2>5. ASSUME NEW n \in Node, BuildStep(n) PROVE FALSE
    BY <2>5 DEF BuildStep, Pull, CreateBuilder, AttachBuilder, StartBuilder, KillBuilder,
                RemoveBuilder, EndBuild, Call
  <2>6. ASSUME NEW n \in Node, World(n) PROVE FALSE
    BY <2>6 DEF World, StreamsClose, CommandEnds, BuilderEnds
  <2> QED BY <2>1, <2>2, <2>3, <2>4, <2>5, <2>6 DEF Next, Step
<1> QED BY <1>0, <1>1, <1>2

THEOREM LeftRunningHolds == Spec => []LeftRunning
<1>1. Init => LeftRunning
  BY DEF Init, LeftRunning
<1> QED BY <1>1, StepLeft, Invariance, PTL DEF Spec
-----------------------------------------------------------------------------
\* Actions that have failed, or are about to, have a reason.
ReasonInv == \A n \in Node : at[n] \in {"failed", "kill", "remove"} => Reason

LEMMA ReasonStays == Inv /\ [Next]_vars /\ Reason => Reason'
  BY ReasonsStay, FaultAssumption DEF Reason, Inv, TypeOK

LEMMA StepReason == Inv /\ ReasonInv /\ [Next]_vars => ReasonInv'
<1> SUFFICES ASSUME Inv, ReasonInv, [Next]_vars, ~Reason, NEW m \in Node,
                    at'[m] \in {"failed", "kill", "remove"}
             PROVE  Reason'
  BY ReasonStays DEF ReasonInv
<1>0. /\ docker \in Nat /\ docker <= DockerFaults /\ DockerFaults \in Nat
      /\ \A n \in Node : at[n] \notin {"failed", "kill", "remove"} /\ ~Cancelled(n) /\ ~Culprit(n)
  BY FaultAssumption, ChildIn DEF Reason, ReasonInv, Inv, TypeOK, Cancelled
<1>1. DockerFails => Reason'
  BY <1>0 DEF DockerFails, Reason
<1>2. ASSUME NEW n \in Node PROVE CallFails(n) => Reason'
  BY <1>0, <1>1 DEF CallFails
<1> USE <1>0, <1>1 DEF Inv, TypeOK, Goto
<1>3. CASE HangUp \/ UNCHANGED vars
  BY <1>3 DEF HangUp, vars
<1>4. ASSUME NEW n \in Node, NEW p \in Node, Perform(p, n) PROVE Reason'
  <2>1. m = n /\ First(n) = "failed"
    BY <1>4, ListsAssumption DEF Perform, First, Leaves, Kinds
  <2>2. kind[n] = "unknown" /\ UNCHANGED kind
    BY <1>4, <2>1 DEF Perform, First
  <2> QED BY <2>2 DEF Reason, Culprit
<1>5. ASSUME NEW n \in Node, EndOrdered(n) \/ EndParallel(n) PROVE Reason'
  BY <1>5, ChildIn DEF EndOrdered, EndParallel
<1>6. ASSUME NEW n \in Node, ExecStep(n) PROVE Reason'
  BY <1>2, <1>6 DEF ExecStep, CreateExec, AttachExec, WaitForExit, Call, Culprit
<1>7. ASSUME NEW n \in Node, BuildStep(n) PROVE Reason'
  BY <1>2, <1>7 DEF BuildStep, Pull, CreateBuilder, AttachBuilder, StartBuilder, KillBuilder,
                    RemoveBuilder, EndBuild, Call, Culprit
<1>8. ASSUME NEW n \in Node, World(n) PROVE Reason'
  BY <1>8 DEF World, StreamsClose, CommandEnds, BuilderEnds
<1> QED BY <1>3, <1>4, <1>5, <1>6, <1>7, <1>8 DEF Next, Step

LEMMA ReasonAlways == Spec => []ReasonInv
<1>1. Init => ReasonInv
  BY DEF Init, ReasonInv
<1> QED BY <1>1, StepReason, Invariance, PTL DEF Spec

\* No action fails because of a cancellation that nothing caused: contexts of groups
\* that went well are not mixed up with those of later actions.
THEOREM FailsForAReasonHolds == Spec => []FailsForAReason
<1>1. ReasonInv => FailsForAReason
  BY DEF ReasonInv, FailsForAReason, Reason
<1> QED BY <1>1, ReasonAlways, PTL
-----------------------------------------------------------------------------
\* A builder that was created and never started is left only at the price of a fault on
\* top of what had made the action fail.
Paid == docker < DockerFaults /\ ~OnlyOneFault
BackInv == \A n \in Node : at[n] \in Over /\ builder[n] = "created" => Paid

LEMMA PaidStays == Inv /\ [Next]_vars /\ Paid => Paid'
  BY ReasonsStay, FaultAssumption DEF Paid, OnlyOneFault, Inv, TypeOK

LEMMA StepBack == Inv /\ ReasonInv /\ BackInv /\ [Next]_vars => BackInv'
<1> SUFFICES ASSUME Inv, ReasonInv, BackInv, [Next]_vars, NEW m \in Node,
                    at'[m] \in Over, builder'[m] = "created"
             PROVE  Paid'
  BY DEF BackInv
<1>1. CASE at[m] \in Over /\ builder[m] = "created"
  BY <1>1, PaidStays DEF BackInv
<1>2. ASSUME ~(at[m] \in Over /\ builder[m] = "created") PROVE at[m] = "remove" /\ DockerFails
  <2> USE <1>2 DEF Inv, TypeOK, TreeInv, PlaceInv, DataInv, BuilderInv, Busy, Exec, Build, Over, Goto
  <2>1. CASE HangUp \/ UNCHANGED vars
    BY <2>1 DEF HangUp, vars
  <2>2. ASSUME NEW n \in Node, NEW p \in Node, Perform(p, n) PROVE FALSE
    BY <2>2 DEF Perform
  <2>3. ASSUME NEW n \in Node, EndOrdered(n) \/ EndParallel(n) PROVE FALSE
    BY <2>3 DEF EndOrdered, EndParallel
  <2>4. ASSUME NEW n \in Node, ExecStep(n) PROVE FALSE
    BY <2>4 DEF ExecStep, CreateExec, AttachExec, WaitForExit, Call
  <2>5. ASSUME NEW n \in Node, BuildStep(n) PROVE at[m] = "remove" /\ DockerFails
    <3>1. CASE Pull(n) \/ AttachBuilder(n) \/ EndBuild(n)
      BY <3>1 DEF Pull, AttachBuilder, EndBuild, Call
    <3>2. CASE CreateBuilder(n) \/ StartBuilder(n)
      BY <3>2 DEF CreateBuilder, StartBuilder, Call
    <3>3. CASE KillBuilder(n) \/ RemoveBuilder(n)
      BY <3>3 DEF KillBuilder, RemoveBuilder, Call
    <3> QED BY <2>5, <3>1, <3>2, <3>3 DEF BuildStep
  <2>6. ASSUME NEW n \in Node, World(n) PROVE FALSE
    BY <2>6 DEF World, StreamsClose, CommandEnds, BuilderEnds
  <2> QED BY <2>1, <2>2, <2>3, <2>4, <2>5, <2>6 DEF Next, Step
<1>3. CASE at[m] = "remove" /\ DockerFails
  <2>1. Reason
    BY <1>3 DEF ReasonInv
  <2>2. /\ docker \in Nat /\ docker <= DockerFaults /\ DockerFaults \in Nat
        /\ docker' = docker - 1
    BY <1>3, FaultAssumption DEF Inv, TypeOK, DockerFails
  <2>3. /\ gone => gone'
        /\ \A n \in Node : Culprit(n) => Culprit(n)'
    BY ReasonsStay
  <2> QED BY <2>1, <2>2, <2>3 DEF Paid, OnlyOneFault, Reason
<1> QED BY <1>1, <1>2, <1>3

\* A builder whose ID is not known is there only if its create was cut off.
OrphanInv ==
  \A n \in Node : builder[n] = "orphan" => Cancelled(n) \/ docker < DockerFaults

LEMMA StepOrphan == Inv /\ OrphanInv /\ [Next]_vars => OrphanInv'
<1> SUFFICES ASSUME Inv, OrphanInv, [Next]_vars, NEW m \in Node, builder'[m] = "orphan"
             PROVE  Cancelled(m)' \/ docker' < DockerFaults
  BY DEF OrphanInv
<1>0. /\ Cancelled(m) => Cancelled(m)'
      /\ docker' \in Nat /\ docker \in Nat /\ docker' <= docker /\ docker <= DockerFaults
      /\ DockerFaults \in Nat
  BY CancelStays, ReasonsStay, FaultAssumption DEF Inv, TypeOK
<1>1. CASE builder[m] = "orphan"
  BY <1>0, <1>1 DEF OrphanInv
<1>2. ASSUME builder[m] # "orphan" PROVE CreateBuilder(m) /\ at'[m] = "failed"
  <2> USE <1>2 DEF Inv, TypeOK, Goto
  <2>1. CASE HangUp \/ UNCHANGED vars
    BY <2>1 DEF HangUp, vars
  <2>2. ASSUME NEW n \in Node, NEW p \in Node,
               Perform(p, n) \/ EndOrdered(n) \/ EndParallel(n) \/ ExecStep(n)
        PROVE FALSE
    BY <2>2 DEF Perform, EndOrdered, EndParallel, ExecStep, CreateExec, AttachExec, WaitForExit
  <2>3. ASSUME NEW n \in Node, BuildStep(n) PROVE CreateBuilder(m) /\ at'[m] = "failed"
    <3>1. CASE Pull(n) \/ AttachBuilder(n) \/ EndBuild(n) \/ StartBuilder(n)
      BY <3>1 DEF Pull, AttachBuilder, EndBuild, StartBuilder
    <3>2. CASE CreateBuilder(n)
      BY <3>2 DEF CreateBuilder, Call
    <3>3. CASE KillBuilder(n) \/ RemoveBuilder(n)
      BY <3>3 DEF KillBuilder, RemoveBuilder
    <3> QED BY <2>3, <3>1, <3>2, <3>3 DEF BuildStep
  <2>4. ASSUME NEW n \in Node, World(n) PROVE FALSE
    BY <2>4 DEF World, StreamsClose, CommandEnds, BuilderEnds
  <2> QED BY <2>1, <2>2, <2>3, <2>4 DEF Next, Step
<1>3. CASE CreateBuilder(m) /\ at'[m] = "failed"
  <2>1. CallFails(m)
    BY <1>3 DEF CreateBuilder, Call, Goto, Inv, TypeOK
  <2> QED BY <1>0, <2>1 DEF CallFails, DockerFails
<1> QED BY <1>1, <1>2, <1>3

\* One failure, or any cancellation, leaves no builder that is known and was never started,
\* and only a create that was cut off leaves one that is not known.
THEOREM BuilderGoesHolds == Spec => []BuilderGoes
<1>1. Init => BackInv /\ OrphanInv
  BY DEF Init, BackInv, OrphanInv
<1>2. Inv /\ BackInv /\ OrphanInv => BuilderGoes
  <2>1. Inv /\ OrphanInv => \A n \in Node : builder[n] = "orphan" =>
          at[n] = "failed" /\ (Cancelled(n) \/ docker < DockerFaults)
    BY DEF OrphanInv, Inv, DataInv, BuilderInv
  <2>2. Inv /\ BackInv => \A n \in Node :
          docker = DockerFaults \/ OnlyOneFault => ~(at[n] \in Over /\ builder[n] = "created")
    BY FaultAssumption DEF BackInv, Paid, Inv, TypeOK
  <2> QED BY <2>1, <2>2 DEF BuilderGoes
<1> QED BY <1>1, <1>2, StepBack, StepOrphan, Invariance, ReasonAlways, PTL DEF Spec
-----------------------------------------------------------------------------
\* Only finitely many actions have begun, so there is always an innermost one, and the
\* list itself has begun from the start.
Begun == {n \in Node : at[n] # "idle"}
BegunInv == IsFiniteSet(Begun) /\ Root \in Begun

LEMMA StepBegun == Inv /\ BegunInv /\ [Next]_vars => BegunInv'
<1> SUFFICES ASSUME Inv, BegunInv, [Next]_vars PROVE BegunInv'
  OBVIOUS
<1>1. ASSUME NEW n \in Node, NEW x, x # "idle", at' = [at EXCEPT ![n] = x] PROVE BegunInv'
  <2>1. Begun' = Begun \cup {n}
    BY <1>1 DEF Begun, Inv, TypeOK
  <2> QED BY <2>1, FS_AddElement DEF BegunInv
<1>2. ASSUME UNCHANGED at PROVE BegunInv'
  BY <1>2 DEF BegunInv, Begun
<1>3. ASSUME NEW n \in Node, NEW p \in Node, Perform(p, n) PROVE BegunInv'
  <2>1. First(n) # "idle" /\ at' = [at EXCEPT ![n] = First(n)]
    BY <1>3 DEF Perform, Goto, First
  <2> QED BY <1>1, <2>1
<1>4. ASSUME NEW n \in Node, EndOrdered(n) \/ EndParallel(n) PROVE BegunInv'
  BY <1>1, <1>4 DEF EndOrdered, EndParallel, Goto
<1>5. ASSUME NEW n \in Node, ExecStep(n) \/ BuildStep(n) \/ World(n) PROVE BegunInv'
  <2>1. \A x \in Busy \cup Over : x # "idle"
    BY DEF Busy, Exec, Build, Over
  <2> QED BY <1>1, <1>2, <1>5, <2>1, LeafMoves DEF Inv
<1>6. CASE HangUp \/ UNCHANGED vars
  BY <1>2, <1>6 DEF HangUp, vars
<1> QED BY <1>3, <1>4, <1>5, <1>6 DEF Next, Step

\* An action that nothing else has to go before: a leaf at work, a list or group that
\* can begin its next action, or one that can return (the guards of Perform,
\* EndOrdered and EndParallel).
CanGo(n) ==
  \/ at[n] \in Busy
  \/ at[n] = "running" /\ \E c \in Children(n) :
       at[c] = "idle" /\ (kind[n] = "ordered" => InTurn(n, c))
  \/ at[n] = "running" /\ kind[n] = "ordered" /\
       ((\A c \in Children(n) : at[c] = "ok") \/ \E c \in Children(n) : at[c] = "failed")
  \/ at[n] = "running" /\ kind[n] = "parallel" /\ \A c \in Children(n) : at[c] \in Over

ListMoves == at[Root] \notin Over => \E n \in Node : CanGo(n)

\* Some action at work has no other under it.
LEMMA Innermost ==
  ASSUME Inv, BegunInv, at[Root] \notin Over
  PROVE  \E n \in Node : /\ at[n] \notin Over \cup {"idle"}
                        /\ \A m \in Under(n) : at[m] \in Over \cup {"idle"}
<1> DEFINE Work == {n \in Node : at[n] \notin Over \cup {"idle"}}
           W(n) == Work \cap Under(n)
           F == {W(n) : n \in Work}
<1>1. Root \in Work
  BY AllUnderRoot DEF BegunInv, Begun
<1>2. IsFiniteSet(Work)
  <2>1. Work \subseteq Begun
    BY DEF Begun
  <2> QED BY <2>1, FS_Subset DEF BegunInv
<1>3. F \subseteq FiniteSubsetsOf(Work)
  BY <1>2, FS_Subset DEF FiniteSubsetsOf
<1>4. F # {}
  BY <1>1
<1>5. PICK w \in F : \A v \in F : <<v, w>> \notin StrictSubsetOrdering(Work)
  <2> HIDE DEF F
  <2>1. IsWellFoundedOn(StrictSubsetOrdering(Work), FiniteSubsetsOf(Work))
    BY FS_StrictSubsetOrderingWellFounded
  <2> QED BY <1>3, <1>4, <2>1, WFMin
<1>6. PICK n \in Work : w = W(n)
  OBVIOUS
<1>7. ASSUME NEW m \in W(n) PROVE FALSE
  <2>1. W(m) \subseteq W(n)
    <3>1. \A k \in Under(m) : k \in Under(n)
      <4> SUFFICES ASSUME NEW k \in Under(m) PROVE k \in Under(n)
        OBVIOUS
      <4>1. Len(n) \in Nat /\ Len(m) \in Nat /\ Len(k) \in Nat
        BY TreeAssumption DEF Under
      <4> QED BY <4>1, <1>7 DEF Under
    <3> QED BY <3>1
  <2>2. m \notin W(m)
    BY <1>7, ChildIn
  <2>3. <<W(m), W(n)>> \in StrictSubsetOrdering(Work)
    BY <1>7, <2>1, <2>2 DEF StrictSubsetOrdering
  <2>4. W(m) \in F
    BY <1>7
  <2> QED BY <1>5, <1>6, <2>3, <2>4
<1> QED BY <1>7, ChildIn

\* Of the actions directly under a list that have not begun, one is the first.
LEMMA FirstIdle ==
  ASSUME NEW p \in Node, NEW d \in Children(p), at[d] = "idle"
  PROVE  \E c \in Children(p) :
           at[c] = "idle" /\ \A b \in Children(p) : Earlier(b, c) => at[b] # "idle"
<1> DEFINE I == {c \in Children(p) : at[c] = "idle"}
           F == {0 .. c[Len(c)] : c \in I}
<1>1. \A c \in I : c[Len(c)] \in Nat
  <2> SUFFICES ASSUME NEW c \in I PROVE c[Len(c)] \in Nat
    OBVIOUS
  <2>1. c \in Seq(Nat) /\ Len(c) = Len(p) + 1 /\ Len(p) \in Nat
    BY TreeAssumption DEF Children, Under
  <2> QED BY <2>1, ElementOfSeq
<1>2. F \subseteq FiniteSubsetsOf(Nat)
  <2> SUFFICES ASSUME NEW c \in I PROVE 0 .. c[Len(c)] \in FiniteSubsetsOf(Nat)
    OBVIOUS
  <2>1. IsFiniteSet(0 .. c[Len(c)])
    <3>1. 0 \in Int /\ c[Len(c)] \in Int
      BY <1>1
    <3> QED BY <3>1, FS_Interval
  <2> QED BY <1>1, <2>1 DEF FiniteSubsetsOf
<1>3. F # {}
  OBVIOUS
<1>4. PICK w \in F : \A v \in F : <<v, w>> \notin StrictSubsetOrdering(Nat)
  <2> HIDE DEF F
  <2>1. IsWellFoundedOn(StrictSubsetOrdering(Nat), FiniteSubsetsOf(Nat))
    BY FS_StrictSubsetOrderingWellFounded
  <2> QED BY <1>2, <1>3, <2>1, WFMin
<1>5. PICK c \in I : w = 0 .. c[Len(c)]
  OBVIOUS
<1>6. ASSUME NEW b \in I, Earlier(b, c) PROVE FALSE
  <2>1. b[Len(b)] \in Nat /\ c[Len(c)] \in Nat /\ b[Len(b)] < c[Len(c)]
    BY <1>1, <1>6 DEF Earlier
  <2>2. <<0 .. b[Len(b)], 0 .. c[Len(c)]>> \in StrictSubsetOrdering(Nat)
    BY <2>1 DEF StrictSubsetOrdering
  <2> QED BY <1>4, <1>5, <2>2
<1> QED BY <1>6

\* A list that has not returned is never stuck: whatever its shape, some action in it
\* is at work, can begin or can return.
THEOREM ListsMove == Spec => []ListMoves
<1>1. Init => BegunInv
  <2> SUFFICES ASSUME Init PROVE BegunInv
    OBVIOUS
  <2>1. Begun = {} \cup {Root}
    BY AllUnderRoot DEF Init, Begun
  <2> QED BY <2>1, FS_EmptySet, FS_AddElement DEF BegunInv
<1>2. Inv /\ BegunInv => ListMoves
  <2> SUFFICES ASSUME Inv, BegunInv, at[Root] \notin Over PROVE \E n \in Node : CanGo(n)
    BY DEF ListMoves
  <2>1. PICK n \in Node : /\ at[n] \notin Over \cup {"idle"}
                         /\ \A m \in Under(n) : at[m] \in Over \cup {"idle"}
    BY Innermost
  <2>2. CASE at[n] \in Busy
    BY <2>2 DEF CanGo
  <2>3. CASE at[n] = "running" /\ kind[n] = "parallel"
    BY <2>1, <2>3, ChildIn DEF CanGo
  <2>4. CASE at[n] = "running" /\ kind[n] = "ordered"
    <3>1. CASE \E c \in Children(n) : at[c] = "failed"
      BY <2>4, <3>1 DEF CanGo
    <3>2. CASE \A c \in Children(n) : at[c] = "ok"
      BY <2>4, <3>2 DEF CanGo
    <3>3. CASE (\E c \in Children(n) : at[c] = "idle") /\ \A c \in Children(n) : at[c] # "failed"
      <4>1. PICK c \in Children(n) :
              at[c] = "idle" /\ \A b \in Children(n) : Earlier(b, c) => at[b] # "idle"
        BY <3>3, FirstIdle
      <4>2. InTurn(n, c)
        BY <2>1, <3>3, <4>1, ChildIn DEF InTurn, Over
      <4> QED BY <2>4, <4>1, <4>2 DEF CanGo
    <3> QED BY <2>1, <3>1, <3>2, <3>3, ChildIn DEF Over
  <2> QED BY <2>1, <2>2, <2>3, <2>4 DEF Inv, TypeOK, TreeInv, PlaceInv, Busy
<1>3. Spec => [](Inv /\ BegunInv)
  BY <1>1, Invariance, StepBegun, PTL DEF Spec
<1> QED BY <1>2, <1>3, PTL
=============================================================================
