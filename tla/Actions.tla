------------------------------- MODULE Actions -------------------------------
(***************************************************************************)
(* The actions a build script asks for, performed in the container of a    *)
(* new instance (app/specbuild/actions.go), with the commands they run     *)
(* there (pkg/docker/dexec) and the Go builds they start in containers of  *)
(* their own (app/gobuild).                                                *)
(*                                                                         *)
(* An action is named by its path in the list: <<2, 1>> is the first       *)
(* subaction of the second action, <<>> the list itself.  PerformActions   *)
(* takes the actions of a list in turn, actionParallel all of them at      *)
(* once, under a context that the first failure cancels.  write and append *)
(* are exec with a command of their own.                                   *)
(*                                                                         *)
(* The client may hang up, which cancels every context; DockerFaults calls *)
(* to Docker fail by themselves.  A call that fails, or that a cancelled   *)
(* context cuts off while it is in flight, has no effect, except that what *)
(* a start was to begin may run, and what a create was to make may exist.  *)
(***************************************************************************)
EXTENDS Naturals, Sequences

CONSTANTS Node,          \* the paths in use
          Lists,         \* the lists scripts return: the kind of action at each path
          DockerFaults

Root == << >>
Leaves == {"exec", "gobuild", "unknown"}
Kinds == {"ordered", "parallel"} \cup Leaves

\* The actions under n, and those directly under it.
Under(n) == {m \in Node : Len(n) < Len(m) /\ \A k \in 1..Len(n) : m[k] = n[k]}
Within(n) == {n} \cup Under(n)
Children(n) == {m \in Under(n) : Len(m) = Len(n) + 1}
Earlier(n, m) == n[Len(n)] < m[Len(m)]      \* for two children of one action

ASSUME TreeAssumption ==
  /\ Node \subseteq Seq(Nat) /\ Root \in Node
  /\ \A n \in Node : \A k \in 0..Len(n) : SubSeq(n, 1, k) \in Node
ASSUME ListsAssumption ==
  /\ Lists \subseteq [Node -> Kinds]
  /\ \A l \in Lists : l[Root] = "ordered" /\ \A n \in Node : l[n] \in Leaves => Under(n) = {}
ASSUME FaultAssumption == DockerFaults \in Nat

VARIABLES
  kind,     \* the list that is performed
  at,       \* where each action is
  cmd,      \* the command an action runs in the container
  builder,  \* the container of a Go build
  gone,     \* the client has hung up
  docker    \* faults still to come

vars == <<kind, at, cmd, builder, gone, docker>>

Over == {"ok", "failed"}
Exec == {"create", "attach", "copy", "wait"}
Build == {"pull", "make", "join", "start", "build", "kill", "remove"}

TypeOK ==
  /\ kind \in Lists
  /\ at \in [Node -> {"idle", "running"} \cup Exec \cup Build \cup Over]
  /\ cmd \in [Node -> {"none", "running", "done", "bad"}]
  /\ builder \in [Node -> {"none", "created", "orphan", "running", "done", "bad"}]
  /\ gone \in BOOLEAN /\ docker \in 0..DockerFaults

Init ==
  /\ kind \in Lists
  /\ at = [n \in Node |-> IF n = Root THEN "running" ELSE "idle"]
  /\ cmd = [n \in Node |-> "none"] /\ builder = [n \in Node |-> "none"]
  /\ gone = FALSE /\ docker = DockerFaults
-----------------------------------------------------------------------------
\* The context of an action: the request's, through the groups it is part of.
Cancelled(n) ==
  gone \/ \E p \in Node : n \in Under(p) /\ kind[p] = "parallel" /\ \E c \in Children(p) : at[c] = "failed"

Works == UNCHANGED docker
DockerFails == docker > 0 /\ docker' = docker - 1
CallWorks(n) == ~Cancelled(n) /\ Works
CallFails(n) == IF Cancelled(n) THEN Works ELSE DockerFails

Goto(n, from, to) == at[n] = from /\ at' = [at EXCEPT ![n] = to]

\* A call with the context of the action.
Call(n, from, to, back) ==
  \/ CallWorks(n) /\ Goto(n, from, to)
  \/ CallFails(n) /\ Goto(n, from, back)
-----------------------------------------------------------------------------
\* mutant: errors do not end the list
InTurn_Regardless(p, n) == \A c \in Children(p) : Earlier(c, n) => at[c] \in Over

\* PerformActions returns at the first error.
InTurn(p, n) == \A c \in Children(p) : Earlier(c, n) => at[c] = "ok"

First(n) ==
  CASE kind[n] = "exec" -> "create"
    [] kind[n] = "gobuild" -> "pull"
    [] kind[n] = "unknown" -> "failed"      \* no such key in actionFuncs
    [] OTHER -> "running"

\* performAction.
Perform(p, n) ==
  /\ n \in Children(p) /\ at[p] = "running"
  /\ kind[p] = "ordered" => InTurn(p, n)
  /\ Goto(n, "idle", First(n))
  /\ UNCHANGED <<kind, cmd, builder, gone, docker>>

EndOrdered_All(n) ==         \* mutant: waits for actions that are not going to start
  /\ kind[n] = "ordered" /\ \A c \in Children(n) : at[c] \in Over
  /\ \/ (\A c \in Children(n) : at[c] = "ok") /\ Goto(n, "running", "ok")
     \/ (\E c \in Children(n) : at[c] = "failed") /\ Goto(n, "running", "failed")
  /\ UNCHANGED <<kind, cmd, builder, gone, docker>>

EndOrdered(n) ==
  /\ kind[n] = "ordered"
  /\ \/ (\A c \in Children(n) : at[c] = "ok") /\ Goto(n, "running", "ok")
     \/ (\E c \in Children(n) : at[c] = "failed") /\ Goto(n, "running", "failed")
  /\ UNCHANGED <<kind, cmd, builder, gone, docker>>

EndParallel_First(n) ==      \* mutant: returns with the first error
  /\ kind[n] = "parallel"
  /\ \/ (\A c \in Children(n) : at[c] = "ok") /\ Goto(n, "running", "ok")
     \/ (\E c \in Children(n) : at[c] = "failed") /\ Goto(n, "running", "failed")
  /\ UNCHANGED <<kind, cmd, builder, gone, docker>>

EndParallel_NoError(n) ==    \* mutant: the goroutines' errors are not returned
  /\ kind[n] = "parallel" /\ \A c \in Children(n) : at[c] \in Over
  /\ Goto(n, "running", "ok")
  /\ UNCHANGED <<kind, cmd, builder, gone, docker>>

\* errgroup's Wait: all goroutines have returned.
EndParallel(n) ==
  /\ kind[n] = "parallel" /\ \A c \in Children(n) : at[c] \in Over
  /\ \/ (\A c \in Children(n) : at[c] = "ok") /\ Goto(n, "running", "ok")
     \/ (\E c \in Children(n) : at[c] = "failed") /\ Goto(n, "running", "failed")
  /\ UNCHANGED <<kind, cmd, builder, gone, docker>>
-----------------------------------------------------------------------------
\* Exec: create, attach (which starts the command), copy until the streams close, ...
CreateExec(n) ==
  /\ Call(n, "create", "attach", "failed")
  /\ UNCHANGED <<kind, cmd, builder, gone>>

AttachExec(n) ==
  /\ Call(n, "attach", "copy", "failed")
  /\ \/ cmd' = [cmd EXCEPT ![n] = "running"]
     \/ at'[n] = "failed" /\ UNCHANGED cmd
  /\ UNCHANGED <<kind, builder, gone>>

\* The command, or who has its streams, closes them: g.Wait returns.
StreamsClose(n) ==
  /\ Goto(n, "copy", "wait")
  /\ UNCHANGED <<kind, cmd, builder, gone, docker>>

CommandEnds(n) ==
  /\ cmd[n] = "running"
  /\ \E r \in {"done", "bad"} : cmd' = [cmd EXCEPT ![n] = r]
  /\ UNCHANGED <<kind, at, builder, gone, docker>>

WaitForExit_NoContext(n) ==  \* mutant: looks with a context of its own
  /\ \/ DockerFails /\ Goto(n, "wait", "failed")
     \/ Works /\ cmd[n] = "done" /\ Goto(n, "wait", "ok")
     \/ Works /\ cmd[n] = "bad" /\ Goto(n, "wait", "failed")
  /\ UNCHANGED <<kind, cmd, builder, gone>>

\* ... and inspect until the command has ended.
WaitForExit(n) ==
  /\ \/ CallFails(n) /\ Goto(n, "wait", "failed")
     \/ CallWorks(n) /\ cmd[n] = "done" /\ Goto(n, "wait", "ok")
     \/ CallWorks(n) /\ cmd[n] = "bad" /\ Goto(n, "wait", "failed")
  /\ UNCHANGED <<kind, cmd, builder, gone>>

ExecStep(n) == CreateExec(n) \/ AttachExec(n) \/ WaitForExit(n)
-----------------------------------------------------------------------------
\* gobuild.Build: pull the builder's image, create, attach, start, wait.
Pull(n) ==
  /\ Call(n, "pull", "make", "failed")
  /\ UNCHANGED <<kind, cmd, builder, gone>>

\* A create that was cut off may have made a builder.  Build does not know its ID and
\* returns: it stays until pruneDocker finds it a day old.
CreateBuilder(n) ==
  /\ Call(n, "make", "join", "failed")
  /\ \E b \in IF at'[n] = "join" THEN {"created"} ELSE {"none", "orphan"} :
       builder' = [builder EXCEPT ![n] = b]
  /\ UNCHANGED <<kind, cmd, gone>>

AttachBuilder_NoRemove(n) == \* mutant: an early return without taking back
  /\ Call(n, "join", "start", "failed")
  /\ UNCHANGED <<kind, cmd, builder, gone>>

AttachBuilder(n) ==
  /\ Call(n, "join", "start", "kill")
  /\ UNCHANGED <<kind, cmd, builder, gone>>

StartBuilder(n) ==
  /\ Call(n, "start", "build", "kill")
  /\ \/ builder' = [builder EXCEPT ![n] = "running"]
     \/ at'[n] = "kill" /\ UNCHANGED builder
  /\ UNCHANGED <<kind, cmd, gone>>

\* tryContainerRemove: the kill has the action's context, the removal one of its own;
\* errors are logged.  Docker removes a builder that ends (AutoRemove), kills only one
\* that runs, and does not remove one that does.
KillBuilder(n) ==
  /\ Call(n, "kill", "remove", "remove")
  /\ \/ ~Cancelled(n) /\ Works /\ builder' = [builder EXCEPT ![n] = IF @ = "running" THEN "bad" ELSE @]
     \/ CallFails(n) /\ UNCHANGED builder
  /\ UNCHANGED <<kind, cmd, gone>>

RemoveBuilder(n) ==
  /\ Goto(n, "remove", "failed")
  /\ \/ Works /\ builder' = [builder EXCEPT ![n] = IF @ = "created" THEN "none" ELSE @]
     \/ DockerFails /\ UNCHANGED builder
  /\ UNCHANGED <<kind, cmd, gone>>

BuilderEnds(n) ==
  /\ builder[n] = "running"
  /\ \E r \in {"done", "bad"} : builder' = [builder EXCEPT ![n] = r]
  /\ UNCHANGED <<kind, at, cmd, gone, docker>>

\* The select on resultC and errC; then tar is run in the container, with the tarball.
EndBuild(n) ==
  /\ \/ Works /\ builder[n] = "done" /\ Goto(n, "build", "create")
     \/ Works /\ builder[n] = "bad" /\ Goto(n, "build", "failed")
     \/ CallFails(n) /\ Goto(n, "build", "failed")
  /\ UNCHANGED <<kind, cmd, builder, gone>>

BuildStep(n) ==
  \/ Pull(n) \/ CreateBuilder(n) \/ AttachBuilder(n) \/ StartBuilder(n)
  \/ KillBuilder(n) \/ RemoveBuilder(n) \/ EndBuild(n)
-----------------------------------------------------------------------------
HangUp ==
  /\ ~gone /\ at[Root] \notin Over
  /\ gone' = TRUE
  /\ UNCHANGED <<kind, at, cmd, builder, docker>>

Step(n) == \/ \E p \in Node : Perform(p, n)
           \/ EndOrdered(n) \/ EndParallel(n) \/ ExecStep(n) \/ BuildStep(n)
World(n) == StreamsClose(n) \/ CommandEnds(n) \/ BuilderEnds(n)

Next == HangUp \/ \E n \in Node : Step(n) \/ World(n)

Spec == Init /\ [][Next]_vars

\* The server's goroutines go on.  Commands and builders need not end, nor streams close.
FairSpec == Spec /\ \A n \in Node : WF_vars(Step(n))
-----------------------------------------------------------------------------
\* A list that succeeds has succeeded altogether: every command in it has ended with
\* code 0, in groups and nested lists too.
SuccessIsWhole ==
  at[Root] = "ok" => \A n \in Node : kind[n] \in Leaves => cmd[n] = "done"

\* An ordered list goes on only when all that the earlier actions began has ended well:
\* no command of theirs runs beside a later action.
InOrder ==
  \A p \in Node : \A i, j \in Children(p) :
    kind[p] = "ordered" /\ Earlier(i, j) /\ at[j] # "idle" =>
      \A m \in Within(i) : at[m] = "ok" /\ cmd[m] # "running"

\* An action that has returned has left no goroutine behind: nothing under it calls
\* Docker any more, or is going to, while the container is removed.
QuietBelow ==
  \A n \in Node : at[n] \in Over => \A m \in Under(n) : at[m] \in Over \cup {"idle"}

\* The whole of it, with success and failure: performAction is a tree of calls.
Seen(a) == IF a \in Over \cup {"idle"} THEN a ELSE "working"
Calls == INSTANCE CallTree WITH
  Top <- Root,
  Below <- [n \in Node |-> Under(n)], Direct <- [n \in Node |-> Children(n)],
  st <- [n \in Node |-> Seen(at[n])]

ImplementsCallTree == Calls!Spec

\* A command is left to run in the container only if its action has failed, because it
\* was cancelled or a call to Docker failed.
LeftRunning ==
  \A n \in Node : cmd[n] = "running" /\ at[n] \in Over =>
    at[n] = "failed" /\ (Cancelled(n) \/ docker < DockerFaults)

\* An action fails for a reason of its own: a failing command, build or call, an unknown
\* action, or a cancellation that was meant for it.
Culprit(m) == kind[m] = "unknown" \/ cmd[m] = "bad" \/ builder[m] = "bad"
FailsForAReason ==
  \A n \in Node : at[n] = "failed" =>
    gone \/ docker < DockerFaults \/ \E m \in Node : Culprit(m)

\* A builder that was never started does not go by itself; one that runs is removed when it
\* ends.  An action that has returned leaves one that it knows of only after two failures,
\* however often it is cancelled, and one that it does not know of only where the create
\* itself was cancelled or failed.
OnlyOneFault == DockerFaults - docker = 1 /\ ~gone /\ \A m \in Node : ~Culprit(m)
BuilderGoes ==
  \A n \in Node :
    /\ docker = DockerFaults \/ OnlyOneFault => ~(at[n] \in Over /\ builder[n] = "created")
    /\ builder[n] = "orphan" => at[n] = "failed" /\ (Cancelled(n) \/ docker < DockerFaults)

\* When commands and builders end and streams close, the list is performed to its end.
Held(n) == \/ at[n] = "copy"
           \/ at[n] = "wait" /\ cmd[n] = "running"
           \/ at[n] = "build" /\ builder[n] = "running"
ListEnds == (\A n \in Node : []<>~Held(n)) => <>(at[Root] \in Over)

\* Once the client has hung up the list ends although commands and builders go on, if
\* only their streams close.
CancelReturns == (\A n \in Node : []<>(at[n] # "copy")) => (gone ~> at[Root] \in Over)
=============================================================================
