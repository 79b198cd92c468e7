------------------------------ MODULE CallTree ------------------------------
(***************************************************************************)
(* What PerformActions promises to the one who gave it a list: the calls   *)
(* of performAction form a tree.  A call begins under one that is at work; *)
(* it returns when nothing under it is at work, and nothing under it       *)
(* begins afterwards.  It succeeds only if everything under it has begun   *)
(* and succeeded, and fails only if a call directly under it has failed,   *)
(* or on its own account when it makes no calls.                           *)
(***************************************************************************)
CONSTANTS Node, Top,
          Below,     \* Below[c]: the calls that may be made under c
          Direct     \* Direct[c]: the ones c makes itself

VARIABLE st          \* "idle" -> ("working" ->) "ok" or "failed"

vars == <<st>>

TypeOK == st \in [Node -> {"idle", "working", "ok", "failed"}]

Init == st = [c \in Node |-> IF c = Top THEN "working" ELSE "idle"]

Move(c, from, to) == st[c] = from /\ st' = [st EXCEPT ![c] = to]

\* A call is made, or refused at once.
Begin(p, c) ==
  /\ c \in Direct[p] /\ st[p] = "working"
  /\ \/ Move(c, "idle", "working")
     \/ Below[c] = {} /\ Move(c, "idle", "failed")

Succeed(c) ==
  /\ \A d \in Below[c] : st[d] = "ok"
  /\ Move(c, "working", "ok")

Fail(c) ==
  /\ \A d \in Below[c] : st[d] # "working"
  /\ Below[c] = {} \/ \E d \in Direct[c] : st[d] = "failed"
  /\ Move(c, "working", "failed")

Next == \E c \in Node : (\E p \in Node : Begin(p, c)) \/ Succeed(c) \/ Fail(c)

Spec == Init /\ [][Next]_vars
=============================================================================
