-------------------------------- MODULE Task --------------------------------
(***************************************************************************)
(* What a runner of pkg/sched promises about its function, seen by the one *)
(* who stops it: the function may be called again and again, after Stop    *)
(* has been called as well; but Stop returns only while it is not running, *)
(* and then it is never called again.  Once Stop was called, it returns if *)
(* the function keeps returning.                                           *)
(***************************************************************************)

VARIABLES asked,     \* Stop has been called
          working,   \* the function is running
          stopped    \* a call of Stop has returned

vars == <<asked, working, stopped>>

TypeOK == {asked, working, stopped} \subseteq BOOLEAN

Init == asked = FALSE /\ working = FALSE /\ stopped = FALSE

Begin ==
  /\ ~working /\ ~stopped
  /\ working' = TRUE
  /\ UNCHANGED <<asked, stopped>>

End ==
  /\ working
  /\ working' = FALSE
  /\ UNCHANGED <<asked, stopped>>

Ask ==
  /\ ~asked
  /\ asked' = TRUE
  /\ UNCHANGED <<working, stopped>>

StopReturns ==
  /\ asked /\ ~working /\ ~stopped
  /\ stopped' = TRUE
  /\ UNCHANGED <<asked, working>>

Next == Begin \/ End \/ Ask \/ StopReturns

Spec == Init /\ [][Next]_vars

\* Stop waits for a moment between two calls, and finds one in the end.
FairSpec == Spec /\ SF_vars(StopReturns)
=============================================================================
