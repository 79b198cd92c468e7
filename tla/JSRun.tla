-------------------------------- MODULE JSRun --------------------------------
(***************************************************************************)
(* Runtime.Run of pkg/js: a script under a context.                        *)
(*                                                                         *)
(* Run starts a goroutine, the watcher, which waits for the context or for *)
(* the channel stop, runs the script, and on its way out sends to stop.    *)
(* The channel has no buffer, so the send needs the watcher as receiver.   *)
(***************************************************************************)
VARIABLES
  at,         \* where Run is
  watcher,    \* where the goroutine is
  cancelled,  \* the context
  interrupt   \* the virtual machine has been told to stop

vars == <<at, watcher, cancelled, interrupt>>

TypeOK ==
  /\ at \in {"script", "defer", "returned"}
  /\ watcher \in {"select", "stopped", "left"}
  /\ cancelled \in BOOLEAN /\ interrupt \in BOOLEAN

Init == at = "script" /\ watcher = "select" /\ cancelled = FALSE /\ interrupt = FALSE

Cancel ==
  /\ ~cancelled
  /\ cancelled' = TRUE
  /\ UNCHANGED <<at, watcher, interrupt>>

\* The watcher's second case.
Interrupt ==
  /\ watcher = "select" /\ cancelled
  /\ watcher' = "left" /\ interrupt' = TRUE
  /\ UNCHANGED <<at, cancelled>>

\* RunString and exportViaJSON return, with a value or an error.
ScriptEnds ==
  /\ at = "script"
  /\ at' = "defer"
  /\ UNCHANGED <<watcher, cancelled, interrupt>>

\* The deferred function: the send meets the watcher's first case.
SendStop ==
  /\ at = "defer" /\ watcher = "select"
  /\ at' = "returned" /\ watcher' = "stopped"
  /\ UNCHANGED <<cancelled, interrupt>>

Next == Cancel \/ Interrupt \/ ScriptEnds \/ SendStop

Spec == Init /\ [][Next]_vars

\* The goroutines go on, and the virtual machine looks at its interrupt between two
\* instructions.  A script that is left alone may run for ever.
FairSpec == Spec /\ WF_vars(Interrupt) /\ WF_vars(interrupt /\ ScriptEnds) /\ WF_vars(SendStop)
-----------------------------------------------------------------------------
\* js.go, Run: "If the error is due to an interrupt, then attempt to extract the
\* InterruptedError's value as an error and return it instead".  The interrupted Run
\* gets no further than its send to stop: who interrupts is the only receiver.
InterruptReturns == interrupt ~> at = "returned"
=============================================================================
