---------------------------- MODULE AbstractSync ----------------------------
(***************************************************************************)
(* What the sync coordinator promises, without goroutines or a mutex: a    *)
(* service that executes one job at a time, that remembers the error of    *)
(* the last execution only until the next one begins, and that eventually  *)
(* completes what it began.                                                *)
(***************************************************************************)

CONSTANTS
  Jobs,     \* what a run can be asked to sync
  Errors,   \* the ways a run can end in error
  Idle,     \* no job is being executed
  NoError

VARIABLES
  current,  \* the job being executed, or Idle
  error     \* error of the last completed execution, NoError once another began

vars == <<current, error>>

Init ==
  /\ current = Idle
  /\ error = NoError

\* A request is accepted: only when no job is being executed.
Begin(j) ==
  /\ current = Idle
  /\ current' = j
  /\ error' = NoError

\* The job being executed ends, well or in error.
Complete ==
  /\ current # Idle
  /\ current' = Idle
  /\ error' \in Errors \union {NoError}

Next ==
  \/ \E j \in Jobs : Begin(j)
  \/ Complete

SafeSpec == Init /\ [][Next]_vars

Spec == SafeSpec /\ WF_vars(Complete)
=============================================================================
