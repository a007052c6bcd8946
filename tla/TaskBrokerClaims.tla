--------------------------- MODULE TaskBrokerClaims ---------------------------
(***************************************************************************)
(* What the documentation, the docstrings and the comments of the          *)
(* repository say of the task broker, where the code does otherwise.  Each *)
(* is checked by a run that finds a counterexample.  Another of those      *)
(* statements is the property PaidAtMostOnce of TaskBroker, checked beyond *)
(* the condition under which it holds.                                     *)
(***************************************************************************)
EXTENDS TaskBroker

Becomes(t, st) == status[t] # st /\ status'[t] = st

Returned(t) ==
  account'[Creator(t)].reserved = account[Creator(t)].reserved - Quoted(t)

\* "Any reserved credits are released back to the caller's account": canceling
\* a task returns what was reserved for it (api/tasks.py, cancel_task).
CancelReturnsCredits ==
  [][\A t \in Tasks : Becomes(t, "canceled") /\ holds[t] > 0 => Returned(t)]_vars
=============================================================================
