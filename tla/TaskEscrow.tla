------------------------------ MODULE TaskEscrow ------------------------------
(***************************************************************************)
(* What the marketplace promises about the money of a task: an order is    *)
(* open until it is decided, it is decided once, and it is paid for, once, *)
(* exactly when it is completed and credits are due for it.                *)
(***************************************************************************)
EXTENDS Naturals

CONSTANT Tasks

VARIABLES
  due,      \* completing the task costs credits; never changes
  outcome,  \* "open", or how the task ended
  paid      \* payments made for the task

vars == <<due, outcome, paid>>

Outcomes == {"open", "completed", "failed", "canceled"}

Init ==
  /\ due \in [Tasks -> BOOLEAN]
  /\ outcome = [t \in Tasks |-> "open"]
  /\ paid = [t \in Tasks |-> 0]

Complete(t) ==
  /\ outcome[t] = "open"
  /\ outcome' = [outcome EXCEPT ![t] = "completed"]
  /\ paid' = [paid EXCEPT ![t] = IF due[t] THEN @ + 1 ELSE @]
  /\ UNCHANGED due

Release(t) ==
  /\ outcome[t] = "open"
  /\ \E o \in {"failed", "canceled"} : outcome' = [outcome EXCEPT ![t] = o]
  /\ UNCHANGED <<due, paid>>

Next == \E t \in Tasks : Complete(t) \/ Release(t)

Spec == Init /\ [][Next]_vars
=============================================================================
