------------------------------ MODULE MCMirror ------------------------------
(* Mirror for TLC: requests, deliveries and texts are interchangeable. *)
EXTENDS Mirror, TLC

\* The decisions on a task up to its plan.
Planning == {"assign_task", "submit_plan"}

\* The signals that derive the work item's status or are sent on it.
Deriving == {"approve_task", "defer_task", "submit_implementation"}

Symmetry == Permutations(Requests) \cup Permutations(Hooks) \cup Permutations(Payloads)
=============================================================================
