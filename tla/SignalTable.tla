---------------------------- MODULE SignalTable ----------------------------
(***************************************************************************)
(* The lifecycle signals of one work item and its tasks, as data: what     *)
(* each signal requires and does (lifecycle/tasks.py, work_items.py), who  *)
(* may send it (router.py, approval_matrix.py) and what its idempotency    *)
(* key is made of (service.py, idempotency.py).                            *)
(*                                                                         *)
(* A call is one request: the signal, the row it names, the role header    *)
(* and the rest of the payload.  The key is a hash of entity, signal name  *)
(* and payload, so a call stands for its own key: calls carry a role only  *)
(* where the role is part of the payload, and "none" where the payload is  *)
(* empty.                                                                  *)
(***************************************************************************)
CONSTANTS
    Tasks,      \* tasks of the work item
    Item,       \* the work item
    Payloads,   \* texts a caller may send: feedback, reason, commit, notes
    SoloDev     \* settings.solo_dev_mode

ASSUME ItemAssumption == Item \notin Tasks
ASSUME SoloDevAssumption == SoloDev \in BOOLEAN
\* A work item without tasks never becomes ready (FEAT-006, edge cases).
ASSUME TasksAssumption == Tasks # {}

TaskStatus == {"proposed", "approved", "assigning", "planning", "plan_review",
               "implementing", "impl_review", "done", "deferred"}
TaskTerminal == {"done", "deferred"}
ItemStatus == {"open", "in_progress", "locked", "ready", "closed"}
Assignees  == {"dev", "agent"}
Roles      == {"admin", "dev"}

-----------------------------------------------------------------------------
(* What each transition requires and writes; "derives" names the parent's  *)
(* derivation its signal runs afterwards in the same transaction.          *)

ApproveTask  == [from |-> {"proposed"}, to |-> "assigning", derives |-> "W2"]
RejectTask   == [from |-> {"proposed"}, to |-> "proposed", derives |-> "none"]
AssignTask   == [from |-> {"assigning"}, to |-> "planning", derives |-> "none"]
SubmitPlan   == [from |-> {"planning"}, to |-> "plan_review", derives |-> "none"]
ApprovePlan  == [from |-> {"plan_review"}, to |-> "implementing", derives |-> "none"]
RejectPlan   == [from |-> {"plan_review"}, to |-> "planning", derives |-> "none"]
SubmitImplementation ==
    [from |-> {"implementing"}, to |-> "impl_review", derives |-> "none"]
ApproveReview ==
    [from |-> {"impl_review"}, to |-> "done", derives |-> "W5"]
RejectReview ==
    [from |-> {"impl_review"}, to |-> "implementing", derives |-> "none"]
DeferTask ==
    [from |-> TaskStatus \ TaskTerminal, to |-> "deferred", derives |-> "W5"]

TaskTransition ==
    [approve_task |-> ApproveTask, reject_task |-> RejectTask,
     assign_task |-> AssignTask, submit_plan |-> SubmitPlan,
     approve_plan |-> ApprovePlan, reject_plan |-> RejectPlan,
     submit_implementation |-> SubmitImplementation,
     approve_review |-> ApproveReview, reject_review |-> RejectReview,
     defer_task |-> DeferTask]

OpenWorkItem   == [from |-> "absent", to |-> "open"]
LockWorkItem   == [from |-> "in_progress", to |-> "locked"]
UnlockWorkItem == [from |-> "locked", to |-> "in_progress"]
CloseWorkItem  == [from |-> "ready", to |-> "closed"]

ItemTransition ==
    [open |-> OpenWorkItem, lock |-> LockWorkItem, unlock |-> UnlockWorkItem,
     close |-> CloseWorkItem]

PlanReview == {"approve_plan", "reject_plan"}
ImplReview == {"approve_review", "reject_review"}

-----------------------------------------------------------------------------
(* Calls *)

Call(sig, on, role, pay) == [sig |-> sig, on |-> on, role |-> role, pay |-> pay]

UnlockCall == Call("unlock", Item, "admin", "none")

ItemCalls ==
    {UnlockCall} \cup {Call(s, Item, "admin", p) : s \in {"open", "lock", "close"},
                                                   p \in Payloads}

TaskCalls ==
    {Call("approve_task", t, "admin", "none") : t \in Tasks}
    \cup {Call("assign_task", t, "admin", a) : t \in Tasks, a \in Assignees}
    \cup {Call(s, t, "admin", p) : s \in {"reject_task", "submit_plan",
                                          "submit_implementation", "defer_task"},
                                   t \in Tasks, p \in Payloads}
    \cup {Call(s, t, role, "none") : s \in {"approve_plan", "approve_review"},
                                     t \in Tasks, role \in Roles}
    \cup {Call(s, t, role, p) : s \in {"reject_plan", "reject_review"},
                                t \in Tasks, role \in Roles, p \in Payloads}

Calls == ItemCalls \cup TaskCalls

-----------------------------------------------------------------------------
(* Who may decide *)

\* The role a decision needs; "none" is a task without active assignment.
ApprovalMatrix(stage, assignee) ==
    CASE stage = "plan" -> IF assignee = "dev" THEN "dev" ELSE "admin"
      [] stage = "impl" -> IF SoloDev THEN "admin" ELSE "dev"

MayDecide(c, assignee) ==
    /\ c.sig \in PlanReview => c.role = ApprovalMatrix("plan", assignee)
    /\ c.sig \in ImplReview => c.role = ApprovalMatrix("impl", assignee)

\* Mutant: one finished task is enough.
Derived_Any(derives, item, seen) ==
    IF derives = "W2" /\ item = "open" THEN "in_progress"
    ELSE IF derives = "W5" /\ item = "in_progress"
            /\ \E t \in Tasks : seen[t] \in TaskTerminal THEN "ready"
    ELSE item

\* Mutant: the parent gets the status of its last task.
Derived_TaskStatus(derives, item, seen) ==
    IF derives = "W2" /\ item = "open" THEN "in_progress"
    ELSE IF derives = "W5" /\ item = "in_progress"
            /\ \A t \in Tasks : seen[t] \in TaskTerminal THEN "done"
    ELSE item

\* W2 and W5 on the parent, given its status and what the transaction sees
\* of the tasks.
Derived(derives, item, seen) ==
    IF derives = "W2" /\ item = "open" THEN "in_progress"
    ELSE IF derives = "W5" /\ item = "in_progress"
            /\ \A t \in Tasks : seen[t] \in TaskTerminal THEN "ready"
    ELSE item
=============================================================================
