---------------------------- MODULE WorkItemFlow ----------------------------
(***************************************************************************)
(* What the lifecycle signals promise: each is one atomic step that checks *)
(* its precondition, writes the task, derives the work item's status and   *)
(* is remembered, so that it takes effect at most once.  One signal is no  *)
(* such step: a pull request may submit a task on the strength of what its *)
(* status was.  Transactions, row locks and the order of statements are    *)
(* the business of Lifecycle, which implements this.                       *)
(***************************************************************************)
EXTENDS SignalTable

VARIABLES
    item,      \* status of the work item
    task,      \* status of each task
    assignee,  \* type of the active assignment of each task
    keys,      \* calls that took effect
    reopened   \* tasks whose terminal status a late submission wrote over

vars == <<item, task, assignee, keys, reopened>>

Init ==
    /\ item = "absent"
    /\ task = [t \in Tasks |-> "absent"]
    /\ assignee = [t \in Tasks |-> "none"]
    /\ keys = {}
    /\ reopened = {}

\* The seeds of a new work item: all at once, and only if it has none.
Generate ==
    /\ item # "absent"
    /\ \A t \in Tasks : task[t] = "absent"
    /\ task' = [t \in Tasks |-> "proposed"]
    /\ UNCHANGED <<item, assignee, keys, reopened>>

Takes(c) == c \notin keys /\ keys' = keys \cup {c}

ItemSignal(c) ==
    /\ Takes(c)
    /\ item = ItemTransition[c.sig].from
    /\ item' = ItemTransition[c.sig].to
    /\ UNCHANGED <<task, assignee, reopened>>

\* The tasks as they were before the late submissions.
Before(seen) == [t \in Tasks |-> IF t \in reopened THEN "done" ELSE seen[t]]

\* The derivation may have counted before a late submission was committed.
TaskSignal(c) ==
    LET tr == TaskTransition[c.sig] IN
    /\ Takes(c)
    /\ task[c.on] \in tr.from
    /\ MayDecide(c, assignee[c.on])
    /\ task' = [task EXCEPT ![c.on] = tr.to]
    /\ assignee' = [assignee EXCEPT ![c.on] =
                        IF c.sig = "assign_task" THEN c.pay ELSE @]
    /\ \E seen \in {task', Before(task')} : item' = Derived(tr.derives, item, seen)
    /\ reopened' = reopened

\* A pull request judged by a status read earlier: the task was being
\* implemented then, and what happened to it since is written over.
LateSubmission(c) ==
    /\ Takes(c) /\ c.sig = "submit_implementation"
    /\ \E d \in keys : d.sig = "approve_plan" /\ d.on = c.on
    /\ task[c.on] \in {"impl_review"} \cup TaskTerminal
    /\ task' = [task EXCEPT ![c.on] = "impl_review"]
    /\ reopened' = reopened \cup ({c.on} \cap {t \in Tasks : task[t] \in TaskTerminal})
    /\ UNCHANGED <<item, assignee>>

Next ==
    \/ Generate
    \/ \E c \in ItemCalls : ItemSignal(c)
    \/ \E c \in TaskCalls : TaskSignal(c) \/ LateSubmission(c)

Spec == Init /\ [][Next]_vars
=============================================================================
