------------------------- MODULE SignalTableProofs -------------------------
(***************************************************************************)
(* What the proofs of Lifecycle and Mirror need to know of the table of    *)
(* signals: the fields of a call, and where a transition starts and ends.  *)
(***************************************************************************)
EXTENDS SignalTable, TLAPS

Sigs == {"approve_task", "reject_task", "assign_task", "submit_plan",
         "approve_plan", "reject_plan", "submit_implementation",
         "approve_review", "reject_review", "defer_task"}

\* A task call names a task and one of the ten signals.
LEMMA TaskCallFields ==
    ASSUME NEW c \in TaskCalls
    PROVE  c.on \in Tasks /\ c.sig \in Sigs
<1>1. ASSUME NEW s \in Sigs, NEW t \in Tasks, NEW role, NEW p, c = Call(s, t, role, p)
      PROVE  c.on \in Tasks /\ c.sig \in Sigs
  BY <1>1 DEF Call
<1>2. \E s \in Sigs, t \in Tasks : \E role, p : c = Call(s, t, role, p)
  BY DEF TaskCalls, Sigs
<1> QED
  BY <1>1, <1>2

\* An item call names the work item.
LEMMA ItemCallFields ==
    ASSUME NEW c \in ItemCalls
    PROVE  c.on = Item /\ c.sig \in {"open", "lock", "unlock", "close"}
<1>1. ASSUME NEW s \in {"open", "lock", "unlock", "close"}, NEW p,
             c = Call(s, Item, "admin", p)
      PROVE  c.on = Item /\ c.sig \in {"open", "lock", "unlock", "close"}
  BY <1>1 DEF Call
<1>2. \E s \in {"open", "lock", "unlock", "close"} : \E p : c = Call(s, Item, "admin", p)
  BY DEF ItemCalls, UnlockCall
<1> QED
  BY <1>1, <1>2

\* A signal that runs no W5 neither finds nor leaves a task finished.
LEMMA Table ==
    ASSUME NEW s \in Sigs
    PROVE  /\ TaskTransition[s].to \in TaskStatus
           /\ TaskTransition[s].from \subseteq TaskStatus
           /\ TaskTransition[s].from \cap TaskTerminal = {}
           /\ TaskTransition[s].derives \in {"none", "W2", "W5"}
           /\ TaskTransition[s].derives # "W5" =>
                  TaskTransition[s].to \notin TaskTerminal
  BY DEF Sigs, TaskTransition, TaskStatus, TaskTerminal, ApproveTask, RejectTask,
         AssignTask, SubmitPlan, ApprovePlan, RejectPlan, SubmitImplementation,
         ApproveReview, RejectReview, DeferTask

LEMMA ItemTable ==
    ASSUME NEW s \in {"open", "lock", "unlock", "close"}
    PROVE  /\ ItemTransition[s].to \in ItemStatus
           /\ ItemTransition[s].to # "absent"
           /\ ItemTransition[s].to \in {"ready", "closed"} =>
                  ItemTransition[s].from = "ready"
  BY DEF ItemTransition, ItemStatus, OpenWorkItem, LockWorkItem, UnlockWorkItem,
         CloseWorkItem

LEMMA DerivedStatus ==
    ASSUME NEW d, NEW i, NEW seen
    PROVE  Derived(d, i, seen) \in {i, "in_progress", "ready"}
  BY DEF Derived

\* An assignment names a dev or an agent.
LEMMA AssignPayload ==
    ASSUME NEW c \in TaskCalls, c.sig = "assign_task"
    PROVE  c.pay \in Assignees
<1>1. ASSUME NEW t \in Tasks, NEW a \in Assignees, c = Call("assign_task", t, "admin", a)
      PROVE  c.pay \in Assignees
  BY <1>1 DEF Call
<1>2. ASSUME NEW s, NEW t, NEW role, NEW p, s # "assign_task", c = Call(s, t, role, p)
      PROVE  FALSE
  BY <1>2 DEF Call
<1>3. \/ \E t \in Tasks, a \in Assignees : c = Call("assign_task", t, "admin", a)
      \/ \E s \in Sigs \ {"assign_task"} : \E t, role, p : c = Call(s, t, role, p)
  BY DEF TaskCalls, Sigs
<1> QED
  BY <1>1, <1>2, <1>3

=============================================================================
