---------------------------- MODULE MCLifecycle ----------------------------
(* Lifecycle for TLC: the calls that are sent.                              *)
EXTENDS Lifecycle, TLC

Submitted == {c \in TaskCalls : c.sig = "submit_implementation"}

Rejections  == {"reject_task", "reject_plan", "reject_review"}
NoRejection == {c \in Calls : c.sig \notin Rejections}

\* One text for every signal, and another to submit a task with once more: a
\* plan by its owner, an implementation by a pull request.
FirstText   == CHOOSE p \in Payloads : TRUE
Resubmitted ==
    {c \in Calls : /\ c.sig \notin {"unlock", "close"}
                   /\ c.pay \in Payloads \ {FirstText} => c.sig = "submit_plan"}
PullRequest == {c \in Submitted : c.pay # FirstText}

\* Enough for a pull request to find a task as it no longer is.
Few == {c \in Calls : c.sig \in {"open", "approve_task", "assign_task", "submit_plan",
                                 "approve_plan", "defer_task"}}

Symmetry == Permutations(Tasks) \cup Permutations(Requests)
=============================================================================
