---------------------------- MODULE SequentialRun ----------------------------
(***************************************************************************)
(* What the rows of one deterministic run promise to whoever reads them:   *)
(* steps are begun one at a time and in order, each on the result of the   *)
(* one before, and none is touched again once it is settled; a run is      *)
(* closed as done only with every step completed and remembered; and after *)
(* its task is over nothing happens to it but a late cancel and the sweep  *)
(* of a restart.  A cancel is the one verdict that the task may overrule,  *)
(* and may be given at any time.                                           *)
(***************************************************************************)
EXTENDS Naturals

CONSTANT Limit      \* the step budget

VARIABLES
    run,     \* the run's status and the reason it was closed for
    steps,   \* the steps: none, open, completed or failed
    mem,     \* the last step whose result is remembered
    task     \* none, live or over

vars == <<run, steps, mem, task>>

Steps == 1 .. Limit

Init ==
    /\ run = [status |-> "absent", reason |-> "none"]
    /\ steps = [k \in Steps |-> "none"]
    /\ mem = 0
    /\ task = "none"

\* Steps 1 .. mem are completed and nothing else was begun.
Caught == \A k \in Steps : steps[k] = IF k <= mem THEN "completed" ELSE "none"

\* Not closed, or only by a cancel.
Open == run.reason \in {"none", "cancelled"}

Accept ==
    /\ task = "none" /\ task' = "live"
    /\ run' = [run EXCEPT !.status = "pending"]
    /\ UNCHANGED <<steps, mem>>

\* Taken up before the first step; paused and resumed in the middle of one.
Mark ==
    /\ task = "live" /\ Open
    /\ \/ Caught /\ mem = 0 /\ run' = [run EXCEPT !.status = "running"]
       \/ /\ \E k \in Steps : steps[k] = "open"
          /\ \E s \in {"running", "paused"} : run' = [run EXCEPT !.status = s]
    /\ UNCHANGED <<steps, mem, task>>

Begin ==
    /\ task = "live" /\ Caught /\ mem < Limit
    /\ run.status = "running" \/ run.reason = "cancelled"
    /\ steps' = [steps EXCEPT ![mem + 1] = "open"]
    /\ UNCHANGED <<run, mem, task>>

Settle ==
    /\ task = "live"
    /\ \E k \in Steps, out \in {"completed", "failed"} :
         steps[k] = "open" /\ steps' = [steps EXCEPT ![k] = out]
    /\ UNCHANGED <<run, mem, task>>

Remember ==
    /\ task = "live"
    /\ mem < Limit /\ steps[mem + 1] \in {"completed", "failed"}
    /\ mem' = mem + 1
    /\ UNCHANGED <<run, steps, task>>

Close(status, reason) ==
    /\ run' = [status |-> status, reason |-> reason]
    /\ UNCHANGED <<steps, mem>>

\* The task closes its run, and is over but for a cancel that hits it there.
\* The budget comes before what the flow says.
Finish ==
    /\ task = "live" /\ Open /\ task' \in {"live", "over"}
    /\ \/ /\ Caught /\ mem < Limit
          /\ \E r \in {"done_node", "policy_terminated"} : Close("completed", r)
       \/ Caught /\ mem = Limit /\ Close("failed", "budget_exceeded")
       \/ Close("failed", "error")
       \/ Close("cancelled", "cancelled")

Cancel ==
    /\ task # "none"
    /\ Close("cancelled", "cancelled")
    /\ UNCHANGED task

\* The task returns, is cut off, or goes down with the process.
Leave ==
    /\ task = "live" /\ task' = "over"
    /\ UNCHANGED <<run, steps, mem>>

Sweep ==
    /\ task = "over" /\ run.status \in {"running", "paused"}
    /\ Close("failed", "error")
    /\ UNCHANGED task

Next ==
    \/ Accept \/ Mark \/ Begin \/ Settle \/ Remember
    \/ Finish \/ Cancel \/ Leave \/ Sweep

Spec == Init /\ [][Next]_vars
=============================================================================
