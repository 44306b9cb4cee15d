------------------------------- MODULE LlmLoop -------------------------------
(***************************************************************************)
(* One run driven by the policy loop (runtime.py), with everything that    *)
(* touches it at the same time: the webhooks of the engine that settle a   *)
(* step and wake the loop (service.py ingest_engine_event,                 *)
(* reconciliation.py), the operator's signals, cancel_run and the          *)
(* supervisor's shutdown (supervisor.py).                                  *)
(*                                                                         *)
(* The loop advances from one await to the next.  The wake event of a run  *)
(* is one asyncio.Event: webhooks, cancel and shutdown set it, a waiting   *)
(* step clears it and the stop conditions read it as the request to        *)
(* cancel.                                                                 *)
(***************************************************************************)
EXTENDS Naturals, Sequences, FiniteSets

CONSTANTS
    Nodes,          \* nodes of the agent
    Local,          \* those with a handler in LOCAL_TOOL_HANDLERS
    Pausing,        \* local nodes whose handler returns a PauseForSignal
    Correcting,     \* local nodes whose handler counts a correction
    TerminalNodes,
    Terminate,      \* the reserved tool
    Unknown,        \* a tool that is no node of the agent
    MaxSteps,       \* default_budget.max_steps
    MaxCorrections, \* lifecycle_max_corrections
    MaxSignals,     \* bound: signals the operator sends
    Engines,        \* the kinds of engine: which event types each one sends
    None

StepStatus == {"pending", "dispatched", "in_progress", "completed", "failed"}
StopReason == {"done_node", "policy_terminated", "budget_exceeded", "error",
               "cancelled"}

ASSUME NodesAssumption ==
    /\ Pausing \cup Correcting \subseteq Local /\ Local \subseteq Nodes
    /\ TerminalNodes \subseteq Nodes /\ Pausing \cap Correcting = {}
    /\ Terminate \notin Nodes \cup {Unknown} /\ Unknown \notin Nodes
    /\ None \notin Nat \cup Nodes \cup {Terminate, Unknown} \cup StopReason \cup StepStatus
ASSUME BudgetAssumption ==
    MaxSteps \in Nat \ {0} /\ MaxCorrections \in Nat /\ MaxSignals \in Nat

EventTypes == {"node_started", "node_finished", "node_failed",
               "flow_terminated"}
ASSUME EnginesAssumption == Engines \subseteq SUBSET EventTypes

Tools       == Nodes \cup {Terminate, Unknown}
RunTerminal == {"completed", "failed", "cancelled"}
Numbers     == 1 .. MaxSteps

VARIABLES
    run,      \* the runs row: status and stop_reason
    steps,    \* the steps rows, in the order they are inserted
    attempts, \* memory.correction_attempts of the task
    merged,   \* steps whose node_result went into the run's memory
    loop,     \* the coroutine: where it stands and its locals
    pending,  \* task.cancel() called, CancelledError not yet delivered
    wake,     \* the run's wake event is set
    buffer,   \* payload in the supervisor's signal buffer
    sent,     \* signals sent so far
    engine,   \* the event types this engine sends
    hook,     \* progress of the webhook of each step and event type
    req,      \* progress of cancel_run
    shutdown  \* progress of the supervisor's shutdown

rows == <<run, steps, attempts, merged>>
outside == <<sent, engine, hook, req, shutdown>>
vars == <<rows, loop, pending, wake, buffer, outside>>

\* Awaits of the loop, in the order of the code.
LoopPc == {"spawned", "marking", "top", "policy", "persist", "local", "finish",
           "signal", "dispatch", "mark", "closing", "wait", "expire", "reload", "end",
           "write", "gone"}
HookStage == {"none", "write", "wake", "done"}

StepRow == [number : Numbers, node : Tools, status : StepStatus,
            sent : BOOLEAN, result : {None} \cup Nat]
LoopState == [pc : LoopPc, guarded : BOOLEAN, why : StopReason \cup {None},
              count : 0 .. MaxSteps, last : Tools \cup {None}, err : BOOLEAN]

TypeOK ==
    /\ run \in [status : {"pending", "running"} \cup RunTerminal,
                reason : StopReason \cup {None}]
    /\ steps \in Seq(StepRow)
    /\ Len(steps) <= MaxSteps
    /\ attempts \in Nat
    /\ merged \subseteq Numbers
    /\ loop \in LoopState
    /\ pending \in BOOLEAN /\ wake \in BOOLEAN
    /\ buffer \in Nat \cup {None}
    /\ sent \in 0 .. MaxSignals
    /\ engine \in Engines
    /\ hook \in [Numbers -> [EventTypes -> HookStage]]
    /\ req \in {"none", "write", "call", "wait", "refused"}
    /\ shutdown \in {"none", "asked", "forced"}

\* The coroutine outside of _iterate, whose locals are fresh or gone.
Left(p, guarded, why) ==
    [pc |-> p, guarded |-> guarded, why |-> why, count |-> 0, last |-> None,
     err |-> FALSE]

Init ==
    /\ run = [status |-> "pending", reason |-> None]
    /\ steps = << >> /\ attempts = 0 /\ merged = {}
    /\ loop = Left("spawned", FALSE, None)
    /\ pending = FALSE /\ wake = FALSE
    /\ buffer = None /\ sent = 0
    /\ engine \in Engines
    /\ hook = [i \in Numbers |-> [t \in EventTypes |-> "none"]]
    /\ req = "none" /\ shutdown = "none"

-----------------------------------------------------------------------------
(* The coroutine *)

\* CancelledError out of an await: the except clause of run_loop, or, from
\* inside one of its except clauses (or before the first step), the task ends.
Thrown ==
    IF loop.guarded THEN Left("end", FALSE, "cancelled")
    ELSE [loop EXCEPT !.pc = "gone"]

\* The await returns and the loop goes on, unless a cancel hit the await after
\* its effect: then the effect stays and the exception comes out.
Resume(l) ==
    /\ loop' = IF pending THEN Thrown ELSE l
    /\ pending' = FALSE

Goto(p) == Resume([loop EXCEPT !.pc = p])
Erred   == Resume([loop EXCEPT !.pc = "top", !.err = TRUE])
Failed  == Resume(Left("end", FALSE, "error"))

Current == Len(steps)
Settle(status) == steps' = [steps EXCEPT ![Current].status = status]

Interrupt ==
    /\ pending /\ loop.pc # "gone"
    /\ loop' = Thrown /\ pending' = FALSE
    /\ UNCHANGED <<rows, wake, buffer, outside>>

Begin ==
    /\ loop.pc = "spawned" /\ ~pending
    /\ loop' = [loop EXCEPT !.pc = "marking", !.guarded = TRUE]
    /\ UNCHANGED <<rows, pending, wake, buffer, outside>>

MarkRunning ==
    /\ loop.pc = "marking"
    /\ run' = [run EXCEPT !.status = "running"]
    /\ Goto("top")
    /\ UNCHANGED <<steps, attempts, merged, wake, buffer, outside>>

CancelRequested == wake \/ req = "wait" \/ shutdown # "none"

OverCorrected_Never == FALSE

OverCorrected == attempts > MaxCorrections

StepsSpent_Over(l) == l.count > MaxSteps

StepsSpent(l) == l.count >= MaxSteps

\* evaluate: the first rule that matches, or None.  The tokens are not counted:
\* any call of the policy may have spent the budget.
Evaluate(l, spent) ==
    IF CancelRequested THEN "cancelled"
    ELSE IF l.err \/ OverCorrected THEN "error"
    ELSE IF StepsSpent(l) \/ spent THEN "budget_exceeded"
    ELSE IF l.last = Terminate THEN "policy_terminated"
    ELSE IF l.last \in TerminalNodes THEN "done_node"
    ELSE None

Top ==
    /\ loop.pc = "top"
    /\ \E spent \in {FALSE, loop.last # None} :
       LET why == Evaluate(loop, spent) IN
       IF why = None THEN Goto("policy") ELSE Resume(Left("end", TRUE, why))
    /\ UNCHANGED <<rows, wake, buffer, outside>>

\* The policy answers with a tool, fails, or raises anything else.
Policy ==
    /\ loop.pc = "policy"
    /\ \/ \E tool \in Tools :
            Resume([loop EXCEPT !.pc = "persist", !.last = tool])
       \/ Erred
       \/ Failed
    /\ UNCHANGED <<rows, wake, buffer, outside>>

NewStep == [number |-> loop.count + 1, node |-> loop.last,
            status |-> "pending", sent |-> FALSE, result |-> None]

\* terminate is not persisted.  A tool that is no node, or arguments its schema
\* refuses, are an error of the policy found once the step is persisted.
Rejected_Ignored == Goto("top")

Rejected == Erred

PersistPolicyCall ==
    /\ loop.pc = "persist"
    /\ \/ /\ loop.last = Terminate
          /\ Goto("top") /\ UNCHANGED steps
       \/ /\ loop.last # Terminate
          /\ steps' = Append(steps, NewStep)
          /\ \/ /\ loop.last # Unknown
                /\ Goto(IF loop.last \in Local THEN "local" ELSE "dispatch")
             \/ Rejected
    /\ UNCHANGED <<run, attempts, merged, wake, buffer, outside>>

-----------------------------------------------------------------------------
(* Local tools *)

SaveMemory ==
    /\ loop.pc = "local"
    /\ attempts' = attempts + (IF loop.last \in Correcting THEN 1 ELSE 0)
    /\ Goto("finish")
    /\ UNCHANGED <<run, steps, merged, wake, buffer, outside>>

\* The handler raises; what it was about to save is not saved.
LocalFails ==
    /\ loop.pc = "local"
    /\ Settle("failed")
    /\ Erred
    /\ UNCHANGED <<run, attempts, merged, wake, buffer, outside>>

Counted == [loop EXCEPT !.pc = "top", !.count = @ + 1]

FinishLocal ==
    /\ loop.pc = "finish"
    /\ IF loop.last \in Pausing
       THEN Settle("in_progress") /\ Goto("signal")
       ELSE Settle("completed") /\ Resume(Counted)
    /\ UNCHANGED <<run, attempts, merged, wake, buffer, outside>>

Taken_Kept == UNCHANGED buffer

Taken == buffer' = None

AwaitSignal ==
    /\ loop.pc = "signal" /\ buffer # None
    /\ Taken
    /\ steps' = [steps EXCEPT ![Current].status = "completed",
                              ![Current].result = buffer]
    /\ Resume(Counted)
    /\ UNCHANGED <<run, attempts, merged, wake, outside>>

-----------------------------------------------------------------------------
(* Engine nodes *)

\* A webhook that comes before the step has the engine's run id is refused.
Dispatch ==
    /\ loop.pc = "dispatch"
    /\ \/ Goto("mark") /\ UNCHANGED steps
       \/ Erred /\ Settle("failed")
       \/ Failed /\ UNCHANGED steps
    /\ UNCHANGED <<run, attempts, merged, wake, buffer, outside>>

MarkDispatched ==
    /\ loop.pc = "mark"
    /\ steps' = [steps EXCEPT ![Current].status = "dispatched",
                              ![Current].sent = TRUE]
    /\ Goto("closing")
    /\ UNCHANGED <<run, attempts, merged, wake, buffer, outside>>

\* The commit is visible before the loop is back from it.
StartWait ==
    /\ loop.pc = "closing"
    /\ Goto("wait")
    /\ UNCHANGED <<rows, wake, buffer, outside>>

\* clear_wake in the finally clause.
Woken ==
    /\ loop.pc = "wait" /\ wake
    /\ wake' = FALSE
    /\ Goto("reload")
    /\ UNCHANGED <<rows, buffer, outside>>

Deadline_Never == FALSE

Deadline == loop.pc = "wait"

Timeout ==
    /\ Deadline
    /\ Goto("expire")
    /\ UNCHANGED <<rows, wake, buffer, outside>>

Expire ==
    /\ loop.pc = "expire"
    /\ Settle("failed")
    /\ wake' = FALSE
    /\ Erred
    /\ UNCHANGED <<run, attempts, merged, buffer, outside>>

\* Anything but failed counts as finished.
Reload ==
    /\ loop.pc = "reload"
    /\ IF steps[Current].status = "failed"
       THEN Erred /\ UNCHANGED merged
       ELSE /\ merged' = IF steps[Current].result = None THEN merged
                         ELSE merged \cup {Current}
            /\ Resume(Counted)
    /\ UNCHANGED <<run, steps, attempts, wake, buffer, outside>>

-----------------------------------------------------------------------------
(* _terminate *)

StatusFor(reason) ==
    CASE reason \in {"done_node", "policy_terminated"} -> "completed"
      [] reason \in {"budget_exceeded", "error"}       -> "failed"
      [] reason = "cancelled"                          -> "cancelled"
      [] OTHER                                         -> "running"

\* The row is read; a terminal one is left alone.
AlreadyTerminal_Stopped == run.status \in RunTerminal \/ run.reason # None

AlreadyTerminal == run.status \in RunTerminal

ReadEnd ==
    /\ loop.pc = "end"
    /\ Goto(IF AlreadyTerminal THEN "gone" ELSE "write")
    /\ UNCHANGED <<rows, wake, buffer, outside>>

CommitEnd ==
    /\ loop.pc = "write"
    /\ run' = [status |-> StatusFor(loop.why), reason |-> loop.why]
    /\ Goto("gone")
    /\ UNCHANGED <<steps, attempts, merged, wake, buffer, outside>>

-----------------------------------------------------------------------------
(* Webhooks of the engine *)

Rank(status) ==
    CASE status = "pending"     -> 0
      [] status = "dispatched"  -> 1
      [] status = "in_progress" -> 2
      [] OTHER                  -> 3

\* _EVENT_TARGETS; None moves no step.
Target(t) ==
    CASE t = "node_started"  -> "in_progress"
      [] t = "node_finished" -> "completed"
      [] t = "node_failed"   -> "failed"
      [] OTHER               -> None

Moves(i, t) ==
    Target(t) # None /\ Rank(Target(t)) > Rank(steps[i].status)

Registered == loop.pc # "gone"

HookAt(i, t, stage) ==
    /\ hook[i][t] = stage
    /\ UNCHANGED <<attempts, merged, loop, pending, buffer, sent, engine, req,
                   shutdown>>

Unnoticed_Early == wake' = (wake \/ Registered)

Unnoticed == UNCHANGED wake

\* The event is stored, the step and the run are read.  A delivery of the same
\* event again finds it stored and does nothing.  Bound: events that come once
\* the task is over are not followed.
HookRead(i, t) ==
    /\ HookAt(i, t, "none")
    /\ t \in engine /\ Registered
    /\ i <= Len(steps) /\ steps[i].sent
    /\ t = "node_finished" => hook[i]["node_failed"] = "none"
    /\ t = "node_failed" => hook[i]["node_finished"] = "none"
    /\ hook' = [hook EXCEPT ![i][t] =
                   IF AlreadyTerminal \/ ~Moves(i, t) THEN "wake" ELSE "write"]
    /\ Unnoticed
    /\ UNCHANGED <<run, steps>>

\* node_result of an engine step; a signal's payload is its number, from 1.
FromEngine == 0

HookCommit(i, t) ==
    /\ HookAt(i, t, "write")
    /\ steps' = [steps EXCEPT ![i].status = Target(t),
                              ![i].result = IF t = "node_finished"
                                            THEN FromEngine ELSE @]
    /\ hook' = [hook EXCEPT ![i][t] = "wake"]
    /\ UNCHANGED <<run, wake>>

Wakes_Waiting == loop.pc = "wait"

Wakes == Registered

\* The loop is woken by any new event, whether or not it changed the step.
HookWake(i, t) ==
    /\ HookAt(i, t, "wake")
    /\ wake' = (wake \/ Wakes)
    /\ hook' = [hook EXCEPT ![i][t] = "done"]
    /\ UNCHANGED <<run, steps>>

-----------------------------------------------------------------------------
(* The operator *)

\* The payload overwrites what the buffer holds, repeated signals too.
SendSignal ==
    /\ sent < MaxSignals /\ ~AlreadyTerminal
    /\ sent' = sent + 1 /\ buffer' = sent + 1
    /\ UNCHANGED <<rows, loop, pending, wake, engine, hook, req, shutdown>>

CancelRead ==
    /\ req = "none"
    /\ req' = IF AlreadyTerminal THEN "refused" ELSE "write"
    /\ UNCHANGED <<rows, loop, pending, wake, buffer, sent, engine, hook,
                   shutdown>>

CancelCommit ==
    /\ req = "write"
    /\ run' = [status |-> "cancelled", reason |-> "cancelled"]
    /\ req' = "call"
    /\ UNCHANGED <<steps, attempts, merged, loop, pending, wake, buffer, sent,
                   engine, hook, shutdown>>

Reached_Unparked == loop.pc \notin {"gone", "signal"}

Reached == Registered

CancelCall ==
    /\ req = "call" /\ req' = "wait"
    /\ pending' = (pending \/ Reached)
    /\ wake' = (wake \/ Registered)
    /\ UNCHANGED <<rows, loop, buffer, sent, engine, hook, shutdown>>

Shutdown ==
    /\ shutdown = "none" /\ shutdown' = "asked"
    /\ Registered
    /\ wake' = TRUE
    /\ UNCHANGED <<rows, loop, pending, buffer, sent, engine, hook, req>>

\* The grace is over.
CancelAll ==
    /\ shutdown = "asked" /\ shutdown' = "forced"
    /\ Registered
    /\ pending' = TRUE
    /\ UNCHANGED <<rows, loop, wake, buffer, sent, engine, hook, req>>

-----------------------------------------------------------------------------

LoopStep ==
    \/ Begin \/ MarkRunning \/ Top \/ Policy \/ PersistPolicyCall
    \/ SaveMemory \/ LocalFails \/ FinishLocal \/ AwaitSignal
    \/ Dispatch \/ MarkDispatched \/ StartWait \/ Woken \/ Timeout \/ Expire \/ Reload
    \/ ReadEnd \/ CommitEnd

Handled(i, t) == HookCommit(i, t) \/ HookWake(i, t)

HookStep(i, t) == HookRead(i, t) \/ Handled(i, t)

Next ==
    \/ LoopStep \/ Interrupt
    \/ \E i \in Numbers, t \in EventTypes : HookStep(i, t)
    \/ SendSignal \/ CancelRead \/ CancelCommit \/ CancelCall
    \/ Shutdown \/ CancelAll

Spec == Init /\ [][Next]_vars

Fairness ==
    /\ WF_vars(LoopStep) /\ WF_vars(Interrupt)
    /\ \A i \in Numbers : \A t \in EventTypes : WF_vars(Handled(i, t))
    /\ WF_vars(CancelCommit) /\ WF_vars(CancelCall)

FairSpec == Spec /\ Fairness

-----------------------------------------------------------------------------
(* What the loop promises *)

Settled(i) == steps[i].status \in {"completed", "failed"}

\* A refused tool call leaves its step row behind without counting it; the
\* numbers of the rows are still 1, 2, 3, ...: the loop stops before it would
\* use the number again.
StepsNumbered == \A i \in 1 .. Len(steps) : steps[i].number = i

\* A loop that waits for a step an event has settled is woken, or the handler
\* of such an event is about to do it: the event is never cleared unseen.
NoLostWake ==
    loop.pc = "wait" /\ Settled(Current) =>
        \/ wake
        \/ \E t \in EventTypes : hook[Current][t] = "wake"

\* When the task is over the run is closed, with the status that belongs to its
\* reason, also when the first commit of the loop wrote over a cancel.  Two
\* tasks may leave their run open: one cut off by the end of the process, and a
\* crashed one whose except clause the cancel interrupts.
EndedMeansClosed ==
    loop.pc = "gone" /\ shutdown # "forced" =>
        /\ run.reason # None
        /\ run.status = StatusFor(run.reason)
             \/ (loop.why = "error" /\ req = "wait")

\* With an engine that reports a step only when it is over, the policy is asked
\* again only when every step counted is completed and the results of the
\* engine's steps are in the memory it is shown.  (A webhook that finds the run
\* closed wakes the loop all the same.)
StepBarrier ==
    /\ engine \subseteq {"node_finished", "node_failed"}
    /\ loop.pc = "policy" /\ run.status = "running"
    => \A i \in 1 .. loop.count :
            /\ steps[i].status = "completed"
            /\ steps[i].node \notin Local => i \in merged

\* The budget of corrections is passed by one at most: the count is looked at
\* before the policy can order the next one.
CorrectionsBounded == attempts <= MaxCorrections + 1

\* A signal completes at most one pause.
OneAnswerEach ==
    \A i, j \in 1 .. Len(steps) :
        i # j /\ {steps[i].node, steps[j].node} \subseteq Pausing
              /\ steps[i].result # None
            => steps[i].result # steps[j].result

\* Every run ends, or waits for its operator.
LoopSettles == <>[](loop.pc \in {"gone", "signal"})

\* A cancel the handler has passed to the supervisor ends the task, wherever
\* it stands, so that the request is answered.
CancelEnds == req = "wait" ~> loop.pc = "gone"

\* stop_conditions.py:57, of is_cancelled: "Returns ``CANCELLED`` iff
\* cancellation was requested."  The wake of a webhook that no step waited for
\* is still set when the loop looks.
CancelledMeansRequested ==
    run.reason = "cancelled" => req # "none" \/ shutdown # "none"
=============================================================================
