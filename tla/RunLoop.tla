------------------------------- MODULE RunLoop -------------------------------
(***************************************************************************)
(* One run driven by the deterministic loop, with everything that touches  *)
(* its rows at the same time: the loop task itself                         *)
(* (runtime_deterministic.py), the supervisor that cancels it and hands it *)
(* dispatch results (supervisor.py), the HTTP handlers that cancel the run *)
(* or settle a dispatch (service.py, lifecycle/reactor.py), the two        *)
(* dispatch sweeps (executors/reconcile.py), and process shutdown, crash   *)
(* and restart (lifespan.py).                                              *)
(*                                                                         *)
(* Every handler reads a row in one statement and writes it in a later     *)
(* commit; the database (READ COMMITTED, no row version, no FOR UPDATE on  *)
(* these tables) lets another session commit in between.  So each handler  *)
(* is a read action followed by a commit action, and what it read is       *)
(* remembered by where it stands: a commit location is entered only when   *)
(* the read found the row in a state the code goes on to overwrite.        *)
(***************************************************************************)
EXTENDS Integers, FiniteSets

CONSTANTS
    MaxSteps,     \* default_budget.max_steps of the agent
    Modes,        \* executor modes bound to the nodes of the agent
    Requests,     \* one identifier per HTTP request served
    MaxCrashes,   \* bound: how often the process stops, gracefully or not
    HumanDeadline, \* whether human bindings carry timeout_seconds
    MaxSweeps     \* bound: how often `orchestrator reconcile-dispatches` runs

AllModes == {"local", "remote", "human", "engine"}

ASSUME BudgetAssumption == MaxSteps \in Nat \ {0}
ASSUME ModesAssumption  == Modes \subseteq AllModes
ASSUME DeadlineAssumption == HumanDeadline \in BOOLEAN
ASSUME BoundsAssumption == MaxCrashes \in Nat /\ MaxSweeps \in Nat

Steps == 1 .. MaxSteps

RunTerminal  == {"completed", "failed", "cancelled"}
RunStatus    == {"absent", "pending", "running", "paused"} \cup RunTerminal
StopReason   == {"none", "done_node", "policy_terminated", "budget_exceeded",
                 "error", "cancelled"}
DispOpen     == {"pending", "dispatched"}
DispTerminal == {"completed", "failed", "cancelled"}
DispState    == {"none"} \cup DispOpen \cup DispTerminal
StepStatus   == {"none", "pending", "dispatched", "completed", "failed"}

VARIABLES
    run,        \* the runs row: status and stop_reason
    disp,       \* state of the dispatches row of each step
    mode,       \* mode of the binding (and of the dispatches row) of each step
    step,       \* status of the steps row of each step
    mem,        \* step whose node and result RunMemory's bookkeeping names
    pc,         \* where the loop task stands
    n,          \* step being executed; at the loop top, step_count
    env,        \* outcome of the envelope the loop holds
    why,        \* the reason _terminate was called with
    handling,   \* the loop is unwinding in an except clause
    stopReq,    \* wake_event set, cancel_requested: seen at the loop top
    cancelPend, \* task.cancel() called, CancelledError not yet delivered
    fut,        \* the supervisor's future of each dispatch
    req,        \* progress of each HTTP request
    cli,        \* progress of `reconcile-dispatches`, with its snapshot
    proc,       \* the orchestrator process
    crashes,
    sweeps

rowVars  == <<run, disp, step, mem>>
loopVars == <<pc, n, env, why, handling, mode>>
supVars  == <<stopReq, cancelPend, fut>>
procVars == <<proc, crashes>>
cliVars  == <<cli, sweeps>>
vars     == <<rowVars, loopVars, supVars, req, cliVars, procVars>>

-----------------------------------------------------------------------------
(* Locations *)

LoopTask == \* the task exists and has not returned
    {"spawned", "mark", "markW", "top", "insert", "markD", "markDW", "exec",
     "pause", "pauseW", "wait", "expire", "expireW", "resume", "resumeW",
     "settle", "settleW", "settleStep", "save", "term", "termW"}
LoopPc == {"none", "starting", "exit"} \cup LoopTask

\* The try/finally around the wait: a human binding resumes on every way out.
WaitBlock == {"wait", "expire", "expireW"}

ReqBusy  == {"cancelW", "cancelSup", "cancelWait", "hookW", "hookD",
             "sigFind", "wakeD", "wakeW"}
ReqFinal == {"done", "flipped", "stopped"}
ReqPc    == {"idle"} \cup ReqBusy \cup ReqFinal

RowsTyped ==
    /\ run \in [status : RunStatus, reason : StopReason]
    /\ disp \in [Steps -> DispState]
    /\ mode \in [Steps -> AllModes]
    /\ step \in [Steps -> StepStatus]
    /\ mem \in 0 .. MaxSteps

TaskTyped ==
    /\ pc \in LoopPc
    /\ n \in 0 .. MaxSteps
    /\ env \in {"none", "ok", "error"}
    /\ why \in StopReason
    /\ fut \in [Steps -> {"none", "open", "ok", "error"}]

FlagsTyped == handling \in BOOLEAN /\ stopReq \in BOOLEAN /\ cancelPend \in BOOLEAN

RequestsTyped ==
    req \in [Requests -> [at : ReqPc, d : 0 .. MaxSteps, out : {"ok", "error"}]]

ProcessTyped ==
    /\ cli \in [at : {"idle", "commit"}, rows : SUBSET Steps]
    /\ proc \in {"up", "draining", "killing", "down", "booting"}
    /\ crashes \in 0 .. MaxCrashes
    /\ sweeps \in 0 .. MaxSweeps

TypeOK == RowsTyped /\ TaskTyped /\ FlagsTyped /\ RequestsTyped /\ ProcessTyped

Init ==
    /\ run = [status |-> "absent", reason |-> "none"]
    /\ disp = [i \in Steps |-> "none"]
    /\ mode = [i \in Steps |-> "local"]
    /\ step = [i \in Steps |-> "none"]
    /\ mem = 0
    /\ pc = "none"
    /\ n = 0
    /\ env = "none"
    /\ why = "none"
    /\ handling = FALSE
    /\ stopReq = FALSE
    /\ cancelPend = FALSE
    /\ fut = [i \in Steps |-> "none"]
    /\ req = [q \in Requests |-> [at |-> "idle", d |-> 0, out |-> "ok"]]
    /\ cli = [at |-> "idle", rows |-> {}]
    /\ proc = "up"
    /\ crashes = 0
    /\ sweeps = 0

-----------------------------------------------------------------------------
(* What each commit of the loop writes.  SQLAlchemy emits only the columns *)
(* that changed since the read, so status and reason are separate columns. *)

\* Mutant: the reason is written where its status belongs.
StatusOf_Unmapped(reason) == reason

StatusOf(reason) ==
    CASE reason \in {"done_node", "policy_terminated"} -> "completed"
      [] reason = "cancelled" -> "cancelled"
      [] OTHER -> "failed"

SetStatus(s) ==
    /\ run' = [run EXCEPT !.status = s]
    /\ UNCHANGED <<disp, step, mem>>

SetTerminal(reason) ==
    /\ run' = [status |-> StatusOf(reason), reason |-> reason]
    /\ UNCHANGED <<disp, step, mem>>

InsertRows ==
    /\ disp' = [disp EXCEPT ![n] = "pending"]
    /\ step' = [step EXCEPT ![n] = "pending"]
    /\ UNCHANGED <<run, mem>>

SetDispatched ==
    /\ disp' = [disp EXCEPT ![n] = "dispatched"]
    /\ step' = [step EXCEPT ![n] = "dispatched"]
    /\ UNCHANGED <<run, mem>>

FailDispatch ==
    /\ disp' = [disp EXCEPT ![n] = "failed"]
    /\ UNCHANGED <<run, step, mem>>

Terminalized(outcome) == IF outcome = "ok" THEN "completed" ELSE "failed"

\* Mutant: the open dispatch is left as it is.
CommitTerminal_StepOnly ==
    /\ step' = [step EXCEPT ![n] = Terminalized(env)]
    /\ UNCHANGED <<run, disp, mem>>

\* settleW found the dispatch open; settleStep found it already terminal.
CommitTerminal ==
    /\ disp' = [disp EXCEPT ![n] = IF pc = "settleW" THEN Terminalized(env) ELSE @]
    /\ step' = [step EXCEPT ![n] = Terminalized(env)]
    /\ UNCHANGED <<run, mem>>

WriteState ==
    /\ mem' = n
    /\ UNCHANGED <<run, disp, step>>

CommitInFlight ==
    \/ pc \in {"markW", "resumeW"} /\ SetStatus("running")
    \/ pc = "pauseW" /\ SetStatus("paused")
    \/ pc = "insert" /\ InsertRows
    \/ pc = "markDW" /\ SetDispatched
    \/ pc = "expireW" /\ FailDispatch
    \/ pc \in {"settleW", "settleStep"} /\ CommitTerminal
    \/ pc = "save" /\ WriteState
    \/ pc = "termW" /\ SetTerminal(why)

-----------------------------------------------------------------------------
(* The loop task.  It moves only while no CancelledError is due. *)

At(p) == pc = p /\ ~cancelPend

StartRun ==
    /\ proc = "up" /\ run.status = "absent"
    /\ run' = [run EXCEPT !.status = "pending"]
    /\ pc' = "starting"
    /\ UNCHANGED <<disp, step, mem, n, env, why, handling, mode, supVars, req,
                   cliVars, procVars>>

\* The refresh between the commit of the row and spawn is an await.
Spawn ==
    /\ pc = "starting"
    /\ pc' = "spawned"
    /\ stopReq' = FALSE
    /\ UNCHANGED <<rowVars, n, env, why, handling, mode, cancelPend, fut, req,
                   cliVars, procVars>>

Goto(p) ==
    /\ pc' = p
    /\ UNCHANGED <<n, env, why, handling, mode>>

LoopOnly == UNCHANGED <<rowVars, supVars, req, cliVars, procVars>>

RowsOnly == UNCHANGED <<supVars, req, cliVars, procVars>>

Enter == At("spawned") /\ Goto("mark") /\ LoopOnly

\* A read that guards the write at location w: skipped when the row is
\* terminal already, or holds the value to be written.
ReadRun(here, w, value, after) ==
    /\ At(here)
    /\ Goto(IF run.status \in RunTerminal \cup {value} THEN after ELSE w)
    /\ LoopOnly

MarkRunning       == ReadRun("mark", "markW", "running", "top")
MarkRunningCommit == At("markW") /\ CommitInFlight /\ Goto("top") /\ RowsOnly

BeginTerminate(reason, unwinding) ==
    /\ pc' = "term"
    /\ why' = reason
    /\ handling' = unwinding
    /\ UNCHANGED <<n, env, mode>>

\* Mutant: the flow is asked before the budget.
LoopTop_FlowFirst ==
    /\ At("top")
    /\ \/ stopReq /\ BeginTerminate("cancelled", FALSE)
       \/ /\ ~stopReq
          /\ \/ \E r \in {"done_node", "policy_terminated"} : BeginTerminate(r, FALSE)
             \/ BeginTerminate("error", TRUE)
             \/ n >= MaxSteps /\ BeginTerminate("budget_exceeded", FALSE)
             \/ \E m \in Modes :
                  /\ n < MaxSteps
                  /\ pc' = "insert"
                  /\ n' = n + 1
                  /\ mode' = [mode EXCEPT ![n + 1] = m]
                  /\ env' = "none"
                  /\ UNCHANGED <<why, handling>>
    /\ LoopOnly

\* One iteration up to the next node: stop requests first, then the step
\* budget, then the flow, whose choice depends on data left out here.
LoopTop ==
    /\ At("top")
    /\ \/ stopReq /\ BeginTerminate("cancelled", FALSE)
       \/ ~stopReq /\ n >= MaxSteps /\ BeginTerminate("budget_exceeded", FALSE)
       \/ /\ ~stopReq /\ n < MaxSteps
          /\ \/ \E r \in {"done_node", "policy_terminated"} : BeginTerminate(r, FALSE)
             \/ BeginTerminate("error", TRUE)    \* the resolver raised
             \/ \E m \in Modes :
                  /\ pc' = "insert"
                  /\ n' = n + 1
                  /\ mode' = [mode EXCEPT ![n + 1] = m]
                  /\ env' = "none"
                  /\ UNCHANGED <<why, handling>>
    /\ LoopOnly

\* Mutant: no future is registered for the dispatch.
InsertCommit_Unregistered ==
    /\ At("insert") /\ CommitInFlight /\ Goto("markD") /\ RowsOnly

InsertCommit ==
    /\ At("insert") /\ CommitInFlight /\ Goto("markD")
    /\ fut' = [fut EXCEPT ![n] = "open"]
    /\ UNCHANGED <<stopReq, cancelPend, req, cliVars, procVars>>

\* mark_dispatched raises when a sweep has cancelled the row meanwhile.
MarkDispatched ==
    /\ At("markD")
    /\ \/ disp[n] = "pending" /\ Goto("markDW")
       \/ disp[n] # "pending" /\ BeginTerminate("error", TRUE)
    /\ LoopOnly

MarkDispatchedCommit == At("markDW") /\ CommitInFlight /\ Goto("exec") /\ RowsOnly

\* executor.dispatch: a local one answers at once, a human one always parks,
\* the others hand over or fail.
ExecutorReturns ==
    /\ At("exec")
    /\ \/ /\ mode[n] \in {"remote", "engine"} /\ Goto("wait")
       \/ /\ mode[n] = "human" /\ Goto("pause")
       \/ /\ mode[n] # "human"
          /\ env' \in IF mode[n] = "local" THEN {"ok", "error"} ELSE {"error"}
          /\ pc' = "settle"
          /\ UNCHANGED <<n, why, handling, mode>>
    /\ LoopOnly

MarkPaused       == ReadRun("pause", "pauseW", "paused", "wait")
MarkPausedCommit == At("pauseW") /\ CommitInFlight /\ Goto("wait") /\ RowsOnly

\* Mutant: no finally clause flips the run back.
AfterWait_NoResume == "settle"

AfterWait == IF mode[n] = "human" THEN "resume" ELSE "settle"

\* await_dispatch returns the delivered envelope and drops the future.
WaitDelivered ==
    /\ At("wait") /\ fut[n] \in {"ok", "error"}
    /\ env' = fut[n]
    /\ fut' = [fut EXCEPT ![n] = "none"]
    /\ pc' = AfterWait
    /\ UNCHANGED <<rowVars, n, why, handling, mode, stopReq, cancelPend, req,
                   cliVars, procVars>>

\* Mutant: only engine waits have a deadline.
WaitTimeout_EngineOnly ==
    /\ At("wait") /\ mode[n] = "engine"
    /\ env' = "error"
    /\ fut' = [fut EXCEPT ![n] = "none"]
    /\ pc' = "expire"
    /\ UNCHANGED <<rowVars, n, why, handling, mode, stopReq, cancelPend, req,
                   cliVars, procVars>>

\* wait_for gives up; a human wait has no deadline unless its binding says so.
\* A result delivered in the same tick is lost with it.
WaitTimeout ==
    /\ At("wait") /\ (mode[n] = "human" => HumanDeadline)
    /\ env' = "error"
    /\ fut' = [fut EXCEPT ![n] = "none"]
    /\ pc' = "expire"
    /\ UNCHANGED <<rowVars, n, why, handling, mode, stopReq, cancelPend, req,
                   cliVars, procVars>>

Expire ==
    /\ At("expire")
    /\ Goto(IF disp[n] \in DispOpen THEN "expireW" ELSE AfterWait)
    /\ LoopOnly

ExpireCommit == At("expireW") /\ CommitInFlight /\ Goto(AfterWait) /\ RowsOnly

AfterResume == IF handling THEN "term" ELSE "settle"

Resume       == ReadRun("resume", "resumeW", "running", AfterResume)
ResumeCommit == At("resumeW") /\ CommitInFlight /\ Goto(AfterResume) /\ RowsOnly

Settle ==
    /\ At("settle")
    /\ Goto(IF disp[n] \in DispOpen THEN "settleW" ELSE "settleStep")
    /\ LoopOnly

SettleCommit ==
    /\ pc \in {"settleW", "settleStep"} /\ ~cancelPend
    /\ CommitInFlight /\ Goto("save") /\ RowsOnly

\* Mutant: an error envelope does not stop the run.
SaveCommit_KeepsGoing == At("save") /\ CommitInFlight /\ RowsOnly /\ Goto("top")

\* _write_state, then _ExecutorFailure when the outcome is an error.
SaveCommit ==
    /\ At("save") /\ CommitInFlight /\ RowsOnly
    /\ IF env = "error" THEN BeginTerminate("error", TRUE) ELSE Goto("top")

NoFutures == [i \in Steps |-> "none"]

\* Returning runs _on_task_done, which purges the run's futures.
TaskReturns ==
    /\ Goto("exit")
    /\ fut' = NoFutures
    /\ UNCHANGED <<stopReq, cancelPend, req, cliVars, procVars>>

Terminate ==
    \/ /\ At("term") /\ run.status \notin RunTerminal
       /\ Goto("termW") /\ LoopOnly
    \/ /\ At("term") /\ run.status \in RunTerminal
       /\ TaskReturns /\ UNCHANGED rowVars

TerminateCommit == At("termW") /\ CommitInFlight /\ TaskReturns

\* CancelledError at the await the loop is suspended in.  A commit in flight
\* may have reached the database.  A task cancelled before its first step
\* never runs; one cancelled inside an except clause returns from there.
Interrupt ==
    /\ pc \in LoopTask /\ cancelPend
    /\ cancelPend' = FALSE
    /\ CommitInFlight \/ UNCHANGED rowVars
    /\ pc' = IF pc = "spawned" \/ (handling /\ pc \in {"term", "termW"}) THEN "exit"
             ELSE IF pc \in WaitBlock /\ mode[n] = "human" THEN "resume"
             ELSE "term"
    /\ why' = "cancelled"
    /\ handling' = TRUE
    /\ fut' = IF pc' = "exit" THEN NoFutures
              ELSE IF pc = "wait" THEN [fut EXCEPT ![n] = "none"] ELSE fut
    /\ UNCHANGED <<n, env, mode, stopReq, req, cliVars, procVars>>

-----------------------------------------------------------------------------
(* HTTP handlers.  Each runs while the process is up. *)

Move(q, p) == req' = [req EXCEPT ![q].at = p]

ReqOnly == UNCHANGED <<rowVars, loopVars, supVars, cliVars, procVars>>

Arrives(q) == proc = "up" /\ req[q].at = "idle"

\* cancel_run: a terminal run is left alone.
CancelRead(q) ==
    /\ Arrives(q) /\ run.status # "absent"
    /\ Move(q, IF run.status \in RunTerminal THEN "done" ELSE "cancelW")
    /\ ReqOnly

CancelCommit(q) ==
    /\ req[q].at = "cancelW"
    /\ run' = [status |-> "cancelled", reason |-> "cancelled"]
    /\ Move(q, "cancelSup")
    /\ UNCHANGED <<disp, step, mem, loopVars, supVars, cliVars, procVars>>

\* Mutant: the events are set but the task is not cancelled.
CancelSupervisor_NoTaskCancel(q) ==
    /\ req[q].at = "cancelSup"
    /\ stopReq' = IF pc \in LoopTask THEN TRUE ELSE stopReq
    /\ Move(q, IF pc \in LoopTask THEN "cancelWait" ELSE "flipped")
    /\ UNCHANGED <<rowVars, loopVars, cancelPend, fut, cliVars, procVars>>

\* supervisor.cancel, a no-op for a run that is not registered.
CancelSupervisor(q) ==
    /\ req[q].at = "cancelSup"
    /\ IF pc \in LoopTask
         THEN /\ stopReq' = TRUE
              /\ cancelPend' = TRUE
              /\ Move(q, "cancelWait")
         ELSE UNCHANGED <<stopReq, cancelPend>> /\ Move(q, "flipped")
    /\ UNCHANGED <<rowVars, loopVars, fut, cliVars, procVars>>

\* Mutant: the handler answers without awaiting the task.
CancelReturn_NoAwait(q) ==
    /\ req[q].at = "cancelWait"
    /\ Move(q, "stopped")
    /\ ReqOnly

CancelReturn(q) ==
    /\ req[q].at = "cancelWait" /\ pc \notin LoopTask
    /\ Move(q, "stopped")
    /\ ReqOnly

\* handle_executor_webhook, for a dispatch a remote executor was handed: no
\* other executor is told the address to call.
HookRead(q) ==
    /\ Arrives(q)
    /\ \E d \in Steps, out \in {"ok", "error"} :
         /\ mode[d] = "remote" /\ disp[d] \notin {"none", "pending"}
         /\ req' = [req EXCEPT ![q] =
                [at |-> IF disp[d] \in DispTerminal THEN "done" ELSE "hookW",
                 d |-> d, out |-> out]]
    /\ ReqOnly

HookCommit(q) ==
    /\ req[q].at = "hookW"
    /\ disp' = [disp EXCEPT ![req[q].d] = Terminalized(req[q].out)]
    /\ Move(q, "hookD")
    /\ UNCHANGED <<run, step, mem, loopVars, supVars, cliVars, procVars>>

\* deliver_dispatch: a future that is gone or resolved ignores it.
Deliver(d, out) ==
    /\ fut' = IF fut[d] = "open" THEN [fut EXCEPT ![d] = out] ELSE fut
    /\ UNCHANGED <<stopReq, cancelPend>>

HookDeliver(q) ==
    /\ req[q].at = "hookD"
    /\ Deliver(req[q].d, req[q].out)
    /\ Move(q, "done")
    /\ UNCHANGED <<rowVars, loopVars, cliVars, procVars>>

\* send_signal: 409 on a terminal run, then the audit row, then the run's one
\* dispatched human dispatch, completed or (memory_patch_builder) failed.
SignalRead(q) ==
    /\ Arrives(q) /\ run.status # "absent"
    /\ Move(q, IF run.status \in RunTerminal THEN "done" ELSE "sigFind")
    /\ ReqOnly

Checkpoints == {d \in Steps : mode[d] = "human" /\ disp[d] = "dispatched"}

SignalFind(q) ==
    /\ req[q].at = "sigFind"
    /\ \/ /\ Cardinality(Checkpoints) # 1
          /\ Move(q, "done")
       \/ \E d \in Steps, out \in {"ok", "error"} :
            /\ Checkpoints = {d}
            /\ req' = [req EXCEPT ![q] = [at |-> "hookW", d |-> d, out |-> out]]
    /\ ReqOnly

\* _wake_dispatch: the UPDATE is flushed and the future resolved before the
\* webhook route commits, or rolls back because a later reactor step raised.
WakeRead(q) ==
    /\ Arrives(q)
    /\ \E d \in Steps :
         /\ mode[d] = "engine" /\ disp[d] \notin {"none", "pending"}
         /\ req' = [req EXCEPT ![q] =
                [at |-> IF disp[d] = "dispatched" THEN "wakeD" ELSE "done",
                 d |-> d, out |-> "ok"]]
    /\ ReqOnly

WakeDeliver(q) ==
    /\ req[q].at = "wakeD"
    /\ Deliver(req[q].d, "ok")
    /\ Move(q, "wakeW")
    /\ UNCHANGED <<rowVars, loopVars, cliVars, procVars>>

WakeCommit(q) ==
    /\ req[q].at = "wakeW"
    /\ disp' \in {disp, [disp EXCEPT ![req[q].d] = "completed"]}
    /\ Move(q, "done")
    /\ UNCHANGED <<run, step, mem, loopVars, supVars, cliVars, procVars>>

-----------------------------------------------------------------------------
(* Dispatch sweeps.  Marking a pending engine row failed is an illegal     *)
(* transition: the error is caught per row and the row left as it was.     *)

Orphans == {d \in Steps : \/ disp[d] = "dispatched"
                          \/ disp[d] = "pending" /\ mode[d] # "engine"}

SettleOrphans(rows) ==
    disp' = [d \in Steps |->
                IF d \notin rows THEN disp[d]
                ELSE IF mode[d] = "engine" THEN "failed" ELSE "cancelled"]

\* The CLI is a process of its own; it skips a run whose status is running.  Its
\* two SELECTs, of the open dispatches and then of their runs, are one action: in
\* between a run can only stop running, and a row it closes by then is closed.
SweepRead ==
    /\ cli.at = "idle" /\ sweeps < MaxSweeps
    /\ cli' = [at |-> "commit", rows |-> IF run.status = "running" THEN {} ELSE Orphans]
    /\ sweeps' = sweeps + 1
    /\ UNCHANGED <<rowVars, loopVars, supVars, req, procVars>>

SweepCommit ==
    /\ cli.at = "commit"
    /\ SettleOrphans(cli.rows)
    /\ cli' = [at |-> "idle", rows |-> {}]
    /\ UNCHANGED <<run, step, mem, loopVars, supVars, req, sweeps, procVars>>

-----------------------------------------------------------------------------
(* Process lifetime *)

NoTask ==
    /\ pc' = "none" /\ n' = 0 /\ env' = "none" /\ why' = "none" /\ handling' = FALSE
    /\ stopReq' = FALSE /\ cancelPend' = FALSE /\ fut' = NoFutures
    /\ UNCHANGED mode

\* Everything in memory is gone; requests being served are never answered.
Crash ==
    /\ proc # "down" /\ crashes < MaxCrashes
    /\ proc' = "down"
    /\ crashes' = crashes + 1
    /\ NoTask
    /\ req' = [q \in Requests |-> IF req[q].at \in ReqBusy
                                    THEN [req[q] EXCEPT !.at = "done"] ELSE req[q]]
    /\ UNCHANGED <<rowVars, cliVars>>

\* The server answers the open requests before it shuts the supervisor down.
ShutdownBegin ==
    /\ proc = "up" /\ crashes < MaxCrashes
    /\ pc # "starting" /\ \A q \in Requests : req[q].at \notin ReqBusy
    /\ proc' = "draining"
    /\ crashes' = crashes + 1
    /\ stopReq' = IF pc \in LoopTask THEN TRUE ELSE stopReq
    /\ UNCHANGED <<rowVars, loopVars, cancelPend, fut, req, cliVars>>

\* Past the grace period.
ShutdownForce ==
    /\ proc = "draining" /\ pc \in LoopTask
    /\ proc' = "killing"
    /\ cancelPend' = TRUE
    /\ UNCHANGED <<rowVars, loopVars, stopReq, fut, req, cliVars, crashes>>

ShutdownEnd ==
    /\ proc \in {"draining", "killing"} /\ pc \notin LoopTask
    /\ proc' = "down"
    /\ NoTask
    /\ UNCHANGED <<rowVars, req, cliVars, crashes>>

\* Mutant: the sweep forgets paused runs.
ZombieSweep_RunningOnly ==
    /\ proc = "down"
    /\ proc' = "booting"
    /\ run' = IF run.status = "running"
                THEN [status |-> "failed", reason |-> "error"] ELSE run
    /\ UNCHANGED <<disp, step, mem, loopVars, supVars, req, cliVars, crashes>>

\* reconcile_zombie_runs, then reconcile_orphan_dispatches, then requests.
ZombieSweep ==
    /\ proc = "down"
    /\ proc' = "booting"
    /\ run' = IF run.status \in {"running", "paused"}
                THEN [status |-> "failed", reason |-> "error"] ELSE run
    /\ UNCHANGED <<disp, step, mem, loopVars, supVars, req, cliVars, crashes>>

OrphanSweep ==
    /\ proc = "booting"
    /\ proc' = "up"
    /\ SettleOrphans(Orphans)
    /\ UNCHANGED <<run, step, mem, loopVars, supVars, req, cliVars, crashes>>

-----------------------------------------------------------------------------

LoopStep ==
    \/ Spawn \/ Enter \/ MarkRunning \/ MarkRunningCommit \/ LoopTop
    \/ InsertCommit \/ MarkDispatched \/ MarkDispatchedCommit \/ ExecutorReturns
    \/ MarkPaused \/ MarkPausedCommit \/ WaitDelivered \/ WaitTimeout
    \/ Expire \/ ExpireCommit \/ Resume \/ ResumeCommit \/ Settle \/ SettleCommit
    \/ SaveCommit \/ Terminate \/ TerminateCommit \/ Interrupt

ReqArrives(q) == CancelRead(q) \/ HookRead(q) \/ SignalRead(q) \/ WakeRead(q)

ReqStep(q) ==
    \/ CancelCommit(q) \/ CancelSupervisor(q) \/ CancelReturn(q)
    \/ HookCommit(q) \/ HookDeliver(q) \/ SignalFind(q)
    \/ WakeDeliver(q) \/ WakeCommit(q)

ProcStep == ShutdownForce \/ ShutdownEnd \/ ZombieSweep \/ OrphanSweep

Next ==
    \/ StartRun \/ LoopStep
    \/ \E q \in Requests : ReqArrives(q) \/ ReqStep(q)
    \/ SweepRead \/ SweepCommit
    \/ Crash \/ ShutdownBegin \/ ProcStep

\* What the event loop, the timers and the process manager schedule.  Users,
\* executors, operators and crashes owe nothing.
Fairness ==
    /\ WF_vars(LoopStep)
    /\ \A q \in Requests : WF_vars(ReqStep(q))
    /\ WF_vars(ProcStep)
    /\ WF_vars(SweepCommit)

Spec == Init /\ [][Next]_vars

FairSpec == Spec /\ Fairness

-----------------------------------------------------------------------------
(* Safety *)

\* The stop reason and the terminal status are always written together: no
\* interleaving of _terminate, cancel_run and the zombie sweep leaves a run
\* whose status its reason does not imply (the StopReason -> RunStatus map).
OutcomeMatchesReason ==
    run.status \in RunTerminal =>
        run.reason # "none" /\ run.status = StatusOf(run.reason)

\* Steps 1 .. Finished are behind the loop.
Finished == IF pc \in {"spawned", "mark", "markW", "top"} THEN n ELSE n - 1

\* The loop advances only over settled steps: every earlier step completed, its
\* dispatch is closed, no later step has rows, and the flow is resolved against
\* the memory of the last step, whatever handlers and sweeps did meanwhile.
StepBarrier ==
    pc \in LoopTask =>
        /\ \A i \in 1 .. Finished : step[i] = "completed" /\ disp[i] \in DispTerminal
        /\ \A i \in n + 1 .. MaxSteps : step[i] = "none" /\ disp[i] = "none"
        /\ pc = "top" => mem = n

\* A run never has two open dispatches, which is what lets send_signal pair a
\* signal with "the" checkpoint, even when a run died with one still open.
OneOpenDispatch ==
    \A i, j \in Steps : disp[i] \in DispOpen /\ disp[j] \in DispOpen => i = j

\* While the process serves, a run without a loop task is settled: every way a
\* task ends, and every restart, leaves no running or paused row behind, but for
\* an accepted cancellation that lost a race (CancelSticks); and a run that was
\* accepted is taken up, unless the process has stopped meanwhile (no sweep
\* looks at pending runs).
NoZombie ==
    proc = "up" /\ pc \in {"none", "exit"} =>
        /\ run.status \in {"running", "paused"} => run.reason = "cancelled"
        /\ run.status = "pending" => crashes > 0

\* A paused run is parked on (or just leaving) a human wait, never on an engine
\* or remote one, and never forgotten by a task that moved on (again but for a
\* cancellation that lost a race).
PausedMeansParked ==
    run.status = "paused" /\ run.reason = "none" /\ pc # "none" =>
        pc \in WaitBlock \cup {"resume", "resumeW", "term", "termW"} /\ mode[n] = "human"

\* A dispatch that was settled while the loop waits for it has woken the loop,
\* or the handler that settled it is about to: no result is committed and lost
\* (a dispatch sweep wakes nobody).
NoLostWake ==
    pc = "wait" /\ disp[n] \in DispTerminal /\ sweeps = 0 =>
        \/ fut[n] \in {"ok", "error"}
        \/ \E q \in Requests : req[q].at = "hookD" /\ req[q].d = n

\* Once a cancel_run call that found the loop running has answered, the run
\* dispatches nothing any more.
NoDispatchAfterCancel ==
    [][(\E q \in Requests : req[q].at = "stopped") =>
            \A i \in Steps : disp[i] = "none" => disp'[i] = "none"]_vars

\* The steps and the task as the rows tell them: a step is open from its insert
\* to its settlement, and a run that was accepted has a task until it is over.
Seen(status) == IF status \in {"pending", "dispatched"} THEN "open" ELSE status

StepsSeen == [i \in Steps |-> Seen(step[i])]

TaskSeen == IF run.status = "absent" THEN "none"
            ELSE IF pc \in {"none", "exit"} THEN "over" ELSE "live"

Told == INSTANCE SequentialRun WITH
    Limit <- MaxSteps, steps <- StepsSeen, task <- TaskSeen

\* Whatever cancels, crashes, webhooks and sweeps do meanwhile, the rows tell
\* the story of a run that executes its steps one after the other.
ImplementsSequentialRun == Told!Spec

(* What makes the invariants above inductive *)

\* A reason has been chosen whenever the loop is on its way out.
ReasonChosen == handling \/ pc \in {"term", "termW"} => why # "none"

\* Until the loop has marked the run running nothing is recorded for it.
FreshStart ==
    /\ run.status = "absent" => pc = "none"
    /\ run.status = "absent" \/ pc \in {"starting", "spawned", "mark", "markW"} =>
           /\ n = 0 /\ mem = 0
           /\ \A i \in Steps : disp[i] = "none" /\ step[i] = "none"

\* The step being executed: its number is valid, it has no rows before they are
\* inserted, and when it is saved they say what the envelope says.
InStep == LoopTask \ {"spawned", "mark", "markW", "top", "term", "termW"}
CurrentStep ==
    /\ pc \in InStep => n \in Steps
    /\ pc = "insert" => disp[n] = "none" /\ step[n] = "none"
    /\ pc \in InStep \ {"insert"} => disp[n] # "none"
    /\ pc \in {"expire", "expireW", "settle", "settleW", "settleStep", "save"} =>
           env # "none"
    /\ pc \in {"resume", "resumeW"} /\ ~handling => env # "none"
    /\ pc \in {"settleStep", "save"} => disp[n] \in DispTerminal
    /\ pc = "save" => step[n] = Terminalized(env)

\* A handler or sweep about to write a dispatch has seen its row.
WritersSawRow ==
    /\ \A q \in Requests : req[q].at \in {"hookW", "wakeD", "wakeW"} =>
           req[q].d \in Steps /\ disp[req[q].d] # "none"
    /\ \A i \in cli.rows : disp[i] # "none"

LoopInv ==
    /\ TypeOK /\ OutcomeMatchesReason /\ StepBarrier /\ OneOpenDispatch
    /\ ReasonChosen /\ FreshStart /\ CurrentStep /\ WritersSawRow

(* Liveness, under FairSpec *)

\* A running run finishes or is parked on a human: whatever is lost, late or
\* cancelled on the way, and across a crash, since a restart settles the row.
RunningSettles ==
    run.status = "running" ~>
        run.status \in RunTerminal \cup {"paused"} \/ run.reason = "cancelled"

\* cancel_run, which awaits the loop task, always answers.
CancelReturns ==
    \A q \in Requests : req[q].at = "cancelWait" ~> req[q].at # "cancelWait"

(* What the documents say and the code does not keep *)

\* runtime_deterministic: a concurrent cancel stays cancelled.  Once cancel_run
\* has answered a call it acted on, the run is terminal.
CancelSticks ==
    (\E q \in Requests : req[q].at \in {"flipped", "stopped"}) =>
        run.status \in RunTerminal
=============================================================================
