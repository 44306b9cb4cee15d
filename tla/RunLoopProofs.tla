---------------------------- MODULE RunLoopProofs ----------------------------
(* Theorems about RunLoop, for every step budget, set of executor modes and *)
(* set of requests.                                                         *)
EXTENDS RunLoop, TLAPS

-----------------------------------------------------------------------------
(* Types, one group of variables at a time. *)

LEMMA InitTypes == Init => TypeOK
<1>. SUFFICES ASSUME Init PROVE TypeOK
  OBVIOUS
<1>1. RowsTyped
  BY BudgetAssumption DEF Init, RowsTyped, RunStatus, StopReason, DispState, StepStatus, AllModes
<1>2. TaskTyped
  BY BudgetAssumption DEF Init, TaskTyped, LoopPc, StopReason
<1>3. FlagsTyped
  BY DEF Init, FlagsTyped
<1>4. RequestsTyped
  BY BudgetAssumption DEF Init, RequestsTyped, ReqPc
<1>5. ProcessTyped
  BY BoundsAssumption DEF Init, ProcessTyped
<1>. QED
  BY <1>1, <1>2, <1>3, <1>4, <1>5 DEF TypeOK

\* Whatever commits reaches the database, the rows stay well formed.
LEMMA CommitTypes ==
    ASSUME RowsTyped, TaskTyped, CommitInFlight, UNCHANGED mode
    PROVE  RowsTyped'
<1>. USE DEF RowsTyped
<1>1. CASE pc \in {"markW", "resumeW"} /\ SetStatus("running")
  BY <1>1 DEF SetStatus, RunStatus
<1>2. CASE pc = "pauseW" /\ SetStatus("paused")
  BY <1>2 DEF SetStatus, RunStatus
<1>3. CASE pc = "insert" /\ InsertRows
  BY <1>3 DEF InsertRows, DispState, DispOpen, StepStatus
<1>4. CASE pc = "markDW" /\ SetDispatched
  BY <1>4 DEF SetDispatched, DispState, DispOpen, StepStatus
<1>5. CASE pc = "expireW" /\ FailDispatch
  BY <1>5 DEF FailDispatch, DispState, DispTerminal
<1>6. CASE pc \in {"settleW", "settleStep"} /\ CommitTerminal
  BY <1>6 DEF CommitTerminal, Terminalized, DispState, DispTerminal, StepStatus
<1>7. CASE pc = "save" /\ WriteState
  BY <1>7 DEF WriteState, TaskTyped
<1>8. CASE pc = "termW" /\ SetTerminal(why)
  BY <1>8 DEF SetTerminal, StatusOf, RunStatus, RunTerminal, TaskTyped
<1>. QED
  BY <1>1, <1>2, <1>3, <1>4, <1>5, <1>6, <1>7, <1>8 DEF CommitInFlight

LEMMA NextRows == TypeOK /\ Next => RowsTyped'
<1>. SUFFICES ASSUME TypeOK, Next PROVE RowsTyped'
  OBVIOUS
<1>. USE DEF TypeOK
<1>1. CASE StartRun
  BY <1>1 DEF StartRun, RowsTyped, RunStatus
<1>2. CASE LoopTop
  BY <1>2, ModesAssumption, BudgetAssumption DEF LoopTop, BeginTerminate, LoopOnly, rowVars, RowsTyped, TaskTyped, Steps
<1>3. CASE LoopStep /\ ~LoopTop
  <2>1. CommitInFlight \/ UNCHANGED rowVars
    BY <1>3 DEF LoopStep, Spawn, Enter, MarkRunning, MarkRunningCommit, InsertCommit,
       MarkDispatched, MarkDispatchedCommit, ExecutorReturns, MarkPaused, MarkPausedCommit,
       WaitDelivered, WaitTimeout, Expire, ExpireCommit, Resume, ResumeCommit, Settle,
       SettleCommit, SaveCommit, Terminate, TerminateCommit, Interrupt, ReadRun, LoopOnly
  <2>2. UNCHANGED mode
    BY <1>3 DEF LoopStep, Spawn, Enter, MarkRunning, MarkRunningCommit, InsertCommit,
       MarkDispatched, MarkDispatchedCommit, ExecutorReturns, MarkPaused, MarkPausedCommit,
       WaitDelivered, WaitTimeout, Expire, ExpireCommit, Resume, ResumeCommit, Settle,
       SettleCommit, SaveCommit, Terminate, TerminateCommit, Interrupt, ReadRun, Goto,
       BeginTerminate, TaskReturns
  <2>. QED
    BY <2>1, <2>2, CommitTypes DEF rowVars, RowsTyped
<1>4. ASSUME NEW q \in Requests, ReqArrives(q) \/ ReqStep(q)
      PROVE  RowsTyped'
  <2>1. CASE UNCHANGED <<rowVars, mode>>
    BY <2>1 DEF rowVars, RowsTyped
  <2>2. CASE CancelCommit(q)
    BY <2>2 DEF CancelCommit, loopVars, RowsTyped, RunStatus, RunTerminal, StopReason
  <2>3. CASE HookCommit(q) \/ WakeCommit(q)
    BY <2>3 DEF HookCommit, WakeCommit, Terminalized, loopVars, RowsTyped, DispState, DispTerminal
  <2>. QED
    BY <1>4, <2>1, <2>2, <2>3 DEF ReqArrives, ReqStep, CancelRead, HookRead, SignalRead, WakeRead,
       CancelSupervisor, CancelReturn, HookDeliver, SignalFind, WakeDeliver, ReqOnly, loopVars
<1>5. CASE SweepCommit \/ OrphanSweep
  BY <1>5 DEF SweepCommit, OrphanSweep, SettleOrphans, RowsTyped, DispState, DispTerminal, loopVars
<1>6. CASE ZombieSweep
  BY <1>6 DEF ZombieSweep, RowsTyped, RunStatus, RunTerminal, StopReason, loopVars
<1>7. CASE SweepRead \/ Crash \/ ShutdownBegin \/ ShutdownForce \/ ShutdownEnd
  BY <1>7 DEF SweepRead, Crash, ShutdownBegin, ShutdownForce, ShutdownEnd, NoTask, rowVars,
     loopVars, RowsTyped
<1>. QED
  BY <1>1, <1>2, <1>3, <1>4, <1>5, <1>6, <1>7 DEF Next, ProcStep

LEMMA NextTask == TypeOK /\ Next => TaskTyped'
<1>. SUFFICES ASSUME TypeOK, Next PROVE TaskTyped'
  OBVIOUS
<1>. USE DEF TypeOK, TaskTyped, LoopPc, LoopTask
<1>1. CASE StartRun \/ Spawn
  BY <1>1 DEF StartRun, Spawn, supVars
<1>2. CASE Enter \/ MarkRunning \/ MarkPaused \/ Expire \/ Resume \/ Settle
  BY <1>2 DEF Enter, MarkRunning, MarkPaused, Expire, Resume, Settle, ReadRun, Goto,
     LoopOnly, AfterWait, AfterResume, supVars
<1>3. CASE MarkRunningCommit \/ MarkDispatchedCommit \/ MarkPausedCommit \/ ExpireCommit
           \/ ResumeCommit \/ SettleCommit
  BY <1>3 DEF MarkRunningCommit, MarkDispatchedCommit, MarkPausedCommit, ExpireCommit,
     ResumeCommit, SettleCommit, Goto, RowsOnly, AfterWait, AfterResume, supVars
<1>4. CASE LoopTop
  BY <1>4, BudgetAssumption DEF LoopTop, BeginTerminate, LoopOnly, StopReason, supVars
<1>5. CASE InsertCommit
  BY <1>5 DEF InsertCommit, Goto
<1>6. CASE MarkDispatched \/ SaveCommit
  BY <1>6 DEF MarkDispatched, SaveCommit, BeginTerminate, Goto, LoopOnly, RowsOnly,
     StopReason, supVars
<1>7. CASE ExecutorReturns
  BY <1>7 DEF ExecutorReturns, Goto, LoopOnly, supVars
<1>8. CASE WaitDelivered \/ WaitTimeout
  BY <1>8 DEF WaitDelivered, WaitTimeout, AfterWait
<1>9. CASE Terminate \/ TerminateCommit
  BY <1>9 DEF Terminate, TerminateCommit, TaskReturns, NoFutures, Goto, LoopOnly, supVars
<1>10. CASE Interrupt
  BY <1>10 DEF Interrupt, NoFutures, StopReason
<1>11. ASSUME NEW q \in Requests, ReqArrives(q) \/ ReqStep(q)
       PROVE  TaskTyped'
  <2>1. CASE HookDeliver(q) \/ WakeDeliver(q)
    BY <2>1 DEF HookDeliver, WakeDeliver, Deliver, loopVars, RequestsTyped
  <2>2. CASE UNCHANGED <<loopVars, fut>>
    BY <2>2 DEF loopVars
  <2>. QED
    BY <1>11, <2>1, <2>2 DEF ReqArrives, ReqStep, CancelRead, HookRead, SignalRead, WakeRead,
       CancelCommit, CancelSupervisor, CancelReturn, HookCommit, SignalFind, WakeCommit, ReqOnly,
       supVars
<1>12. CASE Crash \/ ShutdownEnd
  BY <1>12, BudgetAssumption DEF Crash, ShutdownEnd, NoTask, NoFutures, StopReason
<1>13. CASE SweepRead \/ SweepCommit \/ ShutdownBegin \/ ShutdownForce \/ ZombieSweep \/ OrphanSweep
  BY <1>13 DEF SweepRead, SweepCommit, ShutdownBegin, ShutdownForce, ZombieSweep, OrphanSweep,
     loopVars, supVars
<1>. QED
  BY <1>1, <1>2, <1>3, <1>4, <1>5, <1>6, <1>7, <1>8, <1>9, <1>10, <1>11, <1>12, <1>13
  DEF Next, LoopStep, ProcStep

LEMMA NextFlags == TypeOK /\ Next => FlagsTyped'
<1>. SUFFICES ASSUME FlagsTyped, Next PROVE FlagsTyped'
  BY DEF TypeOK
<1>. USE DEF FlagsTyped
<1>1. CASE StartRun \/ LoopStep
  <2>1. handling' \in {handling, TRUE, FALSE}
    BY <1>1 DEF StartRun, LoopStep, Spawn, Enter, MarkRunning, MarkRunningCommit, LoopTop,
       InsertCommit, MarkDispatched, MarkDispatchedCommit, ExecutorReturns, MarkPaused,
       MarkPausedCommit, WaitDelivered, WaitTimeout, Expire, ExpireCommit, Resume, ResumeCommit,
       Settle, SettleCommit, SaveCommit, Terminate, TerminateCommit, Interrupt, ReadRun, Goto,
       BeginTerminate, TaskReturns
  <2>2. stopReq' \in {stopReq, FALSE} /\ cancelPend' \in {cancelPend, FALSE}
    BY <1>1 DEF StartRun, LoopStep, Spawn, Enter, MarkRunning, MarkRunningCommit, LoopTop,
       InsertCommit, MarkDispatched, MarkDispatchedCommit, ExecutorReturns, MarkPaused,
       MarkPausedCommit, WaitDelivered, WaitTimeout, Expire, ExpireCommit, Resume, ResumeCommit,
       Settle, SettleCommit, SaveCommit, Terminate, TerminateCommit, Interrupt, ReadRun,
       TaskReturns, LoopOnly, RowsOnly, supVars
  <2>. QED
    BY <2>1, <2>2
<1>2. ASSUME NEW q \in Requests, ReqArrives(q) \/ ReqStep(q)
      PROVE  FlagsTyped'
  <2>1. CASE CancelSupervisor(q)
    BY <2>1 DEF CancelSupervisor, loopVars
  <2>2. CASE UNCHANGED <<handling, stopReq, cancelPend>>
    BY <2>2
  <2>. QED
    BY <1>2, <2>1, <2>2 DEF ReqArrives, ReqStep, CancelRead, HookRead, SignalRead, WakeRead,
       CancelCommit, CancelReturn, HookCommit, HookDeliver, SignalFind, WakeDeliver, WakeCommit,
       Deliver, ReqOnly, loopVars, supVars
<1>3. CASE Crash \/ ShutdownEnd
  BY <1>3 DEF Crash, ShutdownEnd, NoTask
<1>4. CASE ShutdownBegin \/ ShutdownForce
  BY <1>4 DEF ShutdownBegin, ShutdownForce, loopVars
<1>5. CASE SweepRead \/ SweepCommit \/ ZombieSweep \/ OrphanSweep
  BY <1>5 DEF SweepRead, SweepCommit, ZombieSweep, OrphanSweep, loopVars, supVars
<1>. QED
  BY <1>1, <1>2, <1>3, <1>4, <1>5 DEF Next, ProcStep

LEMMA NextRequests == TypeOK /\ Next => RequestsTyped'
<1>. SUFFICES ASSUME RequestsTyped, Next PROVE RequestsTyped'
  BY DEF TypeOK
<1>. USE DEF RequestsTyped, ReqPc, ReqBusy, ReqFinal
<1>1. CASE StartRun \/ LoopStep
  BY <1>1 DEF StartRun, LoopStep, Spawn, Enter, MarkRunning, MarkRunningCommit, LoopTop,
     InsertCommit, MarkDispatched, MarkDispatchedCommit, ExecutorReturns, MarkPaused,
     MarkPausedCommit, WaitDelivered, WaitTimeout, Expire, ExpireCommit, Resume, ResumeCommit,
     Settle, SettleCommit, SaveCommit, Terminate, TerminateCommit, Interrupt, ReadRun,
     TaskReturns, LoopOnly, RowsOnly
<1>2. ASSUME NEW q \in Requests, ReqArrives(q) \/ ReqStep(q)
      PROVE  RequestsTyped'
  <2>1. CASE CancelRead(q) \/ SignalRead(q)
    BY <2>1 DEF CancelRead, SignalRead, Move
  <2>2. CASE CancelCommit(q) \/ CancelSupervisor(q) \/ CancelReturn(q)
    BY <2>2 DEF CancelCommit, CancelSupervisor, CancelReturn, Move
  <2>3. CASE HookRead(q) \/ WakeRead(q) \/ SignalFind(q)
    BY <2>3, BudgetAssumption DEF HookRead, WakeRead, SignalFind, Checkpoints, Move, Steps
  <2>4. CASE HookCommit(q) \/ HookDeliver(q)
    BY <2>4 DEF HookCommit, HookDeliver, Move
  <2>5. CASE WakeDeliver(q) \/ WakeCommit(q)
    BY <2>5 DEF WakeDeliver, WakeCommit, Move
  <2>. QED
    BY <1>2, <2>1, <2>2, <2>3, <2>4, <2>5 DEF ReqArrives, ReqStep
<1>3. CASE Crash
  BY <1>3 DEF Crash
<1>4. CASE SweepRead \/ SweepCommit \/ ShutdownBegin \/ ProcStep
  BY <1>4 DEF SweepRead, SweepCommit, ShutdownBegin, ProcStep, ShutdownForce, ShutdownEnd,
     ZombieSweep, OrphanSweep
<1>. QED
  BY <1>1, <1>2, <1>3, <1>4 DEF Next

LEMMA NextProcess == TypeOK /\ Next => ProcessTyped'
<1>. SUFFICES ASSUME RowsTyped, ProcessTyped, Next PROVE ProcessTyped'
  BY DEF TypeOK
<1>. USE DEF ProcessTyped
<1>1. CASE StartRun \/ LoopStep
  BY <1>1 DEF StartRun, LoopStep, Spawn, Enter, MarkRunning, MarkRunningCommit, LoopTop,
     InsertCommit, MarkDispatched, MarkDispatchedCommit, ExecutorReturns, MarkPaused,
     MarkPausedCommit, WaitDelivered, WaitTimeout, Expire, ExpireCommit, Resume, ResumeCommit,
     Settle, SettleCommit, SaveCommit, Terminate, TerminateCommit, Interrupt, ReadRun,
     TaskReturns, LoopOnly, RowsOnly, cliVars, procVars
<1>2. ASSUME NEW q \in Requests, ReqArrives(q) \/ ReqStep(q)
      PROVE  ProcessTyped'
  BY <1>2 DEF ReqArrives, ReqStep, CancelRead, HookRead, SignalRead, WakeRead, CancelCommit,
     CancelSupervisor, CancelReturn, HookCommit, HookDeliver, SignalFind, WakeDeliver, WakeCommit,
     ReqOnly, cliVars, procVars
<1>3. CASE SweepRead \/ SweepCommit
  BY <1>3, BoundsAssumption DEF SweepRead, SweepCommit, Orphans, procVars
<1>4. CASE Crash \/ ShutdownBegin
  <2>1. crashes < MaxCrashes /\ crashes' = crashes + 1 /\ proc' \in {"down", "draining"}
    BY <1>4 DEF Crash, ShutdownBegin
  <2>2. crashes' \in 0 .. MaxCrashes
    BY <2>1, BoundsAssumption
  <2>. QED
    BY <1>4, <2>1, <2>2 DEF Crash, ShutdownBegin, cliVars
<1>5. CASE ProcStep
  BY <1>5 DEF ProcStep, ShutdownForce, ShutdownEnd, ZombieSweep, OrphanSweep, cliVars
<1>. QED
  BY <1>1, <1>2, <1>3, <1>4, <1>5 DEF Next

LEMMA NextTypes == TypeOK /\ [Next]_vars => TypeOK'
<1>1. TypeOK /\ Next => TypeOK'
  BY NextRows, NextTask, NextFlags, NextRequests, NextProcess DEF TypeOK
<1>2. TypeOK /\ UNCHANGED vars => TypeOK'
  BY DEF vars, rowVars, loopVars, supVars, cliVars, procVars, TypeOK, RowsTyped, TaskTyped,
     FlagsTyped, RequestsTyped, ProcessTyped
<1>. QED
  BY <1>1, <1>2

\* Rows, loop bookkeeping and requests always hold values the program knows, in
\* every interleaving of loop, handlers, sweeps and restarts.
THEOREM TypeCorrect == Spec => []TypeOK
BY InitTypes, NextTypes, PTL DEF Spec

-----------------------------------------------------------------------------
(* Status and stop reason *)

\* Every _terminate has been given a reason, whichever way the loop came to it.
LEMMA NextReason == TypeOK /\ ReasonChosen /\ Next => ReasonChosen'
<1>. SUFFICES ASSUME TypeOK, ReasonChosen, Next PROVE ReasonChosen'
  OBVIOUS
<1>. USE DEF ReasonChosen
<1>1. CASE StartRun \/ Spawn
  BY <1>1 DEF StartRun, Spawn
<1>2. CASE Enter \/ MarkRunning \/ MarkPaused \/ Expire \/ Resume \/ Settle
  BY <1>2 DEF Enter, MarkRunning, MarkPaused, Expire, Resume, Settle, ReadRun, Goto,
     AfterWait, AfterResume
<1>3. CASE MarkRunningCommit \/ MarkDispatchedCommit \/ MarkPausedCommit \/ ExpireCommit
           \/ ResumeCommit \/ SettleCommit \/ InsertCommit
  BY <1>3 DEF MarkRunningCommit, MarkDispatchedCommit, MarkPausedCommit, ExpireCommit,
     ResumeCommit, SettleCommit, InsertCommit, Goto, AfterWait, AfterResume
<1>4. CASE LoopTop \/ MarkDispatched \/ SaveCommit
  BY <1>4 DEF LoopTop, MarkDispatched, SaveCommit, BeginTerminate, Goto
<1>5. CASE ExecutorReturns \/ WaitDelivered \/ WaitTimeout
  BY <1>5 DEF ExecutorReturns, WaitDelivered, WaitTimeout, AfterWait, Goto
<1>6. CASE Terminate \/ TerminateCommit
  BY <1>6 DEF Terminate, TerminateCommit, TaskReturns, Goto, At
<1>7. CASE Interrupt
  BY <1>7 DEF Interrupt
<1>8. ASSUME NEW q \in Requests, ReqArrives(q) \/ ReqStep(q)
      PROVE  ReasonChosen'
  BY <1>8 DEF ReqArrives, ReqStep, CancelRead, HookRead, SignalRead, WakeRead, CancelCommit,
     CancelSupervisor, CancelReturn, HookCommit, HookDeliver, SignalFind, WakeDeliver, WakeCommit,
     ReqOnly, loopVars
<1>9. CASE Crash \/ ShutdownEnd
  BY <1>9 DEF Crash, ShutdownEnd, NoTask
<1>10. CASE SweepRead \/ SweepCommit \/ ShutdownBegin \/ ShutdownForce \/ ZombieSweep \/ OrphanSweep
  BY <1>10 DEF SweepRead, SweepCommit, ShutdownBegin, ShutdownForce, ZombieSweep, OrphanSweep,
     loopVars
<1>. QED
  BY <1>1, <1>2, <1>3, <1>4, <1>5, <1>6, <1>7, <1>8, <1>9, <1>10 DEF Next, LoopStep, ProcStep

LEMMA NextOutcome ==
    TypeOK /\ ReasonChosen /\ OutcomeMatchesReason /\ Next => OutcomeMatchesReason'
<1>. SUFFICES ASSUME TypeOK, ReasonChosen, OutcomeMatchesReason, Next
              PROVE  OutcomeMatchesReason'
  OBVIOUS
<1>. USE DEF OutcomeMatchesReason
<1>1. CASE UNCHANGED run
  BY <1>1 DEF StatusOf
<1>2. ASSUME CommitInFlight PROVE OutcomeMatchesReason'
  <2>1. CASE pc = "termW" /\ SetTerminal(why)
    BY <2>1 DEF SetTerminal, StatusOf, ReasonChosen
  <2>2. CASE SetStatus("running") \/ SetStatus("paused")
    BY <2>2 DEF SetStatus, RunTerminal, TypeOK, RowsTyped
  <2>. QED
    BY <1>1, <1>2, <2>1, <2>2 DEF CommitInFlight, InsertRows, SetDispatched, FailDispatch,
       CommitTerminal, WriteState
<1>3. CASE LoopStep
  BY <1>1, <1>2, <1>3 DEF LoopStep, Spawn, Enter, MarkRunning, MarkRunningCommit, LoopTop,
     InsertCommit, MarkDispatched, MarkDispatchedCommit, ExecutorReturns, MarkPaused,
     MarkPausedCommit, WaitDelivered, WaitTimeout, Expire, ExpireCommit, Resume, ResumeCommit,
     Settle, SettleCommit, SaveCommit, Terminate, TerminateCommit, Interrupt, ReadRun, LoopOnly,
     rowVars
<1>4. CASE StartRun
  BY <1>4 DEF StartRun, RunTerminal, TypeOK, RowsTyped
<1>5. ASSUME NEW q \in Requests, ReqArrives(q) \/ ReqStep(q)
      PROVE  OutcomeMatchesReason'
  <2>1. CASE CancelCommit(q)
    BY <2>1 DEF CancelCommit, StatusOf
  <2>. QED
    BY <1>1, <1>5, <2>1 DEF ReqArrives, ReqStep, CancelRead, HookRead, SignalRead, WakeRead,
       CancelSupervisor, CancelReturn, HookCommit, HookDeliver, SignalFind, WakeDeliver,
       WakeCommit, ReqOnly, rowVars
<1>6. CASE ZombieSweep
  BY <1>6, <1>1 DEF ZombieSweep, StatusOf
<1>. QED
  BY <1>1, <1>3, <1>4, <1>5, <1>6 DEF Next, SweepRead, SweepCommit, Crash, ShutdownBegin,
     ProcStep, ShutdownForce, ShutdownEnd, OrphanSweep, rowVars

\* Status and stop reason agree on every terminal run: _terminate, cancel_run
\* and the zombie sweep may overwrite each other but never mix their columns.
THEOREM OutcomeCorrect == Spec => []OutcomeMatchesReason
<1>. DEFINE Inv == TypeOK /\ ReasonChosen /\ OutcomeMatchesReason
<1>1. Init => Inv
  BY InitTypes DEF Init, ReasonChosen, OutcomeMatchesReason, RunTerminal
<1>2. Inv /\ [Next]_vars => Inv'
  <2>1. Inv /\ Next => Inv'
    BY NextTypes, NextReason, NextOutcome
  <2>2. Inv /\ UNCHANGED vars => Inv'
    BY NextTypes DEF vars, rowVars, loopVars, ReasonChosen, OutcomeMatchesReason, StatusOf
  <2>. QED
    BY <2>1, <2>2
<1>. QED
  BY <1>1, <1>2, PTL DEF Spec

-----------------------------------------------------------------------------
(* Steps and dispatches *)

\* What a commit of the loop does to the rows of a step: only the step being
\* executed changes, rows never disappear, and only two commits open a dispatch.
LEMMA CommitEffects ==
    ASSUME TypeOK, CommitInFlight
    PROVE  /\ \A i \in Steps : i # n => disp'[i] = disp[i] /\ step'[i] = step[i]
           /\ \A i \in Steps : disp[i] # "none" => disp'[i] # "none"
           /\ \A i \in Steps : disp'[i] \in DispOpen =>
                  disp[i] \in DispOpen \/ pc \in {"insert", "markDW"}
           /\ run.status # "absent" => run'.status # "absent"
<1>. USE DEF TypeOK, RowsTyped, DispOpen
<1>1. CASE UNCHANGED <<disp, step>> /\ pc # "termW"
  BY <1>1 DEF CommitInFlight, SetStatus, WriteState, FailDispatch, CommitTerminal, InsertRows, SetDispatched
<1>2. CASE pc = "insert" /\ InsertRows
  BY <1>2 DEF InsertRows
<1>3. CASE pc = "markDW" /\ SetDispatched
  BY <1>3 DEF SetDispatched
<1>4. CASE pc = "expireW" /\ FailDispatch
  BY <1>4 DEF FailDispatch
<1>5. CASE pc \in {"settleW", "settleStep"} /\ CommitTerminal
  BY <1>5 DEF CommitTerminal, Terminalized
<1>6. CASE pc = "termW" /\ SetTerminal(why)
  BY <1>6 DEF SetTerminal, StatusOf
<1>. QED
  BY <1>1, <1>2, <1>3, <1>4, <1>5, <1>6 DEF CommitInFlight, SetStatus, WriteState

\* Everything but the loop task only closes dispatches that have a row, and
\* leaves the loop where it is unless it starts it or takes the process down.
LEMMA Surroundings ==
    ASSUME LoopInv, Next, ~LoopStep
    PROVE  /\ \A i \in Steps : \/ disp'[i] = disp[i]
                               \/ disp[i] # "none" /\ disp'[i] \in DispTerminal
           /\ UNCHANGED <<step, mem, mode>>
           /\ run'.status = "absent" => run.status = "absent"
           /\ \/ UNCHANGED loopVars
              \/ pc' = "none" /\ n' = 0
              \/ pc' = "starting" /\ run.status = "absent" /\ run'.status = "pending" /\ n' = n
<1>. USE DEF LoopInv, TypeOK, RowsTyped, DispTerminal
<1>1. CASE StartRun
  BY <1>1 DEF StartRun
<1>2. ASSUME NEW q \in Requests, ReqArrives(q) \/ ReqStep(q)
      PROVE  /\ \A i \in Steps : \/ disp'[i] = disp[i]
                                 \/ disp[i] # "none" /\ disp'[i] \in DispTerminal
             /\ UNCHANGED <<step, mem>>
             /\ run'.status = "absent" => run.status = "absent"
             /\ UNCHANGED loopVars
  <2>1. CASE HookCommit(q) \/ WakeCommit(q)
    BY <2>1 DEF HookCommit, WakeCommit, Terminalized, WritersSawRow
  <2>2. CASE CancelCommit(q)
    BY <2>2 DEF CancelCommit
  <2>3. CASE UNCHANGED <<rowVars, loopVars>>
    BY <2>3 DEF rowVars
  <2>. QED
    BY <1>2, <2>1, <2>2, <2>3 DEF ReqArrives, ReqStep, CancelRead, HookRead, SignalRead, WakeRead,
       CancelSupervisor, CancelReturn, HookDeliver, SignalFind, WakeDeliver, ReqOnly
<1>3. CASE SweepCommit \/ OrphanSweep
  BY <1>3 DEF SweepCommit, OrphanSweep, SettleOrphans, Orphans, WritersSawRow, loopVars
<1>4. CASE ZombieSweep
  BY <1>4 DEF ZombieSweep, loopVars
<1>5. CASE SweepRead \/ ShutdownBegin \/ ShutdownForce
  BY <1>5 DEF SweepRead, ShutdownBegin, ShutdownForce, rowVars, loopVars
<1>6. CASE Crash \/ ShutdownEnd
  BY <1>6 DEF Crash, ShutdownEnd, NoTask, rowVars
<1>. QED
  BY <1>1, <1>2, <1>3, <1>4, <1>5, <1>6 DEF Next, ProcStep, loopVars

LEMMA LoopRows ==
    ASSUME LoopInv, LoopStep
    PROVE  /\ \A i \in Steps : disp[i] # "none" => disp'[i] # "none"
           /\ UNCHANGED <<req, cli>>
<1>1. CommitInFlight \/ UNCHANGED rowVars
  BY DEF LoopStep, Spawn, Enter, MarkRunning, MarkRunningCommit, LoopTop, InsertCommit,
     MarkDispatched, MarkDispatchedCommit, ExecutorReturns, MarkPaused, MarkPausedCommit,
     WaitDelivered, WaitTimeout, Expire, ExpireCommit, Resume, ResumeCommit, Settle,
     SettleCommit, SaveCommit, Terminate, TerminateCommit, Interrupt, ReadRun, LoopOnly
<1>2. UNCHANGED <<req, cli>>
  BY DEF LoopStep, Spawn, Enter, MarkRunning, MarkRunningCommit, LoopTop, InsertCommit,
     MarkDispatched, MarkDispatchedCommit, ExecutorReturns, MarkPaused, MarkPausedCommit,
     WaitDelivered, WaitTimeout, Expire, ExpireCommit, Resume, ResumeCommit, Settle,
     SettleCommit, SaveCommit, Terminate, TerminateCommit, Interrupt, ReadRun, LoopOnly,
     RowsOnly, TaskReturns, cliVars
<1>. QED
  BY <1>1, <1>2, CommitEffects DEF LoopInv, rowVars

LEMMA NextWriters == LoopInv /\ Next => WritersSawRow'
<1>. SUFFICES ASSUME LoopInv, Next PROVE WritersSawRow'
  OBVIOUS
<1>. USE DEF LoopInv, WritersSawRow
<1>1. \A i \in Steps : disp[i] # "none" => disp'[i] # "none"
  BY LoopRows, Surroundings DEF DispTerminal
<1>2. cli.rows \subseteq Steps
  BY DEF TypeOK, ProcessTyped
<1>3. CASE UNCHANGED <<req, cli>>
  BY <1>1, <1>2, <1>3
<1>4. ASSUME NEW q \in Requests, ReqArrives(q) \/ ReqStep(q)
      PROVE  WritersSawRow'
  <2>1. cli' = cli /\ \E r : req' = [req EXCEPT ![q] = r]
    <3>1. cli' = cli
      BY <1>4 DEF ReqArrives, ReqStep, CancelRead, HookRead, SignalRead, WakeRead, CancelCommit,
         CancelSupervisor, CancelReturn, HookCommit, HookDeliver, SignalFind, WakeDeliver,
         WakeCommit, ReqOnly, cliVars
    <3>2. CASE \E at \in ReqPc : Move(q, at)
      BY <3>1, <3>2 DEF Move
    <3>3. CASE HookRead(q) \/ WakeRead(q) \/ SignalFind(q)
      BY <3>1, <3>3 DEF HookRead, WakeRead, SignalFind, Move
    <3>. QED
      BY <1>4, <3>1, <3>2, <3>3 DEF ReqArrives, ReqStep, CancelRead, SignalRead, CancelCommit,
         CancelSupervisor, CancelReturn, HookCommit, HookDeliver, WakeDeliver, WakeCommit, ReqPc,
         ReqBusy, ReqFinal
  <2>2. req'[q].at \in {"hookW", "wakeD", "wakeW"} => req'[q].d \in Steps /\ disp[req'[q].d] # "none"
    <3>. USE DEF TypeOK, RequestsTyped
    <3>1. CASE HookRead(q) \/ WakeRead(q)
      BY <3>1 DEF HookRead, WakeRead
    <3>2. CASE SignalFind(q)
      BY <3>2 DEF SignalFind, Checkpoints, Move
    <3>3. CASE WakeDeliver(q)
      BY <3>3 DEF WakeDeliver, Move
    <3>4. CASE \E at \in ReqPc \ {"hookW", "wakeD", "wakeW"} : Move(q, at)
      BY <3>4 DEF Move
    <3>. QED
      BY <1>4, <3>1, <3>2, <3>3, <3>4 DEF ReqArrives, ReqStep, CancelRead, SignalRead, CancelCommit,
         CancelSupervisor, CancelReturn, HookCommit, HookDeliver, WakeCommit, ReqPc, ReqBusy, ReqFinal
  <2>3. \A p \in Requests : p # q => req'[p] = req[p]
    BY <2>1 DEF TypeOK, RequestsTyped
  <2>. QED
    BY <1>1, <1>2, <2>1, <2>2, <2>3
<1>5. CASE SweepRead \/ SweepCommit
  <2>1. req' = req /\ cli'.rows \subseteq Orphans
    BY <1>5 DEF SweepRead, SweepCommit
  <2>. QED
    BY <1>1, <2>1 DEF Orphans
<1>6. CASE Crash
  <2>1. cli' = cli /\ \A q \in Requests : req'[q] = req[q] \/ req'[q].at = "done"
    BY <1>6 DEF Crash, cliVars, TypeOK, RequestsTyped
  <2>. QED
    BY <1>1, <1>2, <2>1
<1>. QED
  BY <1>3, <1>4, <1>5, <1>6, LoopRows DEF Next, StartRun, ShutdownBegin, ProcStep, ShutdownForce,
     ShutdownEnd, ZombieSweep, OrphanSweep, cliVars

LEMMA NextFresh == LoopInv /\ Next => FreshStart'
<1>. SUFFICES ASSUME LoopInv, Next PROVE FreshStart'
  OBVIOUS
<1>. USE DEF LoopInv, FreshStart
<1>1. CASE ~LoopStep
  <2>1. UNCHANGED <<step, mem>> /\ (run'.status = "absent" => run.status = "absent")
    BY <1>1, Surroundings
  <2>2. (\A i \in Steps : disp[i] = "none") => \A i \in Steps : disp'[i] = "none"
    BY <1>1, Surroundings
  <2>3. \/ UNCHANGED <<pc, n>>
        \/ pc' = "none" /\ n' = 0
        \/ pc' = "starting" /\ run.status = "absent" /\ run'.status = "pending" /\ n' = n
    BY <1>1, Surroundings DEF loopVars
  <2>. QED
    BY <2>1, <2>2, <2>3
<1>2. CASE LoopStep
  <2>1. run.status # "absent" /\ pc # "none"
    BY <1>2 DEF LoopStep, Spawn, Enter, MarkRunning, MarkRunningCommit, LoopTop, InsertCommit,
       MarkDispatched, MarkDispatchedCommit, ExecutorReturns, MarkPaused, MarkPausedCommit,
       WaitDelivered, WaitTimeout, Expire, ExpireCommit, Resume, ResumeCommit, Settle,
       SettleCommit, SaveCommit, Terminate, TerminateCommit, Interrupt, ReadRun, At, LoopTask
  <2>2. run'.status # "absent"
    BY <1>2, <2>1, CommitEffects DEF LoopStep, Spawn, Enter, MarkRunning, MarkRunningCommit, LoopTop,
       InsertCommit, MarkDispatched, MarkDispatchedCommit, ExecutorReturns, MarkPaused,
       MarkPausedCommit, WaitDelivered, WaitTimeout, Expire, ExpireCommit, Resume, ResumeCommit,
       Settle, SettleCommit, SaveCommit, Terminate, TerminateCommit, Interrupt, ReadRun, LoopOnly,
       rowVars
  <2>3. CASE Spawn \/ Enter \/ MarkRunning
    BY <2>2, <2>3 DEF Spawn, Enter, MarkRunning, ReadRun, Goto, At, LoopOnly, rowVars
  <2>4. CASE ~(Spawn \/ Enter \/ MarkRunning)
    <3>1. pc' \notin {"starting", "spawned", "mark", "markW"}
      BY <1>2, <2>4 DEF LoopStep, MarkRunningCommit, LoopTop, InsertCommit, MarkDispatched,
         MarkDispatchedCommit, ExecutorReturns, MarkPaused, MarkPausedCommit, WaitDelivered,
         WaitTimeout, Expire, ExpireCommit, Resume, ResumeCommit, Settle, SettleCommit, SaveCommit,
         Terminate, TerminateCommit, Interrupt, ReadRun, Goto, BeginTerminate, TaskReturns,
         AfterWait, AfterResume
    <3>. QED
      BY <2>2, <3>1
  <2>. QED
    BY <2>3, <2>4
<1>. QED
  BY <1>1, <1>2

\* Facts about the step being executed, carried from location to location.
LEMMA NextCurrent == LoopInv /\ Next => CurrentStep'
<1>. SUFFICES ASSUME LoopInv, Next PROVE CurrentStep'
  OBVIOUS
<1>. USE DEF LoopInv, TypeOK, RowsTyped, TaskTyped, CurrentStep, InStep, LoopTask, DispState,
     DispOpen, DispTerminal
<1>1. CASE ~LoopStep
  <2>1. CASE UNCHANGED loopVars
    <3>1. pc' = pc /\ n' = n /\ env' = env /\ handling' = handling /\ step' = step
      BY <1>1, <2>1, Surroundings DEF loopVars
    <3>2. \A i \in Steps : \/ disp'[i] = disp[i]
                           \/ disp[i] # "none" /\ disp'[i] \in DispTerminal
      BY <1>1, Surroundings
    <3>3. pc = "insert" => disp'[n] = "none"
      BY <3>2
    <3>4. pc \in InStep \ {"insert"} => disp'[n] # "none"
      BY <3>2
    <3>5. pc \in {"settleStep", "save"} => disp'[n] \in DispTerminal
      BY <3>2
    <3>. QED
      BY <3>1, <3>3, <3>4, <3>5 DEF Terminalized
  <2>2. CASE pc' \in {"none", "starting"}
    BY <2>2
  <2>. QED
    BY <1>1, <2>1, <2>2, Surroundings
<1>2. CASE Spawn \/ Enter \/ MarkRunning \/ MarkRunningCommit \/ Terminate \/ TerminateCommit
  BY <1>2 DEF Spawn, Enter, MarkRunning, MarkRunningCommit, Terminate, TerminateCommit,
     TaskReturns, ReadRun, Goto
<1>3. CASE LoopTop
  BY <1>3, BudgetAssumption DEF LoopTop, BeginTerminate, At, LoopOnly, rowVars, StepBarrier, Steps
<1>4. CASE InsertCommit
  BY <1>4 DEF InsertCommit, CommitInFlight, InsertRows, Goto, At
<1>5. CASE MarkDispatched \/ ExecutorReturns
  BY <1>5 DEF MarkDispatched, ExecutorReturns, BeginTerminate, Goto, At, LoopOnly, rowVars
<1>6. CASE MarkDispatchedCommit
  BY <1>6 DEF MarkDispatchedCommit, CommitInFlight, SetDispatched, Goto, At
<1>7. CASE MarkPaused \/ MarkPausedCommit
  BY <1>7 DEF MarkPaused, MarkPausedCommit, CommitInFlight, SetStatus, ReadRun, Goto, At, LoopOnly,
     rowVars
<1>8. CASE WaitDelivered \/ WaitTimeout
  BY <1>8 DEF WaitDelivered, WaitTimeout, AfterWait, At, rowVars
<1>9. CASE Expire
  BY <1>9 DEF Expire, AfterWait, Goto, At, LoopOnly, rowVars
<1>10. CASE ExpireCommit
  BY <1>10 DEF ExpireCommit, CommitInFlight, FailDispatch, AfterWait, Goto, At
<1>11. CASE Resume \/ ResumeCommit
  BY <1>11 DEF Resume, ResumeCommit, CommitInFlight, SetStatus, ReadRun, AfterResume, Goto, At,
     LoopOnly, rowVars
<1>12. CASE Settle
  BY <1>12 DEF Settle, Goto, At, LoopOnly, rowVars
<1>13. CASE SettleCommit
  BY <1>13 DEF SettleCommit, CommitInFlight, CommitTerminal, Terminalized, Goto
<1>14. CASE SaveCommit
  BY <1>14 DEF SaveCommit, BeginTerminate, Goto
<1>15. CASE Interrupt
  <2>1. n' = n /\ handling' /\ pc' \in {"exit", "term", "resume"} /\ (pc' = "resume" => pc \in WaitBlock)
    BY <1>15 DEF Interrupt
  <2>2. \A i \in Steps : disp[i] # "none" => disp'[i] # "none"
    BY <1>15, LoopRows DEF LoopStep
  <2>. QED
    BY <2>1, <2>2 DEF WaitBlock
<1>. QED
  BY <1>1, <1>2, <1>3, <1>4, <1>5, <1>6, <1>7, <1>8, <1>9, <1>10, <1>11, <1>12, <1>13, <1>14, <1>15
  DEF LoopStep

\* The loop moves on only over a settled step, and the rows of other steps are
\* out of its reach.
LEMMA NextBarrier == LoopInv /\ Next => StepBarrier'
<1>. SUFFICES ASSUME LoopInv, Next PROVE StepBarrier'
  OBVIOUS
<1>. USE DEF LoopInv, StepBarrier, Finished, LoopTask
<1>1. CASE ~LoopStep
  <2>1. CASE UNCHANGED loopVars
    <3>1. \A i \in Steps : \/ disp'[i] = disp[i]
                           \/ disp[i] # "none" /\ disp'[i] \in DispTerminal
      BY <1>1, Surroundings
    <3>2. step' = step /\ mem' = mem
      BY <1>1, Surroundings
    <3>3. n \in 0 .. MaxSteps
      BY DEF TypeOK, TaskTyped
    <3>. QED
      BY <2>1, <3>1, <3>2, <3>3, BudgetAssumption DEF loopVars, Steps
  <2>2. CASE pc' \in {"none", "starting"}
    BY <2>2
  <2>. QED
    BY <1>1, <2>1, <2>2, Surroundings
<1>2. CASE Spawn \/ Enter \/ MarkRunning \/ MarkRunningCommit
  BY <1>2, BudgetAssumption DEF Spawn, Enter, MarkRunning, MarkRunningCommit, CommitInFlight, SetStatus, ReadRun,
     Goto, At, LoopOnly, rowVars, FreshStart, Steps
<1>3. CASE LoopTop
  BY <1>3, BudgetAssumption DEF LoopTop, BeginTerminate, At, LoopOnly, rowVars, TypeOK, TaskTyped
<1>4. CASE SaveCommit
  BY <1>4 DEF SaveCommit, CommitInFlight, WriteState, BeginTerminate, Goto, At, CurrentStep, InStep,
     Steps, TypeOK, TaskTyped, Terminalized
<1>5. ASSUME LoopStep, ~(Spawn \/ Enter \/ MarkRunning \/ MarkRunningCommit \/ LoopTop \/ SaveCommit)
      PROVE  StepBarrier'
  <2>1. n' = n /\ pc' \notin {"spawned", "mark", "markW", "top"}
    BY <1>5 DEF LoopStep, InsertCommit, MarkDispatched,
       MarkDispatchedCommit, ExecutorReturns, MarkPaused, MarkPausedCommit, WaitDelivered,
       WaitTimeout, Expire, ExpireCommit, Resume, ResumeCommit, Settle, SettleCommit,
       Terminate, TerminateCommit, Interrupt, ReadRun, Goto, BeginTerminate, TaskReturns,
       AfterWait, AfterResume
  <2>2. pc \in LoopTask
    BY <1>5, <2>1 DEF LoopStep, InsertCommit, MarkDispatched,
       MarkDispatchedCommit, ExecutorReturns, MarkPaused, MarkPausedCommit, WaitDelivered,
       WaitTimeout, Expire, ExpireCommit, Resume, ResumeCommit, Settle, SettleCommit,
       Terminate, TerminateCommit, Interrupt, ReadRun, At
  <2>3. \A i \in Steps : i # n => disp'[i] = disp[i] /\ step'[i] = step[i]
    BY <1>5, CommitEffects DEF LoopStep, InsertCommit, MarkDispatched,
       MarkDispatchedCommit, ExecutorReturns, MarkPaused, MarkPausedCommit, WaitDelivered,
       WaitTimeout, Expire, ExpireCommit, Resume, ResumeCommit, Settle, SettleCommit,
       Terminate, TerminateCommit, Interrupt, ReadRun, LoopOnly, rowVars
  <2>4. \A i \in 1 .. n - 1 : i \in Steps /\ i # n
    BY BudgetAssumption DEF Steps, TypeOK, TaskTyped
  <2>5. \A i \in n + 1 .. MaxSteps : i \in Steps /\ i # n
    BY BudgetAssumption DEF Steps, TypeOK, TaskTyped
  <2>6. \A i \in 1 .. n - 1 : step[i] = "completed" /\ disp[i] \in DispTerminal
    BY <2>2 DEF TypeOK, TaskTyped
  <2>. QED
    BY <2>1, <2>2, <2>3, <2>4, <2>5, <2>6
<1>. QED
  BY <1>1, <1>2, <1>3, <1>4, <1>5

LEMMA NextOneOpen == LoopInv /\ Next => OneOpenDispatch'
<1>. SUFFICES ASSUME LoopInv, Next PROVE OneOpenDispatch'
  OBVIOUS
<1>. USE DEF LoopInv, OneOpenDispatch
<1>1. CASE \A i \in Steps : disp'[i] \in DispOpen => disp[i] \in DispOpen
  BY <1>1
<1>2. CASE ~LoopStep
  BY <1>1, <1>2, Surroundings DEF DispOpen, DispTerminal
<1>3. ASSUME CommitInFlight, pc \in {"insert", "markDW"}
      PROVE  OneOpenDispatch'
  <2>1. \A i \in Steps : i # n => disp[i] \notin DispOpen
    BY <1>3, BudgetAssumption DEF StepBarrier, Finished, LoopTask, TypeOK, TaskTyped, Steps, DispOpen, DispTerminal
  <2>2. \A i \in Steps : i # n => disp'[i] \notin DispOpen
    BY <1>3, <2>1, CommitEffects
  <2>. QED
    BY <2>2
<1>4. CASE LoopStep
  <2>1. CommitInFlight \/ UNCHANGED rowVars
    BY <1>4 DEF LoopStep, Spawn, Enter, MarkRunning, MarkRunningCommit, LoopTop, InsertCommit,
       MarkDispatched, MarkDispatchedCommit, ExecutorReturns, MarkPaused, MarkPausedCommit,
       WaitDelivered, WaitTimeout, Expire, ExpireCommit, Resume, ResumeCommit, Settle,
       SettleCommit, SaveCommit, Terminate, TerminateCommit, Interrupt, ReadRun, LoopOnly
  <2>. QED
    BY <1>1, <1>3, <2>1, CommitEffects DEF rowVars
<1>. QED
  BY <1>2, <1>4

LEMMA InitInv == Init => LoopInv
<1>. SUFFICES ASSUME Init PROVE LoopInv
  OBVIOUS
<1>1. OutcomeMatchesReason /\ StepBarrier /\ ReasonChosen /\ WritersSawRow
  BY DEF Init, OutcomeMatchesReason, StepBarrier, ReasonChosen, WritersSawRow, RunTerminal, LoopTask
<1>2. OneOpenDispatch /\ FreshStart /\ CurrentStep
  BY DEF Init, OneOpenDispatch, FreshStart, CurrentStep, DispOpen, InStep, LoopTask
<1>. QED
  BY <1>1, <1>2, InitTypes DEF LoopInv

LEMMA NextInv == LoopInv /\ [Next]_vars => LoopInv'
<1>1. LoopInv /\ Next => LoopInv'
  <2>1. LoopInv /\ Next => TypeOK' /\ ReasonChosen' /\ OutcomeMatchesReason'
    BY NextTypes, NextReason, NextOutcome DEF LoopInv
  <2>. QED
    BY <2>1, NextBarrier, NextOneOpen, NextFresh, NextCurrent, NextWriters DEF LoopInv
<1>2. LoopInv /\ UNCHANGED vars => LoopInv'
  <2>. SUFFICES ASSUME LoopInv, UNCHANGED vars PROVE LoopInv'
    OBVIOUS
  <2>. USE DEF LoopInv, vars, rowVars, loopVars, supVars, cliVars, procVars
  <2>1. TypeOK'
    BY NextTypes
  <2>2. OutcomeMatchesReason' /\ ReasonChosen'
    BY DEF OutcomeMatchesReason, ReasonChosen, StatusOf
  <2>3. StepBarrier' /\ OneOpenDispatch' /\ FreshStart'
    BY DEF StepBarrier, Finished, OneOpenDispatch, FreshStart
  <2>4. CurrentStep' /\ WritersSawRow'
    BY DEF CurrentStep, WritersSawRow, Terminalized
  <2>. QED
    BY <2>1, <2>2, <2>3, <2>4
<1>. QED
  BY <1>1, <1>2

\* The conjunction of all of the above is an invariant.
THEOREM InvariantHolds == Spec => []LoopInv
BY InitInv, NextInv, PTL DEF Spec

\* The loop never starts a step before every earlier one is completed, settled
\* and recorded, for any number of steps and of concurrent requests.
THEOREM BarrierHolds == Spec => []StepBarrier
<1>. LoopInv => StepBarrier
  BY DEF LoopInv
<1>. QED
  BY InvariantHolds, PTL

\* At most one dispatch of a run is open at any time, so that the dispatch a
\* signal is paired with is the only candidate.
THEOREM AtMostOneOpenDispatch == Spec => []OneOpenDispatch
<1>. LoopInv => OneOpenDispatch
  BY DEF LoopInv
<1>. QED
  BY InvariantHolds, PTL

=============================================================================
