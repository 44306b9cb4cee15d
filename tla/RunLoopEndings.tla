---------------------------- MODULE RunLoopEndings ----------------------------
(***************************************************************************)
(* Theorems about RunLoop, on how a run is left: no task ends with the run *)
(* still open, no run stays paused without a wait, no result that was      *)
(* committed is slept through, the loop task has a bounded number of steps *)
(* left, and the rows change as SequentialRun promises.                    *)
(***************************************************************************)
EXTENDS RunLoopProofs

-----------------------------------------------------------------------------
(* The invariant *)

Away == {"none", "exit"}

\* The loop is about to find the run closed, or to close it once more.
Closed == pc \in {"term", "termW"} /\ run.status \in RunTerminal

Asked == run.reason = "cancelled" \/ Closed

\* A task is cancelled only for a request that closed the run, or by force.
CancelMeans == cancelPend => pc \in LoopTask /\ (Asked \/ proc = "killing")

CancelKnown ==
    \A q \in Requests :
        /\ req[q].at \in {"cancelW", "cancelSup"} => run.status # "absent"
        /\ req[q].at = "cancelSup" => Asked \/ pc \in Away

NotYetRunning ==
    pc \in {"starting", "spawned", "mark", "markW"} =>
        run.status \notin {"running", "paused"}

\* NoZombie, with the stops of the process in between.
LeftOpen ==
    pc \in Away /\ run.status \in {"running", "paused"} =>
        run.reason = "cancelled" \/ proc \in {"killing", "down"}

\* A pending run is on its way to its first step, and nobody has cancelled it.
TakenUp ==
    run.status = "pending" /\ crashes = 0 =>
        pc \in {"starting", "spawned", "mark", "markW"} /\ ~cancelPend

FreshRow == run.status \in {"absent", "pending"} => run.reason = "none"

StopsCounted == proc # "up" => crashes # 0

NoTaskDown == proc \in {"down", "booting"} => pc = "none"

Unwinding == handling => pc \in {"resume", "resumeW", "term", "termW", "exit"}

HumanPause == pc \in {"pause", "pauseW", "resume", "resumeW"} => mode[n] = "human"

\* Only the end of the grace period cancels a task whose run nobody cancelled,
\* and only once.
OneForce ==
    run.status = "paused" /\ run.reason = "none" /\ pc # "none" /\ handling =>
        proc = "killing" /\ ~cancelPend

EndInv ==
    /\ LoopInv
    /\ CancelMeans /\ CancelKnown /\ NotYetRunning /\ LeftOpen /\ NoTaskDown
    /\ Unwinding /\ HumanPause /\ OneForce /\ PausedMeansParked
    /\ TakenUp /\ FreshRow /\ StopsCounted

-----------------------------------------------------------------------------
(* What the steps may do *)

\* Four commits of the loop write the run, each at its place.
LEMMA LoopRun ==
    ASSUME LoopInv, LoopStep
    PROVE  \/ UNCHANGED run
           \/ /\ pc \in {"markW", "resumeW"}
              /\ run'.status = "running" /\ run'.reason = run.reason
           \/ /\ pc = "pauseW"
              /\ run'.status = "paused" /\ run'.reason = run.reason
           \/ /\ pc = "termW"
              /\ run'.status \in RunTerminal /\ run'.reason # "none"
<1>1. ASSUME CommitInFlight
      PROVE  \/ UNCHANGED run
             \/ /\ pc \in {"markW", "resumeW"}
                /\ run'.status = "running" /\ run'.reason = run.reason
             \/ /\ pc = "pauseW"
                /\ run'.status = "paused" /\ run'.reason = run.reason
             \/ /\ pc = "termW"
                /\ run'.status \in RunTerminal /\ run'.reason # "none"
  <2>1. CASE pc = "termW" /\ SetTerminal(why)
    BY <2>1 DEF SetTerminal, StatusOf, RunTerminal, LoopInv, ReasonChosen
  <2>2. CASE pc # "termW"
    BY <1>1, <2>2 DEF CommitInFlight, SetStatus, InsertRows, SetDispatched, FailDispatch,
       CommitTerminal, WriteState, LoopInv, TypeOK, RowsTyped
  <2>. QED
    BY <1>1, <2>1, <2>2 DEF CommitInFlight
<1>2. CommitInFlight \/ UNCHANGED rowVars
  BY DEF LoopStep, Spawn, Enter, MarkRunning, MarkRunningCommit, LoopTop, InsertCommit,
     MarkDispatched, MarkDispatchedCommit, ExecutorReturns, MarkPaused, MarkPausedCommit,
     WaitDelivered, WaitTimeout, Expire, ExpireCommit, Resume, ResumeCommit, Settle,
     SettleCommit, SaveCommit, Terminate, TerminateCommit, Interrupt, ReadRun, LoopOnly
<1>. QED
  BY <1>1, <1>2 DEF rowVars

\* The loop knows nothing of the process and of the requests,
LEMMA LoopLeaves == LoopStep => UNCHANGED <<req, cli, proc, sweeps>>
  BY DEF LoopStep, Spawn, Enter, MarkRunning, MarkRunningCommit, LoopTop, InsertCommit,
     MarkDispatched, MarkDispatchedCommit, ExecutorReturns, MarkPaused, MarkPausedCommit,
     WaitDelivered, WaitTimeout, Expire, ExpireCommit, Resume, ResumeCommit, Settle,
     SettleCommit, SaveCommit, Terminate, TerminateCommit, Interrupt, ReadRun, LoopOnly,
     RowsOnly, TaskReturns, cliVars, procVars

\* and takes no step between the request to cancel and the CancelledError.
LEMMA LoopAlone ==
    ASSUME LoopStep, CancelMeans
    PROVE  UNCHANGED <<req, cli, proc, sweeps>> /\ ~cancelPend'
<1>1. UNCHANGED <<req, cli, proc, sweeps>>
  BY LoopLeaves
<1>2. ASSUME Spawn PROVE ~cancelPend'
  BY <1>2 DEF Spawn, CancelMeans, LoopTask
<1>3. ASSUME Interrupt PROVE ~cancelPend'
  BY <1>3 DEF Interrupt
<1>4. ASSUME ~Spawn, ~Interrupt PROVE ~cancelPend'
  <2>1. ~cancelPend
    BY <1>4 DEF LoopStep, Enter, MarkRunning, MarkRunningCommit, LoopTop, InsertCommit,
       MarkDispatched, MarkDispatchedCommit, ExecutorReturns, MarkPaused, MarkPausedCommit,
       WaitDelivered, WaitTimeout, Expire, ExpireCommit, Resume, ResumeCommit, Settle,
       SettleCommit, SaveCommit, Terminate, TerminateCommit, ReadRun, At
  <2>2. cancelPend' = cancelPend
    BY <1>4 DEF LoopStep, Enter, MarkRunning, MarkRunningCommit, LoopTop, InsertCommit,
       MarkDispatched, MarkDispatchedCommit, ExecutorReturns, MarkPaused, MarkPausedCommit,
       WaitDelivered, WaitTimeout, Expire, ExpireCommit, Resume, ResumeCommit, Settle,
       SettleCommit, SaveCommit, Terminate, TerminateCommit, ReadRun, LoopOnly, RowsOnly,
       TaskReturns, supVars
  <2>. QED
    BY <2>1, <2>2
<1>. QED
  BY <1>1, <1>2, <1>3, <1>4

\* Everything but the loop, by what it does to the run and to the task.
LEMMA Others ==
    ASSUME LoopInv, Next, ~LoopStep
    PROVE  \/ StartRun
           \/ UNCHANGED <<run, loopVars, cancelPend, proc>>
           \/ /\ \E q \in Requests : CancelCommit(q)
              /\ UNCHANGED <<loopVars, cancelPend, proc>>
           \/ /\ \E q \in Requests : CancelSupervisor(q)
              /\ UNCHANGED <<run, loopVars, proc>>
           \/ /\ Crash \/ ShutdownEnd
              /\ UNCHANGED run /\ pc' = "none" /\ ~handling' /\ ~cancelPend'
              /\ proc' = "down"
           \/ ShutdownBegin /\ UNCHANGED <<run, loopVars, cancelPend>>
           \/ ShutdownForce /\ UNCHANGED <<run, loopVars>>
           \/ ZombieSweep /\ UNCHANGED <<loopVars, cancelPend>>
           \/ OrphanSweep /\ UNCHANGED <<run, loopVars, cancelPend>>
<1>1. ASSUME NEW q \in Requests, ReqArrives(q) \/ ReqStep(q)
      PROVE  \/ UNCHANGED <<run, loopVars, cancelPend, proc>>
             \/ CancelCommit(q) /\ UNCHANGED <<loopVars, cancelPend, proc>>
             \/ CancelSupervisor(q) /\ UNCHANGED <<run, loopVars, proc>>
  BY <1>1 DEF ReqArrives, ReqStep, CancelRead, HookRead, SignalRead, WakeRead, CancelCommit,
     CancelSupervisor, CancelReturn, HookCommit, HookDeliver, SignalFind, WakeDeliver,
     WakeCommit, Deliver, ReqOnly, rowVars, supVars, procVars
<1>2. CASE SweepRead \/ SweepCommit
  BY <1>2 DEF SweepRead, SweepCommit, rowVars, supVars, procVars
<1>3. CASE Crash \/ ShutdownEnd
  BY <1>3 DEF Crash, ShutdownEnd, NoTask, rowVars
<1>4. CASE ShutdownBegin \/ ShutdownForce \/ ZombieSweep \/ OrphanSweep
  BY <1>4 DEF ShutdownBegin, ShutdownForce, ZombieSweep, OrphanSweep, rowVars, supVars
<1>. QED
  BY <1>1, <1>2, <1>3, <1>4 DEF Next, ProcStep

\* Where a task that is not interrupted may go.
LEMMA LoopMoves ==
    ASSUME LoopInv, LoopStep, ~Interrupt
    PROVE  /\ pc \in LoopTask \cup {"starting"}
           /\ pc' \in {"starting", "spawned", "mark", "markW"} =>
                  pc \in {"starting", "spawned", "mark"}
           /\ pc \in {"term", "termW"} => pc' \in {"termW", "exit"}
           /\ pc = "termW" => pc' = "exit"
           /\ pc' = "exit" =>
                  \/ pc = "termW" /\ CommitInFlight
                  \/ pc = "term" /\ run.status \in RunTerminal
           /\ pc' # "none"
  BY DEF LoopStep, Spawn, Enter, MarkRunning, MarkRunningCommit, LoopTop, InsertCommit,
     MarkDispatched, MarkDispatchedCommit, ExecutorReturns, MarkPaused, MarkPausedCommit,
     WaitDelivered, WaitTimeout, Expire, ExpireCommit, Resume, ResumeCommit, Settle,
     SettleCommit, SaveCommit, Terminate, TerminateCommit, ReadRun, TaskReturns, Goto,
     BeginTerminate, AfterWait, AfterResume, At, LoopTask

LEMMA InterruptMoves ==
    ASSUME LoopInv, Interrupt
    PROVE  /\ pc \in LoopTask /\ cancelPend
           /\ pc' \in {"exit", "resume", "term"}
           /\ pc' = "exit" => pc = "spawned" \/ (handling /\ pc \in {"term", "termW"})
           /\ pc \in {"term", "termW"} => pc' \in {"term", "exit"}
           /\ pc' = "resume" => pc \in WaitBlock /\ mode[n] = "human"
           /\ UNCHANGED <<n, env, mode>>
  BY DEF Interrupt, WaitBlock, LoopInv, TypeOK, FlagsTyped

-----------------------------------------------------------------------------
(* One lemma per part of the invariant *)

LEMMA NextCancelMeans == EndInv /\ Next => CancelMeans'
<1>. SUFFICES ASSUME EndInv, Next PROVE CancelMeans'
  OBVIOUS
<1>1. CASE LoopStep
  BY <1>1, LoopAlone DEF EndInv, CancelMeans
<1>2. CASE ~LoopStep
  <2>. USE DEF EndInv, CancelMeans, Asked, Closed
  <2>1. CASE StartRun
    BY <2>1 DEF StartRun, LoopInv, FreshStart, LoopTask, supVars
  <2>2. CASE UNCHANGED <<run, loopVars, cancelPend, proc>>
    BY <2>2 DEF loopVars
  <2>3. CASE (\E q \in Requests : CancelCommit(q)) /\ UNCHANGED <<loopVars, cancelPend, proc>>
    BY <2>3 DEF loopVars, CancelCommit
  <2>4. ASSUME NEW q \in Requests, CancelSupervisor(q), UNCHANGED <<run, loopVars, proc>>
        PROVE  CancelMeans'
    BY <2>4 DEF CancelSupervisor, CancelKnown, loopVars, Away, LoopTask
  <2>5. CASE ~cancelPend'
    BY <2>5
  <2>6. CASE ShutdownBegin /\ UNCHANGED <<run, loopVars, cancelPend>>
    BY <2>6 DEF ShutdownBegin, loopVars
  <2>7. CASE ShutdownForce /\ UNCHANGED <<run, loopVars>>
    BY <2>7 DEF ShutdownForce, loopVars
  <2>8. CASE (ZombieSweep \/ OrphanSweep) /\ UNCHANGED <<loopVars, cancelPend>>
    BY <2>8 DEF ZombieSweep, OrphanSweep, NoTaskDown, LoopTask
  <2>. QED
    BY <1>2, <2>1, <2>2, <2>3, <2>4, <2>5, <2>6, <2>7, <2>8, Others
<1>. QED
  BY <1>1, <1>2

LEMMA NextNotYetRunning == EndInv /\ Next => NotYetRunning'
<1>. SUFFICES ASSUME EndInv, Next PROVE NotYetRunning'
  OBVIOUS
<1>. USE DEF EndInv, NotYetRunning
<1>1. CASE LoopStep
  BY <1>1, LoopRun, LoopMoves, InterruptMoves
<1>2. CASE ~LoopStep
  <2>1. CASE StartRun
    BY <2>1 DEF StartRun, LoopInv, TypeOK, RowsTyped
  <2>2. CASE UNCHANGED <<run, loopVars>>
    BY <2>2 DEF loopVars
  <2>3. CASE (\E q \in Requests : CancelCommit(q)) /\ UNCHANGED <<loopVars, cancelPend, proc>>
    BY <2>3 DEF CancelCommit
  <2>4. CASE pc' = "none"
    BY <2>4
  <2>5. CASE ZombieSweep /\ UNCHANGED <<loopVars, cancelPend>>
    BY <2>5 DEF ZombieSweep, loopVars
  <2>. QED
    BY <1>2, <2>1, <2>2, <2>3, <2>4, <2>5, Others
<1>. QED
  BY <1>1, <1>2

LEMMA NextLeftOpen == EndInv /\ Next => LeftOpen'
<1>. SUFFICES ASSUME EndInv, Next PROVE LeftOpen'
  OBVIOUS
<1>1. CASE LoopStep
  <2>. USE DEF EndInv, RunTerminal
  <2>1. proc' = proc
    BY <1>1, LoopAlone
  <2>2. CASE Interrupt
    <3>1. CASE pc = "spawned"
      BY <1>1, <3>1, LoopRun DEF LeftOpen, NotYetRunning
    <3>2. CASE handling /\ pc \in {"term", "termW"}
      BY <1>1, <2>1, <2>2, <3>2, LoopRun, InterruptMoves DEF LeftOpen, CancelMeans, Asked, Closed
    <3>. QED
      BY <2>2, <3>1, <3>2, InterruptMoves DEF LeftOpen, Away
  <2>3. CASE ~Interrupt
    <3>1. CASE pc = "termW" /\ CommitInFlight
      BY <3>1 DEF LeftOpen, CommitInFlight, SetTerminal, StatusOf
    <3>. QED
      BY <1>1, <2>3, <3>1, LoopRun, LoopMoves DEF LeftOpen, Away
  <2>. QED
    BY <2>2, <2>3
<1>2. CASE ~LoopStep
  <2>. USE DEF EndInv, LeftOpen
  <2>1. CASE StartRun
    BY <2>1 DEF StartRun, Away
  <2>2. CASE UNCHANGED <<run, loopVars, proc>>
    BY <2>2 DEF loopVars
  <2>3. CASE (\E q \in Requests : CancelCommit(q)) /\ UNCHANGED <<loopVars, cancelPend, proc>>
    BY <2>3 DEF CancelCommit
  <2>4. CASE proc' = "down"
    BY <2>4
  <2>5. CASE ShutdownBegin /\ UNCHANGED <<run, loopVars, cancelPend>>
    BY <2>5 DEF ShutdownBegin, loopVars
  <2>6. CASE ShutdownForce /\ UNCHANGED <<run, loopVars>>
    BY <2>6 DEF ShutdownForce, loopVars
  <2>7. CASE ZombieSweep /\ UNCHANGED <<loopVars, cancelPend>>
    BY <2>7 DEF ZombieSweep, loopVars
  <2>8. CASE OrphanSweep /\ UNCHANGED <<run, loopVars, cancelPend>>
    BY <2>8 DEF OrphanSweep, loopVars
  <2>. QED
    BY <1>2, <2>1, <2>2, <2>3, <2>4, <2>5, <2>6, <2>7, <2>8, Others
<1>. QED
  BY <1>1, <1>2

\* The row is written first when the run starts, which clears what may follow.
LEMMA NextFreshRow == EndInv /\ Next => FreshRow'
<1>. SUFFICES ASSUME EndInv, Next PROVE FreshRow'
  OBVIOUS
<1>. USE DEF EndInv, FreshRow
<1>1. CASE LoopStep
  BY <1>1, LoopRun DEF RunTerminal
<1>2. CASE ~LoopStep
  <2>1. CASE StartRun
    BY <2>1 DEF StartRun, LoopInv, TypeOK, RowsTyped
  <2>2. CASE UNCHANGED run
    BY <2>2
  <2>3. ASSUME NEW q \in Requests, CancelCommit(q) PROVE FreshRow'
    BY <2>3 DEF CancelCommit
  <2>4. CASE ZombieSweep
    BY <2>4 DEF ZombieSweep
  <2>. QED
    BY <1>2, <2>1, <2>2, <2>3, <2>4, Others
<1>. QED
  BY <1>1, <1>2

LEMMA LoopUncounted == LoopStep => UNCHANGED crashes
  BY DEF LoopStep, Spawn, Enter, MarkRunning, MarkRunningCommit, LoopTop, InsertCommit,
     MarkDispatched, MarkDispatchedCommit, ExecutorReturns, MarkPaused, MarkPausedCommit,
     WaitDelivered, WaitTimeout, Expire, ExpireCommit, Resume, ResumeCommit, Settle,
     SettleCommit, SaveCommit, Terminate, TerminateCommit, Interrupt, ReadRun, LoopOnly,
     RowsOnly, TaskReturns, procVars

LEMMA CrashesCounted ==
    ASSUME EndInv, Next
    PROVE  \/ UNCHANGED <<proc, crashes>>
           \/ crashes' # 0
<1>0. crashes \in Nat
  BY BoundsAssumption DEF EndInv, LoopInv, TypeOK, ProcessTyped
<1>1. CASE LoopStep
  BY <1>1, LoopLeaves, LoopUncounted
<1>2. CASE Crash \/ ShutdownBegin
  <2>1. crashes' = crashes + 1
    BY <1>2 DEF Crash, ShutdownBegin
  <2>. QED
    BY <1>0, <2>1
<1>3. CASE ProcStep
  BY <1>3 DEF EndInv, StopsCounted, ProcStep, ShutdownForce, ShutdownEnd, ZombieSweep, OrphanSweep
<1>4. ASSUME NEW q \in Requests, ReqArrives(q) \/ ReqStep(q)
      PROVE  UNCHANGED <<proc, crashes>>
  BY <1>4 DEF ReqArrives, ReqStep, CancelRead, HookRead, SignalRead, WakeRead, CancelCommit,
     CancelSupervisor, CancelReturn, HookCommit, HookDeliver, SignalFind, WakeDeliver,
     WakeCommit, ReqOnly, procVars
<1>5. CASE StartRun \/ SweepRead \/ SweepCommit
  BY <1>5 DEF StartRun, SweepRead, SweepCommit, procVars
<1>. QED
  BY <1>1, <1>2, <1>3, <1>4, <1>5 DEF Next

LEMMA NextTakenUp == EndInv /\ Next => TakenUp'
<1>. SUFFICES ASSUME EndInv, Next, run'.status = "pending", crashes' = 0
              PROVE  pc' \in {"starting", "spawned", "mark", "markW"} /\ ~cancelPend'
  BY DEF TakenUp
<1>. USE DEF EndInv, TakenUp
<1>0. crashes = 0 /\ proc = "up"
  BY CrashesCounted DEF StopsCounted
<1>1. CASE LoopStep
  <2>1. run.status = "pending" /\ ~Interrupt
    BY <1>0, <1>1, LoopRun DEF RunTerminal, Interrupt
  <2>2. pc \in {"starting", "spawned", "mark", "markW"} /\ ~cancelPend'
    BY <1>0, <1>1, <2>1, LoopAlone
  <2>3. Spawn \/ Enter \/ MarkRunning \/ MarkRunningCommit
    BY <1>1, <2>1, <2>2 DEF LoopStep, LoopTop, InsertCommit,
       MarkDispatched, MarkDispatchedCommit, ExecutorReturns, MarkPaused, MarkPausedCommit,
       WaitDelivered, WaitTimeout, Expire, ExpireCommit, Resume, ResumeCommit, Settle,
       SettleCommit, SaveCommit, Terminate, TerminateCommit, ReadRun, At
  <2>4. CASE MarkRunningCommit
    BY <2>4 DEF MarkRunningCommit, CommitInFlight, SetStatus, At, LoopInv, TypeOK, RowsTyped
  <2>. QED
    BY <2>1, <2>2, <2>3, <2>4 DEF Spawn, Enter, MarkRunning, ReadRun, Goto, RunTerminal
<1>2. CASE ~LoopStep
  <2>1. CASE StartRun
    BY <2>1 DEF StartRun, CancelMeans, LoopInv, FreshStart, LoopTask, supVars
  <2>2. CASE UNCHANGED <<run, loopVars, cancelPend>>
    BY <1>0, <2>2 DEF loopVars
  <2>3. ASSUME NEW q \in Requests, CancelSupervisor(q), UNCHANGED <<run, loopVars, proc>>
        PROVE  pc' \in {"starting", "spawned", "mark", "markW"} /\ ~cancelPend'
    BY <1>0, <2>3 DEF CancelSupervisor, CancelKnown, Asked, Closed, FreshRow, Away, LoopTask,
       loopVars
  <2>4. ASSUME NEW q \in Requests, CancelCommit(q) PROVE FALSE
    BY <2>4 DEF CancelCommit
  <2>5. CASE Crash \/ ShutdownEnd \/ ShutdownForce \/ ZombieSweep
    BY <1>0, <2>5, BoundsAssumption DEF Crash, ShutdownEnd, ShutdownForce, ZombieSweep,
       LoopInv, TypeOK, ProcessTyped
  <2>. QED
    BY <1>2, <2>1, <2>2, <2>3, <2>4, <2>5, Others
<1>. QED
  BY <1>1, <1>2

LEMMA NextNoTaskDown == EndInv /\ Next => NoTaskDown'
<1>. SUFFICES ASSUME EndInv, Next PROVE NoTaskDown'
  OBVIOUS
<1>. USE DEF EndInv, NoTaskDown
<1>1. CASE LoopStep
  BY <1>1, LoopAlone, LoopMoves, InterruptMoves DEF LoopTask
<1>2. CASE ~LoopStep
  <2>1. CASE StartRun
    BY <2>1 DEF StartRun, procVars
  <2>2. CASE UNCHANGED <<loopVars, proc>>
    BY <2>2 DEF loopVars
  <2>3. CASE (ShutdownBegin \/ ShutdownForce \/ ZombieSweep \/ OrphanSweep) /\ UNCHANGED loopVars
    BY <2>3 DEF ShutdownBegin, ShutdownForce, ZombieSweep, OrphanSweep, loopVars
  <2>. QED
    BY <1>2, <2>1, <2>2, <2>3, Others
<1>. QED
  BY <1>1, <1>2

LEMMA NextUnwinding == EndInv /\ Next => Unwinding' /\ HumanPause'
<1>. SUFFICES ASSUME EndInv, Next PROVE Unwinding' /\ HumanPause'
  OBVIOUS
<1>. USE DEF EndInv, Unwinding, HumanPause
<1>1. CASE LoopStep /\ ~Interrupt
  BY <1>1 DEF LoopStep, Spawn, Enter, MarkRunning, MarkRunningCommit, LoopTop, InsertCommit,
     MarkDispatched, MarkDispatchedCommit, ExecutorReturns, MarkPaused, MarkPausedCommit,
     WaitDelivered, WaitTimeout, Expire, ExpireCommit, Resume, ResumeCommit, Settle,
     SettleCommit, SaveCommit, Terminate, TerminateCommit, ReadRun, TaskReturns, Goto,
     BeginTerminate, AfterWait, AfterResume, At
<1>2. CASE Interrupt
  BY <1>2, InterruptMoves
<1>3. CASE ~LoopStep
  <2>1. CASE StartRun
    BY <2>1 DEF StartRun, LoopInv, FreshStart
  <2>2. CASE UNCHANGED loopVars
    BY <2>2 DEF loopVars
  <2>. QED
    BY <1>3, <2>1, <2>2, Others
<1>. QED
  BY <1>1, <1>2, <1>3

\* A request that closed the run and has yet to tell the supervisor still finds
\* a reason to cancel the task, or no task.
LEMMA NextCancelKnown == EndInv /\ Next => CancelKnown'
<1>. SUFFICES ASSUME EndInv, Next PROVE CancelKnown'
  OBVIOUS
<1>. USE DEF EndInv
<1>1. ASSUME run'.status # "absent", Asked => Asked' \/ pc' \in Away, pc \in Away => pc' \in Away,
             \A q \in Requests : req'[q].at = req[q].at
      PROVE  CancelKnown'
  BY <1>1 DEF CancelKnown
<1>2. run'.status = "absent" => run.status = "absent"
  BY Surroundings, LoopRun DEF RunTerminal
<1>3. CASE LoopStep
  <2>1. pc \notin Away
    BY <1>3, LoopMoves, InterruptMoves DEF Away, LoopTask
  <2>2. CASE run'.reason = "cancelled"
    BY <1>2, <1>3, <2>1, <2>2, LoopAlone DEF CancelKnown, Asked
  <2>3. CASE pc \in {"term", "termW"} /\ run'.status \in RunTerminal
    BY <1>2, <1>3, <2>1, <2>3, LoopAlone, LoopMoves, InterruptMoves DEF CancelKnown, Asked, Closed, Away
  <2>4. CASE ~Asked
    BY <1>2, <1>3, <2>1, <2>4, LoopAlone DEF CancelKnown
  <2>. QED
    BY <1>3, <2>2, <2>3, <2>4, LoopRun DEF Asked, Closed
<1>4. ASSUME NEW q \in Requests, ReqArrives(q) \/ ReqStep(q)
      PROVE  CancelKnown'
  <2>. USE DEF LoopInv, TypeOK, RequestsTyped
  <2>1. CASE CancelCommit(q)
    BY <2>1 DEF CancelCommit, Move, CancelKnown, Asked
  <2>2. CASE UNCHANGED <<run, pc>> /\ req'[q].at \notin {"cancelW", "cancelSup"}
             /\ \A p \in Requests : p # q => req'[p] = req[p]
    BY <2>2 DEF CancelKnown, Asked, Closed
  <2>3. CASE CancelRead(q)
    BY <2>3 DEF CancelRead, Move, ReqOnly, rowVars, loopVars, CancelKnown, Asked, Closed
  <2>4. CASE HookRead(q) \/ WakeRead(q) \/ SignalFind(q)
    BY <2>2, <2>4 DEF HookRead, WakeRead, SignalFind, Move, ReqOnly, rowVars, loopVars
  <2>5. CASE \E at \in ReqPc \ {"cancelW", "cancelSup"} : Move(q, at) /\ UNCHANGED <<run, pc>>
    BY <2>2, <2>5 DEF Move
  <2>. QED
    BY <1>4, <2>1, <2>3, <2>4, <2>5 DEF ReqArrives, ReqStep, SignalRead, CancelSupervisor,
       CancelReturn, HookCommit, HookDeliver, WakeDeliver, WakeCommit, ReqOnly, rowVars, loopVars,
       ReqPc, ReqBusy, ReqFinal
<1>5. CASE StartRun
  BY <1>5 DEF StartRun, CancelKnown
<1>6. CASE UNCHANGED <<req, pc>> /\ (UNCHANGED run \/ pc \in Away)
  BY <1>1, <1>2, <1>6 DEF CancelKnown, Asked, Closed
<1>7. CASE Crash
  <2>1. \A q \in Requests : req'[q].at \notin {"cancelW", "cancelSup"}
    BY <1>7 DEF Crash, ReqBusy, LoopInv, TypeOK, RequestsTyped
  <2>. QED
    BY <2>1 DEF CancelKnown
<1>8. CASE ShutdownEnd
  BY <1>1, <1>2, <1>8 DEF ShutdownEnd, NoTask, rowVars, Away, CancelKnown
<1>9. CASE SweepRead \/ SweepCommit \/ ShutdownBegin \/ ShutdownForce \/ OrphanSweep
  BY <1>6, <1>9 DEF SweepRead, SweepCommit, ShutdownBegin, ShutdownForce, OrphanSweep, rowVars, loopVars
<1>10. CASE ZombieSweep
  BY <1>6, <1>10 DEF ZombieSweep, NoTaskDown, Away, loopVars
<1>. QED
  BY <1>3, <1>4, <1>5, <1>7, <1>8, <1>9, <1>10 DEF Next, ProcStep

LEMMA NextOneForce == EndInv /\ Next => OneForce'
<1>. SUFFICES ASSUME EndInv, Next, run'.status = "paused", run'.reason = "none",
                     pc' # "none", handling'
              PROVE  proc' = "killing" /\ ~cancelPend'
  BY DEF OneForce
<1>. USE DEF EndInv
<1>1. CASE LoopStep
  <2>1. ~cancelPend' /\ proc' = proc
    BY <1>1, LoopAlone
  <2>2. run.reason = "none" /\ (run.status = "paused" \/ pc = "pauseW")
    BY <1>1, LoopRun DEF RunTerminal
  <2>3. pc # "none"
    BY <1>1, LoopMoves, InterruptMoves DEF LoopTask
  <2>4. CASE Interrupt
    BY <2>1, <2>2, <2>4, InterruptMoves DEF CancelMeans, Asked, Closed, RunTerminal
  <2>5. CASE ~Interrupt /\ handling
    BY <2>1, <2>2, <2>3, <2>5 DEF OneForce, Unwinding
  <2>6. CASE ~Interrupt /\ ~handling
    <3>1. pc \in {"top", "markD", "save"}
      BY <1>1, <2>6 DEF LoopStep, Spawn, Enter, MarkRunning, MarkRunningCommit, LoopTop,
         InsertCommit, MarkDispatched, MarkDispatchedCommit, ExecutorReturns, MarkPaused,
         MarkPausedCommit, WaitDelivered, WaitTimeout, Expire, ExpireCommit, Resume, ResumeCommit,
         Settle, SettleCommit, SaveCommit, Terminate, TerminateCommit, ReadRun, TaskReturns, Goto,
         BeginTerminate, At
    <3>. QED
      BY <2>2, <3>1 DEF PausedMeansParked, WaitBlock
  <2>. QED
    BY <2>4, <2>5, <2>6
<1>2. CASE ~LoopStep
  <2>. USE DEF OneForce
  <2>1. CASE StartRun
    BY <2>1 DEF StartRun, LoopInv, TypeOK, RowsTyped
  <2>2. CASE UNCHANGED <<run, loopVars, cancelPend, proc>>
    BY <2>2 DEF loopVars
  <2>3. CASE (\E q \in Requests : CancelCommit(q)) /\ UNCHANGED <<loopVars, cancelPend, proc>>
    BY <2>3 DEF CancelCommit
  <2>4. ASSUME NEW q \in Requests, CancelSupervisor(q), UNCHANGED <<run, loopVars, proc>>
        PROVE  proc' = "killing" /\ ~cancelPend'
    <3>1. pc \in Away
      BY <2>4 DEF CancelSupervisor, CancelKnown, Asked, Closed, RunTerminal
    <3>2. cancelPend' = cancelPend
      BY <2>4, <3>1 DEF CancelSupervisor, Away, LoopTask
    <3>. QED
      BY <2>4, <3>2 DEF loopVars
  <2>5. CASE pc' = "none"
    BY <2>5
  <2>6. CASE (ShutdownBegin \/ ShutdownForce) /\ UNCHANGED <<run, loopVars>>
    BY <2>6 DEF ShutdownBegin, ShutdownForce, loopVars
  <2>7. CASE (ZombieSweep \/ OrphanSweep) /\ UNCHANGED <<loopVars, cancelPend>>
    BY <2>7 DEF ZombieSweep, OrphanSweep, NoTaskDown, loopVars
  <2>. QED
    BY <1>2, <2>1, <2>2, <2>3, <2>4, <2>5, <2>6, <2>7, Others
<1>. QED
  BY <1>1, <1>2

LEMMA NextParked == EndInv /\ Next => PausedMeansParked'
<1>. DEFINE Parked == WaitBlock \cup {"resume", "resumeW", "term", "termW"}
<1>. SUFFICES ASSUME EndInv, Next, run'.status = "paused", run'.reason = "none", pc' # "none"
              PROVE  pc' \in Parked /\ (mode[n])' = "human"
  BY DEF PausedMeansParked
<1>. USE DEF EndInv
<1>1. CASE LoopStep
  <2>1. run.reason = "none" /\ (run' = run \/ pc = "pauseW")
    BY <1>1, LoopRun DEF RunTerminal
  <2>2. pc # "none"
    BY <1>1, LoopMoves, InterruptMoves DEF LoopTask
  <2>3. pc \in Parked \cup {"pauseW"} /\ mode[n] = "human"
    BY <2>1, <2>2 DEF PausedMeansParked, HumanPause
  <2>4. CASE Interrupt
    <3>1. pc' # "exit"
      BY <2>1, <2>2, <2>3, <2>4, InterruptMoves DEF OneForce, WaitBlock
    <3>. QED
      BY <2>3, <2>4, <3>1, InterruptMoves
  <2>5. CASE ~Interrupt
    <3>1. pc' \in Parked \cup {"settle", "exit"} /\ UNCHANGED <<n, mode>>
      BY <1>1, <2>3, <2>5 DEF LoopStep, Spawn, Enter, MarkRunning, MarkRunningCommit, LoopTop,
       InsertCommit, MarkDispatched, MarkDispatchedCommit, ExecutorReturns, MarkPaused,
       MarkPausedCommit, WaitDelivered, WaitTimeout, Expire, ExpireCommit, Resume, ResumeCommit,
       Settle, SettleCommit, SaveCommit, Terminate, TerminateCommit, ReadRun, TaskReturns, Goto,
       BeginTerminate, AfterWait, AfterResume, At, WaitBlock
    <3>2. pc' # "settle"
      BY <1>1, <2>1, <2>3, <2>5 DEF LoopStep, Spawn, Enter, MarkRunning, MarkRunningCommit, LoopTop,
       InsertCommit, MarkDispatched, MarkDispatchedCommit, ExecutorReturns, MarkPaused,
       MarkPausedCommit, WaitDelivered, WaitTimeout, Expire, ExpireCommit, Resume, ResumeCommit,
       Settle, SettleCommit, SaveCommit, Terminate, TerminateCommit, ReadRun, TaskReturns, Goto,
       BeginTerminate, AfterWait, AfterResume, At, WaitBlock, CommitInFlight, SetStatus, LoopInv, TypeOK,
       RowsTyped, RunTerminal, LoopOnly, rowVars
    <3>3. pc' # "exit"
      BY <1>1, <2>1, <2>3, <2>5, LoopMoves DEF CommitInFlight, SetTerminal, StatusOf, RunTerminal,
         WaitBlock
    <3>. QED
      BY <2>3, <3>1, <3>2, <3>3
  <2>. QED
    BY <2>4, <2>5
<1>2. CASE ~LoopStep
  <2>. USE DEF PausedMeansParked
  <2>1. CASE StartRun
    BY <2>1 DEF StartRun, LoopInv, TypeOK, RowsTyped
  <2>2. CASE UNCHANGED <<run, loopVars>>
    BY <2>2 DEF loopVars
  <2>3. CASE (\E q \in Requests : CancelCommit(q)) /\ UNCHANGED <<loopVars, cancelPend, proc>>
    BY <2>3 DEF CancelCommit
  <2>4. CASE pc' = "none"
    BY <2>4
  <2>5. CASE ZombieSweep /\ UNCHANGED <<loopVars, cancelPend>>
    BY <2>5 DEF ZombieSweep, NoTaskDown, loopVars
  <2>. QED
    BY <1>2, <2>1, <2>2, <2>3, <2>4, <2>5, Others
<1>. QED
  BY <1>1, <1>2

LEMMA InitEnd == Init => EndInv
<1>. SUFFICES ASSUME Init PROVE EndInv
  OBVIOUS
<1>1. CancelMeans /\ CancelKnown /\ NotYetRunning /\ LeftOpen
  BY DEF Init, CancelMeans, CancelKnown, NotYetRunning, LeftOpen
<1>2. NoTaskDown /\ Unwinding /\ HumanPause /\ OneForce /\ PausedMeansParked
  BY DEF Init, NoTaskDown, Unwinding, HumanPause, OneForce, PausedMeansParked
<1>3. TakenUp /\ FreshRow /\ StopsCounted
  BY DEF Init, TakenUp, FreshRow, StopsCounted
<1>. QED
  BY <1>1, <1>2, <1>3, InitInv DEF EndInv

LEMMA NextEnd == EndInv /\ [Next]_vars => EndInv'
<1>. SUFFICES ASSUME EndInv, [Next]_vars PROVE EndInv'
  OBVIOUS
<1>1. LoopInv'
  BY NextInv DEF EndInv
<1>2. CASE Next
  <2>1. CancelMeans' /\ CancelKnown' /\ NotYetRunning' /\ LeftOpen'
    BY <1>2, NextCancelMeans, NextCancelKnown, NextNotYetRunning, NextLeftOpen
  <2>2. NoTaskDown' /\ Unwinding' /\ HumanPause' /\ OneForce' /\ PausedMeansParked'
    BY <1>2, NextNoTaskDown, NextUnwinding, NextOneForce, NextParked
  <2>3. TakenUp' /\ FreshRow' /\ StopsCounted'
    BY <1>2, NextTakenUp, NextFreshRow, CrashesCounted DEF EndInv, StopsCounted
  <2>. QED
    BY <1>1, <2>1, <2>2, <2>3 DEF EndInv
<1>3. CASE UNCHANGED vars
  <2>. USE <1>3 DEF EndInv, vars, rowVars, loopVars, supVars, cliVars, procVars
  <2>1. CancelMeans' /\ CancelKnown'
    BY DEF CancelMeans, CancelKnown, Asked, Closed
  <2>2. NotYetRunning' /\ LeftOpen' /\ NoTaskDown'
    BY DEF NotYetRunning, LeftOpen, NoTaskDown
  <2>3. Unwinding' /\ HumanPause' /\ OneForce' /\ PausedMeansParked'
    BY DEF Unwinding, HumanPause, OneForce, PausedMeansParked
  <2>4. TakenUp' /\ FreshRow' /\ StopsCounted'
    BY DEF TakenUp, FreshRow, StopsCounted
  <2>. QED
    BY <1>1, <2>1, <2>2, <2>3, <2>4
<1>. QED
  BY <1>2, <1>3

\* How a run is left, all of it.
THEOREM EndsHold == Spec => []EndInv
BY InitEnd, NextEnd, PTL DEF Spec

\* Whatever ends the loop task (a return, an error, a cancellation it raises
\* with, the grace period, a crash and the sweep at startup), a process that
\* serves never leaves the run running or paused without a task, but for the
\* cancellation that lost its race, nor pending, unless it stopped meanwhile.
THEOREM NoZombieEver == Spec => []NoZombie
<1>1. EndInv /\ crashes # 0 => crashes > 0
  BY BoundsAssumption DEF EndInv, LoopInv, TypeOK, ProcessTyped
<1>2. EndInv => NoZombie
  BY <1>1 DEF EndInv, LeftOpen, TakenUp, NoZombie, Away
<1>. QED
  BY <1>2, EndsHold, PTL

\* A run is paused only while its loop waits for a human, or is on its way out
\* of that wait: the finally clause resumes it on every path.
THEOREM PausedIsParked == Spec => []PausedMeansParked
<1>. EndInv => PausedMeansParked
  BY DEF EndInv
<1>. QED
  BY EndsHold, PTL

-----------------------------------------------------------------------------
(* Results that are committed are delivered *)

\* From the insertion of its row to the end of the wait the dispatch has a
\* future, which only a delivery resolves.
Waiting == {"exec", "pause", "pauseW", "wait"}
Started == {"markD", "markDW"} \cup Waiting

Registered == pc \in Started => fut[n] # "none"

\* The engine's wake resolves the future before its row is committed.
WakeDelivered ==
    \A q \in Requests :
        req[q].at = "wakeW" /\ req[q].d = n /\ pc \in Started => fut[n] \in {"ok", "error"}

Sweeping == cli.at = "commit" => sweeps # 0

\* A dispatch whose executor is at work is settled by a handler that has
\* resolved its future or is about to.
ResultComes ==
    pc \in Waiting /\ disp[n] \in DispTerminal /\ sweeps = 0 =>
        \/ fut[n] \in {"ok", "error"}
        \/ \E q \in Requests : req[q].at = "hookD" /\ req[q].d = n

WakeInv == Registered /\ WakeDelivered /\ Sweeping /\ ResultComes

\* The loop registers the future with the row and keeps it until it has waited.
LEMMA LoopKeeps ==
    ASSUME LoopInv, LoopStep, pc' \in Started
    PROVE  /\ UNCHANGED <<req, cli, sweeps>>
           /\ n' = n /\ n \in Steps
           /\ \/ pc = "insert" /\ pc' = "markD" /\ fut'[n] = "open"
              \/ pc \in Started /\ fut' = fut
           /\ pc' \in Waiting /\ disp'[n] \in DispTerminal => pc \in Waiting /\ disp' = disp
<1>1. ~Interrupt
  BY InterruptMoves DEF Started, Waiting
<1>2. UNCHANGED <<req, cli, sweeps>>
  BY <1>1 DEF LoopStep, Spawn, Enter, MarkRunning, MarkRunningCommit, LoopTop, InsertCommit,
     MarkDispatched, MarkDispatchedCommit, ExecutorReturns, MarkPaused, MarkPausedCommit,
     WaitDelivered, WaitTimeout, Expire, ExpireCommit, Resume, ResumeCommit, Settle,
     SettleCommit, SaveCommit, Terminate, TerminateCommit, ReadRun, TaskReturns, Goto,
     BeginTerminate, AfterWait, AfterResume, At, LoopOnly, RowsOnly, supVars, cliVars
<1>3. n' = n /\ pc \in Started \cup {"insert"} /\ (pc = "insert" => pc' = "markD")
  BY <1>1 DEF LoopStep, Spawn, Enter, MarkRunning, MarkRunningCommit, LoopTop, InsertCommit,
     MarkDispatched, MarkDispatchedCommit, ExecutorReturns, MarkPaused, MarkPausedCommit,
     WaitDelivered, WaitTimeout, Expire, ExpireCommit, Resume, ResumeCommit, Settle,
     SettleCommit, SaveCommit, Terminate, TerminateCommit, ReadRun, TaskReturns, Goto,
     BeginTerminate, AfterWait, AfterResume, At, LoopOnly, RowsOnly, supVars, Started, Waiting
<1>4. n \in Steps
  BY <1>3 DEF LoopInv, CurrentStep, InStep, LoopTask, Started, Waiting
<1>5. CASE pc = "insert"
  <2>1. fut' = [fut EXCEPT ![n] = "open"]
    BY <1>1, <1>3, <1>5 DEF LoopStep, Spawn, Enter, MarkRunning, MarkRunningCommit, LoopTop, InsertCommit,
     MarkDispatched, MarkDispatchedCommit, ExecutorReturns, MarkPaused, MarkPausedCommit,
     WaitDelivered, WaitTimeout, Expire, ExpireCommit, Resume, ResumeCommit, Settle,
     SettleCommit, SaveCommit, Terminate, TerminateCommit, ReadRun, TaskReturns, Goto,
     BeginTerminate, AfterWait, AfterResume, At, LoopOnly, RowsOnly, supVars
  <2>. QED
    BY <1>2, <1>3, <1>4, <1>5, <2>1 DEF LoopInv, TypeOK, TaskTyped, Waiting
<1>6. CASE pc \in Started
  <2>1. fut' = fut
    BY <1>1, <1>6 DEF LoopStep, Spawn, Enter, MarkRunning, MarkRunningCommit, LoopTop, InsertCommit,
     MarkDispatched, MarkDispatchedCommit, ExecutorReturns, MarkPaused, MarkPausedCommit,
     WaitDelivered, WaitTimeout, Expire, ExpireCommit, Resume, ResumeCommit, Settle,
     SettleCommit, SaveCommit, Terminate, TerminateCommit, ReadRun, TaskReturns, Goto,
     BeginTerminate, AfterWait, AfterResume, At, LoopOnly, RowsOnly, supVars, Started, Waiting
  <2>2. pc' \in Waiting => pc \in Waiting \cup {"markDW"}
    BY <1>1, <1>6 DEF LoopStep, Spawn, Enter, MarkRunning, MarkRunningCommit, LoopTop, InsertCommit,
     MarkDispatched, MarkDispatchedCommit, ExecutorReturns, MarkPaused, MarkPausedCommit,
     WaitDelivered, WaitTimeout, Expire, ExpireCommit, Resume, ResumeCommit, Settle,
     SettleCommit, SaveCommit, Terminate, TerminateCommit, ReadRun, TaskReturns, Goto,
     BeginTerminate, AfterWait, AfterResume, At, LoopOnly, RowsOnly, supVars, Started, Waiting
  <2>3. CASE pc = "markDW" /\ pc' \in Waiting
    <3>1. disp'[n] = "dispatched"
      BY <1>1, <1>4, <2>3 DEF LoopStep, Spawn, Enter, MarkRunning, MarkRunningCommit, LoopTop, InsertCommit,
     MarkDispatched, MarkDispatchedCommit, ExecutorReturns, MarkPaused, MarkPausedCommit,
     WaitDelivered, WaitTimeout, Expire, ExpireCommit, Resume, ResumeCommit, Settle,
     SettleCommit, SaveCommit, Terminate, TerminateCommit, ReadRun, TaskReturns, Goto,
     BeginTerminate, AfterWait, AfterResume, At, LoopOnly, RowsOnly, supVars, Waiting, CommitInFlight, SetDispatched, LoopInv, TypeOK,
         RowsTyped
    <3>. QED
      BY <1>2, <1>3, <1>4, <1>6, <2>1, <3>1 DEF DispTerminal
  <2>4. CASE pc \in Waiting /\ pc' \in Waiting
    <3>1. disp' = disp
      BY <1>1, <2>4 DEF LoopStep, Spawn, Enter, MarkRunning, MarkRunningCommit, LoopTop, InsertCommit,
     MarkDispatched, MarkDispatchedCommit, ExecutorReturns, MarkPaused, MarkPausedCommit,
     WaitDelivered, WaitTimeout, Expire, ExpireCommit, Resume, ResumeCommit, Settle,
     SettleCommit, SaveCommit, Terminate, TerminateCommit, ReadRun, TaskReturns, Goto,
     BeginTerminate, AfterWait, AfterResume, At, LoopOnly, RowsOnly, supVars, Waiting, CommitInFlight, SetStatus, rowVars
    <3>. QED
      BY <1>2, <1>3, <1>4, <1>6, <2>1, <2>4, <3>1
  <2>. QED
    BY <1>2, <1>3, <1>4, <1>6, <2>1, <2>2, <2>3, <2>4
<1>. QED
  BY <1>3, <1>5, <1>6

LEMMA LoopWakes == LoopInv /\ WakeInv /\ LoopStep => WakeInv'
<1>. SUFFICES ASSUME LoopInv, WakeInv, LoopStep PROVE WakeInv'
  OBVIOUS
<1>. USE DEF WakeInv
<1>1. Sweeping'
  BY LoopLeaves DEF Sweeping
<1>2. CASE pc' \in Started
  <2>1. Registered'
    BY <1>2, LoopKeeps DEF Registered
  <2>2. WakeDelivered'
    BY <1>2, LoopKeeps DEF WakeDelivered, LoopInv, WritersSawRow, CurrentStep
  <2>3. ResultComes'
    BY <1>2, LoopKeeps DEF ResultComes, Waiting
  <2>. QED
    BY <1>1, <2>1, <2>2, <2>3
<1>3. CASE pc' \notin Started
  BY <1>1, <1>3 DEF Registered, WakeDelivered, ResultComes, Started
<1>. QED
  BY <1>2, <1>3

LEMMA HandlerWakes ==
    ASSUME LoopInv, WakeInv, NEW q \in Requests, ReqArrives(q) \/ ReqStep(q)
    PROVE  WakeInv'
<1>. USE DEF WakeInv, LoopInv, TypeOK, RowsTyped, TaskTyped, RequestsTyped
<1>1. UNCHANGED <<pc, n, cli, sweeps>> /\ \A p \in Requests : p # q => req'[p] = req[p]
  <2>1. UNCHANGED <<pc, n, cli, sweeps>>
    BY DEF ReqArrives, ReqStep, CancelRead, HookRead, SignalRead, WakeRead, CancelCommit,
       CancelSupervisor, CancelReturn, HookCommit, HookDeliver, SignalFind, WakeDeliver,
       WakeCommit, ReqOnly, cliVars, loopVars
  <2>2. \E r : req' = [req EXCEPT ![q] = r]
    <3>1. CASE \E at \in ReqPc : Move(q, at)
      BY <3>1 DEF Move
    <3>2. CASE HookRead(q) \/ WakeRead(q) \/ SignalFind(q)
      BY <3>2 DEF HookRead, WakeRead, SignalFind, Move
    <3>. QED
      BY <3>1, <3>2 DEF ReqArrives, ReqStep, CancelRead, SignalRead, CancelCommit,
         CancelSupervisor, CancelReturn, HookCommit, HookDeliver, WakeDeliver, WakeCommit, ReqPc,
         ReqBusy, ReqFinal
  <2>. QED
    BY <2>1, <2>2
<1>2. n \in Steps \/ pc \notin Started
  BY DEF CurrentStep, InStep, LoopTask, Started, Waiting
<1>3. Sweeping'
  BY <1>1 DEF Sweeping
<1>4. CASE UNCHANGED <<fut, disp>> /\ req[q].at # "hookD" /\ req'[q].at # "wakeW"
  <2>1. Registered' /\ WakeDelivered'
    BY <1>1, <1>4 DEF Registered, WakeDelivered
  <2>2. ResultComes'
    BY <1>1, <1>4 DEF ResultComes
  <2>. QED
    BY <1>3, <2>1, <2>2
<1>5. CASE HookCommit(q)
  <2>1. req'[q].at = "hookD" /\ req'[q].d = req[q].d /\ fut' = fut
        /\ (\A i \in Steps : disp'[i] = disp[i] \/ i = req[q].d) /\ req[q].at = "hookW"
    BY <1>5 DEF HookCommit, Move, supVars
  <2>2. Registered' /\ WakeDelivered'
    BY <1>1, <2>1 DEF Registered, WakeDelivered
  <2>3. ResultComes'
    BY <1>1, <1>2, <2>1 DEF ResultComes, Started
  <2>. QED
    BY <1>3, <2>2, <2>3
<1>6. CASE HookDeliver(q) \/ WakeDeliver(q)
  <2>1. disp' = disp /\ req'[q].d = req[q].d /\ req[q].at # "wakeW"
    BY <1>6 DEF HookDeliver, WakeDeliver, Move, rowVars
  <2>2. \A i \in Steps : /\ fut[i] # "none" => fut'[i] # "none"
                         /\ fut[i] \in {"ok", "error"} => fut'[i] = fut[i]
                         /\ i = req[q].d => fut'[i] # "open"
    BY <1>6 DEF HookDeliver, WakeDeliver, Deliver
  <2>3. \A i \in Steps : fut'[i] \in {"none", "open", "ok", "error"}
    BY <1>6 DEF HookDeliver, WakeDeliver, Deliver
  <2>4. Registered'
    BY <1>1, <1>2, <2>2 DEF Registered
  <2>5. WakeDelivered'
    BY <1>1, <1>2, <2>1, <2>2, <2>3 DEF Registered, WakeDelivered
  <2>6. ResultComes'
    BY <1>1, <1>2, <2>1, <2>2, <2>3 DEF Registered, ResultComes, Started
  <2>. QED
    BY <1>3, <2>4, <2>5, <2>6
<1>7. CASE WakeCommit(q)
  <2>1. fut' = fut /\ req[q].at = "wakeW" /\ req'[q].at = "done"
        /\ \A i \in Steps : disp'[i] = disp[i] \/ i = req[q].d
    BY <1>7 DEF WakeCommit, Move, supVars
  <2>2. Registered' /\ WakeDelivered'
    BY <1>1, <2>1 DEF Registered, WakeDelivered
  <2>3. ResultComes'
    BY <1>1, <1>2, <2>1 DEF ResultComes, WakeDelivered, Started
  <2>. QED
    BY <1>3, <2>2, <2>3
<1>8. CASE ReqArrives(q) \/ SignalFind(q)
  BY <1>4, <1>8 DEF ReqArrives, CancelRead, HookRead, SignalRead, WakeRead, SignalFind, Move,
     Arrives, ReqOnly, rowVars, supVars
<1>9. CASE CancelCommit(q) \/ CancelSupervisor(q) \/ CancelReturn(q)
  BY <1>4, <1>9 DEF CancelCommit, CancelSupervisor, CancelReturn, Move, ReqOnly, rowVars, supVars
<1>. QED
  BY <1>5, <1>6, <1>7, <1>8, <1>9 DEF ReqStep

LEMMA NextWake == EndInv /\ WakeInv /\ [Next]_vars => WakeInv'
<1>. SUFFICES ASSUME EndInv, WakeInv, [Next]_vars PROVE WakeInv'
  OBVIOUS
<1>. USE DEF EndInv
<1>1. CASE LoopStep
  BY <1>1, LoopWakes
<1>2. ASSUME NEW q \in Requests, ReqArrives(q) \/ ReqStep(q)
      PROVE  WakeInv'
  BY <1>2, HandlerWakes
<1>3. CASE pc' \notin Started /\ cli' = cli /\ sweeps' = sweeps
  BY <1>3 DEF WakeInv, Registered, WakeDelivered, Sweeping, ResultComes, Started
<1>4. CASE StartRun \/ Crash \/ ShutdownEnd
  BY <1>3, <1>4 DEF StartRun, Crash, ShutdownEnd, NoTask, cliVars, Started, Waiting
<1>5. CASE OrphanSweep \/ ZombieSweep
  BY <1>3, <1>5 DEF OrphanSweep, ZombieSweep, NoTaskDown, loopVars, cliVars, Started, Waiting
<1>6. CASE UNCHANGED <<disp, pc, n, fut, req, cli, sweeps>>
  BY <1>6 DEF WakeInv, Registered, WakeDelivered, Sweeping, ResultComes
<1>7. CASE ShutdownBegin \/ ShutdownForce \/ UNCHANGED vars
  BY <1>6, <1>7 DEF ShutdownBegin, ShutdownForce, vars, rowVars, loopVars, supVars, cliVars
<1>8. CASE SweepRead \/ SweepCommit
  <2>1. UNCHANGED <<pc, n, fut, req>> /\ sweeps' # 0
    BY <1>8 DEF SweepRead, SweepCommit, loopVars, supVars, WakeInv, Sweeping, LoopInv, TypeOK,
       ProcessTyped
  <2>. QED
    BY <2>1 DEF WakeInv, Registered, WakeDelivered, Sweeping, ResultComes
<1>. QED
  BY <1>1, <1>2, <1>4, <1>5, <1>7, <1>8 DEF Next, ProcStep

\* No result is committed and slept through, whichever handler commits it and
\* wherever the loop is on its way to the wait.
THEOREM NoLostWakeEver == Spec => []NoLostWake
<1>1. Init => WakeInv
  BY DEF Init, WakeInv, Registered, WakeDelivered, Sweeping, ResultComes, Started, Waiting
<1>2. Spec => [](EndInv /\ WakeInv)
  BY <1>1, InitEnd, NextEnd, NextWake, PTL DEF Spec
<1>3. WakeInv => NoLostWake
  BY DEF WakeInv, ResultComes, NoLostWake, Waiting
<1>. QED
  BY <1>2, <1>3, PTL

-----------------------------------------------------------------------------
(* What an answered cancellation means *)

\* A cancel_run call that reached the task has answered only once it was gone,
\* and a run is started once.
StoppedForGood ==
    \A q \in Requests :
        /\ req[q].at \in {"cancelWait", "stopped"} => run.status # "absent" /\ pc # "starting"
        /\ req[q].at = "stopped" => pc \in Away

LEMMA NextStopped == LoopInv /\ StoppedForGood /\ Next => StoppedForGood'
<1>. SUFFICES ASSUME LoopInv, StoppedForGood, Next PROVE StoppedForGood'
  OBVIOUS
<1>1. run'.status = "absent" => run.status = "absent"
  BY Surroundings, LoopRun DEF RunTerminal
<1>2. CASE LoopStep
  <2>1. pc \in LoopTask \cup {"starting"} /\ pc' # "starting" /\ req' = req
    <3>1. pc \in LoopTask \cup {"starting"} /\ req' = req
      BY <1>2, LoopMoves, InterruptMoves, LoopLeaves
    <3>2. pc' # "starting"
      BY <1>2, InterruptMoves DEF LoopStep, Spawn, Enter, MarkRunning, MarkRunningCommit, LoopTop,
         InsertCommit, MarkDispatched, MarkDispatchedCommit, ExecutorReturns, MarkPaused,
         MarkPausedCommit, WaitDelivered, WaitTimeout, Expire, ExpireCommit, Resume, ResumeCommit,
         Settle, SettleCommit, SaveCommit, Terminate, TerminateCommit, ReadRun, TaskReturns, Goto,
         BeginTerminate, AfterWait, AfterResume
    <3>. QED
      BY <3>1, <3>2
  <2>. QED
    BY <1>1, <2>1 DEF StoppedForGood, Away, LoopTask
<1>3. ASSUME NEW q \in Requests, ReqArrives(q) \/ ReqStep(q)
      PROVE  StoppedForGood'
  <2>. USE DEF LoopInv, TypeOK, RequestsTyped
  <2>1. pc' = pc
    BY <1>3 DEF ReqArrives, ReqStep, CancelRead, HookRead, SignalRead, WakeRead, CancelCommit,
       CancelSupervisor, CancelReturn, HookCommit, HookDeliver, SignalFind, WakeDeliver,
       WakeCommit, ReqOnly, loopVars
  <2>2. CASE CancelSupervisor(q)
    <3>1. req'[q].at = "cancelWait" => pc \in LoopTask
      BY <2>2 DEF CancelSupervisor, Move
    <3>2. req'[q].at # "stopped" /\ \A p \in Requests : p # q => req'[p] = req[p]
      BY <2>2 DEF CancelSupervisor, Move
    <3>3. pc \in LoopTask => run.status # "absent"
      BY DEF FreshStart, LoopTask
    <3>. QED
      BY <1>1, <2>1, <3>1, <3>2, <3>3 DEF StoppedForGood, LoopTask
  <2>3. CASE CancelReturn(q)
    <3>1. /\ req'[q].at = "stopped" /\ req[q].at = "cancelWait" /\ pc \notin LoopTask
          /\ \A p \in Requests : p # q => req'[p] = req[p]
      BY <2>3 DEF CancelReturn, Move
    <3>2. pc \in LoopPc
      BY DEF TaskTyped
    <3>. QED
      BY <1>1, <2>1, <3>1, <3>2 DEF StoppedForGood, LoopPc, Away
  <2>4. CASE /\ req'[q].at \notin {"cancelWait", "stopped"}
             /\ \A p \in Requests : p # q => req'[p] = req[p]
    BY <1>1, <2>1, <2>4 DEF StoppedForGood
  <2>5. CASE HookRead(q) \/ WakeRead(q) \/ SignalFind(q)
    BY <2>4, <2>5 DEF HookRead, WakeRead, SignalFind, Move
  <2>6. CASE \E at \in ReqPc \ {"cancelWait", "stopped"} : Move(q, at)
    BY <2>4, <2>6 DEF Move
  <2>. QED
    BY <1>3, <2>2, <2>3, <2>5, <2>6 DEF ReqArrives, ReqStep, CancelRead, SignalRead, CancelCommit,
       HookCommit, HookDeliver, WakeDeliver, WakeCommit, ReqPc, ReqBusy, ReqFinal
<1>4. CASE StartRun
  BY <1>4 DEF StartRun, StoppedForGood
<1>5. CASE Crash
  <2>1. \A q \in Requests : req'[q].at \in {"cancelWait", "stopped"} => req'[q] = req[q]
    BY <1>5 DEF Crash, LoopInv, TypeOK, RequestsTyped
  <2>2. pc' = "none"
    BY <1>5 DEF Crash, NoTask
  <2>. QED
    BY <1>1, <2>1, <2>2 DEF StoppedForGood, Away
<1>6. CASE ShutdownEnd
  BY <1>1, <1>6 DEF ShutdownEnd, NoTask, StoppedForGood, Away
<1>7. CASE UNCHANGED <<pc, req>>
  BY <1>1, <1>7 DEF StoppedForGood
<1>. QED
  BY <1>2, <1>3, <1>4, <1>5, <1>6, <1>7 DEF Next, ProcStep, SweepRead, SweepCommit, ShutdownBegin,
     ShutdownForce, ZombieSweep, OrphanSweep, loopVars

\* Once a cancel_run call that found the loop running has answered, no dispatch
\* row is inserted for the run any more, by whatever is still in flight.
THEOREM NothingAfterCancel == Spec => NoDispatchAfterCancel
<1>1. Init => StoppedForGood
  BY DEF Init, StoppedForGood
<1>2. StoppedForGood /\ UNCHANGED vars => StoppedForGood'
  BY DEF StoppedForGood, vars, rowVars, loopVars
<1>3. Spec => [](LoopInv /\ StoppedForGood)
  BY <1>1, <1>2, NextStopped, InitInv, NextInv, PTL DEF Spec
<1>4. LoopInv /\ StoppedForGood /\ [Next]_vars =>
         [(\E q \in Requests : req[q].at = "stopped") =>
             \A i \in Steps : disp[i] = "none" => disp'[i] = "none"]_vars
  <2>. SUFFICES ASSUME LoopInv, StoppedForGood, Next, NEW q \in Requests, req[q].at = "stopped",
                       NEW i \in Steps, disp[i] = "none"
                PROVE  disp'[i] = "none"
    OBVIOUS
  <2>1. pc \in Away
    BY DEF StoppedForGood
  <2>2. ~LoopStep
    BY <2>1, LoopMoves, InterruptMoves DEF Away, LoopTask
  <2>. QED
    BY <2>2, Surroundings
<1>. QED
  BY <1>3, <1>4, PTL DEF Spec, NoDispatchAfterCancel

-----------------------------------------------------------------------------
(* What the loop task has left to do *)

\* Awaits from here to the end of the step, or of the start of the task; one
\* iteration of the loop has at most PerStep of them.
StageLeft(p) ==
    CASE p = "starting" -> 26 [] p = "spawned" -> 25
      [] p = "mark"     -> 24 [] p = "markW"   -> 23
      [] p = "insert"   -> 22 [] p = "markD"   -> 21 [] p = "markDW"  -> 20
      [] p = "exec"     -> 19
      [] p = "pause"    -> 18 [] p = "pauseW"  -> 17 [] p = "wait"    -> 16
      [] p = "expire"   -> 15 [] p = "expireW" -> 14
      [] p = "resume"   -> 13 [] p = "resumeW" -> 12
      [] p = "settle"   -> 11 [] p = "settleW" -> 10 [] p = "settleStep" -> 10
      [] p = "save"     -> 9  [] OTHER         -> 8

\* Awaits of the way out, which one interrupt leads back to the start of.
EndLeft(p) ==
    CASE p = "resume" -> 7 [] p = "resumeW" -> 6
      [] p = "term"   -> IF handling THEN 2 ELSE 4
      [] OTHER        -> IF handling THEN 1 ELSE 3

PerStep == 15
Longest == PerStep * MaxSteps + 27

Ending == handling \/ pc \in {"term", "termW"}

Left ==
    CASE run.status = "absent"                     -> Longest
      [] run.status # "absent" /\ pc \in Away      -> 0
      [] run.status # "absent" /\ pc \notin Away /\ Ending -> EndLeft(pc)
      [] OTHER                                     -> PerStep * (MaxSteps - n) + StageLeft(pc)

LEMMA Stages ==
    /\ \A p : StageLeft(p) \in 8 .. 26 /\ EndLeft(p) \in 1 .. 7
    /\ Longest \in Nat /\ PerStep * MaxSteps \in Nat
<1>1. MaxSteps \in Nat
  BY BudgetAssumption
<1>2. PerStep * MaxSteps \in Nat
  BY <1>1 DEF PerStep
<1>. QED
  BY <1>2 DEF StageLeft, EndLeft, Longest

LEMMA LeftType == TypeOK => Left \in 0 .. Longest
<1>. SUFFICES ASSUME TypeOK PROVE Left \in 0 .. Longest
  OBVIOUS
<1>1. n \in 0 .. MaxSteps /\ MaxSteps \in Nat
  BY BudgetAssumption DEF TypeOK, TaskTyped
<1>2. PerStep * (MaxSteps - n) \in 0 .. PerStep * MaxSteps
  BY <1>1 DEF PerStep
<1>3. StageLeft(pc) \in 8 .. 26 /\ EndLeft(pc) \in 1 .. 7 /\ PerStep * MaxSteps \in Nat
  BY Stages
<1>. QED
  BY <1>2, <1>3 DEF Left, Longest

\* What one statement of a task does to where it stands.
LEMMA Advances ==
    ASSUME EndInv, LoopStep, ~Interrupt
    PROVE  \/ pc' = "exit"
           \/ /\ ~Ending /\ ~Ending' /\ pc' \notin Away /\ n' = n
              /\ StageLeft(pc') < StageLeft(pc)
           \/ /\ ~Ending /\ ~Ending' /\ pc' = "insert" /\ n' = n + 1
              /\ pc = "top" /\ n < MaxSteps
           \/ ~Ending /\ Ending' /\ pc' = "term" /\ n' = n
           \/ Ending /\ Ending' /\ pc' \notin Away /\ EndLeft(pc)' < EndLeft(pc)
<1>. USE DEF Goto, LoopOnly, RowsOnly, At, Ending, EndInv, Unwinding, Away
<1>1. CASE Spawn
  BY <1>1 DEF Spawn, StageLeft
<1>2. CASE Enter \/ MarkRunning \/ MarkRunningCommit \/ MarkPaused \/ MarkPausedCommit
  BY <1>2 DEF Enter, MarkRunning, MarkRunningCommit, MarkPaused, MarkPausedCommit, ReadRun,
     StageLeft
<1>3. CASE LoopTop
  BY <1>3 DEF LoopTop, BeginTerminate
<1>4. CASE InsertCommit \/ MarkDispatched \/ MarkDispatchedCommit
  BY <1>4 DEF InsertCommit, MarkDispatched, MarkDispatchedCommit, BeginTerminate, StageLeft
<1>5. CASE ExecutorReturns
  BY <1>5 DEF ExecutorReturns, StageLeft
<1>6. CASE WaitDelivered \/ WaitTimeout \/ Expire \/ ExpireCommit
  BY <1>6 DEF WaitDelivered, WaitTimeout, Expire, ExpireCommit, AfterWait, StageLeft
<1>7. CASE Resume \/ ResumeCommit
  BY <1>7 DEF Resume, ResumeCommit, ReadRun, AfterResume, StageLeft, EndLeft
<1>8. CASE Settle \/ SettleCommit
  BY <1>8 DEF Settle, SettleCommit, StageLeft
<1>9. CASE SaveCommit
  BY <1>9 DEF SaveCommit, BeginTerminate, StageLeft
<1>10. CASE Terminate \/ TerminateCommit
  BY <1>10 DEF Terminate, TerminateCommit, TaskReturns, EndLeft
<1>. QED
  BY <1>1, <1>2, <1>3, <1>4, <1>5, <1>6, <1>7, <1>8, <1>9, <1>10 DEF LoopStep

\* An interrupt leads to the way out, or a step further on it.
LEMMA InterruptEnds ==
    ASSUME EndInv, Interrupt
    PROVE  \/ pc' = "exit"
           \/ ~Ending /\ Ending' /\ pc' \in {"resume", "term"} /\ n' = n
           \/ Ending /\ Ending' /\ pc' = "term" /\ EndLeft(pc)' < EndLeft(pc)
<1>1. /\ handling' = TRUE /\ n' = n
      /\ pc' = IF pc = "spawned" \/ (handling /\ pc \in {"term", "termW"}) THEN "exit"
               ELSE IF pc \in WaitBlock /\ mode[n] = "human" THEN "resume" ELSE "term"
  BY DEF Interrupt
<1>2. handling \in BOOLEAN /\ (handling => pc \in {"resume", "resumeW", "term", "termW", "exit"})
      /\ pc # "exit"
  BY InterruptMoves DEF EndInv, Unwinding, LoopInv, TypeOK, FlagsTyped, LoopTask
<1>. QED
  BY <1>1, <1>2 DEF Ending, EndLeft, WaitBlock

LEMMA LoopLowers == EndInv /\ EndInv' /\ LoopStep => Left' < Left
<1>. SUFFICES ASSUME EndInv, EndInv', LoopStep PROVE Left' < Left
  OBVIOUS
<1>1. run.status # "absent" /\ pc \notin Away
  <2>1. pc \in LoopTask \cup {"starting"}
    BY LoopMoves, InterruptMoves DEF EndInv
  <2>. QED
    BY <2>1 DEF EndInv, LoopInv, FreshStart, Away, LoopTask
<1>2. run'.status # "absent"
  BY <1>1, LoopRun DEF EndInv, RunTerminal
<1>3. n \in 0 .. MaxSteps /\ n' \in 0 .. MaxSteps /\ MaxSteps \in Nat
  BY BudgetAssumption DEF EndInv, LoopInv, TypeOK, TaskTyped
<1>4. /\ StageLeft(pc) \in 8 .. 26 /\ EndLeft(pc) \in 1 .. 7 /\ StageLeft(pc') \in 8 .. 26
  BY Stages
<1>5. EndLeft(pc)' \in 1 .. 7
  BY DEF EndLeft
<1>6. Left = IF Ending THEN EndLeft(pc) ELSE PerStep * (MaxSteps - n) + StageLeft(pc)
  BY <1>1 DEF Left
<1>7. Left' = IF pc' \in Away THEN 0
              ELSE IF Ending' THEN EndLeft(pc)' ELSE PerStep * (MaxSteps - n') + StageLeft(pc')
  BY <1>2 DEF Left
<1>8. CASE pc' = "exit"
  <2>1. Left' = 0
    BY <1>7, <1>8 DEF Away
  <2>. QED
    BY <1>3, <1>4, <1>6, <2>1 DEF PerStep
<1>9. CASE ~Ending /\ ~Ending' /\ pc' \notin Away /\ n' = n /\ StageLeft(pc') < StageLeft(pc)
  BY <1>3, <1>4, <1>6, <1>7, <1>9 DEF PerStep
<1>10. CASE ~Ending /\ ~Ending' /\ pc' = "insert" /\ n' = n + 1 /\ pc = "top" /\ n < MaxSteps
  <2>1. StageLeft(pc) = 8 /\ StageLeft(pc') = 22 /\ pc' \notin Away
    BY <1>10 DEF StageLeft, Away
  <2>. QED
    BY <1>3, <1>6, <1>7, <1>10, <2>1 DEF PerStep
<1>11. CASE ~Ending /\ Ending' /\ pc' \in {"resume", "term"} /\ n' = n
  BY <1>3, <1>4, <1>5, <1>6, <1>7, <1>11 DEF PerStep, Away
<1>12. CASE Ending /\ Ending' /\ pc' \notin Away /\ EndLeft(pc)' < EndLeft(pc)
  BY <1>6, <1>7, <1>12
<1>. QED
  BY <1>8, <1>9, <1>10, <1>11, <1>12, Advances, InterruptEnds DEF Away

LEMMA OthersKeep == EndInv /\ EndInv' /\ Next /\ ~LoopStep => Left' <= Left
<1>. SUFFICES ASSUME EndInv, EndInv', Next, ~LoopStep PROVE Left' <= Left
  OBVIOUS
<1>1. Left \in 0 .. Longest /\ Left' \in 0 .. Longest /\ Longest \in Nat
  <2>1. TypeOK => Left \in 0 .. Longest
    BY LeftType
  <2>2. (TypeOK => Left \in 0 .. Longest)'
    BY LeftType, PTL
  <2>. QED
    BY <2>1, <2>2, Stages DEF EndInv, LoopInv
<1>2. CASE run.status = "absent"
  BY <1>1, <1>2 DEF Left
<1>3. CASE run.status # "absent"
  <2>1. run'.status # "absent"
    BY <1>3, Surroundings DEF EndInv
  <2>2. ~StartRun
    BY <1>3 DEF StartRun
  <2>3. CASE UNCHANGED loopVars
    BY <1>1, <1>3, <2>1, <2>3 DEF Left, Ending, EndLeft, loopVars
  <2>4. CASE pc' = "none"
    <3>1. Left' = 0
      BY <2>1, <2>4 DEF Left, Away
    <3>. QED
      BY <1>1, <3>1
  <2>. QED
    BY <2>2, <2>3, <2>4, Others, <1>3, Surroundings DEF EndInv
<1>. QED
  BY <1>2, <1>3

\* The loop task of a run is finite: every statement of it, and every
\* CancelledError, brings its end nearer, no request, webhook, sweep or stop of
\* the process puts it off, and there are Longest of them at most, fifteen for
\* each step of the budget, whatever the executors answer and whoever cancels
\* when (runtime_deterministic.py run_loop).
THEOREM LoopIsFinite ==
    /\ Spec => [](Left \in 0 .. Longest)
    /\ Spec => [][Left' <= Left /\ (LoopStep => Left' < Left)]_vars
<1>1. Spec => [](EndInv /\ Left \in 0 .. Longest)
  <2>1. EndInv => Left \in 0 .. Longest
    BY LeftType DEF EndInv, LoopInv
  <2>. QED
    BY <2>1, EndsHold, PTL
<1>2. EndInv /\ EndInv' /\ [Next]_vars => [Left' <= Left /\ (LoopStep => Left' < Left)]_vars
  <2>. SUFFICES ASSUME EndInv, EndInv', Next
                PROVE  Left' <= Left /\ (LoopStep => Left' < Left)
    OBVIOUS
  <2>1. CASE LoopStep
    <3>1. TypeOK /\ TypeOK'
      BY DEF EndInv, LoopInv
    <3>2. Left \in 0 .. Longest /\ Left' \in 0 .. Longest /\ Longest \in Nat
      <4>1. (TypeOK => Left \in 0 .. Longest)'
        BY LeftType, PTL
      <4>. QED
        BY <3>1, <4>1, LeftType, Stages
    <3>. QED
      BY <2>1, <3>2, LoopLowers
  <2>2. CASE ~LoopStep
    BY <2>2, OthersKeep
  <2>. QED
    BY <2>1, <2>2
<1>. QED
  BY <1>1, <1>2, PTL DEF Spec

-----------------------------------------------------------------------------
(* What the rows tell *)

\* A step is open while the loop is at it, and remembered last of all.
OpenStep == pc \in InStep \ {"insert", "save"} => step[n] \in {"pending", "dispatched"}
Behind   == pc \in InStep => mem = n - 1

\* A run that ends well was looked at with all its steps remembered, and ends on
\* its budget exactly when there is none left.
Verdict ==
    /\ handling => why \in {"error", "cancelled"}
    /\ pc \in {"term", "termW"} /\ why \notin {"error", "cancelled"} =>
           /\ why \in {"done_node", "policy_terminated", "budget_exceeded"}
           /\ mem = n /\ (n > 0 => step[n] = "completed")
           /\ why = "budget_exceeded" <=> n = MaxSteps

\* A task works on a run nobody but a cancel has closed, until it closes it
\* itself and a cancel makes it look again.
OpenRow ==
    pc \notin Away =>
        \/ run.reason \in {"none", "cancelled"}
        \/ pc = "term" /\ run.status \in RunTerminal

AtWork ==
    pc \in InStep \cup {"top"} =>
        run.status \in {"running", "paused"} \/ run.reason = "cancelled"

TaleInv == OpenStep /\ Behind /\ Verdict /\ OpenRow /\ AtWork

LEMMA NextOpenStep == EndInv /\ TaleInv /\ Next => OpenStep' /\ Behind'
<1>. SUFFICES ASSUME EndInv, TaleInv, Next PROVE OpenStep' /\ Behind'
  OBVIOUS
<1>. USE DEF EndInv, LoopInv, TaleInv, OpenStep, Behind, InStep, LoopTask, TypeOK, RowsTyped,
     TaskTyped, Goto, At
<1>1. CASE ~LoopStep
  <2>1. UNCHANGED <<step, mem>> /\ (UNCHANGED loopVars \/ pc' \in {"none", "starting"})
    BY <1>1, Surroundings
  <2>. QED
    BY <2>1 DEF loopVars
<1>2. CASE Spawn \/ Enter \/ MarkRunning \/ MarkRunningCommit \/ Terminate \/ TerminateCommit
  BY <1>2 DEF Spawn, Enter, MarkRunning, MarkRunningCommit, Terminate, TerminateCommit,
     TaskReturns, ReadRun
<1>3. CASE LoopTop
  BY <1>3, BudgetAssumption DEF LoopTop, BeginTerminate, LoopOnly, rowVars, StepBarrier
<1>4. CASE InsertCommit
  BY <1>4 DEF InsertCommit, CommitInFlight, InsertRows, CurrentStep
<1>5. CASE MarkDispatched \/ ExecutorReturns
  BY <1>5 DEF MarkDispatched, ExecutorReturns, BeginTerminate, LoopOnly, rowVars
<1>6. CASE MarkDispatchedCommit
  BY <1>6 DEF MarkDispatchedCommit, CommitInFlight, SetDispatched, CurrentStep
<1>7. CASE MarkPaused \/ MarkPausedCommit \/ Resume \/ ResumeCommit
  BY <1>7 DEF MarkPaused, MarkPausedCommit, Resume, ResumeCommit, AfterResume, CommitInFlight,
     SetStatus, ReadRun, LoopOnly, rowVars
<1>8. CASE WaitDelivered \/ WaitTimeout
  BY <1>8 DEF WaitDelivered, WaitTimeout, AfterWait, rowVars
<1>9. CASE Expire \/ ExpireCommit
  BY <1>9 DEF Expire, ExpireCommit, CommitInFlight, FailDispatch, AfterWait, LoopOnly, rowVars
<1>10. CASE Settle
  BY <1>10 DEF Settle, LoopOnly, rowVars
<1>11. CASE SettleCommit
  BY <1>11 DEF SettleCommit, CommitInFlight, CommitTerminal
<1>12. CASE SaveCommit
  BY <1>12 DEF SaveCommit, BeginTerminate
<1>13. CASE Interrupt
  <2>1. n' = n /\ pc' \in {"exit", "term", "resume"} /\ (pc' = "resume" => pc \in WaitBlock)
    BY <1>13 DEF Interrupt
  <2>2. pc \in WaitBlock => UNCHANGED <<step, mem>>
    BY <1>13 DEF Interrupt, CommitInFlight, FailDispatch, rowVars, WaitBlock
  <2>. QED
    BY <2>1, <2>2 DEF WaitBlock
<1>. QED
  BY <1>1, <1>2, <1>3, <1>4, <1>5, <1>6, <1>7, <1>8, <1>9, <1>10, <1>11, <1>12, <1>13
  DEF LoopStep

LEMMA NextVerdict == EndInv /\ TaleInv /\ Next => Verdict'
<1>. SUFFICES ASSUME EndInv, TaleInv, Next PROVE Verdict'
  OBVIOUS
<1>. USE DEF EndInv, LoopInv, TaleInv, Verdict, Goto, At
<1>1. CASE ~LoopStep
  <2>1. UNCHANGED <<step, mem>> /\ (UNCHANGED loopVars \/ pc' \in {"none", "starting"})
    BY <1>1, Surroundings
  <2>2. handling' => handling /\ why' = why
    BY <1>1, Others, <2>1 DEF StartRun, loopVars
  <2>. QED
    BY <2>1, <2>2 DEF loopVars
<1>2. CASE LoopTop
  <2>1. /\ mem = n /\ n \in 0 .. MaxSteps /\ MaxSteps \in Nat /\ n' = n
        /\ \A i \in 1 .. n : step[i] = "completed"
        \/ pc' = "insert"
    BY <1>2, BudgetAssumption DEF LoopTop, BeginTerminate, StepBarrier, Finished, LoopTask, TypeOK,
       TaskTyped
  <2>2. UNCHANGED <<step, mem>>
    BY <1>2 DEF LoopTop, LoopOnly, rowVars
  <2>4. CASE pc' = "insert"
    BY <1>2, <2>4 DEF LoopTop, BeginTerminate
  <2>3. CASE pc' # "insert"
    <3>1. /\ why' \in {"cancelled", "error", "budget_exceeded", "done_node", "policy_terminated"}
          /\ why' \in {"done_node", "policy_terminated"} => n < MaxSteps
          /\ why' = "budget_exceeded" => n >= MaxSteps
          /\ handling' => why' = "error"
      BY <1>2, <2>3 DEF LoopTop, BeginTerminate
    <3>. QED
      BY <2>1, <2>2, <2>3, <3>1
  <2>. QED
    BY <2>3, <2>4
<1>3. CASE Terminate
  BY <1>3 DEF Terminate, TaskReturns, LoopOnly, rowVars
<1>4. CASE Interrupt
  BY <1>4 DEF Interrupt
<1>5. CASE MarkDispatched \/ SaveCommit
  BY <1>5 DEF MarkDispatched, SaveCommit, BeginTerminate
<1>6. CASE Resume \/ ResumeCommit
  BY <1>6 DEF Resume, ResumeCommit, ReadRun, AfterResume
<1>7. CASE \/ Spawn \/ Enter \/ MarkRunning \/ MarkRunningCommit \/ InsertCommit
           \/ MarkDispatchedCommit \/ ExecutorReturns \/ MarkPaused \/ MarkPausedCommit
           \/ WaitDelivered \/ WaitTimeout \/ Expire \/ ExpireCommit \/ Settle \/ SettleCommit
           \/ TerminateCommit
  BY <1>7 DEF Spawn, Enter, MarkRunning, MarkRunningCommit, InsertCommit,
     MarkDispatchedCommit, ExecutorReturns, MarkPaused, MarkPausedCommit,
     WaitDelivered, WaitTimeout, Expire, ExpireCommit, Settle, SettleCommit,
     TerminateCommit, TaskReturns, ReadRun, AfterWait
<1>. QED
  BY <1>1, <1>2, <1>3, <1>4, <1>5, <1>6, <1>7 DEF LoopStep

LEMMA NextOpenRow == EndInv /\ TaleInv /\ Next => OpenRow'
<1>. SUFFICES ASSUME EndInv, TaleInv, Next PROVE OpenRow'
  OBVIOUS
<1>. USE DEF EndInv, TaleInv, OpenRow, Away
<1>1. CASE LoopStep
  <2>1. pc \notin Away
    BY <1>1, LoopMoves, InterruptMoves DEF LoopTask
  <2>2. CASE pc = "termW"
    <3>1. CASE Interrupt
      <4>1. pc' \in {"term", "exit"} /\ run.reason \in {"none", "cancelled"}
        BY <2>1, <2>2, <3>1, InterruptMoves
      <4>. QED
        BY <1>1, <4>1, LoopRun
    <3>. QED
      BY <1>1, <2>2, <3>1, LoopMoves
  <2>3. CASE pc # "termW"
    <3>1. run'.reason = run.reason
      BY <1>1, <2>3, LoopRun
    <3>2. CASE run.reason \in {"none", "cancelled"}
      BY <3>1, <3>2
    <3>3. CASE pc = "term" /\ run.status \in RunTerminal
      <4>1. CASE Interrupt
        BY <1>1, <3>3, <4>1, LoopRun, InterruptMoves
      <4>2. CASE ~Interrupt
        <5>1. Terminate
          BY <1>1, <3>3, <4>2 DEF LoopStep, Spawn, Enter, MarkRunning, MarkRunningCommit,
             LoopTop, InsertCommit, MarkDispatched, MarkDispatchedCommit, ExecutorReturns,
             MarkPaused, MarkPausedCommit, WaitDelivered, WaitTimeout, Expire, ExpireCommit,
             Resume, ResumeCommit, Settle, SettleCommit, SaveCommit, TerminateCommit, ReadRun, At
        <5>. QED
          BY <3>3, <5>1 DEF Terminate, TaskReturns, Goto
      <4>. QED
        BY <4>1, <4>2
    <3>. QED
      BY <2>1, <3>2, <3>3
  <2>. QED
    BY <2>2, <2>3
<1>2. CASE ~LoopStep
  <2>1. CASE StartRun
    BY <2>1 DEF StartRun, FreshRow, LoopInv, TypeOK, RowsTyped
  <2>2. CASE UNCHANGED <<run, loopVars>>
    BY <2>2 DEF loopVars
  <2>3. CASE \E q \in Requests : CancelCommit(q)
    BY <2>3 DEF CancelCommit
  <2>4. CASE pc' = "none"
    BY <2>4
  <2>5. CASE ZombieSweep /\ UNCHANGED <<loopVars, cancelPend>>
    BY <2>5 DEF ZombieSweep, NoTaskDown, loopVars
  <2>. QED
    BY <1>2, <2>1, <2>2, <2>3, <2>4, <2>5, Others
<1>. QED
  BY <1>1, <1>2

LEMMA NextAtWork == EndInv /\ TaleInv /\ Next => AtWork'
<1>. SUFFICES ASSUME EndInv, TaleInv, Next PROVE AtWork'
  OBVIOUS
<1>. USE DEF EndInv, TaleInv, AtWork, InStep, LoopTask
<1>1. CASE LoopStep
  <2>1. CASE pc \in {"mark", "markW"}
    <3>1. CASE Interrupt
      BY <2>1, <3>1 DEF Interrupt, WaitBlock
    <3>2. CASE MarkRunning
      <4>1. pc' = "top" => run.status \in RunTerminal \cup {"running"}
        BY <3>2 DEF MarkRunning, ReadRun, Goto
      <4>2. run.status \in RunTerminal => run.reason = "cancelled"
        BY <2>1 DEF OpenRow, Away, LoopInv, OutcomeMatchesReason
      <4>3. pc' \in {"markW", "top"} /\ run' = run
        BY <3>2 DEF MarkRunning, ReadRun, Goto, LoopOnly, rowVars
      <4>. QED
        BY <4>1, <4>2, <4>3
    <3>3. CASE MarkRunningCommit
      BY <3>3 DEF MarkRunningCommit, CommitInFlight, SetStatus, At, LoopInv, TypeOK, RowsTyped
    <3>. QED
      BY <1>1, <2>1, <3>1, <3>2, <3>3 DEF LoopStep, Spawn, Enter, LoopTop, InsertCommit,
         MarkDispatched, MarkDispatchedCommit, ExecutorReturns, MarkPaused, MarkPausedCommit,
         WaitDelivered, WaitTimeout, Expire, ExpireCommit, Resume, ResumeCommit, Settle,
         SettleCommit, SaveCommit, Terminate, TerminateCommit, ReadRun, At
  <2>2. CASE pc \in {"term", "termW", "starting", "spawned"}
    <3>1. pc' \notin InStep \cup {"top"}
      BY <1>1, <2>2 DEF LoopStep, Spawn, Enter, MarkRunning, MarkRunningCommit, LoopTop,
         InsertCommit, MarkDispatched, MarkDispatchedCommit, ExecutorReturns, MarkPaused,
         MarkPausedCommit, WaitDelivered, WaitTimeout, Expire, ExpireCommit, Resume, ResumeCommit,
         Settle, SettleCommit, SaveCommit, Terminate, TerminateCommit, Interrupt, ReadRun, At,
         Goto, TaskReturns, WaitBlock
    <3>. QED
      BY <3>1
  <2>3. CASE pc \in InStep \cup {"top"}
    BY <1>1, <2>3, LoopRun
  <2>. QED
    BY <1>1, <2>1, <2>2, <2>3, LoopMoves, InterruptMoves
<1>2. CASE ~LoopStep
  <2>1. CASE StartRun
    BY <2>1 DEF StartRun
  <2>2. CASE UNCHANGED <<run, loopVars>>
    BY <2>2 DEF loopVars
  <2>3. CASE \E q \in Requests : CancelCommit(q)
    BY <2>3 DEF CancelCommit
  <2>4. CASE pc' = "none"
    BY <2>4
  <2>5. CASE ZombieSweep /\ UNCHANGED <<loopVars, cancelPend>>
    BY <2>5 DEF ZombieSweep, NoTaskDown, loopVars
  <2>. QED
    BY <1>2, <2>1, <2>2, <2>3, <2>4, <2>5, Others
<1>. QED
  BY <1>1, <1>2

LEMMA TaleHolds == Spec => [](EndInv /\ TaleInv)
<1>1. Init => TaleInv
  BY DEF Init, TaleInv, OpenStep, Behind, Verdict, OpenRow, AtWork, InStep, LoopTask
<1>2. EndInv /\ TaleInv /\ [Next]_vars => TaleInv'
  <2>1. EndInv /\ TaleInv /\ UNCHANGED vars => TaleInv'
    BY DEF vars, rowVars, loopVars, TaleInv, OpenStep, Behind, Verdict, OpenRow, AtWork
  <2>. QED
    BY <2>1, NextOpenStep, NextVerdict, NextOpenRow, NextAtWork DEF TaleInv
<1>. QED
  BY <1>1, <1>2, InitEnd, NextEnd, PTL DEF Spec

\* What a commit of the loop is to the rows as they are told.
LEMMA SeenRewritten ==
    ASSUME TypeOK, NEW x \in StepStatus, step' = [step EXCEPT ![n] = x], n \in Steps
    PROVE  StepsSeen' = [StepsSeen EXCEPT ![n] = Seen(x)]
  BY DEF StepsSeen, TypeOK, RowsTyped

\* With the step behind it settled, the loop stands where the abstract run has
\* caught up.
LEMMA CaughtUp ==
    ASSUME EndInv, pc \in LoopTask, mem \in 0 .. n,
           \A i \in 1 .. mem : step[i] = "completed",
           \A i \in mem + 1 .. n : step[i] = "none"
    PROVE  Told!Caught
<1>1. \A i \in n + 1 .. MaxSteps : step[i] = "none"
  BY DEF EndInv, LoopInv, StepBarrier
<1>2. n \in 0 .. MaxSteps /\ MaxSteps \in Nat
  BY BudgetAssumption DEF EndInv, LoopInv, TypeOK, TaskTyped
<1>3. \A i \in Steps : step[i] = IF i <= mem THEN "completed" ELSE "none"
  BY <1>1, <1>2 DEF Steps
<1>4. \A i \in Steps : StepsSeen[i] = IF i <= mem THEN "completed" ELSE "none"
  BY <1>3 DEF StepsSeen, Seen
<1>. QED
  BY <1>4 DEF Told!Caught, Told!Steps, Steps

\* A commit that leaves the task to go on.
LEMMA CommitTold ==
    ASSUME EndInv, TaleInv, CommitInFlight, pc # "termW",
           TaskSeen = "live", TaskSeen' = "live"
    PROVE  Told!Next \/ UNCHANGED Told!vars
<1>. USE DEF EndInv, LoopInv
<1>1. /\ n \in 0 .. MaxSteps /\ MaxSteps \in Nat /\ mem \in 0 .. MaxSteps
      /\ step \in [Steps -> StepStatus] /\ run \in [status : RunStatus, reason : StopReason]
  BY BudgetAssumption DEF TypeOK, TaskTyped, RowsTyped
<1>2. pc \in LoopTask /\ (pc # "markW" => pc \in InStep /\ n \in Steps /\ mem = n - 1)
  BY DEF CommitInFlight, InStep, LoopTask, CurrentStep, TaleInv, Behind
<1>3. UNCHANGED step => UNCHANGED StepsSeen
  BY DEF StepsSeen
<1>4. Told!Open
  BY <1>2 DEF TaleInv, OpenRow, Away, Told!Open, LoopTask, CommitInFlight
<1>5. pc \in InStep \ {"insert", "save"} => StepsSeen[n] = "open"
  BY <1>2 DEF TaleInv, OpenStep, StepsSeen, Seen, InStep
<1>6. CASE pc = "markW" /\ SetStatus("running")
  <2>1. Told!Caught /\ mem = 0
    BY <1>1, <1>2, <1>6, CaughtUp DEF FreshStart
  <2>. QED
    BY <1>3, <1>4, <1>6, <2>1 DEF SetStatus, Told!Mark, Told!Next
<1>7. CASE pc \in {"resumeW", "pauseW"} /\ (SetStatus("running") \/ SetStatus("paused"))
  <2>1. n \in Told!Steps /\ StepsSeen[n] = "open"
    BY <1>2, <1>5, <1>7 DEF Told!Steps, Steps, InStep, LoopTask
  <2>. QED
    BY <1>3, <1>4, <1>7, <2>1 DEF SetStatus, Told!Mark, Told!Next
<1>8. CASE pc = "insert" /\ InsertRows
  <2>1. Told!Caught
    <3>1. step[n] = "none" /\ \A i \in 1 .. n - 1 : step[i] = "completed"
      BY <1>2, <1>8 DEF CurrentStep, StepBarrier, Finished, LoopTask
    <3>. QED
      BY <1>1, <1>2, <1>8, <3>1, CaughtUp DEF InStep, LoopTask
  <2>2. run.status = "running" \/ run.reason = "cancelled"
    BY <1>4, <1>8 DEF TaleInv, AtWork, InStep, LoopTask, PausedMeansParked, WaitBlock, Told!Open
  <2>3. StepsSeen' = [StepsSeen EXCEPT ![mem + 1] = "open"] /\ mem < MaxSteps
    <3>1. step' = [step EXCEPT ![n] = "pending"] /\ n = mem + 1 /\ n \in Steps
      BY <1>1, <1>2, <1>8 DEF InsertRows, Steps
    <3>. QED
      BY <1>1, <3>1, SeenRewritten DEF StepStatus, Seen, Steps
  <2>. QED
    BY <1>8, <2>1, <2>2, <2>3 DEF InsertRows, Told!Begin, Told!Next
<1>9. CASE pc = "markDW" /\ SetDispatched
  <2>1. StepsSeen' = [StepsSeen EXCEPT ![n] = "open"]
    BY <1>2, <1>9, SeenRewritten DEF SetDispatched, StepStatus, Seen
  <2>2. StepsSeen[n] = "open"
    BY <1>5, <1>9 DEF InStep, LoopTask
  <2>3. StepsSeen' = StepsSeen
    BY <2>1, <2>2 DEF StepsSeen
  <2>. QED
    BY <1>9, <2>3 DEF SetDispatched, Told!vars
<1>10. CASE pc = "expireW" /\ FailDispatch
  BY <1>3, <1>10 DEF FailDispatch, Told!vars
<1>11. CASE pc \in {"settleW", "settleStep"} /\ CommitTerminal
  <2>1. StepsSeen' = [StepsSeen EXCEPT ![n] = Terminalized(env)]
    <3>1. Terminalized(env) \in {"completed", "failed"}
      BY DEF Terminalized
    <3>. QED
      BY <1>2, <1>11, <3>1, SeenRewritten DEF CommitTerminal, StepStatus, Seen
  <2>2. n \in Told!Steps /\ StepsSeen[n] = "open"
    BY <1>2, <1>5, <1>11 DEF Told!Steps, Steps, InStep, LoopTask
  <2>. QED
    BY <1>11, <2>1, <2>2 DEF CommitTerminal, Terminalized, Told!Settle, Told!Next
<1>12. CASE pc = "save" /\ WriteState
  <2>1. n = mem + 1 /\ mem < MaxSteps /\ StepsSeen[n] \in {"completed", "failed"}
    BY <1>1, <1>2, <1>12 DEF CurrentStep, Terminalized, StepsSeen, Seen, Steps
  <2>. QED
    BY <1>3, <1>12, <2>1 DEF WriteState, Told!Remember, Told!Next
<1>. QED
  BY <1>6, <1>7, <1>8, <1>9, <1>10, <1>11, <1>12 DEF CommitInFlight

\* The verdict the loop writes is one the abstract run may give.
LEMMA EndTold ==
    ASSUME EndInv, TaleInv, pc = "termW", SetTerminal(why),
           TaskSeen = "live", TaskSeen' \in {"live", "over"}
    PROVE  Told!Next
<1>. USE DEF EndInv, LoopInv, TaleInv
<1>1. /\ n \in 0 .. MaxSteps /\ MaxSteps \in Nat /\ why \in StopReason \ {"none"}
  BY BudgetAssumption DEF TypeOK, TaskTyped, ReasonChosen
<1>2. UNCHANGED StepsSeen /\ mem' = mem
  BY DEF SetTerminal, StepsSeen
<1>3. Told!Open
  BY DEF OpenRow, Away, Told!Open
<1>4. Told!Close(StatusOf(why), why)
  BY <1>2 DEF SetTerminal, Told!Close
<1>5. CASE why \in {"error", "cancelled"}
  <2>1. StatusOf(why) = IF why = "error" THEN "failed" ELSE "cancelled"
    BY <1>5 DEF StatusOf
  <2>. QED
    BY <1>3, <1>4, <1>5, <2>1 DEF Told!Finish, Told!Next
<1>6. CASE why \notin {"error", "cancelled"}
  <2>1. /\ mem = n /\ (n > 0 => step[n] = "completed")
        /\ why \in {"done_node", "policy_terminated", "budget_exceeded"}
        /\ why = "budget_exceeded" <=> n = MaxSteps
    BY <1>6 DEF Verdict
  <2>2. \A i \in 1 .. n : step[i] = "completed"
    BY <1>1, <2>1 DEF StepBarrier, Finished, LoopTask
  <2>3. Told!Caught
    BY <1>1, <2>1, <2>2, CaughtUp DEF LoopTask
  <2>4. CASE why = "budget_exceeded"
    <3>1. StatusOf(why) = "failed"
      BY <2>4 DEF StatusOf
    <3>. QED
      BY <1>3, <1>4, <2>1, <2>3, <2>4, <3>1 DEF Told!Finish, Told!Next
  <2>5. CASE why # "budget_exceeded"
    <3>1. StatusOf(why) = "completed" /\ mem < MaxSteps
      BY <1>1, <2>1, <2>5 DEF StatusOf
    <3>. QED
      BY <1>3, <1>4, <2>1, <2>3, <2>5, <3>1 DEF Told!Finish, Told!Next
  <2>. QED
    BY <2>4, <2>5
<1>. QED
  BY <1>5, <1>6

LEMMA LoopTold ==
    ASSUME EndInv, TaleInv, LoopStep
    PROVE  Told!Next \/ UNCHANGED Told!vars
<1>. USE DEF EndInv, LoopInv
<1>1. pc \in LoopTask \cup {"starting"} /\ pc' # "none"
  BY LoopMoves, InterruptMoves
<1>2. run.status # "absent" /\ run'.status # "absent"
  BY <1>1, LoopRun DEF FreshStart, LoopTask, RunTerminal
<1>3. /\ TaskSeen = "live"
      /\ TaskSeen' = IF pc' = "exit" THEN "over" ELSE "live"
  BY <1>1, <1>2 DEF TaskSeen, LoopTask
<1>4. CommitInFlight \/ UNCHANGED rowVars
  BY DEF LoopStep, Spawn, Enter, MarkRunning, MarkRunningCommit, LoopTop, InsertCommit,
     MarkDispatched, MarkDispatchedCommit, ExecutorReturns, MarkPaused, MarkPausedCommit,
     WaitDelivered, WaitTimeout, Expire, ExpireCommit, Resume, ResumeCommit, Settle,
     SettleCommit, SaveCommit, Terminate, TerminateCommit, Interrupt, ReadRun, LoopOnly
<1>5. CASE UNCHANGED rowVars
  <2>1. UNCHANGED <<run, StepsSeen, mem>>
    BY <1>5 DEF rowVars, StepsSeen
  <2>. QED
    BY <1>3, <2>1 DEF Told!Leave, Told!Next, Told!vars
<1>6. CASE CommitInFlight /\ pc = "termW"
  <2>1. SetTerminal(why)
    BY <1>6 DEF CommitInFlight
  <2>. QED
    BY <1>3, <1>6, <2>1, EndTold
<1>7. CASE CommitInFlight /\ pc # "termW"
  <2>1. pc \notin {"term", "spawned"}
    BY <1>7 DEF CommitInFlight
  <2>2. pc' # "exit"
    BY <1>7, <2>1, LoopMoves, InterruptMoves
  <2>. QED
    BY <1>3, <1>7, <2>2, CommitTold
<1>. QED
  BY <1>4, <1>5, <1>6, <1>7

LEMMA OthersTold ==
    ASSUME EndInv, Next, ~LoopStep
    PROVE  Told!Next \/ UNCHANGED Told!vars
<1>. USE DEF EndInv, LoopInv
<1>1. UNCHANGED <<step, mem, StepsSeen>>
  BY Surroundings DEF StepsSeen
<1>2. CASE StartRun
  <2>1. TaskSeen = "none" /\ TaskSeen' = "live"
    BY <1>2 DEF StartRun, TaskSeen, TypeOK, RowsTyped
  <2>. QED
    BY <1>1, <1>2, <2>1 DEF StartRun, Told!Accept, Told!Next
<1>3. CASE UNCHANGED <<run, loopVars>>
  BY <1>1, <1>3 DEF TaskSeen, loopVars, Told!vars
<1>4. ASSUME NEW q \in Requests, CancelCommit(q), UNCHANGED loopVars
      PROVE  Told!Next
  <2>1. TaskSeen # "none" /\ TaskSeen' = TaskSeen
    BY <1>4 DEF CancelCommit, CancelKnown, TaskSeen, loopVars
  <2>. QED
    BY <1>1, <1>4, <2>1 DEF CancelCommit, Told!Cancel, Told!Close, Told!Next
<1>5. CASE UNCHANGED run /\ pc' = "none"
  <2>1. \/ TaskSeen = "live" /\ TaskSeen' = "over"
        \/ UNCHANGED TaskSeen
    BY <1>5 DEF TaskSeen
  <2>. QED
    BY <1>1, <1>5, <2>1 DEF Told!Leave, Told!Next, Told!vars
<1>6. CASE ZombieSweep /\ UNCHANGED loopVars
  <2>1. CASE run.status \in {"running", "paused"}
    <3>1. TaskSeen = "over" /\ TaskSeen' = TaskSeen
      BY <1>6, <2>1 DEF ZombieSweep, NoTaskDown, TaskSeen, loopVars
    <3>. QED
      BY <1>1, <1>6, <2>1, <3>1 DEF ZombieSweep, Told!Sweep, Told!Close, Told!Next
  <2>2. CASE run.status \notin {"running", "paused"}
    BY <1>3, <1>6, <2>2 DEF ZombieSweep
  <2>. QED
    BY <2>1, <2>2
<1>. QED
  BY <1>2, <1>3, <1>4, <1>5, <1>6, Others

\* The detailed loop, with cancels, crashes, webhooks, sweeps and restarts at
\* every await, implements the sequential run: initial states map to initial
\* states, and every step to one step of the sequential run or to none.
THEOREM RunIsSequential == Spec => ImplementsSequentialRun
<1>1. Init => Told!Init
  BY DEF Init, Told!Init, Told!Steps, Steps, StepsSeen, Seen, TaskSeen
<1>2. EndInv /\ TaleInv /\ [Next]_vars => [Told!Next]_(Told!vars)
  <2>1. UNCHANGED vars => UNCHANGED Told!vars
    BY DEF vars, rowVars, loopVars, Told!vars, StepsSeen, TaskSeen
  <2>. QED
    BY <2>1, LoopTold, OthersTold
<1>. QED
  BY <1>1, <1>2, TaleHolds, PTL DEF Spec, ImplementsSequentialRun, Told!Spec

\* A run that says completed has completed and remembered every step it began,
\* and begins no other: no late write of the task can come after its verdict,
\* but where a cancel has overruled it.
THEOREM CompletedIsWhole == Spec => [](run.status = "completed" => Told!Caught)
<1>. DEFINE Whole == run.status = "completed" => Told!Caught
<1>1. Init => Whole
  BY DEF Init
<1>2. TypeOK /\ OutcomeMatchesReason /\ Whole /\ [Told!Next]_(Told!vars) => Whole'
  <2>. SUFFICES ASSUME TypeOK, OutcomeMatchesReason, Whole, [Told!Next]_(Told!vars),
                     run'.status = "completed"
                PROVE  Told!Caught'
    OBVIOUS
  <2>1. CASE run' = run /\ UNCHANGED <<StepsSeen, mem>>
    BY <2>1 DEF Told!Caught
  <2>2. CASE Told!Settle
    <3>1. Told!Caught
      BY <2>2 DEF Told!Settle
    <3>. QED
      BY <2>2, <3>1 DEF Told!Settle, Told!Caught
  <2>3. CASE Told!Remember
    <3>1. Told!Caught /\ mem \in 0 .. MaxSteps /\ MaxSteps \in Nat
      BY <2>3, BudgetAssumption DEF Told!Remember, TypeOK, RowsTyped
    <3>. QED
      BY <2>3, <3>1 DEF Told!Remember, Told!Caught, Told!Steps
  <2>4. CASE Told!Accept \/ Told!Mark \/ Told!Cancel \/ Told!Sweep
    BY <2>4 DEF Told!Accept, Told!Mark, Told!Cancel, Told!Sweep, Told!Close, TypeOK, RowsTyped
  <2>5. CASE Told!Begin
    BY <2>5 DEF Told!Begin, OutcomeMatchesReason, StatusOf, RunTerminal
  <2>6. CASE Told!Finish
    <3>1. Told!Caught /\ UNCHANGED <<StepsSeen, mem>>
      BY <2>6 DEF Told!Finish, Told!Close
    <3>. QED
      BY <3>1 DEF Told!Caught
  <2>. QED
    BY <2>1, <2>2, <2>3, <2>4, <2>5, <2>6 DEF Told!Next, Told!Leave, Told!vars
<1>. QED
  BY <1>1, <1>2, RunIsSequential, TypeCorrect, OutcomeCorrect, PTL DEF Spec, ImplementsSequentialRun, Told!Spec

=============================================================================
