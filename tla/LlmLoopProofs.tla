---------------------------- MODULE LlmLoopProofs ----------------------------
(***************************************************************************)
(* Proofs about LlmLoop, for every agent, budget and engine: types, the    *)
(* numbering of the steps, the bound on the corrections, the wake that is  *)
(* not lost, the run that is closed when its task is over, and a bound on  *)
(* the steps the coroutine has left.                                       *)
(***************************************************************************)
EXTENDS LlmLoop, SequenceTheorems, TLAPS

(* Updates of the steps rows *)

LEMMA Touched ==
    ASSUME NEW s \in Seq(StepRow), NEW i \in Nat, NEW x \in StepStatus,
           NEW b \in BOOLEAN, NEW r \in {None} \cup Nat, NEW s2,
           \/ s2 = [s EXCEPT ![i].status = x]
           \/ s2 = [s EXCEPT ![i].status = x, ![i].sent = b]
           \/ s2 = [s EXCEPT ![i].status = x, ![i].result = r]
    PROVE  /\ s2 \in Seq(StepRow) /\ Len(s2) = Len(s)
           /\ \A j \in 1 .. Len(s) :
                /\ s2[j].number = s[j].number /\ s2[j].node = s[j].node
                /\ j # i => s2[j] = s[j]
                /\ j = i => s2[j].status = x
<1>1. /\ DOMAIN s2 = DOMAIN s /\ DOMAIN s = 1 .. Len(s) /\ Len(s) \in Nat
      /\ \A j \in 1 .. Len(s) : s[j] \in StepRow
  BY SeqDef
<1>2. \A j \in 1 .. Len(s) : s2[j] \in StepRow
  BY <1>1 DEF StepRow
<1>3. s2 = [j \in 1 .. Len(s) |-> s2[j]]
  BY <1>1
<1>4. s2 \in Seq(StepRow) /\ Len(s2) = Len(s)
  BY <1>1, <1>2, <1>3, SeqDef
<1> QED
  BY <1>1, <1>4 DEF StepRow

LEMMA Appended ==
    ASSUME NEW s \in Seq(StepRow), NEW e \in StepRow
    PROVE  /\ Append(s, e) \in Seq(StepRow) /\ Len(Append(s, e)) = Len(s) + 1
           /\ Append(s, e)[Len(s) + 1] = e
           /\ \A j \in 1 .. Len(s) : Append(s, e)[j] = s[j]
  OBVIOUS

-----------------------------------------------------------------------------
(* The invariant *)

OpenPc == {"local", "finish", "signal", "dispatch", "mark", "closing", "wait",
           "expire", "reload"}

\* Parts of TypeOK.
RunOK    == run \in [status : {"pending", "running"} \cup RunTerminal,
                     reason : StopReason \cup {None}]
StepsOK  == steps \in Seq(StepRow) /\ Len(steps) <= MaxSteps
LoopOK   == loop \in LoopState
MemoryOK == attempts \in Nat /\ merged \subseteq Numbers
EventsOK == /\ pending \in BOOLEAN /\ wake \in BOOLEAN
            /\ buffer \in Nat \cup {None} /\ sent \in 0 .. MaxSignals
            /\ engine \in Engines
            /\ req \in {"none", "write", "call", "wait", "refused"}
            /\ shutdown \in {"none", "asked", "forced"}
HookOK   == hook \in [Numbers -> [EventTypes -> HookStage]]

LEMMA TypeParts ==
    TypeOK <=> RunOK /\ StepsOK /\ LoopOK /\ MemoryOK /\ EventsOK /\ HookOK
  BY DEF TypeOK, RunOK, StepsOK, LoopOK, MemoryOK, EventsOK, HookOK

LEMMA TypePartsNext ==
    ASSUME RunOK', StepsOK', LoopOK', MemoryOK', EventsOK', HookOK'
    PROVE  TypeOK'
  BY DEF TypeOK, RunOK, StepsOK, LoopOK, MemoryOK, EventsOK, HookOK

\* A row is open from the insert to the count: only there is one row more than
\* steps counted, and an error is never followed by another row.
Counting ==
    /\ loop.pc \in {"spawned", "marking"} =>
           Len(steps) = 0 /\ loop.count = 0 /\ ~loop.err
    /\ loop.pc = "top" /\ ~loop.err => Len(steps) = loop.count
    /\ loop.pc \in {"policy", "persist"} =>
           Len(steps) = loop.count /\ loop.count < MaxSteps /\ ~loop.err
    /\ loop.pc \in OpenPc => Len(steps) = loop.count + 1 /\ ~loop.err
    /\ loop.pc = "persist" => loop.last # None
    /\ loop.pc \in OpenPc => loop.last \in Nodes

\* The stop conditions look between two corrections.
Budgeted ==
    /\ attempts <= MaxCorrections + 1
    /\ loop.pc \in {"spawned", "marking", "policy", "persist", "local"} =>
           attempts <= MaxCorrections

\* NoLostWake from the commit on that lets webhooks in.
WakeComes ==
    loop.pc \in {"closing", "wait"} /\ Settled(Current) =>
        wake \/ \E t \in EventTypes : hook[Current][t] = "wake"

-----------------------------------------------------------------------------
(* Where the coroutine goes *)

LEMMA Ending ==
    ASSUME NEW w \in StopReason
    PROVE  /\ Left("end", FALSE, w) \in LoopState
           /\ Left("end", TRUE, w) \in LoopState
           /\ Left("end", FALSE, w).pc = "end" /\ Left("end", TRUE, w).pc = "end"
           /\ Left("end", FALSE, w).why = w /\ Left("end", TRUE, w).why = w
  BY BudgetAssumption DEF Left, LoopState, LoopPc

LEMMA ThrownOK ==
    ASSUME LoopOK
    PROVE  Thrown \in LoopState /\ Thrown.pc \in {"end", "gone"}
<1>1. CASE loop.guarded
  BY <1>1, Ending DEF Thrown, StopReason
<1>2. CASE ~loop.guarded
  BY <1>2 DEF Thrown, LoopOK, LoopState, LoopPc
<1> QED
  BY <1>1, <1>2

LEMMA Outcome ==
    ASSUME LoopOK, NEW l \in LoopState, Resume(l)
    PROVE  /\ LoopOK' /\ pending' = FALSE
           /\ loop' = l \/ loop.pc' \in {"end", "gone"}
  BY ThrownOK DEF LoopOK, Resume

LEMMA GoesTo ==
    ASSUME LoopOK, NEW p \in LoopPc, Goto(p)
    PROVE  /\ LoopOK' /\ pending' = FALSE
           /\ \/ loop' = [loop EXCEPT !.pc = p]
              \/ loop.pc' \in {"end", "gone"}
<1>1. [loop EXCEPT !.pc = p] \in LoopState
  BY DEF LoopOK, LoopState
<1> QED
  BY <1>1, Outcome DEF Goto

LEMMA Errs ==
    ASSUME LoopOK, Erred
    PROVE  /\ LoopOK' /\ pending' = FALSE
           /\ \/ loop.pc' = "top" /\ loop.err'
              \/ loop.pc' \in {"end", "gone"}
<1>1. [loop EXCEPT !.pc = "top", !.err = TRUE] \in LoopState
  BY DEF LoopOK, LoopState, LoopPc
<1> QED
  BY <1>1, Outcome DEF Erred, LoopOK, LoopState

LEMMA Fails ==
    ASSUME LoopOK, Failed
    PROVE  LoopOK' /\ pending' = FALSE /\ loop.pc' \in {"end", "gone"}
<1>1. Left("end", FALSE, "error") \in LoopState
      /\ Left("end", FALSE, "error").pc = "end"
  BY Ending DEF StopReason
<1> QED
  BY <1>1, Outcome DEF Failed

LEMMA Counts ==
    ASSUME LoopOK, loop.count < MaxSteps, Resume(Counted)
    PROVE  /\ LoopOK' /\ pending' = FALSE
           /\ \/ loop.pc' = "top" /\ loop.count' = loop.count + 1
              \/ loop.pc' \in {"end", "gone"}
<1>1. loop.count + 1 \in 0 .. MaxSteps
  BY BudgetAssumption DEF LoopOK, LoopState
<1>2. /\ Counted \in LoopState /\ Counted.pc = "top"
      /\ Counted.count = loop.count + 1
  BY <1>1 DEF LoopOK, LoopState, LoopPc, Counted
<1> QED
  BY <1>2, Outcome

LEMMA Over ==
    ASSUME loop.pc' \in {"end", "gone"}
    PROVE  Counting'
  BY DEF Counting, OpenPc

-----------------------------------------------------------------------------
(* The rows of the steps and the count *)

StepsInv == StepsOK /\ LoopOK /\ Counting /\ StepsNumbered

LEMMA StillNumbered ==
    ASSUME StepsInv, UNCHANGED steps
    PROVE  StepsOK' /\ StepsNumbered'
  BY DEF StepsInv, StepsOK, StepsNumbered

\* A row is rewritten, and keeps its number.
LEMMA SettledNumbered ==
    ASSUME StepsInv, NEW i \in Nat, NEW x \in StepStatus, NEW b \in BOOLEAN,
           NEW r \in {None} \cup Nat,
           \/ steps' = [steps EXCEPT ![i].status = x]
           \/ steps' = [steps EXCEPT ![i].status = x, ![i].sent = b]
           \/ steps' = [steps EXCEPT ![i].status = x, ![i].result = r]
    PROVE  StepsOK' /\ StepsNumbered' /\ Len(steps') = Len(steps)
<1>1. /\ steps' \in Seq(StepRow) /\ Len(steps') = Len(steps)
      /\ \A j \in 1 .. Len(steps) : steps'[j].number = steps[j].number
  BY Touched DEF StepsInv, StepsOK
<1> QED
  BY <1>1 DEF StepsInv, StepsOK, StepsNumbered

LEMMA Length ==
    ASSUME StepsInv
    PROVE  /\ Len(steps) \in Nat /\ Current = Len(steps) /\ loop.count \in Nat
           /\ loop.pc \in OpenPc => loop.count < MaxSteps
<1>1. Len(steps) \in Nat /\ Len(steps) <= MaxSteps
  BY SeqDef DEF StepsInv, StepsOK
<1>2. loop.count \in Nat
  BY BudgetAssumption DEF StepsInv, LoopOK, LoopState
<1>3. loop.pc \in OpenPc => Len(steps) = loop.count + 1
  BY DEF StepsInv, Counting
<1> QED
  BY <1>1, <1>2, <1>3, BudgetAssumption DEF Current

LEMMA SettleNumbered ==
    ASSUME StepsInv, NEW x \in StepStatus, Settle(x)
    PROVE  StepsOK' /\ StepsNumbered' /\ Len(steps') = Len(steps)
<1>1. Current \in Nat /\ FALSE \in BOOLEAN /\ 0 \in {None} \cup Nat
  BY Length
<1>2. steps' = [steps EXCEPT ![Current].status = x]
  BY DEF Settle
<1> QED
  BY <1>1, <1>2, SettledNumbered

\* The row inserted carries the next number.
LEMMA InsertNumbered ==
    ASSUME StepsInv, loop.pc = "persist", steps' = Append(steps, NewStep),
           loop.last \in Tools
    PROVE  StepsOK' /\ StepsNumbered' /\ Len(steps') = loop.count + 1
<1>1. Len(steps) = loop.count /\ loop.count < MaxSteps /\ loop.count \in Nat
  BY Length DEF StepsInv, Counting
<1>2. loop.count + 1 \in Numbers
  BY <1>1, BudgetAssumption DEF Numbers
<1>3. NewStep \in StepRow /\ NewStep.number = loop.count + 1
  BY <1>2 DEF NewStep, StepRow, StepStatus
<1>4. /\ steps' \in Seq(StepRow) /\ Len(steps') = Len(steps) + 1
      /\ steps'[Len(steps) + 1] = NewStep
      /\ \A j \in 1 .. Len(steps) : steps'[j] = steps[j]
  BY <1>3, Appended DEF StepsInv, StepsOK
<1>5. \A j \in 1 .. Len(steps) : steps[j].number = j
  BY DEF StepsInv, StepsNumbered
<1>6. \A j \in 1 .. Len(steps') : steps'[j].number = j
  BY <1>1, <1>3, <1>4, <1>5
<1> QED
  BY <1>1, <1>4, <1>6, BudgetAssumption DEF StepsOK, StepsNumbered

\* An action that moves on without touching the rows.
LEMMA GoCounting ==
    ASSUME StepsInv, NEW p \in LoopPc, Goto(p), Len(steps') = Len(steps),
           loop.pc \in OpenPc \cup {"marking"},
           p \in OpenPc => loop.pc \in OpenPc, p = "top" => loop.pc = "marking",
           p \notin {"policy", "persist", "spawned", "marking"}
    PROVE  LoopOK' /\ Counting'
<1>1. LoopOK' /\ (loop' = [loop EXCEPT !.pc = p] \/ loop.pc' \in {"end", "gone"})
  BY GoesTo DEF StepsInv
<1>2. CASE loop' = [loop EXCEPT !.pc = p]
  <2>1. loop.pc' = p /\ loop.count' = loop.count /\ loop.err' = loop.err
        /\ loop.last' = loop.last
    BY <1>2 DEF StepsInv, LoopOK, LoopState
  <2> QED
    BY <1>1, <2>1 DEF StepsInv, Counting, OpenPc
<1> QED
  BY <1>1, <1>2, Over

LEMMA ErrCounting ==
    ASSUME StepsInv, Erred
    PROVE  LoopOK' /\ Counting'
<1>1. /\ LoopOK'
      /\ \/ loop.pc' = "top" /\ loop.err'
         \/ loop.pc' \in {"end", "gone"}
  BY Errs DEF StepsInv
<1> QED
  BY <1>1, Over DEF Counting, OpenPc

LEMMA CountCounting ==
    ASSUME StepsInv, loop.pc \in OpenPc, Resume(Counted), Len(steps') = Len(steps)
    PROVE  LoopOK' /\ Counting'
<1>1. loop.count < MaxSteps /\ Len(steps) = loop.count + 1
  BY Length DEF StepsInv, Counting
<1>2. /\ LoopOK'
      /\ \/ loop.pc' = "top" /\ loop.count' = loop.count + 1
         \/ loop.pc' \in {"end", "gone"}
  BY <1>1, Counts DEF StepsInv
<1> QED
  BY <1>1, <1>2, Over DEF Counting, OpenPc

LEMMA FailCounting ==
    ASSUME StepsInv, Failed
    PROVE  LoopOK' /\ Counting'
  BY Fails, Over DEF StepsInv

LEMMA Asked ==
    ASSUME NEW spent \in BOOLEAN
    PROVE  /\ Evaluate(loop, spent) \in StopReason \cup {None}
           /\ Evaluate(loop, spent) = None =>
                ~loop.err /\ ~OverCorrected /\ ~StepsSpent(loop)
  BY NodesAssumption DEF Evaluate, StopReason

LEMMA TopSteps ==
    ASSUME StepsInv, Top
    PROVE  StepsInv'
<1>1. StepsOK' /\ StepsNumbered'
  BY StillNumbered DEF Top, rows
<1>2. PICK spent \in {FALSE, loop.last # None} :
        IF Evaluate(loop, spent) = None THEN Goto("policy")
        ELSE Resume(Left("end", TRUE, Evaluate(loop, spent)))
  BY DEF Top
<1>3. spent \in BOOLEAN
  OBVIOUS
<1>4. CASE Evaluate(loop, spent) # None
  <2>1. Resume(Left("end", TRUE, Evaluate(loop, spent)))
        /\ Evaluate(loop, spent) \in StopReason
    BY <1>2, <1>3, <1>4, Asked
  <2>2. LoopOK' /\ loop.pc' \in {"end", "gone"}
    BY <2>1, Ending, Outcome DEF StepsInv
  <2> QED
    BY <1>1, <2>2, Over DEF StepsInv
<1>5. CASE Evaluate(loop, spent) = None
  <2>1. Goto("policy") /\ ~loop.err /\ ~StepsSpent(loop)
    BY <1>2, <1>3, <1>5, Asked
  <2>2. Len(steps') = Len(steps) /\ Len(steps) = loop.count /\ loop.count < MaxSteps
    BY <2>1, Length, BudgetAssumption DEF Top, rows, StepsInv, Counting, StepsSpent
  <2>3. /\ LoopOK'
        /\ loop' = [loop EXCEPT !.pc = "policy"] \/ loop.pc' \in {"end", "gone"}
    BY <2>1, GoesTo DEF StepsInv, LoopPc
  <2>4. CASE loop' = [loop EXCEPT !.pc = "policy"]
    <3>1. loop.pc' = "policy" /\ loop.count' = loop.count /\ loop.err' = loop.err
      BY <2>4 DEF StepsInv, LoopOK, LoopState
    <3>2. Counting'
      BY <2>1, <2>2, <3>1 DEF Counting, OpenPc
    <3> QED
      BY <1>1, <2>3, <3>2 DEF StepsInv
  <2> QED
    BY <1>1, <2>3, <2>4, Over DEF StepsInv
<1> QED
  BY <1>4, <1>5

LEMMA PolicySteps ==
    ASSUME StepsInv, Policy
    PROVE  StepsInv'
<1>1. StepsOK' /\ StepsNumbered' /\ Len(steps') = Len(steps) /\ loop.pc = "policy"
  BY StillNumbered DEF Policy, rows
<1>2. CASE Erred
  BY <1>1, <1>2, ErrCounting DEF StepsInv
<1>3. CASE Failed
  BY <1>1, <1>3, FailCounting DEF StepsInv
<1>4. ASSUME NEW tool \in Tools,
             Resume([loop EXCEPT !.pc = "persist", !.last = tool])
      PROVE  StepsInv'
  <2> DEFINE l == [loop EXCEPT !.pc = "persist", !.last = tool]
  <2>1. /\ l \in LoopState /\ l.pc = "persist" /\ l.last = tool
        /\ l.count = loop.count /\ l.err = loop.err
    BY DEF StepsInv, LoopOK, LoopState, LoopPc
  <2>2. LoopOK' /\ (loop' = l \/ loop.pc' \in {"end", "gone"})
    BY <1>4, <2>1, Outcome DEF StepsInv
  <2>3. tool # None
    BY NodesAssumption DEF Tools
  <2>4. CASE loop' = l
    BY <1>1, <2>1, <2>2, <2>3, <2>4 DEF StepsInv, Counting, OpenPc
  <2> QED
    BY <1>1, <2>2, <2>4, Over DEF StepsInv
<1> QED
  BY <1>2, <1>3, <1>4 DEF Policy

LEMMA PersistSteps ==
    ASSUME StepsInv, PersistPolicyCall
    PROVE  StepsInv'
<1>1. loop.pc = "persist" /\ loop.last \in Tools /\ ~loop.err
      /\ Len(steps) = loop.count
  BY DEF PersistPolicyCall, StepsInv, Counting, LoopOK, LoopState
<1>2. CASE loop.last = Terminate /\ Goto("top") /\ UNCHANGED steps
  <2>1. StepsOK' /\ StepsNumbered'
    BY <1>2, StillNumbered
  <2>2. /\ LoopOK'
        /\ loop' = [loop EXCEPT !.pc = "top"] \/ loop.pc' \in {"end", "gone"}
    BY <1>2, GoesTo DEF StepsInv, LoopPc
  <2>3. CASE loop' = [loop EXCEPT !.pc = "top"]
    <3>1. loop.pc' = "top" /\ loop.count' = loop.count
      BY <2>3 DEF StepsInv, LoopOK, LoopState
    <3> QED
      BY <1>1, <1>2, <2>1, <2>2, <3>1 DEF StepsInv, Counting, OpenPc
  <2> QED
    BY <2>1, <2>2, <2>3, Over DEF StepsInv
<1>3. CASE loop.last # Terminate /\ steps' = Append(steps, NewStep)
  <2>1. StepsOK' /\ StepsNumbered' /\ Len(steps') = loop.count + 1
    BY <1>1, <1>3, InsertNumbered
  <2>2. CASE Rejected
    BY <2>1, <2>2, ErrCounting DEF Rejected, StepsInv
  <2>3. ASSUME loop.last # Unknown, NEW p \in {"local", "dispatch"}, Goto(p)
        PROVE  StepsInv'
    <3>1. LoopOK' /\ (loop' = [loop EXCEPT !.pc = p] \/ loop.pc' \in {"end", "gone"})
      BY <2>3, GoesTo DEF StepsInv, LoopPc
    <3>2. loop.last \in Nodes
      BY <1>1, <1>3, <2>3 DEF Tools
    <3>3. CASE loop' = [loop EXCEPT !.pc = p]
      <4>1. loop.pc' = p /\ loop.count' = loop.count /\ loop.last' = loop.last
            /\ loop.err' = loop.err
        BY <3>3 DEF StepsInv, LoopOK, LoopState
      <4> QED
        BY <1>1, <2>1, <3>1, <3>2, <4>1 DEF StepsInv, Counting, OpenPc
    <3> QED
      BY <2>1, <3>1, <3>3, Over DEF StepsInv
  <2>4. Rejected \/ (loop.last # Unknown /\ (Goto("local") \/ Goto("dispatch")))
    BY <1>3 DEF PersistPolicyCall
  <2> QED
    BY <2>2, <2>3, <2>4
<1> QED
  BY <1>2, <1>3 DEF PersistPolicyCall

LEMMA MarkRunningSteps ==
    ASSUME StepsInv, MarkRunning
    PROVE  StepsInv'
<1>1. StepsOK' /\ StepsNumbered' /\ Len(steps') = Len(steps)
  BY StillNumbered DEF MarkRunning, rows
<1>2. LoopOK' /\ Counting'
  BY <1>1, GoCounting DEF MarkRunning, OpenPc, LoopPc
<1> QED
  BY <1>1, <1>2 DEF StepsInv

LEMMA SaveMemorySteps ==
    ASSUME StepsInv, SaveMemory
    PROVE  StepsInv'
<1>1. StepsOK' /\ StepsNumbered' /\ Len(steps') = Len(steps)
  BY StillNumbered DEF SaveMemory, rows
<1>2. LoopOK' /\ Counting'
  BY <1>1, GoCounting DEF SaveMemory, OpenPc, LoopPc
<1> QED
  BY <1>1, <1>2 DEF StepsInv

LEMMA StartWaitSteps ==
    ASSUME StepsInv, StartWait
    PROVE  StepsInv'
<1>1. StepsOK' /\ StepsNumbered' /\ Len(steps') = Len(steps)
  BY StillNumbered DEF StartWait, rows
<1>2. LoopOK' /\ Counting'
  BY <1>1, GoCounting DEF StartWait, OpenPc, LoopPc
<1> QED
  BY <1>1, <1>2 DEF StepsInv

LEMMA WokenSteps ==
    ASSUME StepsInv, Woken
    PROVE  StepsInv'
<1>1. StepsOK' /\ StepsNumbered' /\ Len(steps') = Len(steps)
  BY StillNumbered DEF Woken, rows
<1>2. LoopOK' /\ Counting'
  BY <1>1, GoCounting DEF Woken, OpenPc, LoopPc
<1> QED
  BY <1>1, <1>2 DEF StepsInv

LEMMA TimeoutSteps ==
    ASSUME StepsInv, Timeout
    PROVE  StepsInv'
<1>1. StepsOK' /\ StepsNumbered' /\ Len(steps') = Len(steps)
  BY StillNumbered DEF Timeout, rows
<1>2. LoopOK' /\ Counting'
  BY <1>1, GoCounting DEF Timeout, Deadline, OpenPc, LoopPc
<1> QED
  BY <1>1, <1>2 DEF StepsInv

LEMMA LocalFailsSteps ==
    ASSUME StepsInv, LocalFails
    PROVE  StepsInv'
<1>1. StepsOK' /\ StepsNumbered' /\ Len(steps') = Len(steps)
  BY SettleNumbered DEF LocalFails, StepStatus
<1>2. LoopOK' /\ Counting'
  BY ErrCounting DEF LocalFails
<1> QED
  BY <1>1, <1>2 DEF StepsInv

LEMMA ExpireSteps ==
    ASSUME StepsInv, Expire
    PROVE  StepsInv'
<1>1. StepsOK' /\ StepsNumbered' /\ Len(steps') = Len(steps)
  BY SettleNumbered DEF Expire, StepStatus
<1>2. LoopOK' /\ Counting'
  BY ErrCounting DEF Expire
<1> QED
  BY <1>1, <1>2 DEF StepsInv

LEMMA FinishLocalSteps ==
    ASSUME StepsInv, FinishLocal
    PROVE  StepsInv'
<1>1. StepsOK' /\ StepsNumbered' /\ Len(steps') = Len(steps)
  BY SettleNumbered DEF FinishLocal, StepStatus
<1>2. CASE Goto("signal")
  BY <1>1, <1>2, GoCounting DEF FinishLocal, OpenPc, LoopPc, StepsInv
<1>3. CASE Resume(Counted)
  BY <1>1, <1>3, CountCounting DEF FinishLocal, OpenPc, StepsInv
<1> QED
  BY <1>2, <1>3 DEF FinishLocal

LEMMA AwaitSignalSteps ==
    ASSUME StepsInv, AwaitSignal, buffer \in Nat \cup {None}
    PROVE  StepsInv'
<1>1. Current \in Nat /\ "completed" \in StepStatus /\ FALSE \in BOOLEAN
      /\ buffer \in {None} \cup Nat
  BY Length DEF StepStatus
<1>2. StepsOK' /\ StepsNumbered' /\ Len(steps') = Len(steps)
  BY <1>1, SettledNumbered DEF AwaitSignal
<1>3. LoopOK' /\ Counting'
  BY <1>2, CountCounting DEF AwaitSignal, OpenPc
<1> QED
  BY <1>2, <1>3 DEF StepsInv

LEMMA DispatchSteps ==
    ASSUME StepsInv, Dispatch
    PROVE  StepsInv'
<1>1. CASE Goto("mark") /\ UNCHANGED steps
  <2>1. StepsOK' /\ StepsNumbered' /\ Len(steps') = Len(steps)
    BY <1>1, StillNumbered
  <2> QED
    BY <1>1, <2>1, GoCounting DEF Dispatch, OpenPc, LoopPc, StepsInv
<1>2. CASE Erred /\ Settle("failed")
  <2>1. StepsOK' /\ StepsNumbered'
    BY <1>2, SettleNumbered DEF StepStatus
  <2> QED
    BY <1>2, <2>1, ErrCounting DEF StepsInv
<1>3. CASE Failed /\ UNCHANGED steps
  BY <1>3, StillNumbered, FailCounting DEF StepsInv
<1> QED
  BY <1>1, <1>2, <1>3 DEF Dispatch

LEMMA MarkDispatchedSteps ==
    ASSUME StepsInv, MarkDispatched
    PROVE  StepsInv'
<1>1. /\ Current \in Nat /\ "dispatched" \in StepStatus /\ TRUE \in BOOLEAN
      /\ 0 \in {None} \cup Nat
      /\ steps' = [steps EXCEPT ![Current].status = "dispatched",
                                ![Current].sent = TRUE]
  BY Length DEF StepStatus, MarkDispatched
<1>2. StepsOK' /\ StepsNumbered' /\ Len(steps') = Len(steps)
  BY <1>1, SettledNumbered
<1>3. LoopOK' /\ Counting'
  BY <1>2, GoCounting DEF MarkDispatched, OpenPc, LoopPc
<1> QED
  BY <1>2, <1>3 DEF StepsInv

LEMMA ReloadSteps ==
    ASSUME StepsInv, Reload
    PROVE  StepsInv'
<1>1. StepsOK' /\ StepsNumbered' /\ Len(steps') = Len(steps)
  BY StillNumbered DEF Reload
<1>2. CASE Erred
  BY <1>1, <1>2, ErrCounting DEF StepsInv
<1>3. CASE Resume(Counted)
  BY <1>1, <1>3, CountCounting DEF Reload, OpenPc, StepsInv
<1> QED
  BY <1>2, <1>3 DEF Reload

LEMMA BeginSteps ==
    ASSUME StepsInv, Begin
    PROVE  StepsInv'
<1>1. StepsOK' /\ StepsNumbered' /\ Len(steps') = Len(steps)
  BY StillNumbered DEF Begin, rows
<1>2. /\ LoopOK' /\ loop.pc' = "marking" /\ loop.count' = loop.count
      /\ loop.err' = loop.err
  BY DEF Begin, StepsInv, LoopOK, LoopState, LoopPc
<1>3. Counting'
  BY <1>1, <1>2 DEF Begin, StepsInv, Counting, OpenPc
<1> QED
  BY <1>1, <1>2, <1>3 DEF StepsInv

LEMMA InterruptSteps ==
    ASSUME StepsInv, Interrupt
    PROVE  StepsInv'
<1>1. StepsOK' /\ StepsNumbered'
  BY StillNumbered DEF Interrupt, rows
<1>2. LoopOK' /\ loop.pc' \in {"end", "gone"}
  BY ThrownOK DEF Interrupt, StepsInv, LoopOK
<1> QED
  BY <1>1, <1>2, Over DEF StepsInv

\* The end of the run, which counts nothing.
LEMMA EndCounting ==
    ASSUME StepsInv, NEW p \in {"write", "gone"}, Goto(p)
    PROVE  LoopOK' /\ Counting'
<1>1. LoopOK' /\ (loop' = [loop EXCEPT !.pc = p] \/ loop.pc' \in {"end", "gone"})
  BY GoesTo DEF StepsInv, LoopPc
<1>2. CASE loop' = [loop EXCEPT !.pc = p]
  <2>1. loop.pc' = p
    BY <1>2 DEF StepsInv, LoopOK, LoopState
  <2> QED
    BY <1>1, <2>1 DEF Counting, OpenPc
<1> QED
  BY <1>1, <1>2, Over

LEMMA ReadEndSteps ==
    ASSUME StepsInv, ReadEnd
    PROVE  StepsInv'
<1>1. StepsOK' /\ StepsNumbered'
  BY StillNumbered DEF ReadEnd, rows
<1>2. Goto("gone") \/ Goto("write")
  BY DEF ReadEnd
<1> QED
  BY <1>1, <1>2, EndCounting DEF StepsInv

LEMMA CommitEndSteps ==
    ASSUME StepsInv, CommitEnd
    PROVE  StepsInv'
<1>1. StepsOK' /\ StepsNumbered'
  BY StillNumbered DEF CommitEnd, rows
<1>2. Goto("gone")
  BY DEF CommitEnd
<1> QED
  BY <1>1, <1>2, EndCounting DEF StepsInv

\* The loop stands still while the others act.
LEMMA LoopStands ==
    ASSUME StepsInv, UNCHANGED loop, StepsOK', StepsNumbered', Len(steps') = Len(steps)
    PROVE  StepsInv'
  BY DEF StepsInv, LoopOK, Counting

LEMMA HookSteps ==
    ASSUME StepsInv, HookOK, NEW i \in Numbers, NEW t \in EventTypes, HookStep(i, t),
           hook[i][t] = "write" => Target(t) \in StepStatus /\ i <= Len(steps)
    PROVE  StepsInv'
<1>1. CASE HookRead(i, t) \/ HookWake(i, t)
  <2>1. UNCHANGED <<loop, steps>>
    BY <1>1 DEF HookRead, HookWake, HookAt
  <2> QED
    BY <2>1, StillNumbered, LoopStands
<1>2. CASE HookCommit(i, t)
  <2>1. /\ i \in Nat /\ Target(t) \in StepStatus /\ FALSE \in BOOLEAN
        /\ UNCHANGED loop /\ Len(steps) \in Nat
    BY <1>2, Length DEF HookCommit, HookAt, Numbers
  <2>2. CASE t = "node_finished"
    <3>1. /\ FromEngine \in {None} \cup Nat
          /\ steps' = [steps EXCEPT ![i].status = Target(t),
                                    ![i].result = FromEngine]
      BY <1>2, <2>2 DEF HookCommit, FromEngine
    <3> QED
      BY <2>1, <3>1, SettledNumbered, LoopStands
  <2>3. CASE t # "node_finished"
    <3>1. steps' = [steps EXCEPT ![i].status = Target(t), ![i].result = @]
      BY <1>2, <2>3 DEF HookCommit
    <3>2. i \in 1 .. Len(steps)
      BY <1>2, <2>1 DEF HookCommit, HookAt, Numbers
    <3>3. steps[i].result \in {None} \cup Nat
      <4>1. steps[i] \in StepRow
        BY <3>2, SeqDef DEF StepsInv, StepsOK
      <4> QED
        BY <4>1 DEF StepRow
    <3>4. steps' = [steps EXCEPT ![i].status = Target(t),
                                ![i].result = steps[i].result]
      BY <3>1, <3>2
    <3> QED
      BY <2>1, <3>3, <3>4, SettledNumbered, LoopStands
  <2> QED
    BY <2>2, <2>3
<1> QED
  BY <1>1, <1>2 DEF HookStep, Handled

-----------------------------------------------------------------------------
(* The other rows and the webhooks *)

\* Only a stored event of a step the engine knows is on its way to the row.
HooksKnown ==
    \A i \in Numbers : \A t \in EventTypes :
        hook[i][t] = "write" => Target(t) \in StepStatus /\ i <= Len(steps)

RestInv == RunOK /\ EventsOK /\ HookOK /\ HooksKnown

\* Actions of the loop: the rows never become fewer, the webhooks stand.
LEMMA HooksStand ==
    ASSUME HookOK, HooksKnown, UNCHANGED hook, Len(steps') >= Len(steps),
           Len(steps) \in Nat, Len(steps') \in Nat
    PROVE  HookOK' /\ HooksKnown'
  BY DEF HookOK, HooksKnown, Numbers

LEMMA StatusOfReason ==
    ASSUME NEW r \in StopReason
    PROVE  StatusFor(r) \in RunTerminal
  BY DEF StatusFor, StopReason, RunTerminal

Elsewhere == {"top", "finish", "signal", "dispatch", "mark", "reload", "expire",
              "end", "write", "gone"}

LEMMA GoesAt ==
    ASSUME LoopOK, NEW p \in LoopPc, Goto(p)
    PROVE  loop.pc' \in {p, "end", "gone"}
<1>1. loop' = [loop EXCEPT !.pc = p] \/ loop.pc' \in {"end", "gone"}
  BY GoesTo
<1> QED
  BY <1>1 DEF LoopOK, LoopState

LEMMA CountsAt ==
    ASSUME LoopOK, Resume(Counted)
    PROVE  loop.pc' \in {"top", "end", "gone"}
<1>1. Counted.pc = "top"
  BY DEF LoopOK, LoopState, Counted
<1>2. loop' = Counted \/ loop' = Thrown
  BY DEF Resume
<1> QED
  BY <1>1, <1>2, ThrownOK

\* Seven places are entered by one action only.
LEMMA Entered ==
    ASSUME LoopOK, LoopStep \/ Interrupt
    PROVE  \/ loop.pc' \in Elsewhere
           \/ Begin /\ loop.pc' = "marking"
           \/ Top /\ loop.pc' = "policy"
           \/ Policy /\ loop.pc' = "persist"
           \/ PersistPolicyCall /\ loop.pc' = "local"
           \/ MarkDispatched /\ loop.pc' = "closing"
           \/ StartWait /\ loop.pc' = "wait"
<1> USE DEF Elsewhere
<1>1. CASE Begin
  BY <1>1 DEF Begin, LoopOK, LoopState
<1>2. CASE MarkRunning
  BY <1>2, GoesAt DEF MarkRunning, LoopPc
<1>3. CASE Top
  <2>1. PICK spent \in BOOLEAN :
          IF Evaluate(loop, spent) = None THEN Goto("policy")
          ELSE Resume(Left("end", TRUE, Evaluate(loop, spent)))
    BY <1>3 DEF Top
  <2>2. CASE Goto("policy")
    BY <1>3, <2>2, GoesAt DEF LoopPc
  <2>3. CASE Evaluate(loop, spent) # None
    <3>1. Evaluate(loop, spent) \in StopReason
      BY <2>3, Asked
    <3>2. /\ Left("end", TRUE, Evaluate(loop, spent)) \in LoopState
          /\ Left("end", TRUE, Evaluate(loop, spent)).pc = "end"
      BY <3>1, Ending
    <3> QED
      BY <2>1, <2>3, <3>2, Outcome
  <2> QED
    BY <2>1, <2>2, <2>3
<1>4. CASE Policy
  <2>1. CASE Erred
    BY <2>1, Errs
  <2>2. CASE Failed
    BY <2>2, Fails
  <2>3. ASSUME NEW tool \in Tools,
               Resume([loop EXCEPT !.pc = "persist", !.last = tool])
        PROVE  loop.pc' \in {"persist", "end", "gone"}
    <3>1. [loop EXCEPT !.pc = "persist", !.last = tool].pc = "persist"
      BY DEF LoopOK, LoopState
    <3>2. loop' = [loop EXCEPT !.pc = "persist", !.last = tool] \/ loop' = Thrown
      BY <2>3 DEF Resume
    <3> QED
      BY <3>1, <3>2, ThrownOK
  <2> QED
    BY <1>4, <2>1, <2>2, <2>3 DEF Policy
<1>5. CASE PersistPolicyCall
  <2>1. Goto("top") \/ Goto("local") \/ Goto("dispatch") \/ Erred
    BY <1>5 DEF PersistPolicyCall, Rejected
  <2> QED
    BY <1>5, <2>1, GoesAt, Errs DEF LoopPc
<1>6. CASE SaveMemory
  BY <1>6, GoesAt DEF SaveMemory, LoopPc
<1>7. CASE LocalFails
  BY <1>7, Errs DEF LocalFails
<1>8. CASE FinishLocal
  BY <1>8, GoesAt, CountsAt DEF FinishLocal, LoopPc
<1>9. CASE AwaitSignal
  BY <1>9, CountsAt DEF AwaitSignal
<1>10. CASE Dispatch
  BY <1>10, GoesAt, Errs, Fails DEF Dispatch, LoopPc
<1>11. CASE MarkDispatched
  BY <1>11, GoesAt DEF MarkDispatched, LoopPc
<1>12. CASE StartWait
  BY <1>12, GoesAt DEF StartWait, LoopPc
<1>13. CASE Woken
  BY <1>13, GoesAt DEF Woken, LoopPc
<1>14. CASE Timeout
  BY <1>14, GoesAt DEF Timeout, LoopPc
<1>15. CASE Expire
  BY <1>15, Errs DEF Expire
<1>16. CASE Reload
  BY <1>16, Errs, CountsAt DEF Reload
<1>17. CASE ReadEnd
  BY <1>17, GoesAt DEF ReadEnd, LoopPc
<1>18. CASE CommitEnd
  BY <1>18, GoesAt DEF CommitEnd, LoopPc
<1>19. CASE Interrupt
  BY <1>19, ThrownOK DEF Interrupt
<1> QED
  BY <1>1, <1>2, <1>3, <1>4, <1>5, <1>6, <1>7, <1>8, <1>9, <1>10, <1>11, <1>12,
     <1>13, <1>14, <1>15, <1>16, <1>17, <1>18, <1>19 DEF LoopStep

-----------------------------------------------------------------------------
(* The corrections *)

MemoryInv == attempts \in Nat /\ Budgeted

\* Only the handler of a correction adds to the count.
LEMMA AttemptsKept ==
    ASSUME LoopStep \/ Interrupt, ~SaveMemory
    PROVE  UNCHANGED attempts
  BY DEF LoopStep, Begin, MarkRunning, Top, Policy, PersistPolicyCall, LocalFails,
         FinishLocal, AwaitSignal, Dispatch, MarkDispatched, StartWait, Woken, Timeout,
         Expire, Reload, ReadEnd, CommitEnd, Interrupt, rows

LEMMA LoopBudget ==
    ASSUME LoopOK, MemoryInv, LoopStep \/ Interrupt
    PROVE  MemoryInv'
<1>1. CASE SaveMemory
  <2>1. loop.pc' \in {"finish", "end", "gone"} /\ attempts <= MaxCorrections
    BY <1>1, GoesAt DEF SaveMemory, LoopPc, MemoryInv, Budgeted
  <2>2. attempts' \in Nat /\ attempts' <= MaxCorrections + 1
    BY <1>1, <2>1, BudgetAssumption DEF SaveMemory, MemoryInv
  <2> QED
    BY <2>1, <2>2 DEF MemoryInv, Budgeted
<1>2. CASE ~SaveMemory
  <2>1. attempts' = attempts
    BY <1>2, AttemptsKept
  <2>2. CASE Top /\ loop.pc' = "policy"
    <3>1. PICK spent \in BOOLEAN :
            IF Evaluate(loop, spent) = None THEN Goto("policy")
            ELSE Resume(Left("end", TRUE, Evaluate(loop, spent)))
      BY <2>2 DEF Top
    <3>2. CASE Evaluate(loop, spent) = None
      BY <2>1, <3>2, Asked, BudgetAssumption DEF MemoryInv, Budgeted, OverCorrected
    <3>3. CASE Evaluate(loop, spent) # None
      <4>1. Evaluate(loop, spent) \in StopReason
        BY <3>3, Asked
      <4>2. loop.pc' \in {"end", "gone"}
        BY <3>1, <3>3, <4>1, Ending, Outcome
      <4> QED
        BY <2>2, <4>2
    <3> QED
      BY <3>2, <3>3
  <2>3. CASE loop.pc' \in Elsewhere \cup {"closing", "wait"}
    BY <2>1, <2>3 DEF MemoryInv, Budgeted, Elsewhere
  <2>4. CASE (Begin /\ loop.pc' = "marking") \/ (Policy /\ loop.pc' = "persist")
               \/ (PersistPolicyCall /\ loop.pc' = "local")
    BY <2>1, <2>4 DEF MemoryInv, Budgeted, Begin, Policy, PersistPolicyCall
  <2> QED
    BY <2>2, <2>3, <2>4, Entered
<1> QED
  BY <1>1, <1>2

-----------------------------------------------------------------------------
(* The wake *)

WakeInv == WakeComes /\ HookOK

LEMMA LoopWake ==
    ASSUME StepsInv, WakeInv, LoopStep \/ Interrupt
    PROVE  WakeComes'
<1>1. CASE MarkDispatched /\ loop.pc' = "closing"
  <2>1. /\ Current \in Nat /\ "dispatched" \in StepStatus /\ TRUE \in BOOLEAN
        /\ 0 \in {None} \cup Nat /\ steps \in Seq(StepRow)
        /\ steps' = [steps EXCEPT ![Current].status = "dispatched",
                                  ![Current].sent = TRUE]
    BY <1>1, Length DEF StepStatus, MarkDispatched, StepsInv, StepsOK
  <2>2. /\ Len(steps') = Len(steps)
        /\ \A j \in 1 .. Len(steps) :
              j = Current => steps'[j].status = "dispatched"
    BY <2>1, Touched
  <2>3. Current \in 1 .. Len(steps)
    BY <1>1, Length DEF StepsInv, Counting, OpenPc, MarkDispatched
  <2>4. steps[Current].status' = "dispatched"
    BY <2>2, <2>3 DEF Current
  <2> QED
    BY <2>4 DEF WakeComes, Settled
<1>2. CASE StartWait
  BY <1>2 DEF StartWait, WakeInv, WakeComes, Settled, Current, rows, outside
<1>3. CASE loop.pc' \notin {"closing", "wait"}
  BY <1>3 DEF WakeComes
<1>4. StepsInv => LoopOK
  BY DEF StepsInv
<1> QED
  BY <1>1, <1>2, <1>3, <1>4, Entered DEF Elsewhere

LEMMA HookWakeComes ==
    ASSUME StepsInv, WakeInv, NEW i \in Numbers, NEW t \in EventTypes, HookStep(i, t),
           Len(steps') = Len(steps)
    PROVE  WakeComes'
<1> SUFFICES ASSUME loop.pc' \in {"closing", "wait"}, Settled(Current)'
             PROVE  wake' \/ \E u \in EventTypes : hook'[Current'][u] = "wake"
  BY DEF WakeComes
<1>1. Current' = Current /\ loop' = loop /\ loop.pc # "gone" /\ Current \in Nat
  BY Length DEF HookStep, Handled, HookRead, HookCommit, HookWake, HookAt, Current
<1>2. Current \in Numbers
  BY <1>1, Length, BudgetAssumption
     DEF StepsInv, StepsOK, Counting, OpenPc, Numbers, Current
<1>3. CASE HookWake(i, t)
  BY <1>1, <1>3 DEF HookWake, Wakes, Registered
<1>4. CASE HookCommit(i, t)
  <2>1. hook' = [hook EXCEPT ![i][t] = "wake"] /\ hook[i][t] = "write"
        /\ wake' = wake
    BY <1>4 DEF HookCommit, HookAt
  <2>2. CASE i = Current
    BY <1>1, <2>1, <2>2 DEF WakeInv, HookOK
  <2>3. CASE i # Current
    <3>0. Current \in DOMAIN steps
      BY <1>1, Length, SeqDef DEF StepsInv, StepsOK, Counting, OpenPc, Current
    <3>1. steps'[Current] = steps[Current]
      BY <1>4, <2>3, <3>0 DEF HookCommit
    <3>2. Settled(Current)
      BY <1>1, <3>1 DEF Settled
    <3>3. hook'[Current] = hook[Current]
      BY <1>2, <2>1, <2>3 DEF WakeInv, HookOK
    <3> QED
      BY <1>1, <2>1, <3>2, <3>3 DEF WakeInv, WakeComes
  <2> QED
    BY <2>2, <2>3
<1>5. CASE HookRead(i, t)
  <2>1. /\ hook[i][t] = "none" /\ wake' = wake /\ steps' = steps
        /\ hook' = [hook EXCEPT ![i][t] =
                       IF AlreadyTerminal \/ ~Moves(i, t) THEN "wake" ELSE "write"]
    BY <1>5 DEF HookRead, HookAt, Unnoticed
  <2>2. wake \/ \E u \in EventTypes : hook[Current][u] = "wake"
    BY <1>1, <2>1 DEF WakeInv, WakeComes, Settled
  <2>3. ASSUME NEW u \in EventTypes, hook[Current][u] = "wake"
        PROVE  hook'[Current][u] = "wake"
    BY <1>2, <2>1, <2>3 DEF WakeInv, HookOK
  <2> QED
    BY <1>1, <2>1, <2>2, <2>3
<1> QED
  BY <1>3, <1>4, <1>5 DEF HookStep, Handled
-----------------------------------------------------------------------------
(* The end of the run *)

\* The row: a reason is written with the status that belongs to it, which only
\* the first commit of the loop writes over.
Ledger ==
    /\ run.status \in RunTerminal =>
           run.reason # None /\ run.status = StatusFor(run.reason)
    /\ run.reason # None => run.status \in {"running", StatusFor(run.reason)}
    /\ req \in {"call", "wait"} => run.reason # None

\* The coroutine: from where a CancelledError would end the task, the run is
\* closed or the process is going down.
Ways ==
    /\ pending => req = "wait" \/ shutdown = "forced"
    /\ loop.pc \in {"end", "write"} => loop.why \in StopReason
    /\ loop.pc \in {"end", "write"} /\ ~loop.guarded =>
           \/ loop.why = "error"
           \/ loop.why = "cancelled" /\ req = "wait" /\ ~pending
           \/ shutdown = "forced"
    /\ loop.pc = "spawned" => run.status # "running" /\ ~loop.guarded
    /\ loop.pc \notin {"spawned", "end", "write", "gone"} => loop.guarded

Within == LoopPc \ {"spawned", "end", "write", "gone"}

CloseInv == RunOK /\ LoopOK /\ Ledger /\ Ways /\ EndedMeansClosed

\* Where a step of the loop leaves the coroutine and its except clauses.
Landing ==
    \/ pending /\ loop' = Thrown
    \/ loop.pc' \in Within /\ loop.guarded'
    \/ loop.pc' = "end" /\ loop.why' \in StopReason /\ loop.guarded'
    \/ loop.pc' = "end" /\ loop.why' = "error"

LEMMA ResumeLands ==
    ASSUME NEW l \in LoopState, Resume(l),
           \/ l.pc \in Within /\ l.guarded
           \/ l.pc = "end" /\ l.why \in StopReason /\ l.guarded
           \/ l.pc = "end" /\ l.why = "error"
    PROVE  Landing /\ pending' = FALSE
  BY DEF Resume, Landing

LEMMA GotoLands ==
    ASSUME LoopOK, loop.guarded, NEW p \in Within, Goto(p)
    PROVE  Landing /\ pending' = FALSE
<1>1. /\ [loop EXCEPT !.pc = p] \in LoopState /\ [loop EXCEPT !.pc = p].pc = p
      /\ [loop EXCEPT !.pc = p].guarded
  BY DEF LoopOK, LoopState, Within
<1> QED
  BY <1>1, ResumeLands DEF Goto

LEMMA ErrLands ==
    ASSUME LoopOK, loop.guarded, Erred
    PROVE  Landing /\ pending' = FALSE
<1> DEFINE l == [loop EXCEPT !.pc = "top", !.err = TRUE]
<1>1. l \in LoopState /\ l.pc \in Within /\ l.guarded
  BY DEF LoopOK, LoopState, LoopPc, Within
<1> QED
  BY <1>1, ResumeLands DEF Erred

LEMMA FailLands ==
    ASSUME Failed
    PROVE  Landing /\ pending' = FALSE
<1>1. /\ Left("end", FALSE, "error") \in LoopState
      /\ Left("end", FALSE, "error").pc = "end"
      /\ Left("end", FALSE, "error").why = "error"
  BY Ending DEF StopReason
<1> QED
  BY <1>1, ResumeLands DEF Failed

LEMMA CountLands ==
    ASSUME LoopOK, loop.guarded, loop.count < MaxSteps, Resume(Counted)
    PROVE  Landing /\ pending' = FALSE
<1>1. loop.count + 1 \in 0 .. MaxSteps
  BY BudgetAssumption DEF LoopOK, LoopState
<1>2. Counted \in LoopState /\ Counted.pc \in Within /\ Counted.guarded
  BY <1>1 DEF LoopOK, LoopState, LoopPc, Counted, Within
<1> QED
  BY <1>2, ResumeLands

LEMMA TopLands ==
    ASSUME LoopOK, loop.guarded, Top
    PROVE  Landing /\ pending' = FALSE
<1>1. PICK spent \in BOOLEAN :
        IF Evaluate(loop, spent) = None THEN Goto("policy")
        ELSE Resume(Left("end", TRUE, Evaluate(loop, spent)))
  BY DEF Top
<1>2. CASE Evaluate(loop, spent) = None
  BY <1>1, <1>2, GotoLands DEF Within, LoopPc
<1>3. CASE Evaluate(loop, spent) # None
  <2> DEFINE l == Left("end", TRUE, Evaluate(loop, spent))
  <2>1. Evaluate(loop, spent) \in StopReason
    BY <1>3, Asked
  <2>2. l \in LoopState /\ l.pc = "end" /\ l.why \in StopReason
    BY <2>1, Ending
  <2>3. l.guarded
    BY DEF Left
  <2> QED
    BY <1>1, <1>3, <2>2, <2>3, ResumeLands
<1> QED
  BY <1>2, <1>3

LEMMA PolicyLands ==
    ASSUME LoopOK, loop.guarded, Policy
    PROVE  Landing /\ pending' = FALSE
<1>1. ASSUME NEW tool \in Tools,
             Resume([loop EXCEPT !.pc = "persist", !.last = tool])
      PROVE  Landing /\ pending' = FALSE
  <2> DEFINE l == [loop EXCEPT !.pc = "persist", !.last = tool]
  <2>1. l \in LoopState /\ l.pc \in Within /\ l.guarded
    BY DEF LoopOK, LoopState, LoopPc, Within
  <2> QED
    BY <1>1, <2>1, ResumeLands
<1> QED
  BY <1>1, ErrLands, FailLands DEF Policy

\* All the places between the first step of the task and its except clauses.
LEMMA WithinLands ==
    ASSUME StepsInv, loop.guarded, loop.pc \in Within, LoopStep
    PROVE  Landing /\ pending' = FALSE /\ (~MarkRunning => UNCHANGED run)
<1>1. LoopOK /\ (loop.pc \in OpenPc => loop.count < MaxSteps)
  BY Length DEF StepsInv
<1> USE DEF Within, LoopPc
<1>2. CASE MarkRunning
  BY <1>1, <1>2, GotoLands DEF MarkRunning
<1>3. CASE Top
  BY <1>1, <1>3, TopLands DEF Top, rows
<1>4. CASE Policy
  BY <1>1, <1>4, PolicyLands DEF Policy, rows
<1>5. CASE PersistPolicyCall
  <2>1. Goto("top") \/ Goto("local") \/ Goto("dispatch") \/ Erred
    BY <1>5 DEF PersistPolicyCall, Rejected
  <2> QED
    BY <1>1, <1>5, <2>1, GotoLands, ErrLands DEF PersistPolicyCall
<1>6. CASE SaveMemory \/ LocalFails
  BY <1>1, <1>6, GotoLands, ErrLands DEF SaveMemory, LocalFails
<1>7. CASE FinishLocal \/ AwaitSignal
  <2>1. loop.pc \in OpenPc /\ UNCHANGED run
    BY <1>7 DEF FinishLocal, AwaitSignal, OpenPc
  <2>2. Goto("signal") \/ Resume(Counted)
    BY <1>7 DEF FinishLocal, AwaitSignal
  <2> QED
    BY <1>1, <2>1, <2>2, GotoLands, CountLands
<1>8. CASE Dispatch
  BY <1>1, <1>8, GotoLands, ErrLands, FailLands DEF Dispatch
<1>9. CASE MarkDispatched \/ StartWait \/ Woken \/ Timeout
  BY <1>1, <1>9, GotoLands DEF MarkDispatched, StartWait, Woken, Timeout, rows
<1>10. CASE Expire
  BY <1>1, <1>10, ErrLands DEF Expire
<1>11. CASE Reload
  <2>1. loop.pc \in OpenPc /\ UNCHANGED run /\ (Erred \/ Resume(Counted))
    BY <1>11 DEF Reload, OpenPc
  <2> QED
    BY <1>1, <2>1, ErrLands, CountLands
<1> QED
  BY <1>2, <1>3, <1>4, <1>5, <1>6, <1>7, <1>8, <1>9, <1>10, <1>11
     DEF LoopStep, Begin, ReadEnd, CommitEnd

\* Nothing in the loop touches the request or the shutdown.
LEMMA LoopOutside ==
    ASSUME LoopStep \/ Interrupt
    PROVE  UNCHANGED outside
  BY DEF LoopStep, Begin, MarkRunning, Top, Policy, PersistPolicyCall, SaveMemory,
         LocalFails, FinishLocal, AwaitSignal, Dispatch, MarkDispatched, StartWait,
         Woken, Timeout, Expire, Reload, ReadEnd, CommitEnd, Interrupt

LEMMA ThrownIs ==
    /\ loop.guarded => Thrown.pc = "end" /\ Thrown.why = "cancelled"
    /\ LoopOK /\ ~loop.guarded => Thrown.pc = "gone" /\ Thrown.why = loop.why
  BY DEF Thrown, Left, LoopOK, LoopState

\* A landing keeps the ways open to the end of the run.
LEMMA LandingClose ==
    ASSUME CloseInv, LoopOK', Landing, pending' = FALSE, loop.guarded,
           UNCHANGED <<req, shutdown>>
    PROVE  Ways' /\ EndedMeansClosed'
<1>1. CASE pending /\ loop' = Thrown
  <2>1. loop.pc' = "end" /\ loop.why' = "cancelled"
    BY <1>1, ThrownIs
  <2>2. req = "wait" \/ shutdown = "forced"
    BY <1>1 DEF CloseInv, Ways
  <2> QED
    BY <2>1, <2>2 DEF Ways, EndedMeansClosed, StopReason
<1>2. CASE loop.pc' \in Within /\ loop.guarded'
  BY <1>2 DEF Within, Ways, EndedMeansClosed
<1>3. CASE loop.pc' = "end" /\ loop.why' \in StopReason /\ loop.guarded'
  BY <1>3 DEF Ways, EndedMeansClosed
<1>4. CASE loop.pc' = "end" /\ loop.why' = "error"
  BY <1>4 DEF Ways, EndedMeansClosed, StopReason
<1> QED
  BY <1>1, <1>2, <1>3, <1>4 DEF Landing

LEMMA RunningLedger ==
    ASSUME RunOK, Ledger, UNCHANGED req,
           run' = [run EXCEPT !.status = "running"] \/ UNCHANGED run
    PROVE  RunOK' /\ Ledger'
<1>1. CASE run' = [run EXCEPT !.status = "running"]
  <2>1. run.status' = "running" /\ run.reason' = run.reason
    BY <1>1 DEF RunOK
  <2>2. RunOK'
    BY <1>1 DEF RunOK
  <2> QED
    BY <2>1, <2>2 DEF Ledger, RunTerminal
<1>2. CASE UNCHANGED run
  BY <1>2 DEF RunOK, Ledger
<1> QED
  BY <1>1, <1>2

\* A reason comes with its status.
LEMMA ClosingLedger ==
    ASSUME NEW r \in StopReason, run' = [status |-> StatusFor(r), reason |-> r]
    PROVE  /\ RunOK' /\ Ledger' /\ run.reason' = r /\ run.status' = StatusFor(r)
           /\ run.reason' # None /\ run.status' \in RunTerminal
<1>1. StatusFor(r) \in RunTerminal /\ r # None
  BY StatusOfReason, NodesAssumption
<1> QED
  BY <1>1 DEF RunOK, Ledger

LEMMA WithinClose ==
    ASSUME StepsInv, CloseInv, loop.pc \in Within, LoopStep, LoopOK'
    PROVE  CloseInv'
<1>1. loop.guarded
  BY DEF CloseInv, Ways, Within
<1>2. Landing /\ pending' = FALSE /\ (~MarkRunning => UNCHANGED run)
  BY <1>1, WithinLands
<1>3. UNCHANGED <<req, shutdown>>
  BY LoopOutside DEF outside
<1>4. run' = [run EXCEPT !.status = "running"] \/ UNCHANGED run
  BY <1>2 DEF MarkRunning
<1> QED
  BY <1>1, <1>2, <1>3, <1>4, LandingClose, RunningLedger DEF CloseInv

\* A CancelledError that no except clause takes leaves a closed run.
LEMMA ThrownClose ==
    ASSUME CloseInv, pending, pending' = FALSE, loop' = Thrown, LoopOK',
           UNCHANGED <<req, shutdown>>, RunOK', Ledger',
           loop.pc # "gone", UNCHANGED run \/ run.status' \in RunTerminal
    PROVE  CloseInv'
<1>1. req = "wait" \/ shutdown = "forced"
  BY DEF CloseInv, Ways
<1>2. CASE loop.guarded
  <2>1. loop.pc' = "end" /\ loop.why' = "cancelled"
    BY <1>2, ThrownIs
  <2> QED
    BY <1>1, <2>1 DEF CloseInv, Ways, EndedMeansClosed, StopReason
<1>3. CASE ~loop.guarded
  <2>1. loop.pc' = "gone" /\ loop.why' = loop.why
    BY <1>3, ThrownIs DEF CloseInv
  <2>2. Ways'
    BY <2>1 DEF Ways
  <2>3. CASE shutdown # "forced"
    <3>1. req = "wait" /\ run.reason' # None
      BY <1>1, <2>3 DEF CloseInv, Ledger
    <3>2. loop.pc \in {"spawned", "end", "write"}
      BY <1>3 DEF CloseInv, Ways
    <3>3. CASE loop.why = "error"
      BY <2>1, <2>2, <3>1, <3>3 DEF CloseInv, EndedMeansClosed
    <3>4. CASE loop.pc = "spawned"
      <4>1. run.status # "running"
        BY <3>4 DEF CloseInv, Ways
      <4>2. run.status' # "running"
        BY <4>1 DEF RunTerminal
      <4> QED
        BY <2>2, <3>1, <4>2 DEF CloseInv, Ledger, EndedMeansClosed
    <3> QED
      BY <1>3, <2>3, <3>2, <3>3, <3>4 DEF CloseInv, Ways
  <2> QED
    BY <2>2, <2>3 DEF CloseInv, EndedMeansClosed
<1> QED
  BY <1>2, <1>3

LEMMA InterruptClose ==
    ASSUME CloseInv, Interrupt, LoopOK'
    PROVE  CloseInv'
<1>1. UNCHANGED <<run, req, shutdown>> /\ pending /\ pending' = FALSE
      /\ loop' = Thrown /\ loop.pc # "gone"
  BY DEF Interrupt, rows, outside
<1>2. RunOK' /\ Ledger'
  BY <1>1, RunningLedger DEF CloseInv
<1> QED
  BY <1>1, <1>2, ThrownClose

LEMMA BeginClose ==
    ASSUME CloseInv, Begin, LoopOK'
    PROVE  CloseInv'
<1>1. UNCHANGED <<run, pending, req, shutdown>>
  BY DEF Begin, rows, outside
<1>2. loop.pc' = "marking" /\ loop.guarded'
  BY DEF Begin, CloseInv, LoopOK, LoopState
<1> QED
  BY <1>1, <1>2, RunningLedger DEF CloseInv, Ways, EndedMeansClosed

\* The way on from an except clause, or from the code after the loop.
LEMMA LeaveClose ==
    ASSUME CloseInv, NEW p \in {"write", "gone"}, Goto(p), ~pending, RunOK', Ledger',
           loop.pc \in {"end", "write"}, LoopOK', UNCHANGED <<req, shutdown>>,
           p = "gone" => run.status' \in RunTerminal
    PROVE  CloseInv'
<1>1. /\ loop.pc' = p /\ loop.why' = loop.why /\ pending' = FALSE
      /\ loop.guarded' = loop.guarded
  BY DEF Goto, Resume, CloseInv, LoopOK, LoopState
<1>2. Ways'
  BY <1>1 DEF CloseInv, Ways
<1>3. EndedMeansClosed'
  BY <1>1 DEF EndedMeansClosed, Ledger
<1> QED
  BY <1>2, <1>3 DEF CloseInv

LEMMA EndClose ==
    ASSUME CloseInv, ReadEnd \/ CommitEnd, LoopOK'
    PROVE  CloseInv'
<1>1. UNCHANGED <<req, shutdown>>
  BY LoopOutside DEF outside, LoopStep
<1>2. loop.pc \in {"end", "write"} /\ loop.why \in StopReason
  BY DEF ReadEnd, CommitEnd, CloseInv, Ways
<1>3. CASE ReadEnd
  <2>1. UNCHANGED run /\ Goto(IF AlreadyTerminal THEN "gone" ELSE "write")
    BY <1>3 DEF ReadEnd, rows
  <2>2. RunOK' /\ Ledger'
    BY <1>1, <2>1, RunningLedger DEF CloseInv
  <2>3. CASE pending
    BY <1>1, <1>2, <2>1, <2>2, <2>3, ThrownClose DEF Goto, Resume
  <2>4. CASE ~pending
    BY <1>1, <1>2, <2>1, <2>2, <2>4, LeaveClose DEF AlreadyTerminal
  <2> QED
    BY <2>3, <2>4
<1>4. CASE CommitEnd
  <2>1. run' = [status |-> StatusFor(loop.why), reason |-> loop.why] /\ Goto("gone")
    BY <1>4 DEF CommitEnd
  <2>2. RunOK' /\ Ledger' /\ run.status' \in RunTerminal
    BY <1>2, <2>1, ClosingLedger
  <2>3. CASE pending
    BY <1>1, <1>2, <2>1, <2>2, <2>3, ThrownClose DEF Goto, Resume
  <2>4. CASE ~pending
    BY <1>1, <1>2, <2>1, <2>2, <2>4, LeaveClose
  <2> QED
    BY <2>3, <2>4
<1> QED
  BY <1>3, <1>4

LEMMA LoopClose ==
    ASSUME StepsInv, CloseInv, LoopStep \/ Interrupt, LoopOK'
    PROVE  CloseInv'
<1>1. CASE LoopStep /\ loop.pc \in Within
  BY <1>1, WithinClose
<1>2. CASE LoopStep /\ loop.pc \notin Within
  <2>1. loop.pc \in {"spawned", "end", "write", "gone"}
    BY <1>2 DEF Within, CloseInv, LoopOK, LoopState
  <2>2. Begin \/ ReadEnd \/ CommitEnd
    BY <1>2, <2>1
       DEF LoopStep, MarkRunning, Top, Policy, PersistPolicyCall, SaveMemory,
           LocalFails, FinishLocal, AwaitSignal, Dispatch, MarkDispatched, StartWait,
           Woken, Timeout, Deadline, Expire, Reload
  <2> QED
    BY <2>2, BeginClose, EndClose
<1> QED
  BY <1>1, <1>2, InterruptClose

-----------------------------------------------------------------------------
(* The operator, the supervisor and the webhooks *)

Operator == SendSignal \/ CancelRead \/ CancelCommit \/ CancelCall \/ Shutdown
              \/ CancelAll

LEMMA OperatorStands ==
    ASSUME Operator
    PROVE  UNCHANGED <<steps, attempts, merged, loop, hook, engine>>
  BY DEF Operator, SendSignal, CancelRead, CancelCommit, CancelCall, Shutdown,
         CancelAll, rows

LEMMA OperatorWakes ==
    ASSUME Operator, wake
    PROVE  wake'
  BY DEF Operator, SendSignal, CancelRead, CancelCommit, CancelCall, Shutdown,
         CancelAll

LEMMA OperatorEvents ==
    ASSUME Operator, EventsOK
    PROVE  EventsOK'
<1>1. CASE SendSignal
  <2>1. sent + 1 \in 0 .. MaxSignals /\ sent + 1 \in Nat
    BY <1>1, BudgetAssumption DEF SendSignal, EventsOK
  <2> QED
    BY <1>1, <2>1 DEF SendSignal, EventsOK
<1>2. CASE CancelRead \/ CancelCommit
  BY <1>2 DEF CancelRead, CancelCommit, EventsOK
<1>3. CASE CancelCall
  <2>1. pending' \in BOOLEAN /\ wake' \in BOOLEAN
    BY <1>3 DEF CancelCall
  <2> QED
    BY <1>3, <2>1 DEF CancelCall, EventsOK
<1>4. CASE Shutdown \/ CancelAll
  BY <1>4 DEF Shutdown, CancelAll, EventsOK
<1> QED
  BY <1>1, <1>2, <1>3, <1>4 DEF Operator

LEMMA OperatorClose ==
    ASSUME CloseInv, Operator
    PROVE  CloseInv'
<1>1. UNCHANGED loop
  BY OperatorStands
<1>2. LoopOK'
  BY <1>1 DEF CloseInv, LoopOK
<1>3. CASE SendSignal
  BY <1>1, <1>2, <1>3
     DEF SendSignal, rows, CloseInv, RunOK, Ledger, Ways, EndedMeansClosed
<1>4. CASE CancelRead
  <2>1. UNCHANGED <<run, pending, shutdown>> /\ req = "none"
        /\ req' \in {"refused", "write"}
    BY <1>4 DEF CancelRead, rows
  <2> QED
    BY <1>1, <1>2, <2>1 DEF CloseInv, RunOK, Ledger, Ways, EndedMeansClosed
<1>5. CASE CancelCommit
  <2>1. run' = [status |-> StatusFor("cancelled"), reason |-> "cancelled"]
    BY <1>5 DEF CancelCommit, StatusFor
  <2>2. RunOK' /\ Ledger' /\ run.reason' # None /\ run.status' \in RunTerminal
        /\ run.status' = StatusFor(run.reason)'
    BY <2>1, ClosingLedger DEF StopReason
  <2>3. UNCHANGED <<pending, shutdown>> /\ req = "write" /\ req' = "call"
    BY <1>5 DEF CancelCommit
  <2>4. run.status' # "running"
    BY <2>2 DEF RunTerminal
  <2>5. Ways'
    BY <1>1, <2>3, <2>4 DEF CloseInv, Ways
  <2> QED
    BY <1>2, <2>2, <2>5 DEF CloseInv, EndedMeansClosed
<1>6. CASE CancelCall
  <2>1. UNCHANGED <<run, shutdown>> /\ req = "call" /\ req' = "wait"
    BY <1>6 DEF CancelCall, rows
  <2> QED
    BY <1>1, <1>2, <2>1 DEF CloseInv, RunOK, Ledger, Ways, EndedMeansClosed
<1>7. CASE Shutdown
  BY <1>1, <1>2, <1>7
     DEF Shutdown, rows, CloseInv, RunOK, Ledger, Ways, EndedMeansClosed
<1>8. CASE CancelAll
  BY <1>1, <1>2, <1>8
     DEF CancelAll, rows, CloseInv, RunOK, Ledger, Ways, EndedMeansClosed
<1> QED
  BY <1>3, <1>4, <1>5, <1>6, <1>7, <1>8 DEF Operator

LEMMA HookClose ==
    ASSUME CloseInv, NEW i \in Numbers, NEW t \in EventTypes, HookStep(i, t)
    PROVE  CloseInv'
<1>1. UNCHANGED <<run, loop, pending, req, shutdown>>
  BY DEF HookStep, Handled, HookRead, HookCommit, HookWake, HookAt
<1> QED
  BY <1>1 DEF CloseInv, RunOK, LoopOK, Ledger, Ways, EndedMeansClosed

LEMMA HookEvents ==
    ASSUME EventsOK, NEW i \in Numbers, NEW t \in EventTypes, HookStep(i, t)
    PROVE  EventsOK'
<1>1. UNCHANGED <<pending, buffer, sent, engine, req, shutdown>>
  BY DEF HookStep, Handled, HookRead, HookCommit, HookWake, HookAt
<1>2. wake' = wake \/ wake' = (wake \/ Wakes)
  BY DEF HookStep, Handled, HookRead, HookCommit, HookWake, Unnoticed
<1>3. wake' \in BOOLEAN
  BY <1>2 DEF EventsOK
<1> QED
  BY <1>1, <1>3 DEF EventsOK

\* An event is on its way to the row only when it moves the row.
LEMMA HookKnows ==
    ASSUME HookOK, HooksKnown, NEW i \in Numbers, NEW t \in EventTypes,
           HookStep(i, t), Len(steps') = Len(steps)
    PROVE  HookOK' /\ HooksKnown'
<1>1. PICK stage \in HookStage : hook' = [hook EXCEPT ![i][t] = stage]
  BY DEF HookStep, Handled, HookRead, HookCommit, HookWake, HookStage
<1>2. HookOK'
  BY <1>1 DEF HookOK
<1>3. /\ hook'[i][t] = stage
      /\ \A j \in Numbers : \A u \in EventTypes :
            j # i \/ u # t => hook'[j][u] = hook[j][u]
  BY <1>1 DEF HookOK
<1>4. Target(t) \in StepStatus \cup {None}
  BY DEF Target, StepStatus
<1>5. stage = "write" => Target(t) \in StepStatus /\ i <= Len(steps)
  <2>1. CASE HookRead(i, t)
    <3>1. stage = "write" => Moves(i, t)
      BY <1>1, <1>3, <2>1 DEF HookRead, HookOK
    <3> QED
      BY <1>4, <2>1, <3>1 DEF HookRead, Moves
  <2>2. CASE HookCommit(i, t) \/ HookWake(i, t)
    BY <1>3, <2>2 DEF HookCommit, HookWake, HookOK
  <2> QED
    BY <2>1, <2>2 DEF HookStep, Handled
<1> QED
  BY <1>2, <1>3, <1>5 DEF HooksKnown

-----------------------------------------------------------------------------
(* Every step *)

LEMMA LoopSteps ==
    ASSUME StepsInv, EventsOK, LoopStep \/ Interrupt
    PROVE  StepsInv'
  BY BeginSteps, MarkRunningSteps, TopSteps, PolicySteps, PersistSteps,
     SaveMemorySteps, LocalFailsSteps, FinishLocalSteps, AwaitSignalSteps,
     DispatchSteps, MarkDispatchedSteps, StartWaitSteps, WokenSteps, TimeoutSteps,
     ExpireSteps, ReloadSteps, ReadEndSteps, CommitEndSteps, InterruptSteps
     DEF LoopStep, EventsOK

\* The rows never become fewer.
LEMMA LoopGrows ==
    ASSUME StepsInv, LoopStep \/ Interrupt
    PROVE  Len(steps) \in Nat /\ Len(steps') \in Nat /\ Len(steps') >= Len(steps)
<1>1. Len(steps) \in Nat /\ Current \in Nat /\ steps \in Seq(StepRow)
  BY Length DEF StepsInv, StepsOK
<1>2. CASE UNCHANGED steps
  BY <1>1, <1>2
<1>3. CASE \E x \in StepStatus : Settle(x)
  BY <1>1, <1>3, SettleNumbered
<1>4. CASE PersistPolicyCall
  <2>1. steps' = steps \/ steps' = Append(steps, NewStep)
    BY <1>4 DEF PersistPolicyCall
  <2>2. CASE steps' = Append(steps, NewStep)
    <3>1. loop.last \in Tools /\ loop.pc = "persist" /\ loop.count \in Nat
          /\ Len(steps) = loop.count
      BY <1>4, Length
         DEF PersistPolicyCall, StepsInv, LoopOK, LoopState, Counting
    <3>2. Len(steps') = loop.count + 1
      BY <2>2, <3>1, InsertNumbered
    <3> QED
      BY <1>1, <3>1, <3>2
  <2> QED
    BY <1>2, <2>1, <2>2
<1>5. CASE AwaitSignal
  BY <1>1, <1>5, SeqDef DEF AwaitSignal
<1>6. CASE MarkDispatched
  BY <1>1, <1>6, SeqDef DEF MarkDispatched
<1>7. CASE LocalFails \/ FinishLocal \/ Dispatch \/ Expire
  BY <1>2, <1>3, <1>7 DEF LocalFails, FinishLocal, Dispatch, Expire, StepStatus
<1>8. CASE Begin \/ MarkRunning \/ Top \/ Policy \/ SaveMemory \/ StartWait \/ Woken
             \/ Timeout \/ Reload \/ ReadEnd \/ CommitEnd \/ Interrupt
  <2>1. UNCHANGED steps
    BY <1>8 DEF Begin, MarkRunning, Top, Policy, SaveMemory, StartWait, Woken, Timeout,
                Reload, ReadEnd, CommitEnd, Interrupt, rows
  <2> QED
    BY <1>2, <2>1
<1> QED
  BY <1>4, <1>5, <1>6, <1>7, <1>8 DEF LoopStep

LEMMA LoopEvents ==
    ASSUME EventsOK, LoopStep \/ Interrupt
    PROVE  EventsOK'
<1>1. UNCHANGED <<sent, engine, hook, req, shutdown>>
  BY LoopOutside DEF outside
<1>2. /\ wake' = wake \/ wake' = FALSE
      /\ buffer' = buffer \/ buffer' = None
  BY DEF LoopStep, Begin, MarkRunning, Top, Policy, PersistPolicyCall, SaveMemory,
         LocalFails, FinishLocal, AwaitSignal, Taken, Dispatch, MarkDispatched,
         StartWait, Woken, Timeout, Expire, Reload, ReadEnd, CommitEnd, Interrupt
<1>3. pending' = pending \/ pending' = FALSE
  BY DEF LoopStep, Begin, MarkRunning, Top, Policy, PersistPolicyCall, SaveMemory,
         LocalFails, FinishLocal, AwaitSignal, Dispatch, MarkDispatched,
         StartWait, Woken, Timeout, Expire, Reload, ReadEnd, CommitEnd, Interrupt,
         Goto, Erred, Failed, Rejected, Resume
<1>4. wake' \in BOOLEAN
  BY <1>2 DEF EventsOK
<1>5. pending' \in BOOLEAN
  BY <1>3 DEF EventsOK
<1> QED
  BY <1>1, <1>2, <1>4, <1>5 DEF EventsOK

\* The step whose result is merged is one of those the budget allows.
LEMMA LoopMerged ==
    ASSUME StepsInv, merged \subseteq Numbers, LoopStep \/ Interrupt
    PROVE  merged' \subseteq Numbers
<1>1. CASE Reload
  <2>1. Current \in Numbers
    BY <1>1, Length, BudgetAssumption
       DEF Reload, StepsInv, StepsOK, Counting, OpenPc, Numbers, Current
  <2> QED
    BY <1>1, <2>1 DEF Reload
<1>2. CASE ~Reload
  <2>1. UNCHANGED merged
    BY <1>2 DEF LoopStep, Begin, MarkRunning, Top, Policy, PersistPolicyCall,
       SaveMemory, LocalFails, FinishLocal, AwaitSignal, Dispatch, MarkDispatched,
       StartWait, Woken, Timeout, Expire, ReadEnd, CommitEnd, Interrupt, rows
  <2> QED
    BY <2>1
<1> QED
  BY <1>1, <1>2

IInv ==
    /\ TypeOK
    /\ Counting /\ StepsNumbered
    /\ Budgeted
    /\ WakeComes /\ HooksKnown
    /\ Ledger /\ Ways /\ EndedMeansClosed

LEMMA Parts ==
    IInv <=> /\ StepsInv /\ CloseInv /\ MemoryInv /\ merged \subseteq Numbers
             /\ EventsOK /\ WakeInv /\ HooksKnown
  BY TypeParts DEF IInv, StepsInv, CloseInv, MemoryInv, MemoryOK, WakeInv

LEMMA PartsNext ==
    ASSUME StepsInv', CloseInv', MemoryInv', (merged \subseteq Numbers)', EventsOK',
           WakeInv', HooksKnown'
    PROVE  IInv'
  BY TypePartsNext DEF IInv, StepsInv, CloseInv, MemoryInv, MemoryOK, WakeInv

LEMMA InitIInv ==
    Init => IInv
<1> SUFFICES ASSUME Init
             PROVE  IInv
  OBVIOUS
<1>1. 0 \in 0 .. MaxSteps /\ 0 \in 0 .. MaxSignals
  BY BudgetAssumption
<1>2. /\ loop \in LoopState /\ loop.pc = "spawned" /\ ~loop.guarded
      /\ loop.count = 0 /\ ~loop.err
  BY <1>1 DEF Init, Left, LoopState, LoopPc
<1>3. StepsInv
  <2>1. steps \in Seq(StepRow) /\ Len(steps) = 0
    BY DEF Init
  <2> QED
    BY <1>2, <2>1, BudgetAssumption
       DEF StepsInv, StepsOK, LoopOK, Counting, StepsNumbered, OpenPc
<1>4. CloseInv
  BY <1>2 DEF Init, CloseInv, RunOK, LoopOK, Ledger, Ways, EndedMeansClosed, RunTerminal
<1>5. MemoryInv /\ merged \subseteq Numbers
  <2>1. attempts = 0 /\ merged = {}
    BY DEF Init
  <2>2. attempts <= MaxCorrections /\ attempts <= MaxCorrections + 1
    BY <2>1, BudgetAssumption
  <2> QED
    BY <2>1, <2>2 DEF MemoryInv, Budgeted
<1>6. EventsOK
  BY <1>1 DEF Init, EventsOK
<1>7. WakeInv /\ HooksKnown
  BY <1>2 DEF Init, WakeInv, WakeComes, HookOK, HookStage, HooksKnown
<1> QED
  BY <1>3, <1>4, <1>5, <1>6, <1>7, Parts

LEMMA LoopIInv ==
    ASSUME IInv, LoopStep \/ Interrupt
    PROVE  IInv'
<1>1. /\ StepsInv /\ CloseInv /\ MemoryInv /\ merged \subseteq Numbers
      /\ EventsOK /\ WakeInv /\ HooksKnown /\ LoopOK
  BY Parts DEF StepsInv
<1>2. StepsInv' /\ LoopOK'
  BY <1>1, LoopSteps DEF StepsInv
<1>3. CloseInv'
  BY <1>1, <1>2, LoopClose
<1>4. MemoryInv' /\ (merged \subseteq Numbers)'
  BY <1>1, LoopBudget, LoopMerged
<1>5. EventsOK'
  BY <1>1, LoopEvents
<1>6. UNCHANGED hook
  BY LoopOutside DEF outside
<1>7. HookOK' /\ HooksKnown'
  BY <1>1, <1>6, LoopGrows, HooksStand DEF WakeInv
<1>8. WakeInv'
  BY <1>1, <1>7, LoopWake DEF WakeInv
<1> QED
  BY <1>2, <1>3, <1>4, <1>5, <1>7, <1>8, PartsNext

LEMMA HookIInv ==
    ASSUME IInv, NEW i \in Numbers, NEW t \in EventTypes, HookStep(i, t)
    PROVE  IInv'
<1>1. /\ StepsInv /\ CloseInv /\ MemoryInv /\ merged \subseteq Numbers
      /\ EventsOK /\ WakeInv /\ HooksKnown /\ HookOK
  BY Parts DEF WakeInv
<1>2. hook[i][t] = "write" => Target(t) \in StepStatus /\ i <= Len(steps)
  BY <1>1 DEF HooksKnown
<1>3. StepsInv' /\ UNCHANGED <<loop, attempts, merged>>
  BY <1>1, <1>2, HookSteps
     DEF HookStep, Handled, HookRead, HookCommit, HookWake, HookAt
<1>4. Len(steps') = Len(steps)
  <2>1. UNCHANGED steps \/ (HookCommit(i, t) /\ steps \in Seq(StepRow))
    BY <1>1 DEF HookStep, Handled, HookRead, HookWake, StepsInv, StepsOK
  <2> QED
    BY <2>1, SeqDef DEF HookCommit
<1>5. CloseInv' /\ EventsOK' /\ HookOK' /\ HooksKnown'
  BY <1>1, <1>4, HookClose, HookEvents, HookKnows
<1>6. MemoryInv' /\ (merged \subseteq Numbers)'
  BY <1>1, <1>3 DEF MemoryInv, Budgeted
<1>7. WakeComes'
  BY <1>1, <1>4, HookWakeComes
<1> QED
  BY <1>1, <1>3, <1>5, <1>6, <1>7, PartsNext DEF WakeInv

LEMMA OperatorIInv ==
    ASSUME IInv, Operator
    PROVE  IInv'
<1>1. /\ StepsInv /\ CloseInv /\ MemoryInv /\ merged \subseteq Numbers
      /\ EventsOK /\ WakeInv /\ HooksKnown
  BY Parts
<1>2. UNCHANGED <<steps, attempts, merged, loop, hook>>
  BY OperatorStands
<1>3. StepsInv'
  BY <1>1, <1>2, StillNumbered, LoopStands
<1>4. CloseInv' /\ EventsOK'
  BY <1>1, OperatorClose, OperatorEvents
<1>5. MemoryInv' /\ (merged \subseteq Numbers)'
  BY <1>1, <1>2 DEF MemoryInv, Budgeted
<1>6. HookOK' /\ HooksKnown'
  BY <1>1, <1>2 DEF WakeInv, HookOK, HooksKnown
<1>7. WakeComes'
  <2>1. wake => wake'
    BY OperatorWakes
  <2> QED
    BY <1>1, <1>2, <2>1 DEF WakeInv, WakeComes, Settled, Current
<1> QED
  BY <1>3, <1>4, <1>5, <1>6, <1>7, PartsNext DEF WakeInv

LEMMA NextIInv ==
    IInv /\ [Next]_vars => IInv'
<1> SUFFICES ASSUME IInv, [Next]_vars
             PROVE  IInv'
  OBVIOUS
<1>1. CASE LoopStep \/ Interrupt
  BY <1>1, LoopIInv
<1>2. CASE \E i \in Numbers, t \in EventTypes : HookStep(i, t)
  BY <1>2, HookIInv
<1>3. CASE Operator
  BY <1>3, OperatorIInv
<1>4. CASE UNCHANGED vars
  BY <1>4
     DEF vars, rows, outside, IInv, TypeOK, Counting, StepsNumbered, Budgeted,
         WakeComes, HooksKnown, Ledger, Ways, EndedMeansClosed, Settled, Current
<1> QED
  BY <1>1, <1>2, <1>3, <1>4 DEF Next, Operator

LEMMA Invariant ==
    Spec => []IInv
  BY InitIInv, NextIInv, PTL DEF Spec

-----------------------------------------------------------------------------
(* The theorems *)

\* The rows, the coroutine, the wake, the webhooks and the request keep their
\* types whatever the interleaving of the loop with what runs beside it.
THEOREM TypesHold ==
    Spec => []TypeOK
<1>1. IInv => TypeOK
  BY DEF IInv
<1> QED
  BY <1>1, Invariant, PTL

\* The rows of the steps are numbered 1, 2, 3, ..., although a refused tool call
\* leaves a row that is not counted (_persist_policy_call numbers by the count).
THEOREM NumbersHold ==
    Spec => []StepsNumbered
<1>1. IInv => StepsNumbered
  BY DEF IInv
<1> QED
  BY <1>1, Invariant, PTL

\* However often the policy orders corrections, they pass the budget by one at
\* most, because every step goes through the stop conditions.
THEOREM CorrectionsHold ==
    Spec => []CorrectionsBounded
<1>1. IInv => CorrectionsBounded
  BY DEF IInv, Budgeted, CorrectionsBounded
<1> QED
  BY <1>1, Invariant, PTL

\* A loop that waits for a step some event has settled is going to be woken:
\* the webhook commits first and wakes afterwards, and the loop clears the wake
\* only once it is out of the wait.
THEOREM WakeHolds ==
    Spec => []NoLostWake
<1>1. IInv => NoLostWake
  BY DEF IInv, WakeComes, NoLostWake
<1> QED
  BY <1>1, Invariant, PTL

\* A task that is over leaves a closed run behind, whichever of its awaits a
\* cancel, a shutdown or an exception hit.
THEOREM EndHolds ==
    Spec => []EndedMeansClosed
<1>1. IInv => EndedMeansClosed
  BY DEF IInv
<1> QED
  BY <1>1, Invariant, PTL

-----------------------------------------------------------------------------
(* What the loop has left to do *)

\* Awaits from here to the next turn of the loop, which come after PerTurn of
\* them at most.
StageLeft(p) ==
    CASE p = "spawned"               -> 16
      [] p = "marking"               -> 15
      [] p = "top"                   -> 14
      [] p = "policy"                -> 13
      [] p = "persist"               -> 12
      [] p \in {"local", "dispatch"} -> 11
      [] p \in {"finish", "mark"}    -> 10
      [] p \in {"signal", "closing"} -> 9
      [] p = "wait"                  -> 8
      [] OTHER                       -> 7

PerTurn == 8
Longest == PerTurn * MaxSteps + 16

\* The stop conditions are going to end the run.
Doomed(l) == l.pc = "top" /\ (l.err \/ l.last = Terminate)

\* A cancel may lead back from an except clause to its own.
AwaitsLeft(l) ==
    CASE l.pc = "gone"  -> 0
      [] l.pc = "write" -> IF l.guarded THEN 3 ELSE 1
      [] l.pc = "end"   -> IF l.guarded THEN 4 ELSE 2
      [] Doomed(l)      -> 5
      [] OTHER          -> PerTurn * (MaxSteps - l.count) + StageLeft(l.pc)

LEMMA LeftInCycle ==
    ASSUME NEW l \in LoopState
    PROVE  /\ AwaitsLeft(l) \in 0 .. Longest /\ Longest \in Nat
           /\ AwaitsLeft(l) = 0 <=> l.pc = "gone"
           /\ l.pc \notin {"gone", "write", "end"} /\ ~Doomed(l) =>
                  AwaitsLeft(l) = PerTurn * (MaxSteps - l.count) + StageLeft(l.pc)
           /\ l.pc \notin {"gone", "write", "end"} => AwaitsLeft(l) >= 5
           /\ Doomed(l) => AwaitsLeft(l) = 5
           /\ l.pc \notin {"gone", "write", "end"} /\ ~Doomed(l) => AwaitsLeft(l) >= 7
<1>1. l.count \in 0 .. MaxSteps /\ MaxSteps \in Nat /\ l.guarded \in BOOLEAN
  BY BudgetAssumption DEF LoopState
<1>2. StageLeft(l.pc) \in 7 .. 16
  BY DEF StageLeft
<1>3. /\ PerTurn * (MaxSteps - l.count) \in 0 .. PerTurn * MaxSteps
      /\ PerTurn * MaxSteps \in Nat
  BY <1>1 DEF PerTurn
<1>4. Doomed(l) => l.pc = "top"
  BY DEF Doomed
<1>5. CASE l.pc = "gone"
  BY <1>3, <1>4, <1>5 DEF AwaitsLeft, Longest
<1>6. CASE l.pc \in {"write", "end"}
  BY <1>1, <1>3, <1>4, <1>6 DEF AwaitsLeft, Longest
<1>7. CASE Doomed(l)
  BY <1>3, <1>4, <1>7 DEF AwaitsLeft, Longest
<1>8. CASE l.pc \notin {"gone", "write", "end"} /\ ~Doomed(l)
  <2>1. AwaitsLeft(l) = PerTurn * (MaxSteps - l.count) + StageLeft(l.pc)
    BY <1>8 DEF AwaitsLeft
  <2>. QED
    BY <1>2, <1>3, <1>8, <2>1 DEF Longest
<1> QED
  BY <1>5, <1>6, <1>7, <1>8

LEMMA ThrownLess ==
    ASSUME LoopOK, loop.pc # "gone"
    PROVE  AwaitsLeft(Thrown) < AwaitsLeft(loop)
<1>1. CASE loop.guarded
  <2>1. AwaitsLeft(Thrown) = 2
    BY <1>1 DEF Thrown, Left, AwaitsLeft, Doomed
  <2>2. CASE loop.pc \in {"write", "end"}
    BY <1>1, <2>1, <2>2 DEF AwaitsLeft, Doomed
  <2>3. CASE loop.pc \notin {"gone", "write", "end"}
    BY <2>1, <2>3, LeftInCycle DEF LoopOK
  <2> QED
    BY <2>2, <2>3
<1>2. CASE ~loop.guarded
  <2>1. Thrown.pc = "gone" /\ Thrown \in LoopState
    BY <1>2, ThrownOK DEF Thrown, LoopOK, LoopState
  <2> QED
    BY <2>1, LeftInCycle DEF LoopOK
<1> QED
  BY <1>1, <1>2

LEMMA ResumeLess ==
    ASSUME LoopOK, NEW l, Resume(l), AwaitsLeft(l) < AwaitsLeft(loop), loop.pc # "gone"
    PROVE  AwaitsLeft(loop') < AwaitsLeft(loop)
  BY ThrownLess DEF Resume

\* Where a turn of the loop may go.
LEMMA TurnLess ==
    ASSUME NEW k \in LoopState, NEW l,
           k.pc \notin {"gone", "write", "end"}, ~Doomed(k),
           \/ l = Left("end", TRUE, l.why) \/ l = Left("end", FALSE, l.why)
           \/ Doomed(l)
           \/ /\ l \in LoopState /\ l.count = k.count
              /\ l.pc \notin {"gone", "write", "end"} /\ StageLeft(l.pc) < StageLeft(k.pc)
           \/ l \in LoopState /\ l.count = k.count + 1 /\ l.pc = "top"
    PROVE  AwaitsLeft(l) < AwaitsLeft(k)
<1>1. /\ AwaitsLeft(k) = PerTurn * (MaxSteps - k.count) + StageLeft(k.pc)
      /\ AwaitsLeft(k) >= 7 /\ AwaitsLeft(k) \in Nat
  BY LeftInCycle
<1>2. /\ k.count \in 0 .. MaxSteps /\ MaxSteps \in Nat
      /\ StageLeft(k.pc) \in 7 .. 16 /\ StageLeft(l.pc) \in 7 .. 16
  BY BudgetAssumption DEF LoopState, StageLeft
<1>3. CASE l = Left("end", TRUE, l.why) \/ l = Left("end", FALSE, l.why)
  <2>1. AwaitsLeft(l) \in {2, 4}
    BY <1>3 DEF Left, AwaitsLeft, Doomed
  <2> QED
    BY <1>1, <2>1
<1>4. CASE Doomed(l)
  <2>1. AwaitsLeft(l) = 5
    BY <1>4 DEF AwaitsLeft, Doomed
  <2> QED
    BY <1>1, <2>1
<1>5. CASE /\ l \in LoopState /\ l.count = k.count /\ ~Doomed(l)
           /\ l.pc \notin {"gone", "write", "end"} /\ StageLeft(l.pc) < StageLeft(k.pc)
  <2>1. AwaitsLeft(l) = PerTurn * (MaxSteps - k.count) + StageLeft(l.pc)
    BY <1>5, LeftInCycle
  <2> QED
    BY <1>1, <1>2, <1>5, <2>1 DEF PerTurn
<1>6. CASE l \in LoopState /\ l.count = k.count + 1 /\ l.pc = "top" /\ ~Doomed(l)
  <2>1. AwaitsLeft(l) = PerTurn * (MaxSteps - (k.count + 1)) + 14
    BY <1>6, LeftInCycle DEF StageLeft
  <2> QED
    BY <1>1, <1>2, <2>1 DEF PerTurn
<1> QED
  BY <1>3, <1>4, <1>5, <1>6

\* A step of the loop moves on inside the turn, or counts the turn.
LEMMA MovesLess ==
    ASSUME LoopOK, NEW p \in LoopPc, Goto(p),
           loop.pc \notin {"top", "end", "write", "gone"},
           p \notin {"top", "end", "write", "gone"},
           StageLeft(p) < StageLeft(loop.pc)
    PROVE  AwaitsLeft(loop') < AwaitsLeft(loop)
<1> DEFINE l == [loop EXCEPT !.pc = p]
<1>1. l \in LoopState /\ l.count = loop.count /\ l.pc = p
  BY DEF LoopOK, LoopState
<1>2. AwaitsLeft(l) < AwaitsLeft(loop)
  BY <1>1, TurnLess DEF LoopOK, Doomed
<1> QED
  BY <1>2, ResumeLess DEF Goto

LEMMA ErrsLess ==
    ASSUME LoopOK, Erred, loop.pc \notin {"top", "end", "write", "gone"}
    PROVE  AwaitsLeft(loop') < AwaitsLeft(loop)
<1> DEFINE l == [loop EXCEPT !.pc = "top", !.err = TRUE]
<1>1. Doomed(l)
  BY DEF Doomed, LoopOK, LoopState
<1>2. AwaitsLeft(l) < AwaitsLeft(loop)
  BY <1>1, TurnLess DEF LoopOK, Doomed
<1> QED
  BY <1>2, ResumeLess DEF Erred

LEMMA FailsLess ==
    ASSUME LoopOK, Failed, loop.pc \notin {"top", "end", "write", "gone"}
    PROVE  AwaitsLeft(loop') < AwaitsLeft(loop)
<1> DEFINE l == Left("end", FALSE, "error")
<1>1. l = Left("end", FALSE, l.why)
  BY DEF Left
<1>2. AwaitsLeft(l) < AwaitsLeft(loop)
  BY <1>1, TurnLess DEF LoopOK, Doomed
<1> QED
  BY <1>2, ResumeLess DEF Failed

LEMMA CountsLess ==
    ASSUME LoopOK, Resume(Counted), loop.count < MaxSteps,
           loop.pc \notin {"top", "end", "write", "gone"}
    PROVE  AwaitsLeft(loop') < AwaitsLeft(loop)
<1>1. loop.count + 1 \in 0 .. MaxSteps
  BY BudgetAssumption DEF LoopOK, LoopState
<1>2. /\ Counted \in LoopState /\ Counted.pc = "top"
      /\ Counted.count = loop.count + 1
  BY <1>1 DEF LoopOK, LoopState, LoopPc, Counted
<1>3. AwaitsLeft(Counted) < AwaitsLeft(loop)
  BY <1>2, TurnLess DEF LoopOK, Doomed
<1> QED
  BY <1>3, ResumeLess

\* The stop conditions end the run where they can, and always once it is doomed.
LEMMA TopLess ==
    ASSUME LoopOK, Top
    PROVE  AwaitsLeft(loop') < AwaitsLeft(loop)
<1>1. loop.pc = "top"
  BY DEF Top
<1>2. PICK spent \in {FALSE, loop.last # None} :
        IF Evaluate(loop, spent) = None THEN Goto("policy")
        ELSE Resume(Left("end", TRUE, Evaluate(loop, spent)))
  BY DEF Top
<1>3. CASE Evaluate(loop, spent) # None
  <2> DEFINE l == Left("end", TRUE, Evaluate(loop, spent))
  <2>1. AwaitsLeft(l) = 4
    BY DEF Left, AwaitsLeft, Doomed
  <2>2. AwaitsLeft(loop) >= 5 /\ AwaitsLeft(loop) \in Nat
    BY <1>1, LeftInCycle DEF LoopOK
  <2>3. Resume(l)
    BY <1>2, <1>3
  <2>4. AwaitsLeft(l) < AwaitsLeft(loop)
    <3>. HIDE DEF l
    <3> QED
      BY <2>1, <2>2
  <2> QED
    BY <1>1, <2>3, <2>4, ResumeLess
<1>4. CASE Evaluate(loop, spent) = None
  <2> DEFINE l == [loop EXCEPT !.pc = "policy"]
  <2>1. ~Doomed(loop)
    BY <1>4, NodesAssumption DEF Evaluate, Doomed, StopReason
  <2>2. l \in LoopState /\ l.count = loop.count /\ l.pc = "policy"
    BY DEF LoopOK, LoopState, LoopPc
  <2>3. StageLeft("policy") < StageLeft("top")
    BY DEF StageLeft
  <2>4. AwaitsLeft(l) < AwaitsLeft(loop)
    BY <1>1, <2>1, <2>2, <2>3, TurnLess DEF LoopOK
  <2> QED
    BY <1>1, <1>2, <1>4, <2>4, ResumeLess DEF Goto
<1> QED
  BY <1>3, <1>4

LEMMA LastLeft ==
    ASSUME NEW l, l.guarded \in BOOLEAN
    PROVE  /\ l.pc = "gone" => AwaitsLeft(l) = 0
           /\ l.pc = "write" => AwaitsLeft(l) = IF l.guarded THEN 3 ELSE 1
           /\ l.pc = "end" => AwaitsLeft(l) = IF l.guarded THEN 4 ELSE 2
<1>1. CASE l.pc = "gone"
  BY <1>1 DEF AwaitsLeft, Doomed
<1>2. CASE l.pc = "write"
  BY <1>2 DEF AwaitsLeft, Doomed
<1>3. CASE l.pc = "end"
  BY <1>3 DEF AwaitsLeft, Doomed
<1> QED
  BY <1>1, <1>2, <1>3

\* Outside of the turns: before the first, and the two steps of the end.
LEMMA EdgesLess ==
    ASSUME LoopOK, Begin \/ ReadEnd \/ CommitEnd
    PROVE  AwaitsLeft(loop') < AwaitsLeft(loop)
<1>1. CASE Begin
  <2>1. loop.pc = "spawned" /\ loop' = [loop EXCEPT !.pc = "marking", !.guarded = TRUE]
    BY <1>1 DEF Begin
  <2>2. loop' \in LoopState /\ loop'.pc = "marking" /\ loop'.count = loop.count
    BY <2>1 DEF LoopOK, LoopState, LoopPc
  <2>3. StageLeft("marking") < StageLeft("spawned")
    BY DEF StageLeft
  <2> QED
    BY <2>1, <2>2, <2>3, TurnLess DEF LoopOK, Doomed
<1>2. CASE ReadEnd
  <2>1. loop.pc = "end" /\ (Goto("gone") \/ Goto("write"))
    BY <1>2 DEF ReadEnd
  <2>2. loop.guarded \in BOOLEAN
    BY DEF LoopOK, LoopState
  <2>3. ASSUME NEW p \in {"gone", "write"}
        PROVE  AwaitsLeft([loop EXCEPT !.pc = p]) < AwaitsLeft(loop)
    <3> DEFINE l == [loop EXCEPT !.pc = p]
    <3>1. l.pc = p /\ l.guarded = loop.guarded
      BY DEF LoopOK, LoopState
    <3>2. AwaitsLeft(l) < AwaitsLeft(loop)
      <4>. HIDE DEF l
      <4> QED
        BY <2>1, <2>2, <3>1, LastLeft
    <3> QED
      BY <3>2
  <2> QED
    BY <2>1, <2>3, ResumeLess DEF Goto
<1>3. CASE CommitEnd
  <2>1. loop.pc = "write" /\ Goto("gone")
    BY <1>3 DEF CommitEnd
  <2>2. loop.guarded \in BOOLEAN
    BY DEF LoopOK, LoopState
  <2> DEFINE l == [loop EXCEPT !.pc = "gone"]
  <2>3. l.pc = "gone" /\ l.guarded = loop.guarded
    BY DEF LoopOK, LoopState
  <2>4. AwaitsLeft(l) < AwaitsLeft(loop)
    <3>. HIDE DEF l
    <3> QED
      BY <2>1, <2>2, <2>3, LastLeft
  <2> QED
    BY <2>1, <2>4, ResumeLess DEF Goto
<1> QED
  BY <1>1, <1>2, <1>3

LEMMA MarkLess ==
    ASSUME LoopOK, MarkRunning
    PROVE  AwaitsLeft(loop') < AwaitsLeft(loop)
<1> DEFINE l == [loop EXCEPT !.pc = "top"]
<1>1. loop.pc = "marking" /\ Resume(l)
  BY DEF MarkRunning, Goto
<1>2. l \in LoopState /\ l.count = loop.count /\ l.pc = "top"
  BY DEF LoopOK, LoopState, LoopPc
<1>3. StageLeft("top") < StageLeft("marking")
  BY DEF StageLeft
<1>4. AwaitsLeft(l) < AwaitsLeft(loop)
  BY <1>1, <1>2, <1>3, TurnLess DEF LoopOK, Doomed
<1> QED
  BY <1>1, <1>4, ResumeLess

LEMMA PolicyLess ==
    ASSUME LoopOK, Policy
    PROVE  AwaitsLeft(loop') < AwaitsLeft(loop)
<1>1. loop.pc = "policy"
  BY DEF Policy
<1>2. CASE \E tool \in Tools : Resume([loop EXCEPT !.pc = "persist", !.last = tool])
  <2>1. PICK tool \in Tools : Resume([loop EXCEPT !.pc = "persist", !.last = tool])
    BY <1>2
  <2> DEFINE l == [loop EXCEPT !.pc = "persist", !.last = tool]
  <2>2. l \in LoopState /\ l.count = loop.count /\ l.pc = "persist"
    BY DEF LoopOK, LoopState, LoopPc
  <2>3. StageLeft("persist") < StageLeft("policy")
    BY DEF StageLeft
  <2>4. AwaitsLeft(l) < AwaitsLeft(loop)
    BY <1>1, <2>2, <2>3, TurnLess DEF LoopOK, Doomed
  <2> QED
    BY <1>1, <2>1, <2>4, ResumeLess
<1>3. Erred \/ Failed => AwaitsLeft(loop') < AwaitsLeft(loop)
  BY <1>1, ErrsLess, FailsLess
<1> QED
  BY <1>2, <1>3 DEF Policy

LEMMA PersistLess ==
    ASSUME LoopOK, PersistPolicyCall
    PROVE  AwaitsLeft(loop') < AwaitsLeft(loop)
<1>1. loop.pc = "persist"
  BY DEF PersistPolicyCall
<1>2. CASE loop.last = Terminate /\ Goto("top")
  <2> DEFINE l == [loop EXCEPT !.pc = "top"]
  <2>1. Doomed(l)
    BY <1>2 DEF Doomed, LoopOK, LoopState
  <2>2. AwaitsLeft(l) < AwaitsLeft(loop)
    BY <1>1, <2>1, TurnLess DEF LoopOK, Doomed
  <2> QED
    BY <1>1, <1>2, <2>2, ResumeLess DEF Goto
<1>3. CASE Goto("local") \/ Goto("dispatch")
  <2>1. /\ StageLeft("local") < StageLeft("persist")
        /\ StageLeft("dispatch") < StageLeft("persist")
        /\ "local" \in LoopPc /\ "dispatch" \in LoopPc
    BY DEF StageLeft, LoopPc
  <2> QED
    BY <1>1, <1>3, <2>1, MovesLess
<1>4. Erred => AwaitsLeft(loop') < AwaitsLeft(loop)
  BY <1>1, ErrsLess
<1> QED
  BY <1>2, <1>3, <1>4 DEF PersistPolicyCall, Rejected

\* Local tools.
LEMMA LocalLess ==
    ASSUME LoopOK, loop.pc \in OpenPc => loop.count < MaxSteps,
           SaveMemory \/ LocalFails \/ FinishLocal \/ AwaitSignal
    PROVE  AwaitsLeft(loop') < AwaitsLeft(loop)
<1>1. /\ StageLeft("finish") < StageLeft("local")
      /\ StageLeft("signal") < StageLeft("finish")
      /\ "finish" \in LoopPc /\ "signal" \in LoopPc
  BY DEF StageLeft, LoopPc
<1>2. CASE SaveMemory
  BY <1>1, <1>2, MovesLess DEF SaveMemory
<1>3. CASE LocalFails
  BY <1>3, ErrsLess DEF LocalFails
<1>4. CASE FinishLocal
  BY <1>1, <1>4, MovesLess, CountsLess DEF FinishLocal, OpenPc
<1>5. CASE AwaitSignal
  BY <1>5, CountsLess DEF AwaitSignal, OpenPc
<1> QED
  BY <1>2, <1>3, <1>4, <1>5

\* Engine nodes.
LEMMA EngineLess ==
    ASSUME LoopOK, loop.pc \in OpenPc => loop.count < MaxSteps,
           \/ Dispatch \/ MarkDispatched \/ StartWait \/ Woken \/ Timeout
           \/ Expire \/ Reload
    PROVE  AwaitsLeft(loop') < AwaitsLeft(loop)
<1>1. /\ StageLeft("mark") < StageLeft("dispatch")
      /\ StageLeft("closing") < StageLeft("mark")
      /\ StageLeft("wait") < StageLeft("closing")
      /\ StageLeft("reload") < StageLeft("wait")
      /\ StageLeft("expire") < StageLeft("wait")
      /\ {"mark", "closing", "wait", "reload", "expire"} \subseteq LoopPc
  BY DEF StageLeft, LoopPc
<1>2. CASE Dispatch
  <2>1. loop.pc = "dispatch" /\ (Goto("mark") \/ Erred \/ Failed)
    BY <1>2 DEF Dispatch
  <2> QED
    BY <1>1, <2>1, MovesLess, ErrsLess, FailsLess
<1>3. CASE MarkDispatched
  <2>1. loop.pc = "mark" /\ Goto("closing")
    BY <1>3 DEF MarkDispatched
  <2> QED
    BY <1>1, <2>1, MovesLess
<1>4. CASE StartWait
  <2>1. loop.pc = "closing" /\ Goto("wait")
    BY <1>4 DEF StartWait
  <2> QED
    BY <1>1, <2>1, MovesLess
<1>5. CASE Woken \/ Timeout
  <2>1. loop.pc = "wait" /\ (Goto("reload") \/ Goto("expire"))
    BY <1>5 DEF Woken, Timeout, Deadline
  <2> QED
    BY <1>1, <2>1, MovesLess
<1>6. CASE Expire
  BY <1>6, ErrsLess DEF Expire
<1>7. CASE Reload
  <2>1. loop.pc = "reload" /\ (Erred \/ Resume(Counted))
    BY <1>7 DEF Reload
  <2> QED
    BY <2>1, ErrsLess, CountsLess DEF OpenPc
<1> QED
  BY <1>2, <1>3, <1>4, <1>5, <1>6, <1>7

LEMMA StepsLower ==
    ASSUME IInv, LoopStep \/ Interrupt
    PROVE  AwaitsLeft(loop') < AwaitsLeft(loop)
<1>1. LoopOK /\ StepsInv
  BY TypeParts DEF IInv, StepsInv
<1>2. loop.pc \in OpenPc => loop.count < MaxSteps
  BY <1>1, Length
<1>3. CASE Interrupt
  BY <1>1, <1>3, ThrownLess DEF Interrupt
<1>4. CASE LoopStep
  BY <1>1, <1>2, <1>4, EdgesLess, TopLess, MarkLess, PolicyLess, PersistLess,
     LocalLess, EngineLess DEF LoopStep
<1> QED
  BY <1>3, <1>4

\* From any state of its run the policy loop has at most Longest steps before
\* it: whatever the policy answers, each step of the coroutine and each cancel
\* that hits one leaves fewer, and no webhook, signal or request adds any.
THEOREM LoopIsFinite ==
    /\ Spec => [](AwaitsLeft(loop) \in 0 .. Longest)
    /\ Spec => [][IF LoopStep \/ Interrupt
                  THEN AwaitsLeft(loop') < AwaitsLeft(loop)
                  ELSE UNCHANGED loop]_vars
<1>1. IInv => AwaitsLeft(loop) \in 0 .. Longest
  BY TypeParts, LeftInCycle DEF IInv, LoopOK
<1>2. IInv /\ [Next]_vars =>
        [IF LoopStep \/ Interrupt THEN AwaitsLeft(loop') < AwaitsLeft(loop)
         ELSE UNCHANGED loop]_vars
  <2> SUFFICES ASSUME IInv, Next
               PROVE  IF LoopStep \/ Interrupt
                      THEN AwaitsLeft(loop') < AwaitsLeft(loop) ELSE UNCHANGED loop
    OBVIOUS
  <2>1. CASE LoopStep \/ Interrupt
    BY <2>1, StepsLower
  <2>2. CASE ~(LoopStep \/ Interrupt)
    BY <2>2 DEF Next, HookStep, Handled, HookRead, HookCommit, HookWake, HookAt,
                SendSignal, CancelRead, CancelCommit, CancelCall, Shutdown, CancelAll
  <2> QED
    BY <2>1, <2>2
<1>3. Spec => [](AwaitsLeft(loop) \in 0 .. Longest)
  BY <1>1, Invariant, PTL
<1>4. Spec => [][IF LoopStep \/ Interrupt
                 THEN AwaitsLeft(loop') < AwaitsLeft(loop)
                 ELSE UNCHANGED loop]_vars
  BY <1>2, Invariant, PTL DEF Spec
<1> QED
  BY <1>3, <1>4
=============================================================================
