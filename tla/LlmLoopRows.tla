------------------------------ MODULE LlmLoopRows ------------------------------
(***************************************************************************)
(* Theorems about LlmLoop and the rows of its steps: the operator's        *)
(* signals and the pauses they end; the engine's webhooks and the steps    *)
(* they settle before the policy is asked again.                           *)
(***************************************************************************)
EXTENDS LlmLoopProofs

RowNos == 1 .. Len(steps)

\* The row of an answered pause holds a signal that was sent and is not in the
\* buffer any more.
Answered(i) == steps[i].node \in Pausing /\ steps[i].result # None

AnswersSent ==
    /\ buffer # None => buffer \in 1 .. sent
    /\ \A i \in RowNos :
           Answered(i) => steps[i].result \in 1 .. sent /\ steps[i].result # buffer

\* The engine is told of engine nodes only, so that its webhooks never write the
\* row of a pause.
EngineRows ==
    /\ loop.pc \in {"dispatch", "mark"} => steps[Len(steps)].node \notin Local
    /\ \A i \in RowNos : steps[i].sent => steps[i].node \notin Local
    /\ \A i \in Numbers : \A t \in EventTypes :
           hook[i][t] = "write" => i \in RowNos /\ steps[i].node \notin Local

AnswerInv == AnswersSent /\ OneAnswerEach /\ EngineRows

-----------------------------------------------------------------------------
(* What the steps do to nodes, answers and marks *)

SameAnswer(i) ==
    /\ steps'[i].node = steps[i].node
    /\ steps[i].node \in Pausing => steps'[i].result = steps[i].result

SameAnswers == Len(steps') = Len(steps) /\ \A i \in RowNos : SameAnswer(i)

SameRows == SameAnswers /\ \A i \in RowNos : steps'[i].sent = steps[i].sent

LEMMA SettleKeeps ==
    ASSUME StepsInv, NEW x \in StepStatus, Settle(x)
    PROVE  SameRows
<1>1. DOMAIN steps = RowNos /\ \A i \in RowNos : steps[i] \in StepRow
  BY SeqDef DEF StepsInv, StepsOK, RowNos
<1>2. Len(steps') = Len(steps)
  BY SettleNumbered
<1>3. \A i \in RowNos : SameAnswer(i) /\ steps'[i].sent = steps[i].sent
  BY <1>1 DEF Settle, SameAnswer, StepRow
<1>. QED
  BY <1>2, <1>3 DEF SameRows, SameAnswers

LEMMA AnswersStand ==
    ASSUME AnswersSent, OneAnswerEach, SameAnswers, UNCHANGED <<buffer, sent>>
    PROVE  AnswersSent' /\ OneAnswerEach'
<1>1. RowNos' = RowNos /\ \A i \in RowNos : SameAnswer(i)
  BY DEF SameAnswers, RowNos
<1>2. \A i \in RowNos : Answered(i)' => Answered(i) /\ steps'[i].result = steps[i].result
  BY <1>1 DEF Answered, SameAnswer
<1>3. AnswersSent'
  BY <1>1, <1>2 DEF AnswersSent
<1>4. OneAnswerEach'
  BY <1>1 DEF OneAnswerEach, RowNos, SameAnswer
<1>. QED
  BY <1>3, <1>4

LEMMA EngineStands ==
    ASSUME StepsInv, EngineRows, SameRows,
           \A i \in Numbers, t \in EventTypes :
               hook'[i][t] = "write" => hook[i][t] = "write",
           loop.pc' \in {"dispatch", "mark"} => loop.pc \in {"dispatch", "mark"}
    PROVE  EngineRows'
<1>1. /\ RowNos' = RowNos /\ Len(steps') = Len(steps)
      /\ \A i \in RowNos : /\ steps'[i].node = steps[i].node
                           /\ steps'[i].sent = steps[i].sent
  BY DEF SameRows, SameAnswers, SameAnswer, RowNos
<1>2. loop.pc \in {"dispatch", "mark"} => Len(steps) \in RowNos
  BY Length DEF StepsInv, Counting, OpenPc, RowNos
<1>. QED
  BY <1>1, <1>2 DEF EngineRows

\* Two places of the coroutine know of an engine node, and one leads there.
LEMMA Sending ==
    ASSUME LoopOK, LoopStep \/ Interrupt, loop.pc' \in {"dispatch", "mark"}
    PROVE  \/ PersistPolicyCall
           \/ Dispatch /\ loop.pc = "dispatch"
<1>1. CASE Begin
  BY <1>1 DEF Begin, LoopOK, LoopState
<1>2. CASE MarkRunning
  BY <1>2, GoesAt DEF MarkRunning, LoopPc
<1>3. CASE Top
  <2>1. PICK spent \in BOOLEAN :
          IF Evaluate(loop, spent) = None THEN Goto("policy")
          ELSE Resume(Left("end", TRUE, Evaluate(loop, spent)))
    BY <1>3 DEF Top
  <2>2. Goto("policy") \/ loop' = Left("end", TRUE, Evaluate(loop, spent)) \/ loop' = Thrown
    BY <2>1 DEF Resume
  <2>. QED
    BY <2>2, GoesAt, ThrownOK DEF LoopPc, Left
<1>13. CASE Policy
  <2>1. ASSUME NEW tool \in Tools,
               Resume([loop EXCEPT !.pc = "persist", !.last = tool])
        PROVE  loop.pc' \notin {"dispatch", "mark"}
    <3>1. [loop EXCEPT !.pc = "persist", !.last = tool].pc = "persist"
      BY DEF LoopOK, LoopState
    <3>. QED
      BY <2>1, <3>1, ThrownOK DEF Resume
  <2>. QED
    BY <1>13, <2>1, Errs, Fails DEF Policy
<1>4. CASE SaveMemory
  BY <1>4, GoesAt DEF SaveMemory, LoopPc
<1>5. CASE LocalFails \/ Expire
  BY <1>5, Errs DEF LocalFails, Expire
<1>6. CASE FinishLocal
  BY <1>6, GoesAt, CountsAt DEF FinishLocal, LoopPc
<1>7. CASE AwaitSignal
  BY <1>7, CountsAt DEF AwaitSignal
<1>8. CASE MarkDispatched
  BY <1>8, GoesAt DEF MarkDispatched, LoopPc
<1>9. CASE StartWait \/ Woken \/ Timeout
  BY <1>9, GoesAt DEF StartWait, Woken, Timeout, LoopPc
<1>10. CASE Reload
  BY <1>10, Errs, CountsAt DEF Reload
<1>11. CASE ReadEnd \/ CommitEnd
  BY <1>11, GoesAt DEF ReadEnd, CommitEnd, LoopPc
<1>12. CASE Interrupt
  BY <1>12, ThrownOK DEF Interrupt
<1>. QED
  BY <1>1, <1>2, <1>3, <1>4, <1>5, <1>6, <1>7, <1>8, <1>9, <1>10, <1>11, <1>12,
     <1>13 DEF LoopStep, Dispatch

-----------------------------------------------------------------------------
(* The loop *)

\* The actions that keep nodes, answers and marks as they are.
LEMMA PlainSteps ==
    ASSUME StepsInv, AnswerInv, LoopStep \/ Interrupt,
           ~PersistPolicyCall, ~AwaitSignal, ~MarkDispatched
    PROVE  AnswerInv'
<1>1. UNCHANGED <<buffer, sent, hook>>
  BY DEF LoopStep, Begin, MarkRunning, Top, Policy, SaveMemory, LocalFails, FinishLocal,
     Dispatch, StartWait, Woken, Timeout, Expire, Reload, ReadEnd, CommitEnd, Interrupt, outside
<1>2. (\E x \in StepStatus : Settle(x)) \/ UNCHANGED steps
  BY DEF LoopStep, Begin, MarkRunning, Top, Policy, SaveMemory, LocalFails, FinishLocal,
     Dispatch, StartWait, Woken, Timeout, Expire, Reload, ReadEnd, CommitEnd, Interrupt, rows,
     StepStatus
<1>3. SameRows
  BY <1>2, SettleKeeps DEF SameRows, SameAnswers, SameAnswer
<1>4. loop.pc' \in {"dispatch", "mark"} => loop.pc \in {"dispatch", "mark"}
  BY Sending DEF StepsInv
<1>. QED
  BY <1>1, <1>3, <1>4, AnswersStand, EngineStands DEF AnswerInv, SameRows

LEMMA PersistAnswers ==
    ASSUME StepsInv, AnswerInv, PersistPolicyCall
    PROVE  AnswerInv'
<1>1. UNCHANGED <<buffer, sent, hook>>
  BY DEF PersistPolicyCall, outside
<1>2. CASE UNCHANGED steps /\ Goto("top")
  <2>1. loop.pc' \notin {"dispatch", "mark"}
    BY <1>2, GoesAt DEF StepsInv, LoopPc
  <2>2. SameRows
    BY <1>2 DEF SameRows, SameAnswers, SameAnswer
  <2>. QED
    BY <1>1, <2>1, <2>2, AnswersStand, EngineStands DEF AnswerInv, SameRows
<1>3. CASE steps' = Append(steps, NewStep)
  <2>1. NewStep.node = loop.last /\ NewStep.sent = FALSE /\ NewStep.result = None
    BY DEF NewStep
  <2>2. /\ Len(steps) \in Nat /\ Len(steps') = Len(steps) + 1
        /\ steps'[Len(steps) + 1] = NewStep
        /\ \A i \in RowNos : steps'[i] = steps[i]
    BY <1>3 DEF StepsInv, StepsOK, RowNos
  <2>3. \A i \in RowNos' : i \in RowNos \/ i = Len(steps) + 1
    BY <2>2 DEF RowNos
  <2>4. AnswersSent'
    BY <1>1, <2>1, <2>2, <2>3 DEF AnswerInv, AnswersSent, Answered
  <2>5. OneAnswerEach'
    BY <2>1, <2>2, <2>3 DEF AnswerInv, OneAnswerEach, RowNos
  <2>6. loop.pc' \in {"dispatch", "mark"} => loop.last \notin Local
    <3>1. loop.last \notin Local \/ Goto("local") \/ Goto("top") \/ Erred
      BY DEF PersistPolicyCall, Rejected
    <3>. QED
      BY <3>1, GoesAt, Errs DEF StepsInv, LoopPc
  <2>7. EngineRows'
    <3>1. \A i \in RowNos' : steps'[i].sent => steps'[i].node \notin Local
      BY <2>1, <2>2, <2>3 DEF AnswerInv, EngineRows
    <3>2. \A i \in Numbers, t \in EventTypes :
             hook'[i][t] = "write" => i \in RowNos' /\ steps'[i].node \notin Local
      BY <1>1, <2>2 DEF AnswerInv, EngineRows, RowNos
    <3>. QED
      BY <2>1, <2>2, <2>6, <3>1, <3>2 DEF EngineRows
  <2>. QED
    BY <2>4, <2>5, <2>7 DEF AnswerInv
<1>. QED
  BY <1>2, <1>3 DEF PersistPolicyCall

\* The answer leaves the buffer in the step that records it.
LEMMA AwaitAnswers ==
    ASSUME StepsInv, AnswerInv, AwaitSignal
    PROVE  AnswerInv'
<1>1. /\ loop.pc = "signal" /\ buffer # None /\ buffer' = None /\ UNCHANGED <<sent, hook>>
      /\ steps' = [steps EXCEPT ![Current].status = "completed", ![Current].result = buffer]
  BY DEF AwaitSignal, Taken, outside
<1>2. /\ DOMAIN steps = RowNos /\ \A i \in RowNos : steps[i] \in StepRow
      /\ Len(steps) \in Nat /\ Current \in RowNos
  BY <1>1, Length, SeqDef DEF StepsInv, StepsOK, RowNos, Counting, OpenPc
<1>3. Len(steps') = Len(steps) /\ RowNos' = RowNos
  BY <1>1, <1>2, SeqDef DEF RowNos
<1>4. \A i \in RowNos : /\ steps'[i].node = steps[i].node /\ steps'[i].sent = steps[i].sent
                        /\ steps'[i].result = IF i = Current THEN buffer ELSE steps[i].result
  BY <1>1, <1>2 DEF StepRow
<1>5. buffer \in 1 .. sent
  BY <1>1 DEF AnswerInv, AnswersSent
<1>6. AnswersSent'
  BY <1>1, <1>3, <1>4, <1>5 DEF AnswerInv, AnswersSent, Answered
<1>7. OneAnswerEach'
  BY <1>1, <1>3, <1>4 DEF AnswerInv, AnswersSent, Answered, OneAnswerEach, RowNos
<1>8. loop.pc' \notin {"dispatch", "mark"}
  BY CountsAt DEF AwaitSignal, StepsInv
<1>9. EngineRows'
  BY <1>1, <1>3, <1>4, <1>8 DEF AnswerInv, EngineRows
<1>. QED
  BY <1>6, <1>7, <1>9 DEF AnswerInv

LEMMA MarkAnswers ==
    ASSUME StepsInv, AnswerInv, MarkDispatched
    PROVE  AnswerInv'
<1>1. /\ loop.pc = "mark" /\ UNCHANGED <<buffer, sent, hook>>
      /\ steps' = [steps EXCEPT ![Current].status = "dispatched", ![Current].sent = TRUE]
  BY DEF MarkDispatched, outside
<1>2. /\ DOMAIN steps = RowNos /\ \A i \in RowNos : steps[i] \in StepRow
      /\ Len(steps) \in Nat /\ Current \in RowNos /\ Current = Len(steps)
  BY <1>1, Length, SeqDef DEF StepsInv, StepsOK, RowNos, Counting, OpenPc
<1>3. Len(steps') = Len(steps) /\ RowNos' = RowNos
  BY <1>1, <1>2, SeqDef DEF RowNos
<1>4. \A i \in RowNos : /\ steps'[i].node = steps[i].node
                        /\ steps'[i].result = steps[i].result
                        /\ i # Current => steps'[i].sent = steps[i].sent
  BY <1>1, <1>2 DEF StepRow
<1>5. SameAnswers
  <2>1. \A i \in RowNos : SameAnswer(i)
    BY <1>4 DEF SameAnswer
  <2>. QED
    BY <1>3, <2>1 DEF SameAnswers
<1>6. AnswersSent' /\ OneAnswerEach'
  BY <1>1, <1>5, AnswersStand DEF AnswerInv
<1>7. loop.pc' \notin {"dispatch", "mark"}
  BY GoesAt DEF MarkDispatched, StepsInv, LoopPc
<1>8. EngineRows'
  BY <1>1, <1>2, <1>3, <1>4, <1>7 DEF AnswerInv, EngineRows
<1>. QED
  BY <1>6, <1>8 DEF AnswerInv

-----------------------------------------------------------------------------
(* What runs beside it *)

LEMMA HookAnswers ==
    ASSUME StepsInv, HookOK, AnswerInv, NEW i \in Numbers, NEW t \in EventTypes, HookStep(i, t)
    PROVE  AnswerInv'
<1>1. UNCHANGED <<loop, buffer, sent>>
  BY DEF HookStep, Handled, HookRead, HookCommit, HookWake, HookAt
<1>2. DOMAIN hook = Numbers /\ \A j \in Numbers : DOMAIN hook[j] = EventTypes
  BY DEF HookOK
<1>3. CASE HookRead(i, t)
  <2>1. i \in RowNos /\ steps[i].sent /\ UNCHANGED steps
    BY <1>3, SeqDef DEF HookRead, StepsInv, StepsOK, RowNos, Numbers
  <2>2. SameRows
    BY <2>1 DEF SameRows, SameAnswers, SameAnswer
  <2>3. \A j \in Numbers, u \in EventTypes : hook'[j][u] = hook[j][u] \/ (j = i /\ u = t)
    BY <1>2, <1>3 DEF HookRead
  <2>4. EngineRows'
    BY <1>1, <2>1, <2>3 DEF AnswerInv, EngineRows, RowNos
  <2>. QED
    BY <1>1, <2>2, <2>4, AnswersStand DEF AnswerInv, SameRows
<1>4. CASE HookWake(i, t)
  <2>1. UNCHANGED steps
    BY <1>4 DEF HookWake
  <2>2. SameRows
    BY <2>1 DEF SameRows, SameAnswers, SameAnswer
  <2>3. \A j \in Numbers, u \in EventTypes : hook'[j][u] \in {hook[j][u], "done"}
    BY <1>2, <1>4 DEF HookWake
  <2>4. EngineRows'
    BY <1>1, <2>1, <2>3 DEF AnswerInv, EngineRows, RowNos
  <2>. QED
    BY <1>1, <2>2, <2>4, AnswersStand DEF AnswerInv, SameRows
<1>5. CASE HookCommit(i, t)
  <2>1. i \in RowNos /\ steps[i].node \notin Local
    BY <1>5 DEF HookCommit, HookAt, AnswerInv, EngineRows
  <2>2. /\ DOMAIN steps = RowNos /\ \A j \in RowNos : steps[j] \in StepRow
        /\ Len(steps) \in Nat
    BY SeqDef DEF StepsInv, StepsOK, RowNos
  <2>3. /\ DOMAIN steps' = RowNos /\ \A j \in RowNos : /\ steps'[j].node = steps[j].node
                                                       /\ steps'[j].sent = steps[j].sent
                                                       /\ j # i => steps'[j] = steps[j]
    BY <1>5, <2>1, <2>2 DEF HookCommit, StepRow
  <2>4. Len(steps') = Len(steps) /\ RowNos' = RowNos
    <3>1. Len(steps') \in Nat /\ DOMAIN steps' = 1 .. Len(steps')
      BY <1>5, <2>2, SeqDef DEF HookCommit
    <3>. QED
      BY <2>2, <2>3, <3>1 DEF RowNos
  <2>5. SameRows
    <3>1. \A j \in RowNos : steps[j].node \in Pausing => j # i
      BY <2>1, NodesAssumption
    <3>2. \A j \in RowNos : SameAnswer(j)
      BY <2>3, <3>1 DEF SameAnswer
    <3>. QED
      BY <2>3, <2>4, <3>2 DEF SameRows, SameAnswers
  <2>8. \A j \in Numbers, u \in EventTypes : hook'[j][u] \in {hook[j][u], "wake"}
    BY <1>2, <1>5 DEF HookCommit
  <2>. QED
    BY <1>1, <2>5, <2>8, AnswersStand, EngineStands DEF AnswerInv, SameRows
<1>. QED
  BY <1>3, <1>4, <1>5 DEF HookStep, Handled

LEMMA OperatorAnswers ==
    ASSUME StepsInv, EventsOK, AnswerInv, Operator
    PROVE  AnswerInv'
<1>1. UNCHANGED <<steps, loop, hook>>
  BY OperatorStands
<1>2. SameRows /\ EngineRows'
  <2>1. SameRows
    BY <1>1 DEF SameRows, SameAnswers, SameAnswer
  <2>. QED
    BY <1>1, <2>1, EngineStands DEF AnswerInv
<1>3. CASE SendSignal
  <2>1. buffer' = sent + 1 /\ sent' = sent + 1 /\ sent \in Nat
    BY <1>3, BudgetAssumption DEF SendSignal, EventsOK
  <2>2. AnswersSent'
    BY <1>1, <2>1 DEF AnswerInv, AnswersSent, Answered, RowNos
  <2>. QED
    BY <1>1, <1>2, <2>2 DEF AnswerInv, OneAnswerEach
<1>4. CASE ~SendSignal
  <2>1. UNCHANGED <<buffer, sent>>
    BY <1>4 DEF Operator, CancelRead, CancelCommit, CancelCall, Shutdown, CancelAll
  <2>. QED
    BY <1>2, <2>1, AnswersStand DEF AnswerInv, SameRows
<1>. QED
  BY <1>3, <1>4

LEMMA NextAnswers == IInv /\ AnswerInv /\ [Next]_vars => AnswerInv'
<1>. SUFFICES ASSUME IInv, AnswerInv, [Next]_vars PROVE AnswerInv'
  OBVIOUS
<1>1. StepsInv /\ EventsOK /\ HookOK
  BY Parts DEF WakeInv
<1>2. CASE LoopStep \/ Interrupt
  BY <1>1, <1>2, PlainSteps, PersistAnswers, AwaitAnswers, MarkAnswers
<1>3. CASE \E i \in Numbers, t \in EventTypes : HookStep(i, t)
  BY <1>1, <1>3, HookAnswers
<1>4. CASE Operator
  BY <1>1, <1>4, OperatorAnswers
<1>5. CASE UNCHANGED vars
  <2>1. SameRows /\ UNCHANGED <<buffer, sent, hook, loop>>
    BY <1>5 DEF vars, rows, outside, SameRows, SameAnswers, SameAnswer
  <2>. QED
    BY <1>1, <2>1, AnswersStand, EngineStands DEF AnswerInv, SameRows
<1>. QED
  BY <1>2, <1>3, <1>4, <1>5 DEF Next, Operator

\* However signals, pauses and webhooks overlap, a payload the operator sent
\* once never completes two pauses: the buffer is emptied by the pause it ends.
THEOREM AnswersHold ==
    Spec => []OneAnswerEach
<1>1. Init => AnswerInv
  <2>. SUFFICES ASSUME Init PROVE AnswerInv
    OBVIOUS
  <2>1. RowNos = {} /\ buffer = None /\ loop.pc = "spawned"
        /\ \A i \in Numbers, t \in EventTypes : hook[i][t] = "none"
    BY DEF Init, Left, RowNos
  <2>. QED
    BY <2>1 DEF AnswerInv, AnswersSent, OneAnswerEach, EngineRows, RowNos
<1>2. Spec => [](IInv /\ AnswerInv)
  BY <1>1, InitIInv, NextIInv, NextAnswers, PTL DEF Spec
<1>3. AnswerInv => OneAnswerEach
  BY DEF AnswerInv
<1>. QED
  BY <1>2, <1>3, PTL

-----------------------------------------------------------------------------
(* The barrier: engines that report a step when it is over *)

EndEvents == {"node_finished", "node_failed"}
Awaiting  == {"closing", "wait", "expire"}
Leaving   == {"end", "write", "gone"}

\* Nobody has asked the loop to stop.
Quiet == req # "wait" /\ shutdown = "none"

\* The engine has told that step i is over.
Reported(i) == \E t \in EndEvents : hook[i][t] = "done"

\* A step ends once, and its webhook finds the row marked.
Marked ==
    \A i \in Numbers : \A t \in EventTypes :
        hook[i][t] # "none" =>
            /\ i \in RowNos /\ steps[i].sent /\ t \in EndEvents
            /\ \A u \in EventTypes : u # t => hook[i][u] = "none"

\* What the row of the current step is, place by place.
CurrentRow ==
    /\ loop.pc \in {"local", "finish", "signal", "dispatch", "mark"} =>
           ~steps[Len(steps)].sent
    /\ loop.pc \in {"local", "finish", "signal"} => steps[Len(steps)].node \in Local
    /\ loop.pc \in Awaiting \cup {"reload"} => steps[Len(steps)].sent

Results ==
    \A i \in RowNos :
        steps[i].sent /\ steps[i].status = "completed" => steps[i].result = FromEngine

\* While the run goes on and nobody stops it.
Going ==
    /\ loop.pc \notin Leaving
    /\ loop.pc = "policy" \/ Quiet
    /\ loop.pc \in {"spawned", "marking"} \/ run.status \notin RunTerminal

HeardSettled ==
    \A i \in RowNos : \A t \in EventTypes :
        hook[i][t] \in {"wake", "done"} => Settled(i)

CountedOver ==
    \A i \in 1 .. loop.count :
        /\ steps[i].status = "completed"
        /\ steps[i].node \notin Local => i \in merged
        /\ steps[i].sent => Reported(i)

WakeMeans ==
    Quiet /\ wake => \/ loop.pc \in Awaiting /\ Reported(Len(steps))
                     \/ loop.pc = "top" /\ loop.err

ReloadHeard == loop.pc = "reload" => Reported(Len(steps))

Calm == HeardSettled /\ CountedOver /\ WakeMeans /\ ReloadHeard

RowFacts == Marked /\ Results
BarrierInv == RowFacts /\ CurrentRow /\ (Going => Calm)

\* What the other lemmas know of the rows.
LEMMA Rows ==
    ASSUME StepsInv
    PROVE  /\ DOMAIN steps = RowNos /\ \A i \in RowNos : steps[i] \in StepRow
           /\ Len(steps) \in Nat /\ Current = Len(steps) /\ loop.count \in Nat
           /\ RowNos \subseteq Numbers
           /\ loop.pc \in OpenPc => Current \in RowNos /\ Current = loop.count + 1
<1>1. Len(steps) <= MaxSteps /\ Len(steps) \in Nat
  BY Length DEF StepsInv, StepsOK
<1>. QED
  BY <1>1, Length, SeqDef, BudgetAssumption DEF StepsInv, StepsOK, RowNos, Counting, Numbers

\* What a rewrite of the current row leaves alone.
Rewritten(x, b, r) ==
    /\ Len(steps') = Len(steps) /\ RowNos' = RowNos
    /\ \A i \in RowNos : i # Current => steps'[i] = steps[i]
    /\ steps'[Current].node = steps[Current].node
    /\ steps'[Current].status = x
    /\ steps'[Current].sent = b
    /\ steps'[Current].result = r

LEMMA Rewrites ==
    ASSUME StepsInv, Current \in RowNos, NEW x \in StepStatus
    PROVE  /\ Settle(x) => Rewritten(x, steps[Current].sent, steps[Current].result)
           /\ steps' = [steps EXCEPT ![Current].status = x, ![Current].sent = TRUE] =>
                 Rewritten(x, TRUE, steps[Current].result)
           /\ steps' = [steps EXCEPT ![Current].status = x, ![Current].result = buffer] =>
                 Rewritten(x, steps[Current].sent, buffer)
<1>1. /\ DOMAIN steps = RowNos /\ \A i \in RowNos : steps[i] \in StepRow
      /\ steps \in Seq(StepRow) /\ Len(steps) \in Nat
  BY Rows DEF StepsInv, StepsOK
<1>2. ASSUME Settle(x)
      PROVE  Rewritten(x, steps[Current].sent, steps[Current].result)
  <2>1. Len(steps') = Len(steps)
    BY <1>2, SettleNumbered
  <2>. QED
    BY <1>1, <1>2, <2>1 DEF Settle, Rewritten, StepRow, RowNos
<1>3. ASSUME steps' = [steps EXCEPT ![Current].status = x, ![Current].sent = TRUE]
      PROVE  Rewritten(x, TRUE, steps[Current].result)
  <2>1. Len(steps') = Len(steps)
    BY <1>1, <1>3, SeqDef
  <2>. QED
    BY <1>1, <1>3, <2>1 DEF Rewritten, StepRow, RowNos
<1>4. ASSUME steps' = [steps EXCEPT ![Current].status = x, ![Current].result = buffer]
      PROVE  Rewritten(x, steps[Current].sent, buffer)
  <2>1. Len(steps') = Len(steps)
    BY <1>1, <1>4, SeqDef
  <2>. QED
    BY <1>1, <1>4, <2>1 DEF Rewritten, StepRow, RowNos
<1>. QED
  BY <1>2, <1>3, <1>4

LEMMA GoingOn ==
    ASSUME UNCHANGED <<run, req, shutdown>>, Going', loop.pc \notin Leaving,
           loop.pc' \notin {"spawned", "marking", "policy"}
    PROVE  Going /\ Quiet
  BY DEF Going, Quiet

\* The rows stand, the loop goes on.
LEMMA Passing ==
    ASSUME StepsInv, BarrierInv, UNCHANGED <<steps, merged, hook, req, shutdown>>,
           loop.count' = loop.count, CurrentRow', Going' => Going,
           Going' => WakeMeans' /\ ReloadHeard'
    PROVE  BarrierInv'
<1>1. RowFacts'
  BY DEF BarrierInv, RowFacts, Marked, Results, RowNos
<1>2. ASSUME Going' PROVE HeardSettled' /\ CountedOver'
  BY <1>2 DEF BarrierInv, Calm, HeardSettled, CountedOver, RowNos, Settled, Reported
<1>. QED
  BY <1>1, <1>2 DEF BarrierInv, Calm

LEMMA LoopLeft ==
    ASSUME StepsInv, RowFacts', loop.pc' \in Leaving
    PROVE  BarrierInv'
  BY DEF BarrierInv, CurrentRow, Going, Leaving, Awaiting

\* The current row is rewritten.
LEMMA RewriteFacts ==
    ASSUME StepsInv, RowFacts, hook' = hook, Current \in RowNos, NEW x, NEW b, NEW r,
           Rewritten(x, b, r), steps[Current].sent => b, 
           b /\ x = "completed" => r = FromEngine
    PROVE  RowFacts'
<1>1. \A i \in RowNos : steps[i].sent => steps'[i].sent
  BY DEF Rewritten
<1>2. Marked'
  BY <1>1 DEF RowFacts, Marked, Rewritten
<1>3. Results'
  BY DEF RowFacts, Results, Rewritten
<1>. QED
  BY <1>2, <1>3 DEF RowFacts

\* ... and the loop goes on to an open step.
LEMMA RewriteCalm ==
    ASSUME StepsInv, BarrierInv, Calm, loop.pc \in OpenPc, UNCHANGED <<merged, hook>>,
           NEW x, NEW b, NEW r, Rewritten(x, b, r),
           x \in {"completed", "failed"} \/ ~steps[Current].sent
    PROVE  /\ HeardSettled'
           /\ loop.count' = loop.count => CountedOver'
           /\ \A i \in RowNos : Reported(i)' <=> Reported(i)
<1>1. \A i \in RowNos : Reported(i)' <=> Reported(i)
  BY DEF Reported
<1>2. /\ Current = loop.count + 1 /\ loop.count \in Nat /\ Current \in RowNos
      /\ RowNos \subseteq Numbers /\ Len(steps) = Current
  BY Rows
<1>3. HeardSettled'
  <2>1. ASSUME NEW i \in RowNos, NEW t \in EventTypes, hook[i][t] \in {"wake", "done"}
        PROVE  Settled(i)'
    <3>1. Settled(i) /\ steps[i].sent
      BY <1>2, <2>1 DEF Calm, HeardSettled, BarrierInv, RowFacts, Marked
    <3>. QED
      BY <3>1 DEF Rewritten, Settled
  <2>. QED
    BY <2>1 DEF HeardSettled, Rewritten
<1>4. ASSUME loop.count' = loop.count PROVE CountedOver'
  <2>1. \A i \in 1 .. loop.count : i \in RowNos /\ i # Current
    BY <1>2 DEF RowNos
  <2>2. \A i \in 1 .. loop.count : steps'[i] = steps[i]
    BY <2>1 DEF Rewritten
  <2>. QED
    BY <1>1, <1>4, <2>1, <2>2 DEF Calm, CountedOver
<1>. QED
  BY <1>1, <1>3, <1>4

LEMMA Resumes ==
    ASSUME LoopOK, NEW l, Resume(l)
    PROVE  loop' = l \/ loop.pc' \in Leaving
  BY ThrownOK DEF Resume, Leaving

LEMMA GotoIs ==
    ASSUME LoopOK, NEW p \in LoopPc, Goto(p)
    PROVE  \/ loop.pc' \in Leaving
           \/ /\ loop.pc' = p /\ loop.count' = loop.count
              /\ loop.last' = loop.last /\ loop.err' = loop.err
<1>1. loop' = [loop EXCEPT !.pc = p] \/ loop.pc' \in Leaving
  BY Resumes DEF Goto
<1>. QED
  BY <1>1 DEF LoopOK, LoopState

LEMMA ErredIs ==
    ASSUME LoopOK, Erred
    PROVE  \/ loop.pc' \in Leaving
           \/ loop.pc' = "top" /\ loop.count' = loop.count /\ loop.err'
<1>1. loop' = [loop EXCEPT !.pc = "top", !.err = TRUE] \/ loop.pc' \in Leaving
  BY Resumes DEF Erred
<1>. QED
  BY <1>1 DEF LoopOK, LoopState

LEMMA CountedIs ==
    ASSUME LoopOK, Resume(Counted)
    PROVE  \/ loop.pc' \in Leaving
           \/ loop.pc' = "top" /\ loop.count' = loop.count + 1
<1>1. loop' = Counted \/ loop.pc' \in Leaving
  BY Resumes
<1>. QED
  BY <1>1 DEF LoopOK, LoopState, Counted

LEMMA FailedIs ==
    ASSUME LoopOK, Failed
    PROVE  loop.pc' \in Leaving
  BY Resumes DEF Failed, Left, Leaving

LEMMA FactsStand ==
    ASSUME RowFacts, UNCHANGED <<steps, hook>>
    PROVE  RowFacts'
  BY DEF RowFacts, Marked, Results, RowNos

-----------------------------------------------------------------------------
(* The barrier, and the loop *)

LEMMA BeginBarrier ==
    ASSUME StepsInv, BarrierInv, Begin
    PROVE  BarrierInv'
<1>1. /\ loop.pc = "spawned" /\ loop.pc' = "marking" /\ loop.count' = loop.count
      /\ UNCHANGED <<steps, merged, hook, req, shutdown, wake, run>>
  BY DEF Begin, rows, outside, StepsInv, LoopOK, LoopState
<1>2. CurrentRow' /\ (Going' => Going)
  BY <1>1 DEF CurrentRow, Awaiting, Going, Leaving, Quiet
<1>3. Going' => WakeMeans' /\ ReloadHeard'
  BY <1>1, <1>2 DEF BarrierInv, Calm, WakeMeans, ReloadHeard, Awaiting, Quiet
<1>. QED
  BY <1>1, <1>2, <1>3, Passing

\* Nothing was recorded before: the row may be open again.
LEMMA MarkRunningBarrier ==
    ASSUME StepsInv, BarrierInv, MarkRunning
    PROVE  BarrierInv'
<1>1. /\ loop.pc = "marking" /\ Goto("top")
      /\ UNCHANGED <<steps, merged, hook, req, shutdown, wake>>
  BY DEF MarkRunning, outside
<1>2. CASE loop.pc' \in Leaving
  BY <1>1, <1>2, FactsStand, LoopLeft DEF BarrierInv
<1>3. CASE loop.pc' = "top" /\ loop.count' = loop.count
  <2>1. CurrentRow' /\ (Going' => Going)
    BY <1>1, <1>3 DEF CurrentRow, Awaiting, Going, Leaving, Quiet
  <2>2. Going' => WakeMeans' /\ ReloadHeard'
    BY <1>1, <1>3, <2>1 DEF BarrierInv, Calm, WakeMeans, ReloadHeard, Awaiting, Quiet
  <2>. QED
    BY <1>1, <1>3, <2>1, <2>2, Passing
<1>. QED
  BY <1>1, <1>2, <1>3, GotoIs DEF LoopPc, StepsInv

\* The stop conditions look: nobody has stopped the loop and no wake is left.
LEMMA TopBarrier ==
    ASSUME StepsInv, BarrierInv, Top
    PROVE  BarrierInv'
<1>1. /\ loop.pc = "top" /\ UNCHANGED <<steps, merged, hook, req, shutdown, wake, run>>
  BY DEF Top, rows, outside
<1>2. PICK spent \in BOOLEAN :
        IF Evaluate(loop, spent) = None THEN Goto("policy")
        ELSE Resume(Left("end", TRUE, Evaluate(loop, spent)))
  BY DEF Top
<1>3. CASE loop.pc' \in Leaving
  BY <1>1, <1>3, FactsStand, LoopLeft DEF BarrierInv
<1>4. CASE Evaluate(loop, spent) = None /\ Goto("policy") /\ loop.pc' \notin Leaving
  <2>1. loop.pc' = "policy" /\ loop.count' = loop.count
    BY <1>4, GotoIs DEF LoopPc, StepsInv
  <2>2. ~CancelRequested
    <3>1. "cancelled" # None
      BY NodesAssumption DEF StopReason
    <3>. QED
      BY <1>4, <3>1 DEF Evaluate
  <2>3. Quiet /\ ~wake
    BY <2>2 DEF CancelRequested, Quiet
  <2>4. CurrentRow' /\ (Going' => Going) /\ (Going' => WakeMeans' /\ ReloadHeard')
    BY <1>1, <2>1, <2>3 DEF CurrentRow, Awaiting, Going, Leaving, Quiet, WakeMeans, ReloadHeard
  <2>. QED
    BY <1>1, <2>1, <2>4, Passing
<1>5. CASE Resume(Left("end", TRUE, Evaluate(loop, spent)))
  <2>1. loop.pc' \in Leaving
    BY <1>5, Resumes DEF Left, Leaving, StepsInv
  <2>. QED
    BY <1>3, <2>1
<1>. QED
  BY <1>2, <1>3, <1>4, <1>5

LEMMA PolicyBarrier ==
    ASSUME StepsInv, BarrierInv, Policy
    PROVE  BarrierInv'
<1>1. /\ loop.pc = "policy" /\ UNCHANGED <<steps, merged, hook, req, shutdown, wake, run>>
  BY DEF Policy, rows, outside
<1>2. CASE loop.pc' \in Leaving
  BY <1>1, <1>2, FactsStand, LoopLeft DEF BarrierInv
<1>3. ASSUME loop.pc' \in {"persist", "top"}, loop.count' = loop.count
      PROVE  BarrierInv'
  <2>1. CurrentRow' /\ (Going' => Going /\ Quiet)
    BY <1>1, <1>3 DEF CurrentRow, Awaiting, Going, Leaving, Quiet
  <2>2. Going' => WakeMeans' /\ ReloadHeard'
    BY <1>1, <1>3, <2>1 DEF BarrierInv, Calm, WakeMeans, ReloadHeard, Awaiting, Quiet
  <2>. QED
    BY <1>1, <1>3, <2>1, <2>2, Passing
<1>4. ASSUME NEW tool \in Tools, Resume([loop EXCEPT !.pc = "persist", !.last = tool])
      PROVE  BarrierInv'
  <2>1. \/ loop' = [loop EXCEPT !.pc = "persist", !.last = tool]
        \/ loop.pc' \in Leaving
    BY <1>4, Resumes DEF StepsInv
  <2>2. \/ loop.pc' = "persist" /\ loop.count' = loop.count
        \/ loop.pc' \in Leaving
    BY <2>1 DEF StepsInv, LoopOK, LoopState
  <2>. QED
    BY <1>2, <1>3, <2>2
<1>. QED
  BY <1>2, <1>3, <1>4, ErredIs, FailedIs DEF Policy, StepsInv

LEMMA PersistBarrier ==
    ASSUME StepsInv, BarrierInv, PersistPolicyCall
    PROVE  BarrierInv'
<1>1. /\ loop.pc = "persist" /\ UNCHANGED <<merged, hook, req, shutdown, wake, run>>
      /\ Len(steps) = loop.count /\ Len(steps) \in Nat
  BY Rows DEF PersistPolicyCall, outside, StepsInv, Counting
<1>2. Going' /\ loop.pc' \in {"local", "dispatch", "top"} => Going /\ Quiet /\ ~wake
  BY <1>1 DEF BarrierInv, Going, Leaving, Quiet, Calm, WakeMeans, Awaiting
<1>3. CASE UNCHANGED steps /\ Goto("top")
  <2>1. CASE loop.pc' \in Leaving
    BY <1>1, <1>3, <2>1, FactsStand, LoopLeft DEF BarrierInv
  <2>2. CASE loop.pc' = "top" /\ loop.count' = loop.count
    <3>1. CurrentRow' /\ (Going' => Going /\ WakeMeans' /\ ReloadHeard')
      BY <1>1, <1>2, <2>2 DEF CurrentRow, Awaiting, Quiet, WakeMeans, ReloadHeard
    <3>. QED
      BY <1>1, <1>3, <2>2, <3>1, Passing
  <2>. QED
    BY <1>3, <2>1, <2>2, GotoIs DEF LoopPc, StepsInv
<1>4. CASE steps' = Append(steps, NewStep)
  <2>1. NewStep.node = loop.last /\ NewStep.sent = FALSE
    BY DEF NewStep
  <2>2. /\ Len(steps') = Len(steps) + 1 /\ steps'[Len(steps) + 1] = NewStep
        /\ \A i \in RowNos : steps'[i] = steps[i]
    BY <1>4 DEF StepsInv, StepsOK, RowNos
  <2>3. \A i \in RowNos' : i \in RowNos \/ i = Len(steps) + 1
    BY <1>1, <2>2 DEF RowNos
  <2>4. RowNos \subseteq RowNos'
    BY <1>1, <2>2 DEF RowNos
  <2>5. RowFacts'
    BY <1>1, <2>1, <2>2, <2>3, <2>4 DEF BarrierInv, RowFacts, Marked, Results
  <2>6. \/ loop.pc' \in Leaving
        \/ /\ loop.pc' \in {"local", "dispatch"} /\ loop.count' = loop.count
           /\ loop.pc' = "local" => loop.last \in Local
        \/ loop.pc' = "top" /\ loop.count' = loop.count /\ loop.err'
    <3>1. \/ loop.last \in Local /\ Goto("local")
          \/ Goto("dispatch") \/ Erred
          \/ UNCHANGED steps /\ Goto("top")
      BY DEF PersistPolicyCall, Rejected
    <3>2. steps' # steps
      BY <1>1, <2>2
    <3>. QED
      BY <3>1, <3>2, GotoIs, ErredIs DEF LoopPc, StepsInv
  <2>7. CASE loop.pc' \in {"local", "dispatch", "top"} /\ loop.count' = loop.count
    <3>1. CurrentRow'
      BY <2>1, <2>2, <2>6, <2>7, <1>1 DEF CurrentRow, Awaiting, Leaving
    <3>2. ASSUME Going' PROVE Calm'
      <4>1. Calm /\ Quiet /\ ~wake
        BY <1>2, <2>7, <3>2 DEF BarrierInv
      <4>2. CountedOver'
        BY <1>1, <2>2, <2>7, <4>1 DEF Calm, CountedOver, RowNos, Reported
      <4>3. HeardSettled'
        <5>1. Len(steps) + 1 \notin RowNos
          BY <1>1 DEF RowNos
        <5>2. ASSUME NEW i \in RowNos', NEW t \in EventTypes, hook[i][t] \in {"wake", "done"}
              PROVE  Settled(i)'
          <6>1. i \in Numbers
            <7>1. StepsInv'
              BY PersistSteps
            <7>2. Len(steps') <= MaxSteps /\ Len(steps') \in Nat
              BY <1>1, <2>2, <7>1 DEF StepsInv, StepsOK
            <7>. QED
              BY <5>2, <7>2, BudgetAssumption DEF RowNos, Numbers
          <6>2. i \in RowNos
            BY <5>2, <6>1 DEF BarrierInv, RowFacts, Marked
          <6>. QED
            BY <2>2, <4>1, <5>2, <6>2 DEF Calm, HeardSettled, Settled
        <5>. QED
          BY <1>1, <5>2 DEF HeardSettled
      <4>4. WakeMeans' /\ ReloadHeard'
        BY <1>1, <2>7, <4>1 DEF WakeMeans, ReloadHeard
      <4>. QED
        BY <4>2, <4>3, <4>4 DEF Calm
    <3>. QED
      BY <2>5, <3>1, <3>2 DEF BarrierInv
  <2>. QED
    BY <2>5, <2>6, <2>7, LoopLeft
<1>. QED
  BY <1>3, <1>4 DEF PersistPolicyCall

\* The awaits of an open step that leave its row alone.
LEMMA OnwardBarrier ==
    ASSUME StepsInv, BarrierInv,
           UNCHANGED <<steps, merged, hook, req, shutdown, run>>,
           NEW p \in OpenPc, Goto(p), loop.pc \in OpenPc,
           \/ loop.pc \in {"local", "finish"} /\ p \in {"finish", "signal"} /\ wake' = wake
           \/ loop.pc = "dispatch" /\ p = "mark" /\ wake' = wake
           \/ loop.pc \in Awaiting /\ p \in Awaiting /\ wake' = wake
           \/ loop.pc = "wait" /\ p = "reload" /\ wake /\ wake' = FALSE
    PROVE  BarrierInv'
<1>1. CASE loop.pc' \in Leaving
  BY <1>1, FactsStand, LoopLeft DEF BarrierInv
<1>2. CASE loop.pc' = p /\ loop.count' = loop.count
  <2>1. CurrentRow'
    BY <1>2 DEF BarrierInv, CurrentRow, Awaiting
  <2>2. Going' => Going /\ Quiet
    BY <1>2, GoingOn DEF OpenPc, Leaving
  <2>3. Going' => WakeMeans' /\ ReloadHeard'
    BY <1>2, <2>2 DEF BarrierInv, Calm, WakeMeans, ReloadHeard, Awaiting, Quiet, Reported
  <2>. QED
    BY <1>2, <2>1, <2>2, <2>3, Passing
<1>. QED
  BY <1>1, <1>2, GotoIs DEF OpenPc, LoopPc, StepsInv

\* The step fails, and the loop notes it.
LEMMA FailBarrier ==
    ASSUME StepsInv, BarrierInv, Settle("failed"), Erred,
           UNCHANGED <<merged, hook, req, shutdown, run>>, loop.pc \in OpenPc
    PROVE  BarrierInv'
<1>1. /\ Current \in RowNos
      /\ Rewritten("failed", steps[Current].sent, steps[Current].result)
  BY Rows, Rewrites DEF StepStatus
<1>2. RowFacts'
  BY <1>1, RewriteFacts DEF BarrierInv
<1>3. CASE loop.pc' = "top" /\ loop.count' = loop.count /\ loop.err'
  <2>1. CurrentRow'
    BY <1>3 DEF CurrentRow, Awaiting
  <2>2. Going' => Going
    BY <1>3, GoingOn DEF OpenPc, Leaving
  <2>3. Going' => HeardSettled' /\ CountedOver'
    BY <1>1, <1>3, <2>2, RewriteCalm DEF BarrierInv
  <2>. QED
    BY <1>2, <1>3, <2>1, <2>2, <2>3 DEF BarrierInv, Calm, WakeMeans, ReloadHeard
<1>. QED
  BY <1>2, <1>3, ErredIs, LoopLeft DEF StepsInv

\* A local step is over and counted.
LEMMA CountBarrier ==
    ASSUME StepsInv, BarrierInv, Resume(Counted), NEW r,
           Rewritten("completed", steps[Current].sent, r),
           UNCHANGED <<merged, hook, req, shutdown, run, wake>>,
           loop.pc \in {"finish", "signal"}
    PROVE  BarrierInv'
<1>1. /\ Current \in RowNos /\ loop.pc \in OpenPc /\ Current = loop.count + 1
      /\ Current = Len(steps) /\ loop.count \in Nat
  BY Rows DEF OpenPc
<1>2. ~steps[Current].sent /\ steps[Current].node \in Local
  BY <1>1 DEF BarrierInv, CurrentRow
<1>3. RowFacts'
  BY <1>1, <1>2, RewriteFacts DEF BarrierInv
<1>4. CASE loop.pc' = "top" /\ loop.count' = loop.count + 1
  <2>1. CurrentRow'
    BY <1>4 DEF CurrentRow, Awaiting
  <2>2. Going' => Going /\ Quiet
    BY <1>4, <1>1, GoingOn DEF OpenPc, Leaving
  <2>3. ASSUME Going' PROVE Calm'
    <3>1. Calm /\ Quiet
      BY <2>2, <2>3 DEF BarrierInv
    <3>2. HeardSettled' /\ \A i \in RowNos : Reported(i)' <=> Reported(i)
      BY <1>1, <1>2, <3>1, RewriteCalm
    <3>3. \A i \in 1 .. loop.count : i \in RowNos /\ i # Current
      BY <1>1 DEF RowNos
    <3>4. \A i \in 1 .. loop.count : steps'[i] = steps[i]
      BY <3>3 DEF Rewritten
    <3>5. steps'[Current].status = "completed" /\ steps'[Current].node \in Local
          /\ ~steps'[Current].sent
      BY <1>2 DEF Rewritten
    <3>6. \A i \in 1 .. loop.count + 1 : i \in 1 .. loop.count \/ i = Current
      BY <1>1
    <3>7. CountedOver'
      BY <1>4, <3>1, <3>2, <3>3, <3>4, <3>5, <3>6 DEF Calm, CountedOver
    <3>8. ~wake
      BY <1>1, <3>1 DEF Calm, WakeMeans, Awaiting
    <3>. QED
      BY <1>4, <3>2, <3>7, <3>8 DEF Calm, WakeMeans, ReloadHeard
  <2>. QED
    BY <1>3, <2>1, <2>3 DEF BarrierInv
<1>. QED
  BY <1>3, <1>4, CountedIs, LoopLeft DEF StepsInv

LEMMA FinishBarrier ==
    ASSUME StepsInv, BarrierInv, FinishLocal
    PROVE  BarrierInv'
<1>1. /\ loop.pc = "finish" /\ UNCHANGED <<merged, hook, req, shutdown, wake, run>>
      /\ Current \in RowNos /\ loop.pc \in OpenPc /\ Current = Len(steps)
  BY Rows DEF FinishLocal, outside, OpenPc
<1>2. ~steps[Current].sent /\ steps[Current].node \in Local
  BY <1>1 DEF BarrierInv, CurrentRow
<1>3. CASE Settle("completed") /\ Resume(Counted)
  BY <1>1, <1>3, Rewrites, CountBarrier DEF StepStatus
<1>4. CASE Settle("in_progress") /\ Goto("signal")
  <2>1. Rewritten("in_progress", steps[Current].sent, steps[Current].result)
    BY <1>1, <1>4, Rewrites DEF StepStatus
  <2>2. RowFacts'
    BY <1>1, <2>1, RewriteFacts DEF BarrierInv
  <2>3. CASE loop.pc' = "signal" /\ loop.count' = loop.count
    <3>1. CurrentRow'
      BY <1>1, <1>2, <2>1, <2>3 DEF CurrentRow, Rewritten, Awaiting
    <3>2. Going' => Going /\ Quiet
      BY <1>1, <2>3, GoingOn DEF Leaving
    <3>3. Going' => HeardSettled' /\ CountedOver'
      BY <1>1, <1>2, <2>1, <2>3, <3>2, RewriteCalm DEF BarrierInv
    <3>4. Going' => ~wake
      BY <1>1, <3>2 DEF BarrierInv, Calm, WakeMeans, Awaiting
    <3>. QED
      BY <1>1, <2>2, <2>3, <3>1, <3>3, <3>4 DEF BarrierInv, Calm, WakeMeans, ReloadHeard
  <2>. QED
    BY <1>4, <2>2, <2>3, GotoIs, LoopLeft DEF StepsInv, LoopPc
<1>. QED
  BY <1>3, <1>4 DEF FinishLocal

LEMMA AwaitBarrier ==
    ASSUME StepsInv, BarrierInv, AwaitSignal
    PROVE  BarrierInv'
<1>1. /\ loop.pc = "signal" /\ UNCHANGED <<merged, hook, req, shutdown, wake, run>>
      /\ Current \in RowNos /\ Resume(Counted)
      /\ steps' = [steps EXCEPT ![Current].status = "completed", ![Current].result = buffer]
  BY Rows DEF AwaitSignal, outside, OpenPc
<1>. QED
  BY <1>1, Rewrites, CountBarrier DEF StepStatus

LEMMA DispatchBarrier ==
    ASSUME StepsInv, BarrierInv, Dispatch
    PROVE  BarrierInv'
<1>1. /\ loop.pc = "dispatch" /\ loop.pc \in OpenPc
      /\ UNCHANGED <<merged, hook, req, shutdown, wake, run>>
  BY DEF Dispatch, outside, OpenPc
<1>2. CASE Goto("mark") /\ UNCHANGED steps
  BY <1>1, <1>2, OnwardBarrier DEF OpenPc
<1>3. CASE Erred /\ Settle("failed")
  BY <1>1, <1>3, FailBarrier
<1>4. CASE Failed /\ UNCHANGED steps
  BY <1>1, <1>4, FailedIs, FactsStand, LoopLeft DEF StepsInv, BarrierInv
<1>. QED
  BY <1>2, <1>3, <1>4 DEF Dispatch

LEMMA MarkBarrier ==
    ASSUME StepsInv, BarrierInv, MarkDispatched
    PROVE  BarrierInv'
<1>1. /\ loop.pc = "mark" /\ UNCHANGED <<merged, hook, req, shutdown, wake, run>>
      /\ Current \in RowNos /\ loop.pc \in OpenPc /\ Current = Len(steps)
      /\ Goto("closing")
      /\ steps' = [steps EXCEPT ![Current].status = "dispatched", ![Current].sent = TRUE]
  BY Rows DEF MarkDispatched, outside, OpenPc
<1>2. ~steps[Current].sent
  BY <1>1 DEF BarrierInv, CurrentRow
<1>3. Rewritten("dispatched", TRUE, steps[Current].result)
  BY <1>1, Rewrites DEF StepStatus
<1>4. RowFacts'
  BY <1>1, <1>3, RewriteFacts DEF BarrierInv
<1>5. CASE loop.pc' = "closing" /\ loop.count' = loop.count
  <2>1. CurrentRow'
    BY <1>1, <1>3, <1>5 DEF CurrentRow, Rewritten, Awaiting
  <2>2. Going' => Going /\ Quiet
    BY <1>1, <1>5, GoingOn DEF Leaving
  <2>3. Going' => HeardSettled' /\ CountedOver'
    BY <1>1, <1>2, <1>3, <1>5, <2>2, RewriteCalm DEF BarrierInv
  <2>4. Going' => ~wake
    BY <1>1, <2>2 DEF BarrierInv, Calm, WakeMeans, Awaiting
  <2>. QED
    BY <1>1, <1>4, <1>5, <2>1, <2>3, <2>4 DEF BarrierInv, Calm, WakeMeans, ReloadHeard
<1>. QED
  BY <1>1, <1>4, <1>5, GotoIs, LoopLeft DEF StepsInv, LoopPc

\* A step that was heard of is settled: if it has not failed it is completed,
\* with a result to merge.
LEMMA ReloadBarrier ==
    ASSUME StepsInv, BarrierInv, Reload
    PROVE  BarrierInv'
<1>1. /\ loop.pc = "reload" /\ UNCHANGED <<steps, hook, req, shutdown, wake, run>>
      /\ Current \in RowNos /\ loop.pc \in OpenPc /\ Current = Len(steps)
      /\ Current = loop.count + 1 /\ loop.count \in Nat
  BY Rows DEF Reload, outside, OpenPc
<1>2. RowFacts'
  BY <1>1, FactsStand DEF BarrierInv
<1>3. loop.pc' = "top" => CurrentRow' /\ (Going' => Going /\ Quiet /\ ~wake)
  <2>1. loop.pc' = "top" /\ Going' => Going /\ Quiet
    BY <1>1, GoingOn DEF Leaving
  <2>2. loop.pc' = "top" => CurrentRow'
    BY DEF CurrentRow, Awaiting
  <2>. QED
    BY <1>1, <2>1, <2>2 DEF BarrierInv, Calm, WakeMeans, Awaiting
<1>4. CASE UNCHANGED merged /\ loop.pc' = "top" /\ loop.count' = loop.count
  <2>1. ASSUME Going' PROVE WakeMeans' /\ ReloadHeard'
    BY <1>1, <1>3, <1>4, <2>1 DEF WakeMeans, ReloadHeard
  <2>. QED
    BY <1>1, <1>3, <1>4, <2>1, Passing
<1>5. CASE /\ steps[Current].status # "failed"
           /\ merged' = IF steps[Current].result = None THEN merged ELSE merged \cup {Current}
           /\ loop.pc' = "top" /\ loop.count' = loop.count + 1
  <2>1. ASSUME Going' PROVE Calm'
    <3>1. Calm /\ ~wake /\ Reported(Current)
      BY <1>1, <1>3, <1>5, <2>1 DEF BarrierInv, Calm, ReloadHeard
    <3>2. HeardSettled'
      BY <1>1, <3>1 DEF Calm, HeardSettled, RowNos, Settled
    <3>3. steps[Current].status = "completed"
      BY <1>1, <1>5, <3>1 DEF Calm, HeardSettled, Settled, Reported, EndEvents, EventTypes
    <3>4. steps[Current].result = FromEngine /\ FromEngine # None
      BY <1>1, <3>3, NodesAssumption
         DEF BarrierInv, RowFacts, Results, CurrentRow, FromEngine
    <3>5. \A i \in 1 .. loop.count + 1 : i \in 1 .. loop.count \/ i = Current
      BY <1>1
    <3>6. CountedOver'
      BY <1>1, <1>5, <3>1, <3>3, <3>4, <3>5 DEF Calm, CountedOver, Reported
    <3>. QED
      BY <1>1, <1>5, <3>1, <3>2, <3>6 DEF Calm, WakeMeans, ReloadHeard
  <2>. QED
    BY <1>2, <1>3, <1>5, <2>1 DEF BarrierInv
<1>. QED
  BY <1>2, <1>4, <1>5, ErredIs, CountedIs, LoopLeft DEF Reload, StepsInv

LEMMA LoopBarrier ==
    ASSUME StepsInv, BarrierInv, LoopStep \/ Interrupt
    PROVE  BarrierInv'
<1>1. CASE SaveMemory \/ StartWait \/ Woken \/ Timeout
  <2>1. UNCHANGED <<steps, merged, hook, req, shutdown, run>> /\ loop.pc \in OpenPc
    BY <1>1 DEF SaveMemory, StartWait, Woken, Timeout, Deadline, rows, outside, OpenPc
  <2>2. \/ loop.pc = "local" /\ Goto("finish") /\ wake' = wake
        \/ loop.pc = "closing" /\ Goto("wait") /\ wake' = wake
        \/ loop.pc = "wait" /\ Goto("reload") /\ wake /\ wake' = FALSE
        \/ loop.pc = "wait" /\ Goto("expire") /\ wake' = wake
    BY <1>1 DEF SaveMemory, StartWait, Woken, Timeout, Deadline
  <2>. QED
    BY <2>1, <2>2, OnwardBarrier DEF OpenPc, Awaiting
<1>2. CASE LocalFails \/ Expire
  <2>1. UNCHANGED <<merged, hook, req, shutdown, run>> /\ loop.pc \in OpenPc
        /\ Settle("failed") /\ Erred
    BY <1>2 DEF LocalFails, Expire, outside, OpenPc
  <2>. QED
    BY <2>1, FailBarrier
<1>3. CASE ReadEnd \/ CommitEnd \/ Interrupt
  <2>1. UNCHANGED <<steps, hook>>
    BY <1>3 DEF ReadEnd, CommitEnd, Interrupt, rows, outside
  <2>2. loop.pc' \in Leaving
    BY <1>3, GoesAt, ThrownOK DEF ReadEnd, CommitEnd, Interrupt, StepsInv, LoopPc, Leaving
  <2>. QED
    BY <2>1, <2>2, FactsStand, LoopLeft DEF BarrierInv
<1>. QED
  BY <1>1, <1>2, <1>3, BeginBarrier, MarkRunningBarrier, TopBarrier, PolicyBarrier,
     PersistBarrier, FinishBarrier, AwaitBarrier, DispatchBarrier, MarkBarrier, ReloadBarrier
     DEF LoopStep

-----------------------------------------------------------------------------
(* The barrier, and what runs beside the loop *)

\* A webhook still to be handled is one of the current step, which awaits it or
\* has given it up.
LEMMA Heard ==
    ASSUME StepsInv, BarrierInv, Calm, NEW i \in RowNos, steps[i].sent,
           Going, ~Reported(i)
    PROVE  /\ i \notin 1 .. loop.count /\ Len(steps) > loop.count
           /\ \/ i = Len(steps) /\ loop.pc \in Awaiting
              \/ loop.pc = "top" /\ loop.err
<1>1. i \notin 1 .. loop.count
  BY DEF Calm, CountedOver
<1>0. Len(steps) \in Nat /\ loop.count \in Nat
  BY Rows
<1>2. Len(steps) > loop.count
  BY <1>0, <1>1 DEF RowNos
<1>3. loop.pc \in OpenPc => i = Len(steps)
  <2>1. loop.pc \in OpenPc => Len(steps) = loop.count + 1
    BY DEF StepsInv, Counting
  <2>. QED
    BY <1>0, <1>1, <2>1 DEF RowNos
<1>4. loop.pc \in LoopPc
  BY DEF StepsInv, LoopOK, LoopState
<1>5. CASE loop.pc \in OpenPc
  BY <1>1, <1>2, <1>3, <1>5
     DEF BarrierInv, CurrentRow, Calm, ReloadHeard, Awaiting, OpenPc
<1>6. CASE loop.pc \notin OpenPc
  BY <1>0, <1>1, <1>2, <1>4, <1>6 DEF StepsInv, Counting, Going, Leaving, LoopPc, OpenPc
<1>. QED
  BY <1>5, <1>6

LEMMA HookBarrier ==
    ASSUME StepsInv, HookOK, HooksKnown, BarrierInv, engine \subseteq EndEvents,
           NEW i \in Numbers, NEW t \in EventTypes, HookStep(i, t)
    PROVE  BarrierInv'
<1>1. UNCHANGED <<loop, merged, req, shutdown, run>>
  BY DEF HookStep, Handled, HookRead, HookCommit, HookWake, HookAt
<1>2. /\ Going' <=> Going
      /\ Quiet' <=> Quiet
  BY <1>1 DEF Going, Quiet
<1>3. PICK stage \in {"write", "wake", "done"} : hook' = [hook EXCEPT ![i][t] = stage]
  BY DEF HookStep, Handled, HookRead, HookCommit, HookWake
<1>4. /\ hook'[i][t] = stage
      /\ \A j \in Numbers : \A u \in EventTypes :
            j # i \/ u # t => hook'[j][u] = hook[j][u]
  BY <1>3 DEF HookOK
<1>5. i \in RowNos /\ steps[i].sent /\ t \in EndEvents
      /\ \A u \in EventTypes : u # t => hook[i][u] = "none"
  <2>1. CASE HookRead(i, t)
    <3>1. i \in RowNos /\ steps[i].sent /\ t \in EndEvents /\ hook[i][t] = "none"
      BY <2>1, Rows DEF HookRead, HookAt, RowNos, Numbers
    <3>2. \A u \in EndEvents : u # t => hook[i][u] = "none"
      BY <2>1, <3>1 DEF HookRead, EndEvents
    <3>3. \A u \in EventTypes : u \notin EndEvents => hook[i][u] = "none"
      BY DEF BarrierInv, RowFacts, Marked
    <3>. QED
      BY <3>1, <3>2, <3>3
  <2>2. CASE Handled(i, t)
    <3>1. hook[i][t] # "none"
      BY <2>2 DEF Handled, HookCommit, HookWake, HookAt
    <3>. QED
      BY <3>1 DEF BarrierInv, RowFacts, Marked
  <2>. QED
    BY <2>1, <2>2 DEF HookStep
<1>6. hook[i][t] # "done"
  BY DEF HookStep, Handled, HookRead, HookCommit, HookWake, HookAt
<1>7. ~Reported(i)
  BY <1>5, <1>6 DEF Reported, EndEvents, EventTypes
<1>8. \A j \in RowNos : Reported(j) => Reported(j)'
  BY <1>4, <1>6, Rows DEF Reported, EndEvents, EventTypes
<1>9. ASSUME /\ RowNos' = RowNos /\ Len(steps') = Len(steps)
             /\ \A j \in RowNos : /\ steps'[j].sent = steps[j].sent
                                  /\ steps'[j].node = steps[j].node
             /\ \A j \in RowNos : j # i => steps'[j] = steps[j]
             /\ steps'[i].status = "completed" => steps'[i].result = FromEngine
             /\ Going /\ stage \in {"wake", "done"} => Settled(i)'
             /\ Settled(i) => Settled(i)'
             /\ wake' => wake \/ stage = "done"
      PROVE  BarrierInv'
  <2>1. Marked'
    BY <1>4, <1>5, <1>9 DEF BarrierInv, RowFacts, Marked
  <2>2. Results'
    BY <1>9 DEF BarrierInv, RowFacts, Results
  <2>3. CurrentRow'
    <3>1. loop.pc \in OpenPc => Len(steps) \in RowNos
      BY Rows
    <3>. QED
      BY <1>1, <1>9, <3>1 DEF BarrierInv, CurrentRow, OpenPc, Awaiting
  <2>4. ASSUME Going PROVE Calm'
    <3>1. Calm
      BY <2>4 DEF BarrierInv
    <3>2. HeardSettled'
      BY <1>4, <1>9, <2>4, <3>1, Rows DEF Calm, HeardSettled, Settled
    <3>3. CountedOver'
      <4>1. \A j \in 1 .. loop.count : j # i
        BY <1>5, <1>7, <2>4, <3>1, Heard
      <4>2. \A j \in 1 .. loop.count : j \in RowNos
        <5>1. loop.count < Len(steps)
          BY <1>5, <1>7, <2>4, <3>1, Heard
        <5>2. Len(steps) \in Nat /\ loop.count \in Nat
          BY Rows
        <5>. QED
          BY <5>1, <5>2 DEF RowNos
      <4>. QED
        BY <1>1, <1>8, <1>9, <3>1, <4>1, <4>2 DEF Calm, CountedOver
    <3>4. WakeMeans'
      <4>1. CASE wake
        <5>1. loop.pc \in Awaiting => Len(steps) \in RowNos
          BY Rows DEF Awaiting, OpenPc
        <5>. QED
          BY <1>1, <1>2, <1>8, <1>9, <3>1, <4>1, <5>1 DEF Calm, WakeMeans
      <4>2. CASE stage = "done"
        <5>1. Reported(i)'
          BY <1>4, <1>5, <4>2 DEF Reported
        <5>2. \/ i = Len(steps) /\ loop.pc \in Awaiting
              \/ loop.pc = "top" /\ loop.err
          BY <1>5, <1>7, <2>4, <3>1, Heard
        <5>. QED
          BY <1>1, <1>9, <5>1, <5>2 DEF WakeMeans
      <4>. QED
        BY <1>9, <4>1, <4>2 DEF WakeMeans
    <3>5. ReloadHeard'
      <4>1. loop.pc = "reload" => Len(steps) \in RowNos
        BY Rows DEF OpenPc
      <4>. QED
        BY <1>1, <1>8, <1>9, <3>1, <4>1 DEF Calm, ReloadHeard
    <3>. QED
      BY <3>2, <3>3, <3>4, <3>5 DEF Calm
  <2>. QED
    BY <1>2, <2>1, <2>2, <2>3, <2>4 DEF BarrierInv, RowFacts
<1>10. CASE HookRead(i, t)
  <2>1. UNCHANGED steps /\ wake' = wake /\ stage \in {"write", "wake"}
        /\ (stage = "wake" => AlreadyTerminal \/ ~Moves(i, t))
    BY <1>3, <1>4, <1>10 DEF HookRead, Unnoticed, HookOK
  <2>2. Going => ~AlreadyTerminal
    <3>1. loop.pc \notin {"spawned", "marking"}
      BY <1>5, Rows DEF StepsInv, Counting, RowNos
    <3>. QED
      BY <3>1 DEF Going, AlreadyTerminal
  <2>3. ~Moves(i, t) => Settled(i)
    <3>1. steps[i].status \in StepStatus
      BY <1>5, Rows DEF StepRow
    <3>2. Target(t) \in {"completed", "failed"} /\ Target(t) # None
      BY <1>5, NodesAssumption DEF Target, EndEvents, StepStatus
    <3>. QED
      BY <3>1, <3>2 DEF Moves, Rank, Settled, StepStatus
  <2>4. steps[i].status = "completed" => steps[i].result = FromEngine
    BY <1>5 DEF BarrierInv, RowFacts, Results
  <2>. QED
    BY <1>9, <2>1, <2>2, <2>3, <2>4 DEF RowNos, Settled
<1>11. CASE HookWake(i, t)
  <2>1. UNCHANGED steps /\ stage = "done" /\ hook[i][t] = "wake"
    BY <1>4, <1>11 DEF HookWake, HookAt, HookOK
  <2>2. Going => Settled(i)
    BY <1>5, <2>1 DEF BarrierInv, Calm, HeardSettled
  <2>3. steps[i].status = "completed" => steps[i].result = FromEngine
    BY <1>5 DEF BarrierInv, RowFacts, Results
  <2>. QED
    BY <1>9, <2>1, <2>2, <2>3 DEF RowNos, Settled
<1>12. CASE HookCommit(i, t)
  <2>1. wake' = wake /\ t \in EndEvents
    BY <1>5, <1>12 DEF HookCommit
  <2>2. /\ Target(t) \in {"completed", "failed"}
        /\ Target(t) = "completed" => t = "node_finished"
    BY <2>1 DEF Target, EndEvents
  <2>3. /\ DOMAIN steps' = RowNos
        /\ \A j \in RowNos : /\ steps'[j].node = steps[j].node
                             /\ steps'[j].sent = steps[j].sent
                             /\ j # i => steps'[j] = steps[j]
        /\ steps'[i].status = Target(t)
        /\ t = "node_finished" => steps'[i].result = FromEngine
    BY <1>5, <1>12, Rows DEF HookCommit, StepRow
  <2>4. Len(steps') = Len(steps) /\ RowNos' = RowNos
    <3>1. steps \in Seq(StepRow) /\ Len(steps) \in Nat /\ DOMAIN steps = RowNos
      BY Rows DEF StepsInv, StepsOK
    <3>2. Len(steps') \in Nat /\ DOMAIN steps' = 1 .. Len(steps')
      BY <1>12, <3>1, SeqDef DEF HookCommit
    <3>. QED
      BY <2>3, <3>1, <3>2 DEF RowNos
  <2>. QED
    BY <1>9, <2>1, <2>2, <2>3, <2>4 DEF Settled
<1>. QED
  BY <1>10, <1>11, <1>12 DEF HookStep, Handled

LEMMA OperatorBarrier ==
    ASSUME BarrierInv, Operator
    PROVE  BarrierInv'
<1>1. UNCHANGED <<steps, merged, loop, hook>>
  BY OperatorStands
<1>2. RowFacts' /\ CurrentRow'
  BY <1>1, FactsStand DEF BarrierInv, CurrentRow
<1>3. /\ run' = run \/ run'.status \in RunTerminal
      /\ Quiet' => Quiet /\ wake' = wake
  BY DEF Operator, SendSignal, CancelRead, CancelCommit, CancelCall, Shutdown, CancelAll,
         rows, Quiet, RunTerminal
<1>4. Going' => Going
  BY <1>1, <1>3 DEF Going
<1>5. Going' => Calm'
  BY <1>1, <1>3, <1>4 DEF BarrierInv, Calm, HeardSettled, CountedOver, WakeMeans,
     ReloadHeard, RowNos, Settled, Reported
<1>. QED
  BY <1>2, <1>5 DEF BarrierInv

Barred == engine \subseteq EndEvents => BarrierInv

LEMMA NextBarrier == IInv /\ Barred /\ [Next]_vars => Barred'
<1>. SUFFICES ASSUME IInv, Barred, [Next]_vars PROVE Barred'
  OBVIOUS
<1>1. StepsInv /\ EventsOK /\ HookOK /\ HooksKnown
  BY Parts DEF WakeInv
<1>2. engine' = engine
  BY OperatorStands, LoopOutside
     DEF Next, vars, outside, HookStep, Handled, HookRead, HookCommit, HookWake, HookAt, Operator
<1>. SUFFICES ASSUME engine \subseteq EndEvents PROVE BarrierInv'
  BY <1>2 DEF Barred
<1>3. BarrierInv
  BY DEF Barred
<1>4. CASE LoopStep \/ Interrupt
  BY <1>1, <1>3, <1>4, LoopBarrier
<1>5. CASE \E i \in Numbers, t \in EventTypes : HookStep(i, t)
  BY <1>1, <1>3, <1>5, HookBarrier
<1>6. CASE Operator
  BY <1>3, <1>6, OperatorBarrier
<1>7. CASE UNCHANGED vars
  BY <1>3, <1>7 DEF vars, rows, outside, BarrierInv, RowFacts, Marked, Results, CurrentRow,
     Going, Calm, HeardSettled, CountedOver, WakeMeans, ReloadHeard, RowNos, Settled,
     Reported, Quiet
<1>. QED
  BY <1>4, <1>5, <1>6, <1>7 DEF Next, Operator

\* With an engine that reports a step only when it is over, the policy is never
\* asked while a counted step is open or its result unmerged.
THEOREM BarrierHolds == Spec => []StepBarrier
<1>1. Init => Barred
  <2>. SUFFICES ASSUME Init PROVE Barred
    OBVIOUS
  <2>1. RowNos = {} /\ loop.pc = "spawned" /\ loop.count = 0 /\ wake = FALSE
        /\ \A i \in Numbers, t \in EventTypes : hook[i][t] = "none"
    BY DEF Init, Left, RowNos
  <2>. QED
    BY <2>1 DEF Barred, BarrierInv, RowFacts, Marked, Results, CurrentRow, Calm,
       HeardSettled, CountedOver, WakeMeans, ReloadHeard, Awaiting
<1>2. Spec => [](IInv /\ Barred)
  BY <1>1, InitIInv, NextIInv, NextBarrier, PTL DEF Spec
<1>3. Barred => StepBarrier
  BY DEF Barred, BarrierInv, EndEvents, StepBarrier, Going, Leaving, RunTerminal,
     Calm, CountedOver
<1>. QED
  BY <1>2, <1>3, PTL
=============================================================================
