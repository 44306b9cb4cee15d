-------------------------- MODULE LifecycleProofs --------------------------
(***************************************************************************)
(* For every set of tasks, requests and texts: the transactions of         *)
(* Lifecycle implement the signals of WorkItemFlow, no call takes effect   *)
(* twice, and a task is open under a work item that is ready only when a   *)
(* late pull request reopened it.                                          *)
(***************************************************************************)
EXTENDS Lifecycle, SignalTableProofs, TLAPS

(***************************************************************************)
(* Calls                                                                   *)
(***************************************************************************)

\* The two kinds of call are different.
LEMMA KindsDiffer == ItemCalls \cap TaskCalls = {} /\ NoCall \notin Calls
<1>1. ASSUME NEW c \in ItemCalls, c \in TaskCalls
      PROVE  FALSE
  BY <1>1, ItemCallFields, TaskCallFields, ItemAssumption
<1>2. NoCall.sig = "none"
  BY DEF NoCall, Call
<1>3. NoCall \notin ItemCalls
  BY <1>2, ItemCallFields
<1>4. NoCall \notin TaskCalls
  BY <1>2, TaskCallFields DEF Sigs
<1> QED
  BY <1>1, <1>3, <1>4 DEF Calls

(***************************************************************************)
(* Types                                                                   *)
(***************************************************************************)

Request == [at : ReqAt, call : Calls \cup {NoCall}, saw : TaskStatus \cup {"none"},
            sees : ItemStatus \cup {"absent"}]

LEMMA IdleIsRequest == Idle \in Request /\ [Idle EXCEPT !.at = "generate"] \in Request
  BY DEF Idle, Request, ReqAt

\* What every arriving signal does to the state.
Received(r) ==
    /\ req[r].at = "idle"
    /\ \E c \in Calls : /\ c \notin keys /\ ~KeyHeld(c)
                        /\ req' = [req EXCEPT ![r] = [Idle EXCEPT
                              !.at = IF c \in ItemCalls THEN "item" ELSE "task",
                              !.call = c]]
    /\ UNCHANGED dbVars

\* What a pull request does that names a task.
Found(r) ==
    /\ \E c \in TaskCalls : /\ c.sig = "submit_implementation" /\ task[c.on] # "absent"
                            /\ req' = [req EXCEPT ![r] = [Idle EXCEPT
                                  !.at = "github", !.call = c, !.saw = task[c.on]]]
    /\ UNCHANGED dbVars

LEMMA SignalReceives ==
    ASSUME NEW r \in Requests, Signal(r)
    PROVE  Received(r) \/ Found(r)
<1>1. ASSUME NEW c \in Calls, Receive(r, c)
      PROVE  Received(r)
  BY <1>1 DEF Receive, Received
<1>2. CASE OpenWorkItemSignal(r) \/ LockWorkItemSignal(r) \/ UnlockWorkItemSignal(r)
           \/ CloseWorkItemSignal(r)
  <2>1. \E c \in ItemCalls : Receive(r, c)
    BY <1>2 DEF OpenWorkItemSignal, LockWorkItemSignal, UnlockWorkItemSignal,
                CloseWorkItemSignal, ItemCalls
  <2> QED
    BY <2>1, <1>1 DEF Calls
<1>3. CASE \/ ApproveTaskSignal(r) \/ RejectTaskSignal(r) \/ AssignTaskSignal(r)
           \/ DeferTaskSignal(r) \/ SubmitPlanSignal(r) \/ SubmitImplementationSignal(r)
  <2>1. \E c \in TaskCalls : Receive(r, c)
    BY <1>3 DEF ApproveTaskSignal, RejectTaskSignal, AssignTaskSignal, DeferTaskSignal,
                SubmitPlanSignal, SubmitImplementationSignal, TaskCalls
  <2> QED
    BY <2>1, <1>1 DEF Calls
<1>4. CASE \/ ApprovePlanSignal(r) \/ RejectPlanSignal(r) \/ ApproveReviewSignal(r)
           \/ RejectReviewSignal(r)
  <2>1. \E c \in TaskCalls : Receive(r, c)
    BY <1>4 DEF ApprovePlanSignal, RejectPlanSignal, ApproveReviewSignal,
                RejectReviewSignal, TaskCalls
  <2> QED
    BY <2>1, <1>1 DEF Calls
<1>5. CASE ReceiveGithubPr(r)
  <2>1. PICK t \in Tasks, p \in Payloads :
            LET c == Call("submit_implementation", t, "admin", p) IN
            /\ task[t] # "absent"
            /\ req' = [req EXCEPT ![r] = [Idle EXCEPT
                   !.at = "github", !.call = c, !.saw = task[t]]]
    BY <1>5 DEF ReceiveGithubPr
  <2> DEFINE c == Call("submit_implementation", t, "admin", p)
  <2>2. c \in TaskCalls
    BY DEF TaskCalls
  <2>3. c.sig = "submit_implementation" /\ c.on = t
    BY DEF Call
  <2> HIDE DEF c
  <2>4. req' = [req EXCEPT ![r] = [Idle EXCEPT
                   !.at = "github", !.call = c, !.saw = task[c.on]]]
    BY <2>1, <2>3 DEF c
  <2> QED
    BY <1>5, <2>1, <2>2, <2>3, <2>4 DEF Found, ReceiveGithubPr
<1> QED
  BY <1>2, <1>3, <1>4, <1>5 DEF Signal

\* TypeOK is an invariant of the transactions.
THEOREM TypeCorrect == Spec => []TypeOK
<1>1. Init => TypeOK
  BY IdleIsRequest DEF Init, TypeOK, Request
<1>2. TypeOK /\ [Next]_vars => TypeOK'
  <2> SUFFICES ASSUME TypeOK, [Next]_vars
               PROVE  TypeOK'
    OBVIOUS
  <2> req \in [Requests -> Request]
    BY DEF TypeOK, Request
  <2>1. CASE UNCHANGED vars
    BY <2>1 DEF TypeOK, vars, dbVars
  <2>2. ASSUME NEW r \in Requests, Received(r)
        PROVE  TypeOK'
    <3>1. PICK c \in Calls : req' = [req EXCEPT ![r] = [Idle EXCEPT
                                 !.at = IF c \in ItemCalls THEN "item" ELSE "task",
                                 !.call = c]]
      BY <2>2 DEF Received
    <3>2. [Idle EXCEPT !.at = IF c \in ItemCalls THEN "item" ELSE "task",
                       !.call = c] \in Request
      BY DEF Idle, Request, ReqAt
    <3>3. req' \in [Requests -> Request]
      BY <3>1, <3>2
    <3> QED
      BY <2>2, <3>3 DEF Received, TypeOK, dbVars, Request
  <2>7. ASSUME NEW r \in Requests, Found(r)
        PROVE  TypeOK'
    <3>1. PICK c \in TaskCalls : /\ task[c.on] # "absent"
                                /\ req' = [req EXCEPT ![r] = [Idle EXCEPT
                                      !.at = "github", !.call = c, !.saw = task[c.on]]]
      BY <2>7 DEF Found
    <3>2. c \in Calls /\ task[c.on] \in TaskStatus
      BY <3>1, TaskCallFields DEF Calls, TypeOK
    <3>3. [Idle EXCEPT !.at = "github", !.call = c, !.saw = task[c.on]] \in Request
      BY <3>2 DEF Idle, Request, ReqAt
    <3>4. req' \in [Requests -> Request]
      BY <3>1, <3>3
    <3> QED
      BY <2>7, <3>4 DEF Found, TypeOK, dbVars, Request
  <2>3. ASSUME NEW r \in Requests, SubmitFromGithub(r) \/ LockTask(r)
                                   \/ LockItemForDerivation(r) \/ LockItem(r) \/ Abort(r)
        PROVE  TypeOK'
    <3> DEFINE c == req[r].call
    <3>1. \A i \in ItemStatus \cup {"absent"} : \A d, seen :
              Derived(d, i, seen) \in ItemStatus \cup {"absent"}
      BY DerivedStatus DEF ItemStatus
    <3>2. c \in ItemCalls => ItemTransition[c.sig].to \in ItemStatus
      BY ItemTable, ItemCallFields
    <3>3. req' \in [Requests -> Request]
      <4>1. CASE LockTask(r)
        <5>1. CASE Permitted(r)
          <6>1. PICK a \in {"commit", "item"} : req' = [req EXCEPT ![r].at = a]
            BY <4>1, <5>1 DEF LockTask
          <6> QED
            BY <6>1 DEF Request, ReqAt
        <5>2. CASE ~Permitted(r)
          BY <4>1, <5>2, IdleIsRequest DEF LockTask, Rollback
        <5> QED
          BY <5>1, <5>2
      <4>2. CASE LockItemForDerivation(r)
        <5>1. PICK v \in ItemStatus \cup {"absent"} :
                  req' = [req EXCEPT ![r].at = "commit", ![r].sees = v]
          BY <4>2, <3>1 DEF LockItemForDerivation, TypeOK
        <5> QED
          BY <5>1 DEF Request, ReqAt
      <4>3. CASE LockItem(r)
        <5>1. CASE item = ItemTransition[c.sig].from
          <6>1. PICK v \in ItemStatus :
                    req' = [req EXCEPT ![r].at = "commit", ![r].sees = v]
            BY <4>3, <5>1, <3>2 DEF LockItem
          <6> QED
            BY <6>1 DEF Request, ReqAt
        <5>2. CASE item # ItemTransition[c.sig].from
          BY <4>3, <5>2, IdleIsRequest DEF LockItem, Rollback
        <5> QED
          BY <5>1, <5>2
      <4>4. CASE Abort(r)
        BY <4>4, IdleIsRequest DEF Abort, Rollback
      <4>5. CASE SubmitFromGithub(r)
        BY <4>5, IdleIsRequest DEF SubmitFromGithub, Rollback, Request, ReqAt
      <4> QED
        BY <2>3, <4>1, <4>2, <4>3, <4>4, <4>5
    <3>4. UNCHANGED dbVars
      BY <2>3 DEF SubmitFromGithub, LockTask, LockItemForDerivation, LockItem, Abort
    <3> QED
      BY <3>3, <3>4 DEF TypeOK, dbVars, Request
  <2>4. ASSUME NEW r \in Requests, CommitItem(r)
        PROVE  TypeOK'
    BY <2>4, IdleIsRequest DEF CommitItem, TypeOK, Request, Calls
  <2>5. ASSUME NEW r \in Requests, CommitTask(r)
        PROVE  TypeOK'
    <3> DEFINE c == req[r].call
    <3>1. c \in TaskCalls /\ c \in Calls
      BY <2>5 DEF CommitTask, Calls
    <3>2. TaskTransition[c.sig].to \in TaskStatus
      BY <3>1, TaskCallFields, Table
    <3>3. task' \in [Tasks -> TaskStatus \cup {"absent"}]
      BY <2>5, <3>2 DEF CommitTask, TypeOK
    <3>4. assignee' \in [Tasks -> Assignees \cup {"none"}]
      BY <2>5, <3>1, AssignPayload DEF CommitTask, TypeOK
    <3>5. item' \in ItemStatus \cup {"absent"} /\ keys' \subseteq Calls
          /\ repeated' \subseteq Calls
      BY <2>5, <3>1 DEF CommitTask, TypeOK, Request
    <3>7. reopened' \subseteq Tasks
      BY <2>5, <3>1, TaskCallFields DEF CommitTask, TypeOK
    <3>6. req' \in [Requests -> Request]
      BY <2>5, IdleIsRequest DEF CommitTask, Rollback
    <3> QED
      BY <3>3, <3>4, <3>5, <3>6, <3>7 DEF TypeOK, Request
  <2>6. ASSUME NEW r \in Requests, GenerateTasks(r)
        PROVE  TypeOK'
    BY <2>6, IdleIsRequest DEF GenerateTasks, Rollback, TypeOK, Request, TaskStatus
  <2> QED
    BY <2>1, <2>2, <2>3, <2>4, <2>5, <2>6, <2>7, SignalReceives DEF Next, Statement
<1> QED
  BY <1>1, <1>2, PTL DEF Spec

(***************************************************************************)
(* The locks.  What a transaction has checked stays true until it commits, *)
(* because it holds the rows it checked and the others cannot change what  *)
(* the derivation saw of theirs.                                           *)
(***************************************************************************)

Holds(r) == req[r].at \in {"item", "commit"}

\* Where a task stays once it is being implemented.
Implemented == {"implementing", "impl_review"} \cup TaskTerminal

\* What the check under the row lock has established: the task may make the
\* transition, or a pull request saw that it could.
Judged(r) ==
    LET c == req[r].call IN
    /\ MayDecide(c, assignee[c.on])
    /\ \/ /\ req[r].saw = "none"
          /\ task[c.on] \in TaskTransition[c.sig].from
       \/ req[r].saw = "implementing"

\* What became of the task a pull request saw.
PullRequestStage(r) ==
    LET c == req[r].call IN
    req[r].saw # "none" =>
        /\ req[r].at \in {"github", "task", "commit"}
        /\ c \in TaskCalls /\ c.sig = "submit_implementation"
        /\ req[r].saw = "implementing" => task[c.on] \in Implemented

\* What a transaction knows where it stands.
Stage(r) ==
    LET c == req[r].call IN
    /\ req[r].at = "generate" => item # "absent"
    /\ InTransaction(r) => c \in Calls \ keys
    /\ req[r].at = "github" => req[r].saw # "none"
    /\ req[r].at = "task" => c \in TaskCalls
    /\ PullRequestStage(r)
    /\ Holds(r) /\ c \in TaskCalls => Judged(r)
    /\ req[r].at = "item" => TouchesItem(c)
    /\ req[r].at = "commit" /\ c \in TaskCalls /\ TouchesItem(c) =>
           \E seen \in {Seen(c), Flow!Before(Seen(c))} :
               req[r].sees = Derived(TaskTransition[c.sig].derives, item, seen)
    /\ req[r].at = "commit" /\ c \in ItemCalls =>
           /\ item = ItemTransition[c.sig].from
           /\ req[r].sees = ItemTransition[c.sig].to

\* What two transactions cannot both hold.
Exclusive(q, r) ==
    LET c == req[q].call
        d == req[r].call
    IN
    /\ InTransaction(q) /\ InTransaction(r) => c # d
    /\ Holds(q) /\ Holds(r) /\ c \in TaskCalls /\ d \in TaskCalls => c.on # d.on
    /\ ~(req[q].at = "commit" /\ req[r].at = "commit" /\ TouchesItem(c) /\ TouchesItem(d))

LockInv ==
    /\ \A r \in Requests : Stage(r)
    /\ \A q, r \in Requests : q # r => Exclusive(q, r)
    /\ \A t \in reopened : task[t] \in Implemented

IInv == TypeOK /\ LockInv /\ KeyedOnce /\ OpenOnlyByPullRequest

AllDone(seen) == \A t \in Tasks : seen[t] \in TaskTerminal

\* A derivation asks of the tasks only whether all are terminal.
LEMMA DerivedSame ==
    ASSUME NEW d, NEW i, NEW s1, NEW s2, AllDone(s1) <=> AllDone(s2)
    PROVE  Derived(d, i, s1) = Derived(d, i, s2)
  BY DEF Derived, AllDone

\* What a transaction knows does not depend on the other transactions.
LEMMA StageFrame ==
    ASSUME NEW q, Stage(q), req'[q] = req[q], UNCHANGED dbVars
    PROVE  Stage(q)'
<1> DEFINE c == req[q].call
<1>1. Seen(c)' = Seen(c) /\ Flow!Before(Seen(c))' = Flow!Before(Seen(c))
  BY DEF Seen, Flow!Before, dbVars
<1>2. PullRequestStage(q)' <=> PullRequestStage(q)
  BY DEF PullRequestStage, dbVars
<1>3. Judged(q)' <=> Judged(q)
  BY DEF Judged, dbVars
<1> QED
  BY <1>1, <1>2, <1>3 DEF Stage, InTransaction, Holds, TouchesItem, dbVars

\* A step of r that writes no row leaves the other transactions as they are.
LEMMA LocalStep ==
    ASSUME NEW r \in Requests, LockInv, UNCHANGED dbVars,
           \A q \in Requests \ {r} : req'[q] = req[q],
           Stage(r)',
           \A q \in Requests \ {r} : Exclusive(q, r)' /\ Exclusive(r, q)'
    PROVE  LockInv'
<1>1. ASSUME NEW q \in Requests \ {r}
      PROVE  Stage(q)'
  <2>1. Stage(q)
    BY DEF LockInv
  <2> QED
    BY <2>1, <1>1, StageFrame
<1>2. ASSUME NEW p \in Requests \ {r}, NEW q \in Requests \ {r}, p # q
      PROVE  Exclusive(p, q)'
  BY <1>2 DEF LockInv, Exclusive, InTransaction, Holds
<1>3. \A t \in reopened' : task'[t] \in Implemented
  BY DEF LockInv, dbVars
<1> QED
  BY <1>1, <1>2, <1>3 DEF LockInv

\* A request that is between transactions holds nothing.
LEMMA OutsideExclusive ==
    ASSUME NEW q, NEW r, ~InTransaction(r)
    PROVE  Exclusive(q, r) /\ Exclusive(r, q)
  BY DEF Exclusive, InTransaction, Holds

LEMMA EndsQuietly ==
    ASSUME NEW r \in Requests, TypeOK, LockInv, UNCHANGED dbVars, Rollback(r)
    PROVE  LockInv'
<1>1. req'[r] = Idle /\ \A q \in Requests \ {r} : req'[q] = req[q]
  BY DEF TypeOK, Rollback
<1>2. Stage(r)' /\ ~InTransaction(r)'
  BY <1>1 DEF Stage, PullRequestStage, Idle, InTransaction, Holds
<1>3. \A q \in Requests : Exclusive(q, r)' /\ Exclusive(r, q)'
  BY <1>2 DEF Exclusive, InTransaction, Holds
<1> QED
  BY <1>1, <1>2, <1>3, LocalStep

LEMMA LockInvReceived ==
    ASSUME NEW r \in Requests, TypeOK, LockInv, Received(r)
    PROVE  LockInv'
<1>1. PICK c \in Calls \ keys : /\ ~KeyHeld(c)
                                /\ req' = [req EXCEPT ![r] = [Idle EXCEPT
                                      !.at = IF c \in ItemCalls THEN "item" ELSE "task",
                                      !.call = c]]
  BY DEF Received
<1>2. \A q \in Requests \ {r} : req'[q] = req[q]
  BY <1>1 DEF TypeOK
<1>3. /\ req'[r].call = c
      /\ c \in ItemCalls => req'[r].at = "item"
      /\ c \notin ItemCalls => req'[r].at = "task"
      /\ req'[r].saw = "none"
  BY <1>1 DEF TypeOK, Idle
<1>4. UNCHANGED dbVars
  BY DEF Received
<1>5. Stage(r)'
  <2>1. c \in ItemCalls => c \notin TaskCalls /\ TouchesItem(c)
    BY KindsDiffer DEF TouchesItem
  <2> QED
    BY <1>1, <1>3, <1>4, <2>1 DEF Stage, PullRequestStage, InTransaction, Holds,
                                  TouchesItem, dbVars, Calls
<1>6. ASSUME NEW q \in Requests \ {r}
      PROVE  Exclusive(q, r)' /\ Exclusive(r, q)'
  <2>1. InTransaction(q) => req[q].call # c
    BY <1>1 DEF KeyHeld
  <2>2. ~(req'[r].at = "commit") /\ (Holds(r)' => c \notin TaskCalls)
    BY <1>3, KindsDiffer DEF Holds
  <2> QED
    BY <1>2, <1>3, <1>6, <2>1, <2>2 DEF Exclusive, InTransaction, Holds
<1> QED
  BY <1>2, <1>4, <1>5, <1>6, LocalStep

LEMMA LockInvFound ==
    ASSUME NEW r \in Requests, TypeOK, LockInv, Found(r)
    PROVE  LockInv'
<1>1. PICK c \in TaskCalls : /\ c.sig = "submit_implementation" /\ task[c.on] # "absent"
                             /\ req' = [req EXCEPT ![r] = [Idle EXCEPT
                                   !.at = "github", !.call = c, !.saw = task[c.on]]]
  BY DEF Found
<1>2. \A q \in Requests \ {r} : req'[q] = req[q]
  BY <1>1 DEF TypeOK
<1>3. req'[r].at = "github" /\ req'[r].call = c /\ req'[r].saw = task[c.on]
  BY <1>1 DEF TypeOK, Idle
<1>4. UNCHANGED dbVars
  BY DEF Found
<1>5. task[c.on] \in TaskStatus /\ c \in Calls
  BY <1>1, TaskCallFields DEF TypeOK, Calls
<1>6. PullRequestStage(r)'
  BY <1>1, <1>3, <1>4 DEF PullRequestStage, Implemented, dbVars
<1>7. Stage(r)'
  BY <1>3, <1>5, <1>6 DEF Stage, InTransaction, Holds, TaskStatus
<1>8. ~InTransaction(r)'
  BY <1>3 DEF InTransaction
<1>9. ASSUME NEW q \in Requests \ {r}
      PROVE  Exclusive(q, r)' /\ Exclusive(r, q)'
  BY <1>8, <1>9 DEF Exclusive, InTransaction, Holds
<1> QED
  BY <1>2, <1>4, <1>7, <1>9, LocalStep

LEMMA LockInvFromGithub ==
    ASSUME NEW r \in Requests, TypeOK, LockInv, SubmitFromGithub(r)
    PROVE  LockInv'
<1> DEFINE c == req[r].call
<1>1. CASE c \in keys
  BY <1>1, EndsQuietly DEF SubmitFromGithub
<1>2. CASE c \notin keys
  <2>1. /\ req[r].at = "github" /\ ~KeyHeld(c) /\ UNCHANGED dbVars
        /\ req' = [req EXCEPT ![r].at = "task"]
    BY <1>2 DEF SubmitFromGithub
  <2>2. /\ req'[r].at = "task" /\ req'[r].call = c /\ req'[r].saw = req[r].saw
        /\ \A q \in Requests \ {r} : req'[q] = req[q]
    BY <2>1 DEF TypeOK
  <2>3. Stage(r) /\ PullRequestStage(r) /\ c \in TaskCalls
    BY <2>1 DEF LockInv, Stage, PullRequestStage
  <2>4. PullRequestStage(r)'
    BY <2>1, <2>2, <2>3 DEF PullRequestStage, dbVars
  <2>5. Stage(r)'
    BY <1>2, <2>1, <2>2, <2>3, <2>4 DEF Stage, InTransaction, Holds, Calls, dbVars
  <2>6. ASSUME NEW q \in Requests \ {r}
        PROVE  Exclusive(q, r)' /\ Exclusive(r, q)'
    <3>1. InTransaction(q) => req[q].call # c
      BY <2>1 DEF KeyHeld
    <3> QED
      BY <2>2, <2>6, <3>1 DEF Exclusive, InTransaction, Holds
  <2> QED
    BY <2>1, <2>2, <2>5, <2>6, LocalStep
<1> QED
  BY <1>1, <1>2

\* A pull request whose check succeeds has seen the task being implemented.
LEMMA PermittedIsJudged ==
    ASSUME NEW r \in Requests, TypeOK, PullRequestStage(r), Permitted(r)
    PROVE  Judged(r)
<1> DEFINE c == req[r].call
<1>1. CASE req[r].saw = "none"
  BY <1>1 DEF Permitted, Status, Judged
<1>2. CASE req[r].saw # "none"
  <2>1. req[r].saw \in TaskTransition["submit_implementation"].from
    BY <1>2 DEF Permitted, Status, PullRequestStage
  <2>2. req[r].saw = "implementing"
    BY <2>1 DEF TaskTransition, SubmitImplementation
  <2> QED
    BY <2>2 DEF Permitted, Judged
<1> QED
  BY <1>1, <1>2

LEMMA LockInvLockTask ==
    ASSUME NEW r \in Requests, TypeOK, LockInv, LockTask(r)
    PROVE  LockInv'
<1> DEFINE c == req[r].call
<1>1. CASE ~Permitted(r)
  BY <1>1, EndsQuietly DEF LockTask
<1>2. CASE Permitted(r)
  <2>1. /\ req'[r].call = c /\ req'[r].saw = req[r].saw
        /\ TaskTransition[c.sig].derives = "none" => req'[r].at = "commit"
        /\ TaskTransition[c.sig].derives # "none" => req'[r].at = "item"
        /\ \A q \in Requests \ {r} : req'[q] = req[q]
        /\ UNCHANGED dbVars
    BY <1>2 DEF LockTask, TypeOK
  <2>2. c \in TaskCalls /\ c \in Calls \ keys /\ c \notin ItemCalls /\ PullRequestStage(r)
    BY KindsDiffer DEF LockInv, Stage, LockTask, InTransaction
  <2>3. TouchesItem(c) <=> TaskTransition[c.sig].derives # "none"
    BY <2>2 DEF TouchesItem
  <2>4. Judged(r)'
    <3>1. Judged(r)
      BY <1>2, <2>2, PermittedIsJudged
    <3> QED
      BY <2>1, <3>1 DEF Judged, dbVars
  <2>5. PullRequestStage(r)'
    <3>1. TaskTransition["submit_implementation"].derives = "none"
      BY DEF TaskTransition, SubmitImplementation
    <3> QED
      BY <2>1, <2>2, <3>1 DEF PullRequestStage, dbVars
  <2>6. Stage(r)'
    BY <2>1, <2>2, <2>3, <2>4, <2>5 DEF Stage, InTransaction, Holds, dbVars, TouchesItem
  <2>7. ASSUME NEW q \in Requests \ {r}
        PROVE  Exclusive(q, r)' /\ Exclusive(r, q)'
    <3>1. Exclusive(q, r)
      BY <2>7 DEF LockInv
    <3>2. Holds(q) => req[q].call.on # c.on
      BY <2>7 DEF LockTask, TaskLocked, Holds
    <3>3. ~(req'[r].at = "commit" /\ TouchesItem(c))
      BY <2>1, <2>3
    <3> QED
      BY <2>1, <2>7, <3>1, <3>2, <3>3 DEF Exclusive, InTransaction, Holds, LockTask,
                                          TouchesItem
  <2> QED
    BY <2>1, <2>6, <2>7, LocalStep
<1> QED
  BY <1>1, <1>2

\* Whoever is granted the work item's row is alone with it.
LEMMA LockInvTakesItem ==
    ASSUME NEW r \in Requests, TypeOK, LockInv, UNCHANGED dbVars, ~ItemLocked,
           req[r].at = "item", NEW v,
           req' = [req EXCEPT ![r].at = "commit", ![r].sees = v],
           Stage(r)'
    PROVE  LockInv'
<1>1. /\ req'[r].call = req[r].call /\ req'[r].at = "commit"
      /\ \A q \in Requests \ {r} : req'[q] = req[q]
  BY DEF TypeOK
<1>2. ASSUME NEW q \in Requests \ {r}
      PROVE  Exclusive(q, r)' /\ Exclusive(r, q)'
  <2>1. Exclusive(q, r) /\ Exclusive(r, q)
    BY <1>2 DEF LockInv
  <2>2. ~(req[q].at = "commit" /\ TouchesItem(req[q].call))
    BY <1>2 DEF ItemLocked
  <2> QED
    BY <1>1, <1>2, <2>1, <2>2 DEF Exclusive, InTransaction, Holds, TouchesItem
<1> QED
  BY <1>1, <1>2, LocalStep

LEMMA LockInvDerivation ==
    ASSUME NEW r \in Requests, TypeOK, LockInv, LockItemForDerivation(r)
    PROVE  LockInv'
<1> DEFINE c == req[r].call
           v == Derived(TaskTransition[c.sig].derives, item, Seen(c))
<1>1. /\ req[r].at = "item" /\ c \in TaskCalls /\ ~ItemLocked /\ UNCHANGED dbVars
      /\ req' = [req EXCEPT ![r].at = "commit", ![r].sees = v]
  BY DEF LockItemForDerivation
<1>2. req'[r].call = c /\ req'[r].at = "commit" /\ req'[r].sees = v
  BY <1>1 DEF TypeOK
<1>3. Stage(r)
  BY DEF LockInv
<1>4. c \notin ItemCalls
  BY <1>1, KindsDiffer
<1>5. /\ c \in Calls \ keys /\ Judged(r) /\ PullRequestStage(r)
      /\ TouchesItem(c) /\ req[r].saw = "none"
  BY <1>1, <1>3 DEF Stage, PullRequestStage, InTransaction, Holds
<1>6. Judged(r)' /\ PullRequestStage(r)'
  <2>1. req'[r].saw = "none"
    BY <1>1, <1>5 DEF TypeOK
  <2> QED
    BY <1>1, <1>2, <1>5, <2>1 DEF Judged, PullRequestStage, dbVars
<1>7. v = Derived(TaskTransition[c.sig].derives, item', Seen(c)')
  BY <1>1, <1>2 DEF dbVars, Seen
<1>8. Stage(r)'
  BY <1>1, <1>2, <1>4, <1>5, <1>6, <1>7 DEF Stage, InTransaction, Holds, dbVars
<1> HIDE DEF v
<1> QED
  BY <1>1, <1>8, LockInvTakesItem

LEMMA LockInvLockItem ==
    ASSUME NEW r \in Requests, TypeOK, LockInv, LockItem(r)
    PROVE  LockInv'
<1> DEFINE c == req[r].call
           v == ItemTransition[c.sig].to
<1>1. CASE item # ItemTransition[c.sig].from
  BY <1>1, EndsQuietly DEF LockItem
<1>2. CASE item = ItemTransition[c.sig].from
  <2>1. /\ req[r].at = "item" /\ c \in ItemCalls /\ ~ItemLocked /\ UNCHANGED dbVars
        /\ req' = [req EXCEPT ![r].at = "commit", ![r].sees = v]
    BY <1>2 DEF LockItem
  <2>2. req'[r].call = c /\ req'[r].at = "commit" /\ req'[r].sees = v
    BY <2>1 DEF TypeOK
  <2>3. c \notin TaskCalls
    BY <2>1, KindsDiffer
  <2>4. c \in Calls \ keys /\ req[r].saw = "none"
    BY <2>1 DEF LockInv, Stage, PullRequestStage, InTransaction
  <2>5. PullRequestStage(r)'
    BY <2>1, <2>4 DEF PullRequestStage, TypeOK
  <2>6. Stage(r)'
    BY <1>2, <2>1, <2>2, <2>3, <2>4, <2>5 DEF Stage, InTransaction, Holds, dbVars
  <2> HIDE DEF v
  <2> QED
    BY <2>1, <2>6, LockInvTakesItem
<1> QED
  BY <1>1, <1>2

\* What a derivation has found holds of the tasks as they are now, or as they
\* were before the late pull requests.
Counted(q) == {AllDone(Seen(req[q].call)), AllDone(Flow!Before(Seen(req[q].call)))}

\* A commit ends the transaction of r; what is left to show is that the rows
\* it writes leave the others what they have checked.
LEMMA LockInvCommit ==
    ASSUME NEW r \in Requests, TypeOK, LockInv, req[r].at = "commit",
           NEW c, c = req[r].call, c \in Calls,
           keys' = keys \cup {c},
           \A q \in Requests \ {r} : req'[q] = req[q],
           ~InTransaction(r)', req'[r].at # "github", req'[r].saw = "none",
           req'[r].at = "generate" => item' # "absent",
           item # "absent" => item' # "absent",
           TouchesItem(c) \/ item' = item,
           \A q \in Requests \ {r} : Holds(q) /\ req[q].call \in TaskCalls =>
               /\ task'[req[q].call.on] = task[req[q].call.on]
               /\ assignee'[req[q].call.on] = assignee[req[q].call.on],
           \A t \in Tasks : task[t] \in Implemented => task'[t] \in Implemented,
           \A t \in reopened' : task'[t] \in Implemented,
           ~TouchesItem(c) => \A q \in Requests \ {r} :
               Holds(q) /\ req[q].call \in TaskCalls => Counted(q) \subseteq Counted(q)'
    PROVE  LockInv'
<1>1. Stage(r)'
  BY DEF Stage, PullRequestStage, InTransaction, Holds
<1>2. ASSUME NEW q \in Requests \ {r}
      PROVE  Stage(q)'
  <2> DEFINE d == req[q].call
             via == TaskTransition[d.sig].derives
  <2>1. Stage(q) /\ Exclusive(q, r)
    BY <1>2 DEF LockInv
  <2>2. req'[q] = req[q]
    BY <1>2
  <2>3. req[q].at = "generate" => item' # "absent"
    BY <2>1 DEF Stage
  <2>4. InTransaction(q) => d \in Calls \ keys'
    BY <2>1 DEF Stage, Exclusive, InTransaction
  <2>5. Holds(q) /\ d \in TaskCalls => Judged(q)'
    <3>1. SUFFICES ASSUME Holds(q), d \in TaskCalls
                   PROVE  Judged(q)'
      OBVIOUS
    <3>2. Judged(q)
      BY <2>1, <3>1 DEF Stage
    <3>3. task'[d.on] = task[d.on] /\ assignee'[d.on] = assignee[d.on]
      BY <1>2, <3>1
    <3> QED
      BY <2>2, <3>2, <3>3 DEF Judged
  <2>6. req[q].at = "commit" /\ d \in TaskCalls /\ TouchesItem(d) =>
            \E seen \in {Seen(d)', Flow!Before(Seen(d))'} :
                req[q].sees = Derived(via, item', seen)
    <3>1. SUFFICES ASSUME req[q].at = "commit", d \in TaskCalls, TouchesItem(d)
                   PROVE  \E seen \in {Seen(d)', Flow!Before(Seen(d))'} :
                              req[q].sees = Derived(via, item', seen)
      OBVIOUS
    <3>2. ~TouchesItem(c) /\ item' = item
      BY <2>1, <3>1 DEF Exclusive
    <3>3. PICK seen \in {Seen(d), Flow!Before(Seen(d))} :
              req[q].sees = Derived(via, item, seen)
      BY <2>1, <3>1 DEF Stage
    <3>4. AllDone(seen) \in Counted(q)'
      <4>1. AllDone(seen) \in Counted(q)
        BY <3>3 DEF Counted
      <4> QED
        BY <1>2, <3>1, <3>2, <4>1 DEF Holds
    <3>5. \E new \in {Seen(d)', Flow!Before(Seen(d))'} : AllDone(new) <=> AllDone(seen)
      BY <2>2, <3>4 DEF Counted, AllDone
    <3>6. PICK new \in {Seen(d)', Flow!Before(Seen(d))'} : AllDone(new) <=> AllDone(seen)
      BY <3>5
    <3>7. Derived(via, item, new) = Derived(via, item, seen)
      BY <3>6, DerivedSame
    <3> QED
      BY <3>2, <3>3, <3>6, <3>7
  <2>7. req[q].at = "commit" /\ d \in ItemCalls => item' = item
    BY <2>1 DEF Exclusive, TouchesItem
  <2>8. PullRequestStage(q)'
    <3>1. PullRequestStage(q)
      BY <2>1 DEF Stage
    <3> QED
      BY <2>2, <3>1, TaskCallFields DEF PullRequestStage
  <2> QED
    BY <2>1, <2>2, <2>3, <2>4, <2>5, <2>6, <2>7, <2>8 DEF Stage, InTransaction, Holds,
                                                          TouchesItem
<1>3. ASSUME NEW p \in Requests, NEW q \in Requests, p # q
      PROVE  Exclusive(p, q)'
  <2>1. CASE p = r \/ q = r
    BY <2>1 DEF Exclusive, InTransaction, Holds
  <2>2. CASE p # r /\ q # r
    BY <1>3, <2>2 DEF LockInv, Exclusive, InTransaction, Holds, TouchesItem
  <2> QED
    BY <2>1, <2>2
<1> QED
  BY <1>1, <1>2, <1>3 DEF LockInv

LEMMA LockInvCommitItem ==
    ASSUME NEW r \in Requests, TypeOK, LockInv, CommitItem(r)
    PROVE  LockInv'
<1> DEFINE c == req[r].call
<1>1. /\ req[r].at = "commit" /\ c \in ItemCalls /\ item' = req[r].sees
      /\ keys' = keys \cup {c} /\ UNCHANGED <<task, assignee, reopened>>
  BY DEF CommitItem
<1>2. \A q \in Requests \ {r} : req'[q] = req[q]
  BY DEF CommitItem, TypeOK
<1>3. req'[r].at \in {"idle", "generate"} /\ req'[r].saw = "none"
  BY DEF CommitItem, TypeOK, Idle
<1>4. item' # "absent"
  BY <1>1, ItemCallFields, ItemTable DEF LockInv, Stage
<1>5. TouchesItem(c)
  BY <1>1 DEF TouchesItem
<1>6. ~InTransaction(r)'
  BY <1>3 DEF InTransaction
<1>7. c \in Calls
  BY <1>1 DEF Calls
<1>8. /\ \A t \in Tasks : task[t] \in Implemented => task'[t] \in Implemented
      /\ \A t \in reopened' : task'[t] \in Implemented
  BY <1>1 DEF LockInv
<1> HIDE DEF c
<1> QED
  BY <1>1, <1>2, <1>3, <1>4, <1>5, <1>6, <1>7, <1>8, LockInvCommit DEF c

\* What a commit does to the task it was judged on.
LEMMA CommitMoves ==
    ASSUME NEW r \in Requests, TypeOK, LockInv, CommitTask(r),
           NEW c, c = req[r].call
    PROVE  /\ c \in TaskCalls \ keys /\ c \in Calls /\ c.on \in Tasks /\ c.sig \in Sigs
           /\ MayDecide(c, assignee[c.on])
           /\ \/ /\ task[c.on] \in TaskTransition[c.sig].from
                 /\ reopened' = reopened
              \/ /\ req[r].saw = "implementing" /\ c.sig = "submit_implementation"
                 /\ task[c.on] \in {"impl_review"} \cup TaskTerminal
                 /\ reopened' = reopened \cup ({c.on} \cap {t \in Tasks : task[t] \in TaskTerminal})
<1>1. /\ req[r].at = "commit" /\ c \in TaskCalls
      /\ reopened' = IF req[r].saw # "none" /\ task[c.on] \in TaskTerminal
                     THEN reopened \cup {c.on} ELSE reopened
  BY DEF CommitTask
<1>2. c.on \in Tasks /\ c.sig \in Sigs /\ c \in Calls
  BY <1>1, TaskCallFields DEF Calls
<1>3. c \notin keys /\ Judged(r) /\ PullRequestStage(r)
  BY <1>1 DEF LockInv, Stage, InTransaction, Holds
<1>4. CASE task[c.on] \in TaskTransition[c.sig].from
  BY <1>1, <1>2, <1>3, <1>4, Table DEF Judged
<1>5. CASE task[c.on] \notin TaskTransition[c.sig].from
  <2>1. req[r].saw = "implementing"
    BY <1>3, <1>5 DEF Judged
  <2>2. c.sig = "submit_implementation" /\ task[c.on] \in Implemented
    BY <1>3, <2>1 DEF PullRequestStage
  <2>3. task[c.on] \in {"impl_review"} \cup TaskTerminal
    BY <1>5, <2>2 DEF Implemented, TaskTransition, SubmitImplementation
  <2>4. reopened' = reopened \cup ({c.on} \cap {t \in Tasks : task[t] \in TaskTerminal})
    BY <1>1, <1>2, <2>1
  <2> QED
    BY <1>1, <1>2, <1>3, <2>1, <2>2, <2>3, <2>4 DEF Judged
<1> QED
  BY <1>4, <1>5

\* A task that is being implemented, or was, does not leave that stage.
LEMMA StaysImplemented ==
    ASSUME NEW s \in Sigs
    PROVE  TaskTransition[s].from \cap Implemented # {} => TaskTransition[s].to \in Implemented
  BY DEF Sigs, TaskTransition, TaskStatus, TaskTerminal, ApproveTask, RejectTask,
         AssignTask, SubmitPlan, ApprovePlan, RejectPlan, SubmitImplementation,
         ApproveReview, RejectReview, DeferTask, Implemented

\* A late pull request takes a task from what a derivation counts, but not
\* from what it counted before.
LEMMA CountedSame ==
    ASSUME NEW r \in Requests, TypeOK, LockInv, CommitTask(r), NEW c, c = req[r].call,
           ~TouchesItem(c), NEW q \in Requests \ {r}, req'[q] = req[q],
           NEW d, d = req[q].call, d.on \in Tasks, d.on # c.on
    PROVE  Counted(q) \subseteq Counted(q)'
<1> DEFINE to == TaskTransition[c.sig].to
           new == TaskTransition[d.sig].to
<1>1. /\ c \in TaskCalls /\ c.on \in Tasks /\ c.sig \in Sigs
      /\ \/ task[c.on] \in TaskTransition[c.sig].from /\ reopened' = reopened
         \/ /\ task[c.on] \in {"impl_review"} \cup TaskTerminal
            /\ reopened' = reopened \cup ({c.on} \cap {t \in Tasks : task[t] \in TaskTerminal})
  BY CommitMoves
<1>2. to \notin TaskTerminal /\ TaskTransition[c.sig].from \cap TaskTerminal = {}
  <2>1. TaskTransition[c.sig].derives = "none"
    BY <1>1 DEF TouchesItem
  <2> QED
    BY <1>1, <2>1, Table
<1> HIDE DEF to
<1>3. task' = [task EXCEPT ![c.on] = to]
  BY DEF CommitTask, to
<1>4. \A t \in Tasks : task'[t] = IF t = c.on THEN to ELSE task[t]
  BY <1>1, <1>3 DEF TypeOK
<1>5. \A t \in Tasks : /\ Seen(d)[t] = IF t = d.on THEN new ELSE task[t]
                       /\ Seen(d)'[t] = IF t = d.on THEN new ELSE task'[t]
  BY <1>1, <1>3 DEF Seen, TypeOK
<1>6. \A t \in Tasks : Flow!Before(Seen(d))[t] = IF t \in reopened THEN "done" ELSE Seen(d)[t]
  BY DEF Flow!Before
<1>7. \A t \in Tasks :
          Flow!Before(Seen(d))'[t] = IF t \in reopened' THEN "done" ELSE Seen(d)'[t]
  BY DEF Flow!Before
<1> HIDE DEF new
<1>10. ASSUME \/ AllDone(Seen(d)) <=> AllDone(Seen(d))'
              \/ AllDone(Seen(d)) <=> AllDone(Flow!Before(Seen(d)))',
              \/ AllDone(Flow!Before(Seen(d))) <=> AllDone(Seen(d))'
              \/ AllDone(Flow!Before(Seen(d))) <=> AllDone(Flow!Before(Seen(d)))'
       PROVE  Counted(q) \subseteq Counted(q)'
  <2>1. /\ AllDone(Seen(d)) \in BOOLEAN /\ AllDone(Flow!Before(Seen(d))) \in BOOLEAN
        /\ AllDone(Seen(d))' \in BOOLEAN /\ AllDone(Flow!Before(Seen(d)))' \in BOOLEAN
    BY DEF AllDone
  <2>2. /\ Counted(q) = {AllDone(Seen(d)), AllDone(Flow!Before(Seen(d)))}
        /\ Counted(q)' = {AllDone(Seen(d))', AllDone(Flow!Before(Seen(d)))'}
    BY DEF Counted, AllDone, Seen, Flow!Before
  <2> QED
    BY <1>10, <2>1, <2>2
<1>8. CASE task[c.on] \notin TaskTerminal
  <2>1. reopened' = reopened
    BY <1>1, <1>8
  <2>2. \A t \in Tasks : Seen(d)'[t] \in TaskTerminal <=> Seen(d)[t] \in TaskTerminal
    BY <1>2, <1>4, <1>5, <1>8
  <2>3. AllDone(Seen(d))' <=> AllDone(Seen(d))
    BY <2>2 DEF AllDone
  <2>4. AllDone(Flow!Before(Seen(d)))' <=> AllDone(Flow!Before(Seen(d)))
    BY <1>6, <1>7, <2>1, <2>2 DEF AllDone
  <2> QED
    BY <1>10, <2>3, <2>4
<1>9. CASE task[c.on] \in TaskTerminal
  <2>1. reopened' = reopened \cup {c.on}
    BY <1>1, <1>2, <1>9
  <2>2. AllDone(Flow!Before(Seen(d)))' <=> AllDone(Flow!Before(Seen(d)))
    <3>1. "done" \in TaskTerminal
      BY DEF TaskTerminal
    <3>2. ASSUME NEW t \in Tasks
          PROVE  Flow!Before(Seen(d))'[t] \in TaskTerminal
                     <=> Flow!Before(Seen(d))[t] \in TaskTerminal
      <4>1. CASE t = c.on
        BY <1>5, <1>6, <1>7, <1>9, <2>1, <3>1, <4>1
      <4>2. CASE t # c.on
        BY <1>4, <1>5, <1>6, <1>7, <2>1, <4>2
      <4> QED
        BY <4>1, <4>2
    <3> QED
      BY <3>2 DEF AllDone
  <2>3. ~AllDone(Seen(d))'
    <3>1. Seen(d)'[c.on] \notin TaskTerminal
      BY <1>1, <1>2, <1>4, <1>5
    <3> QED
      BY <1>1, <3>1 DEF AllDone
  <2>4. AllDone(Seen(d)) => AllDone(Flow!Before(Seen(d)))
    BY <1>6 DEF AllDone, TaskTerminal
  <2> QED
    BY <1>10, <2>2, <2>3, <2>4
<1> QED
  BY <1>8, <1>9

LEMMA LockInvCommitTask ==
    ASSUME NEW r \in Requests, TypeOK, LockInv, CommitTask(r)
    PROVE  LockInv'
<1> DEFINE c == req[r].call
           to == TaskTransition[c.sig].to
<1>1. /\ req[r].at = "commit" /\ c \in TaskCalls /\ keys' = keys \cup {c}
      /\ task' = [task EXCEPT ![c.on] = to]
      /\ assignee' = [assignee EXCEPT ![c.on] = IF c.sig = "assign_task" THEN c.pay ELSE @]
      /\ item' = IF TouchesItem(c) THEN req[r].sees ELSE item
      /\ Rollback(r)
  BY DEF CommitTask
<1>2. /\ \A q \in Requests \ {r} : req'[q] = req[q]
      /\ req'[r] = Idle
  BY <1>1 DEF Rollback, TypeOK
<1>3. /\ req'[r].at = "idle" /\ req'[r].saw = "none" /\ ~InTransaction(r)'
  BY <1>2 DEF InTransaction, Idle
<1>4. Stage(r)
  BY DEF LockInv
<1>5. c \in Calls /\ c.on \in Tasks /\ c.sig \in Sigs
  BY CommitMoves
<1>6. /\ \A t \in Tasks : task[t] \in Implemented => task'[t] \in Implemented
      /\ \A t \in reopened' : task'[t] \in Implemented
  <2>1. task[c.on] \in Implemented => to \in Implemented
    <3>1. CASE task[c.on] \in TaskTransition[c.sig].from
      BY <1>5, <3>1, StaysImplemented
    <3>2. CASE c.sig = "submit_implementation"
      BY <3>2 DEF TaskTransition, SubmitImplementation, Implemented
    <3> QED
      BY <3>1, <3>2, CommitMoves
  <2>2. \A t \in Tasks : task'[t] = IF t = c.on THEN to ELSE task[t]
    BY <1>1 DEF TypeOK
  <2>3. \A t \in reopened' : t \in Tasks /\ task[t] \in Implemented
    BY <1>5, CommitMoves DEF LockInv, TypeOK, Implemented
  <2> HIDE DEF to, c
  <2> QED
    BY <2>1, <2>2, <2>3
<1>7. item # "absent" => item' # "absent"
  BY <1>1, <1>4, DerivedStatus DEF Stage
<1>8. ASSUME NEW q \in Requests \ {r}, Holds(q), req[q].call \in TaskCalls
      PROVE  /\ req[q].call.on # c.on /\ req[q].call.on \in Tasks
             /\ task'[req[q].call.on] = task[req[q].call.on]
             /\ assignee'[req[q].call.on] = assignee[req[q].call.on]
  <2>1. Exclusive(q, r)
    BY <1>8 DEF LockInv
  <2>2. req[q].call.on # c.on
    BY <1>1, <1>8, <2>1 DEF Exclusive, Holds
  <2>3. req[q].call.on \in Tasks
    BY <1>8, TaskCallFields
  <2> QED
    BY <1>1, <2>2, <2>3 DEF TypeOK
<1>9. ASSUME NEW q \in Requests \ {r}, Holds(q), req[q].call \in TaskCalls, ~TouchesItem(c)
      PROVE  Counted(q) \subseteq Counted(q)'
  BY <1>2, <1>8, <1>9, CountedSame
<1>10. TouchesItem(c) \/ item' = item
  BY <1>1
<1> HIDE DEF c
<1> QED
  BY <1>1, <1>2, <1>3, <1>5, <1>6, <1>7, <1>8, <1>9, <1>10, LockInvCommit DEF c

LEMMA LockInvGenerate ==
    ASSUME NEW r \in Requests, TypeOK, LockInv, GenerateTasks(r)
    PROVE  LockInv'
<1>1. CASE task' = task
  <2>1. UNCHANGED dbVars /\ Rollback(r)
    BY <1>1 DEF GenerateTasks, dbVars
  <2> QED
    BY <2>1, EndsQuietly
<1>2. CASE task' # task
  <2>1. /\ \A t \in Tasks : task[t] = "absent"
        /\ UNCHANGED <<item, assignee, keys, reopened>>
        /\ Rollback(r)
    BY <1>2 DEF GenerateTasks
  <2>2. ASSUME NEW q \in Requests, req[q].saw = "implementing"
        PROVE  FALSE
    <3>1. req[q].call.on \in Tasks /\ task[req[q].call.on] \in Implemented
      BY <2>2, TaskCallFields DEF LockInv, Stage, PullRequestStage
    <3> QED
      BY <2>1, <3>1 DEF Implemented, TaskTerminal
  <2>3. ASSUME NEW q \in Requests, Holds(q), req[q].call \in TaskCalls
        PROVE  FALSE
    <3> DEFINE d == req[q].call
    <3>1. Judged(q) /\ d.on \in Tasks /\ d.sig \in Sigs
      BY <2>3, TaskCallFields DEF LockInv, Stage
    <3>2. task[d.on] \in TaskStatus
      BY <2>2, <3>1, Table DEF Judged
    <3> QED
      BY <2>1, <3>1, <3>2 DEF TaskStatus
  <2>4. /\ \A q \in Requests \ {r} : req'[q] = req[q]
        /\ req'[r].at = "idle" /\ req'[r].saw = "none"
    BY <2>1 DEF Rollback, TypeOK, Idle
  <2>5. ASSUME NEW q \in Requests
        PROVE  Stage(q)'
    <3>1. Stage(q)
      BY DEF LockInv
    <3>2. ~(Holds(q) /\ req[q].call \in TaskCalls)
      BY <2>3
    <3>3. PullRequestStage(q)'
      BY <2>2, <2>4, <3>1 DEF Stage, PullRequestStage
    <3> QED
      BY <2>1, <2>4, <3>1, <3>2, <3>3 DEF Stage, InTransaction, Holds, TouchesItem
  <2>6. ASSUME NEW p \in Requests, NEW q \in Requests, p # q
        PROVE  Exclusive(p, q)'
    BY <2>4, <2>6 DEF LockInv, Exclusive, InTransaction, Holds, TouchesItem
  <2>7. reopened' = {}
    BY <2>1 DEF LockInv, TypeOK, Implemented, TaskTerminal
  <2> QED
    BY <2>5, <2>6, <2>7 DEF LockInv
<1> QED
  BY <1>1, <1>2

(***************************************************************************)
(* The safety invariants                                                   *)
(***************************************************************************)

\* A committed task signal leaves the work item as its derivation says, of
\* the tasks as they are or as they were before the late pull requests.
LEMMA CommitDerives ==
    ASSUME NEW r \in Requests, TypeOK, LockInv, CommitTask(r),
           NEW c, c = req[r].call
    PROVE  /\ task' = Seen(c)
           /\ \E seen \in {task', Flow!Before(task')} :
                  item' = Derived(TaskTransition[c.sig].derives, item, seen)
<1>1. /\ req[r].at = "commit" /\ c \in TaskCalls
      /\ task' = Seen(c)
      /\ item' = IF TouchesItem(c) THEN req[r].sees ELSE item
  BY DEF CommitTask, Seen
<1>2. CASE TouchesItem(c)
  BY <1>1, <1>2 DEF LockInv, Stage
<1>3. CASE ~TouchesItem(c)
  <2>1. TaskTransition[c.sig].derives = "none"
    BY <1>1, <1>3 DEF TouchesItem
  <2> QED
    BY <1>1, <1>3, <2>1 DEF Derived
<1> QED
  BY <1>1, <1>2, <1>3

\* A work item is ready after a task signal only if every task is terminal
\* that no late pull request has reopened.
LEMMA ReadyCommitTask ==
    ASSUME NEW r \in Requests, TypeOK, LockInv, OpenOnlyByPullRequest, CommitTask(r)
    PROVE  OpenOnlyByPullRequest'
<1> DEFINE c == req[r].call
           tr == TaskTransition[c.sig]
<1>1. /\ c.on \in Tasks /\ c.sig \in Sigs /\ reopened \subseteq reopened'
      /\ task[c.on] \notin TaskTerminal \/ c.on \in reopened'
  BY CommitMoves, Table
<1>2. PICK seen \in {task', Flow!Before(task')} : item' = Derived(tr.derives, item, seen)
  BY CommitDerives
<1>3. task' = [task EXCEPT ![c.on] = tr.to]
  BY DEF CommitTask
<1> HIDE DEF c, tr
<1>4. CASE item \in {"ready", "closed"}
  <2>1. \A t \in Tasks \ reopened' : t # c.on
    BY <1>1, <1>4 DEF OpenOnlyByPullRequest
  <2> QED
    BY <1>1, <1>3, <1>4, <2>1 DEF OpenOnlyByPullRequest, TypeOK
<1>5. CASE item \notin {"ready", "closed"}
  <2>1. SUFFICES ASSUME item' \in {"ready", "closed"}, NEW t \in Tasks \ reopened'
                 PROVE  task'[t] \in TaskTerminal
    BY DEF OpenOnlyByPullRequest
  <2>2. seen[t] \in TaskTerminal
    BY <1>2, <1>5, <2>1 DEF Derived
  <2> QED
    BY <1>1, <1>2, <2>1, <2>2 DEF Flow!Before
<1> QED
  BY <1>4, <1>5

LEMMA IInvStep ==
    ASSUME IInv, TypeOK', [Next]_vars
    PROVE  IInv'
<1> USE DEF IInv
<1>1. CASE UNCHANGED vars
  <2>1. UNCHANGED dbVars /\ req' = req
    BY <1>1 DEF vars
  <2>2. \A q \in Requests : Stage(q)'
    BY <2>1, StageFrame DEF LockInv
  <2>3. LockInv'
    BY <2>1, <2>2 DEF LockInv, Exclusive, InTransaction, Holds, TouchesItem, dbVars
  <2> QED
    BY <2>1, <2>3 DEF dbVars, KeyedOnce, OpenOnlyByPullRequest
<1>2. ASSUME NEW r \in Requests, \/ Received(r) \/ Found(r) \/ SubmitFromGithub(r)
                                 \/ LockTask(r) \/ LockItemForDerivation(r)
                                 \/ LockItem(r) \/ Abort(r)
      PROVE  IInv'
  <2>1. UNCHANGED dbVars
    BY <1>2 DEF Received, Found, SubmitFromGithub, LockTask, LockItemForDerivation,
                LockItem, Abort
  <2>2. LockInv'
    BY <1>2, <2>1, LockInvReceived, LockInvFound, LockInvFromGithub, LockInvLockTask,
       LockInvDerivation, LockInvLockItem, EndsQuietly DEF Abort
  <2> QED
    BY <2>1, <2>2 DEF dbVars, KeyedOnce, OpenOnlyByPullRequest
<1>3. ASSUME NEW r \in Requests, CommitItem(r)
      PROVE  IInv'
  <2>1. LockInv'
    BY <1>3, LockInvCommitItem
  <2>2. KeyedOnce'
    BY <1>3 DEF CommitItem, KeyedOnce, LockInv, Stage, InTransaction
  <2>3. item' \in {"ready", "closed"} => item = "ready"
    BY <1>3, ItemCallFields, ItemTable DEF CommitItem, LockInv, Stage
  <2>4. OpenOnlyByPullRequest'
    BY <1>3, <2>3 DEF CommitItem, OpenOnlyByPullRequest
  <2> QED
    BY <2>1, <2>2, <2>4
<1>4. ASSUME NEW r \in Requests, CommitTask(r)
      PROVE  IInv'
  <2>1. LockInv'
    BY <1>4, LockInvCommitTask
  <2>2. KeyedOnce'
    BY <1>4 DEF CommitTask, KeyedOnce, LockInv, Stage, InTransaction
  <2> QED
    BY <1>4, <2>1, <2>2, ReadyCommitTask
<1>5. ASSUME NEW r \in Requests, GenerateTasks(r)
      PROVE  IInv'
  <2>1. LockInv'
    BY <1>5, LockInvGenerate
  <2>2. CASE task' = task
    BY <1>5, <2>1, <2>2 DEF GenerateTasks, OpenOnlyByPullRequest, KeyedOnce
  <2>3. CASE task' # task
    <3>1. PICK t \in Tasks : task[t] = "absent"
      BY <1>5, <2>3, TasksAssumption DEF GenerateTasks
    <3>2. t \notin reopened /\ task[t] \notin TaskTerminal
      BY <3>1 DEF LockInv, Implemented, TaskTerminal
    <3>3. item' \notin {"ready", "closed"}
      BY <1>5, <3>2 DEF GenerateTasks, OpenOnlyByPullRequest
    <3> QED
      BY <1>5, <2>1, <3>3 DEF GenerateTasks, OpenOnlyByPullRequest, KeyedOnce
  <2> QED
    BY <2>2, <2>3
<1> QED
  BY <1>1, <1>2, <1>3, <1>4, <1>5, SignalReceives DEF Next, Statement

THEOREM Inductive == Spec => []IInv
<1>1. Init /\ TypeOK => IInv
  BY DEF Init, Idle, IInv, LockInv, Stage, PullRequestStage, Exclusive, InTransaction, Holds,
         KeyedOnce, OpenOnlyByPullRequest
<1>2. IInv /\ TypeOK' /\ [Next]_vars => IInv'
  BY IInvStep
<1> QED
  BY <1>1, <1>2, TypeCorrect, PTL DEF Spec

\* No call takes effect twice, however its deliveries overlap.
THEOREM OncePerKey == Spec => []KeyedOnce
<1>1. IInv => KeyedOnce
  BY DEF IInv
<1> QED
  BY <1>1, Inductive, PTL

\* A work item is ready, or closed, only when all its tasks are terminal but
\* those that a late pull request reopened.
THEOREM ReadyMeansFinished == Spec => []OpenOnlyByPullRequest
<1>1. IInv => OpenOnlyByPullRequest
  BY DEF IInv
<1> QED
  BY <1>1, Inductive, PTL

\* The transaction that finishes the last task makes the work item ready.
THEOREM LastTaskDerivesReady == Spec => LastTaskMakesReady
<1> DEFINE A == item = "in_progress" /\ ~AllTerminal /\ AllTerminal' => item' = "ready"
<1>1. ASSUME IInv, [Next]_vars
      PROVE  [A]_vars
  <2>1. CASE task' = task
    BY <2>1 DEF AllTerminal
  <2>2. ASSUME NEW r \in Requests, CommitTask(r)
        PROVE  A
    <3> DEFINE c == req[r].call
               tr == TaskTransition[c.sig]
    <3>1. /\ c.on \in Tasks /\ c.sig \in Sigs
          /\ \/ task[c.on] \in tr.from
             \/ c.sig = "submit_implementation"
      BY <1>1, <2>2, CommitMoves DEF IInv
    <3>2. PICK seen \in {task', Flow!Before(task')} : item' = Derived(tr.derives, item, seen)
      BY <1>1, <2>2, CommitDerives DEF IInv
    <3>3. task' = [task EXCEPT ![c.on] = tr.to]
      BY <2>2 DEF CommitTask
    <3>4. CASE c.sig = "submit_implementation"
      <4>1. tr.to \notin TaskTerminal
        BY <3>4 DEF TaskTransition, SubmitImplementation, TaskTerminal
      <4> HIDE DEF c, tr
      <4> QED
        BY <1>1, <3>1, <3>3, <4>1 DEF AllTerminal, IInv, TypeOK
    <3>5. CASE task[c.on] \in tr.from
      <4>1. AllTerminal' => tr.derives = "W5"
        BY <1>1, <3>1, <3>3, <3>5, Table DEF AllTerminal, IInv, TypeOK
      <4>2. AllTerminal' => AllDone(seen)
        BY <3>2 DEF AllTerminal, AllDone, Flow!Before, TaskTerminal
      <4> HIDE DEF c, tr
      <4> QED
        BY <3>2, <4>1, <4>2 DEF Derived, AllDone
    <3> QED
      BY <3>1, <3>4, <3>5
  <2>3. ASSUME NEW r \in Requests, GenerateTasks(r)
        PROVE  A
    BY <2>3, TasksAssumption DEF GenerateTasks, AllTerminal, TaskTerminal
  <2>4. task' = task \/ \E r \in Requests : CommitTask(r) \/ GenerateTasks(r)
    BY <1>1, SignalReceives DEF Next, Statement, Received, Found, SubmitFromGithub, LockTask,
       LockItemForDerivation, LockItem, CommitItem, Abort, dbVars, vars
  <2> QED
    BY <2>1, <2>2, <2>3, <2>4
<1> QED
  BY <1>1, Inductive, PTL DEF Spec, LastTaskMakesReady

(***************************************************************************)
(* Status and record                                                       *)
(***************************************************************************)

\* Part of the record of a task that does not depend on its status.
Decided(t) ==
    /\ \A c \in Took("approve_plan", t) \cup Took("approve_review", t) :
           MayDecide(c, assignee[t])
    /\ \A sig \in {"assign_task", "approve_plan", "approve_review"} :
           \A c, d \in Took(sig, t) : c = d
    /\ Took("approve_plan", t) # {} =>
           /\ Took("approve_task", t) # {} /\ Took("assign_task", t) # {}
           /\ assignee[t] # "none"

\* A task that does not exist yet has no record, one that is deferred keeps
\* its own, and one that a pull request saw being implemented has a plan.
TaskRecord(t) ==
    /\ task[t] = "absent" => assignee[t] = "none" /\ \A s \in Sigs : Took(s, t) = {}
    /\ task[t] \notin {"absent", "deferred"} => Record(t)
    /\ task[t] = "deferred" => Decided(t)

HasPlan(r) ==
    req[r].saw = "implementing" => Took("approve_plan", req[r].call.on) # {}

Records ==
    /\ \A t \in Tasks : TaskRecord(t)
    /\ \A r \in Requests : HasPlan(r)

\* The record of a task is its own calls and nothing else.
LEMMA RecordFrame ==
    ASSUME NEW t \in Tasks, task'[t] = task[t], assignee'[t] = assignee[t],
           t \in reopened' <=> t \in reopened,
           \A s : Took(s, t)' = Took(s, t)
    PROVE  TaskRecord(t)' <=> TaskRecord(t)
<1>1. Record(t)' <=> Record(t)
  BY DEF Record
<1>2. Decided(t)' <=> Decided(t)
  BY DEF Decided
<1> QED
  BY <1>1, <1>2 DEF TaskRecord

\* Two approvals of one task's implementation by one role are one call.
LEMMA ReviewCall ==
    ASSUME NEW c \in TaskCalls, NEW d \in TaskCalls, NEW a,
           c.sig = "approve_review", d.sig = "approve_review", c.on = d.on,
           MayDecide(c, a), MayDecide(d, a)
    PROVE  c = d
<1>1. ASSUME NEW e \in TaskCalls, e.sig = "approve_review", MayDecide(e, a)
      PROVE  e = Call("approve_review", e.on, ApprovalMatrix("impl", a), "none")
  <2>1. ASSUME NEW t, NEW role, e = Call("approve_review", t, role, "none")
        PROVE  e = Call("approve_review", e.on, ApprovalMatrix("impl", a), "none")
    <3>1. e.on = t /\ e.role = role
      BY <2>1 DEF Call
    <3>2. role = ApprovalMatrix("impl", a)
      BY <1>1, <3>1 DEF MayDecide, ImplReview
    <3> QED
      BY <2>1, <3>1, <3>2
  <2>2. ASSUME NEW s, NEW t, NEW role, NEW p, s # "approve_review", e = Call(s, t, role, p)
        PROVE  FALSE
    BY <1>1, <2>2 DEF Call
  <2>3. \/ \E t \in Tasks, role \in Roles : e = Call("approve_review", t, role, "none")
        \/ \E s \in Sigs \ {"approve_review"} : \E t, role, p : e = Call(s, t, role, p)
    BY DEF TaskCalls, Sigs
  <2> QED
    BY <2>1, <2>2, <2>3
<1> QED
  BY <1>1

\* One signal on one task: the status moves with the record.
LEMMA RecordMoves ==
    ASSUME NEW c \in TaskCalls, NEW t \in Tasks, c.on = t, c.sig \in Sigs,
           TypeOK, Record(t), t \in reopened => task[t] \in Implemented,
           MayDecide(c, assignee[t]),
           task[t] \in TaskTransition[c.sig].from,
           \A s : c.sig # s => Took(s, t)' = Took(s, t),
           Took(c.sig, t)' = Took(c.sig, t) \cup {c},
           task'[t] = TaskTransition[c.sig].to,
           assignee'[t] = IF c.sig = "assign_task" THEN c.pay ELSE assignee[t],
           reopened' = reopened
    PROVE  TaskRecord(t)'
<1> USE DEF Record
<1>2. CASE c.sig = "approve_task"
  <2>1. task[t] = "proposed" /\ task'[t] = "assigning"
    BY <1>2 DEF TaskTransition, ApproveTask
  <2> QED
    BY <1>2, <2>1 DEF TaskRecord
<1>3. CASE c.sig \in {"reject_task", "submit_plan", "reject_plan",
                      "submit_implementation", "reject_review"}
  <2>1. /\ Took("approve_task", t)' = Took("approve_task", t)
        /\ Took("assign_task", t)' = Took("assign_task", t)
        /\ Took("approve_plan", t)' = Took("approve_plan", t)
        /\ Took("approve_review", t)' = Took("approve_review", t)
    BY <1>3
  <2>2. assignee'[t] = assignee[t]
    BY <1>3
  <2>3. /\ task'[t] = "proposed" <=> task[t] = "proposed"
        /\ task'[t] = "assigning" <=> task[t] = "assigning"
        /\ task'[t] \in {"implementing", "impl_review"}
               <=> task[t] \in {"implementing", "impl_review"}
        /\ task'[t] \notin {"done", "absent", "deferred"} /\ task[t] # "done"
    BY <1>3 DEF TaskTransition, RejectTask, SubmitPlan, RejectPlan,
                SubmitImplementation, RejectReview
  <2>4. Record(t)'
    BY <2>1, <2>2, <2>3
  <2> QED
    BY <2>3, <2>4 DEF TaskRecord
<1>4. CASE c.sig = "assign_task"
  <2>1. assignee'[t] # "none"
    BY <1>4, AssignPayload DEF Assignees
  <2>2. task[t] = "assigning" /\ task'[t] = "planning"
    BY <1>4 DEF TaskTransition, AssignTask
  <2>3. /\ Took("approve_task", t)' = Took("approve_task", t)
        /\ Took("approve_plan", t)' = Took("approve_plan", t)
        /\ Took("approve_review", t)' = Took("approve_review", t)
        /\ Took("assign_task", t)' = Took("assign_task", t) \cup {c}
    BY <1>4
  <2>4. /\ Took("approve_task", t) # {} /\ Took("assign_task", t) = {}
        /\ Took("approve_plan", t) = {} /\ Took("approve_review", t) = {}
    BY <2>2 DEF Implemented, TaskTerminal
  <2>5. Record(t)'
    BY <1>4, <2>1, <2>2, <2>3, <2>4
  <2> QED
    BY <2>2, <2>5 DEF TaskRecord
<1>5. CASE c.sig = "approve_plan"
  <2>1. task[t] = "plan_review" /\ task'[t] = "implementing"
    BY <1>5 DEF TaskTransition, ApprovePlan
  <2>2. Record(t)'
    BY <1>5, <2>1
  <2> QED
    BY <2>1, <2>2 DEF TaskRecord
<1>6. CASE c.sig = "approve_review"
  <2>1. task[t] = "impl_review" /\ task'[t] = "done"
    BY <1>6 DEF TaskTransition, ApproveReview
  <2>2. \A d \in Took("approve_review", t) : d = c
    <3>1. ASSUME NEW d \in Took("approve_review", t)
          PROVE  d = c
      <4>1. d \in Calls /\ d.on = t /\ d.sig = "approve_review"
        BY DEF Took, TypeOK
      <4>2. d \in TaskCalls
        BY <4>1, ItemCallFields DEF Calls
      <4>3. MayDecide(d, assignee[t])
        OBVIOUS
      <4> QED
        BY <1>6, <4>1, <4>2, <4>3, ReviewCall
    <3> QED
      BY <3>1
  <2>3. assignee'[t] = assignee[t] /\ Took("approve_plan", t)' = Took("approve_plan", t)
        /\ Took("approve_task", t)' = Took("approve_task", t)
        /\ Took("assign_task", t)' = Took("assign_task", t)
    BY <1>6
  <2>4. Took("approve_review", t)' = {c}
    BY <1>6, <2>2
  <2>5. Record(t)'
    BY <2>1, <2>3, <2>4
  <2> QED
    BY <2>1, <2>5 DEF TaskRecord
<1>7. CASE c.sig = "defer_task"
  <2>1. task'[t] = "deferred"
    BY <1>7 DEF TaskTransition, DeferTask
  <2>2. /\ Took("approve_task", t)' = Took("approve_task", t)
        /\ Took("assign_task", t)' = Took("assign_task", t)
        /\ Took("approve_plan", t)' = Took("approve_plan", t)
        /\ Took("approve_review", t)' = Took("approve_review", t)
        /\ assignee'[t] = assignee[t]
    BY <1>7
  <2>3. Decided(t)'
    BY <2>2 DEF Decided
  <2> QED
    BY <2>1, <2>3 DEF TaskRecord
<1> QED
  BY <1>2, <1>3, <1>4, <1>5, <1>6, <1>7 DEF Sigs

\* A late pull request takes a task back to its review, with the record the
\* task has.
LEMMA RecordLate ==
    ASSUME NEW t \in Tasks, TaskRecord(t), Took("approve_plan", t) # {},
           task[t] \in {"impl_review"} \cup TaskTerminal,
           \A s : s # "submit_implementation" => Took(s, t)' = Took(s, t),
           task'[t] = "impl_review", assignee'[t] = assignee[t],
           task[t] \in TaskTerminal => t \in reopened', reopened \subseteq reopened'
    PROVE  TaskRecord(t)'
<1>1. /\ Took("approve_task", t)' = Took("approve_task", t)
      /\ Took("assign_task", t)' = Took("assign_task", t)
      /\ Took("approve_plan", t)' = Took("approve_plan", t)
      /\ Took("approve_review", t)' = Took("approve_review", t)
  OBVIOUS
<1>2. Record(t)'
  <2>1. CASE task[t] = "deferred"
    <3>1. Decided(t)
      BY <2>1 DEF TaskRecord
    <3> QED
      BY <1>1, <2>1, <3>1 DEF Decided, Record, TaskTerminal
  <2>2. CASE task[t] \in {"impl_review", "done"}
    <3>1. Record(t)
      BY <2>2 DEF TaskRecord
    <3> QED
      BY <1>1, <2>2, <3>1 DEF Record, TaskTerminal
  <2> QED
    BY <2>1, <2>2 DEF TaskTerminal
<1> QED
  BY <1>2 DEF TaskRecord

\* A pull request that has seen a task being implemented finds its plan
\* approved until it is done, whatever becomes of the task.
LEMMA PlanStays ==
    ASSUME NEW r \in Requests, Records, req'[r].saw \in {"none", req[r].saw},
           req'[r].saw # "none" => req'[r].call = req[r].call, keys \subseteq keys'
    PROVE  HasPlan(r)'
<1>1. CASE req'[r].saw = "implementing"
  <2>1. req[r].saw = "implementing" /\ req'[r].call = req[r].call
    BY <1>1
  <2>2. PICK d \in Took("approve_plan", req[r].call.on) : TRUE
    BY <2>1 DEF Records, HasPlan
  <2>3. d \in keys' /\ d.sig = "approve_plan" /\ d.on = req'[r].call.on
    BY <2>1, <2>2 DEF Took
  <2> QED
    BY <2>3 DEF HasPlan, Took
<1>2. CASE req'[r].saw # "implementing"
  BY <1>2 DEF HasPlan
<1> QED
  BY <1>1, <1>2

LEMMA RecordsCommitTask ==
    ASSUME NEW r \in Requests, TypeOK, LockInv, Records, CommitTask(r),
           NEW c, c = req[r].call
    PROVE  Records'
<1>1. /\ c \in TaskCalls \ keys /\ c.on \in Tasks /\ c.sig \in Sigs
      /\ MayDecide(c, assignee[c.on])
      /\ \/ task[c.on] \in TaskTransition[c.sig].from /\ reopened' = reopened
         \/ /\ req[r].saw = "implementing" /\ c.sig = "submit_implementation"
            /\ task[c.on] \in {"impl_review"} \cup TaskTerminal
            /\ reopened' = reopened \cup ({c.on} \cap {t \in Tasks : task[t] \in TaskTerminal})
  BY CommitMoves
<1>2. /\ assignee' = [assignee EXCEPT ![c.on] = IF c.sig = "assign_task" THEN c.pay ELSE @]
      /\ keys' = keys \cup {c}
      /\ task' = [task EXCEPT ![c.on] = TaskTransition[c.sig].to]
      /\ req' = [req EXCEPT ![r] = Idle]
  BY DEF CommitTask, Rollback
<1>3. ASSUME NEW t \in Tasks, NEW s
      PROVE  /\ ~(c.sig = s /\ c.on = t) => Took(s, t)' = Took(s, t)
             /\ c.sig = s /\ c.on = t => Took(s, t)' = Took(s, t) \cup {c}
  BY <1>2 DEF Took
<1>4. ASSUME NEW t \in Tasks, t # c.on
      PROVE  TaskRecord(t)'
  <2>1. task'[t] = task[t] /\ assignee'[t] = assignee[t]
    BY <1>1, <1>2, <1>4 DEF TypeOK
  <2>2. \A s : Took(s, t)' = Took(s, t)
    BY <1>3, <1>4
  <2>3. t \in reopened' <=> t \in reopened
    BY <1>1, <1>4
  <2> QED
    BY <2>1, <2>2, <2>3, RecordFrame DEF Records
<1>5. TaskRecord(c.on)'
  <2>1. task'[c.on] = TaskTransition[c.sig].to
    BY <1>1, <1>2 DEF TypeOK
  <2>2. assignee'[c.on] = IF c.sig = "assign_task" THEN c.pay ELSE assignee[c.on]
    BY <1>1, <1>2 DEF TypeOK
  <2>3. /\ \A s : c.sig # s => Took(s, c.on)' = Took(s, c.on)
        /\ Took(c.sig, c.on)' = Took(c.sig, c.on) \cup {c}
    BY <1>1, <1>3
  <2>4. CASE task[c.on] \in TaskTransition[c.sig].from /\ reopened' = reopened
    <3>1. task[c.on] \notin {"absent", "deferred"}
      BY <1>1, <2>4, Table DEF TaskStatus, TaskTerminal
    <3>2. Record(c.on)
      BY <1>1, <3>1 DEF Records, TaskRecord
    <3> QED
      BY <1>1, <2>1, <2>2, <2>3, <2>4, <3>2, RecordMoves DEF LockInv
  <2>5. CASE /\ req[r].saw = "implementing" /\ c.sig = "submit_implementation"
             /\ task[c.on] \in {"impl_review"} \cup TaskTerminal
             /\ reopened' = reopened \cup ({c.on} \cap {t \in Tasks : task[t] \in TaskTerminal})
    <3>1. Took("approve_plan", c.on) # {} /\ TaskRecord(c.on)
      BY <1>1, <2>5 DEF Records, HasPlan
    <3>2. task'[c.on] = "impl_review" /\ assignee'[c.on] = assignee[c.on]
      BY <2>1, <2>2, <2>5 DEF TaskTransition, SubmitImplementation
    <3> QED
      BY <1>1, <2>3, <2>5, <3>1, <3>2, RecordLate
  <2> QED
    BY <1>1, <2>4, <2>5
<1>6. \A q \in Requests : req'[q].saw \in {"none", req[q].saw}
                          /\ (req'[q].saw # "none" => req'[q].call = req[q].call)
  BY <1>2 DEF TypeOK, Idle
<1> QED
  BY <1>2, <1>4, <1>5, <1>6, PlanStays DEF Records

\* A step that writes no row leaves the records alone.
LEMMA RecordsQuiet ==
    ASSUME Records, UNCHANGED dbVars,
           \A r \in Requests : HasPlan(r)'
    PROVE  Records'
<1>1. \A t \in Tasks : \A s : Took(s, t)' = Took(s, t)
  BY DEF dbVars, Took
<1> QED
  BY <1>1, RecordFrame DEF dbVars, Records

LEMMA RecordsStep ==
    ASSUME IInv, Records, [Next]_vars
    PROVE  Records'
<1> USE DEF IInv
<1>1. ASSUME NEW r \in Requests, CommitItem(r)
      PROVE  Records'
  <2>1. \A t \in Tasks : \A s : Took(s, t)' = Took(s, t)
    BY <1>1, ItemCallFields, ItemAssumption DEF CommitItem, Took
  <2>2. \A q \in Requests : req'[q].saw \in {"none", req[q].saw}
                            /\ (req'[q].saw # "none" => req'[q].call = req[q].call)
    BY <1>1 DEF CommitItem, TypeOK, Idle
  <2>3. keys \subseteq keys' /\ UNCHANGED <<task, assignee, reopened>>
    BY <1>1 DEF CommitItem
  <2>4. \A t \in Tasks : TaskRecord(t)'
    BY <2>1, <2>3, RecordFrame DEF Records
  <2> QED
    BY <2>2, <2>3, <2>4, PlanStays DEF Records
<1>2. ASSUME NEW r \in Requests, GenerateTasks(r)
      PROVE  Records'
  <2>1. \A t \in Tasks : \A s : Took(s, t)' = Took(s, t)
    BY <1>2 DEF GenerateTasks, Took
  <2>2. \A q \in Requests : req'[q].saw \in {"none", req[q].saw}
                            /\ (req'[q].saw # "none" => req'[q].call = req[q].call)
    BY <1>2 DEF GenerateTasks, Rollback, TypeOK, Idle
  <2>3. \A t \in Tasks : TaskRecord(t)'
    <3>1. CASE task' = task
      BY <1>2, <2>1, <3>1, RecordFrame DEF GenerateTasks, Records
    <3>2. CASE task' # task
      <4>1. ASSUME NEW t \in Tasks
            PROVE  /\ task[t] = "absent" /\ task'[t] = "proposed"
                   /\ assignee'[t] = "none" /\ \A s \in Sigs : Took(s, t)' = {}
        BY <1>2, <2>1, <3>2 DEF GenerateTasks, Records, TaskRecord
      <4>2. ASSUME NEW t \in Tasks
            PROVE  Record(t)'
        BY <4>1 DEF Record, Sigs
      <4> QED
        BY <4>1, <4>2 DEF TaskRecord
    <3> QED
      BY <3>1, <3>2
  <2> QED
    BY <1>2, <2>2, <2>3, PlanStays DEF GenerateTasks, Records
<1>3. ASSUME NEW r \in Requests, Found(r)
      PROVE  Records'
  <2>1. PICK c \in TaskCalls : /\ task[c.on] # "absent"
                               /\ req' = [req EXCEPT ![r] = [Idle EXCEPT
                                     !.at = "github", !.call = c, !.saw = task[c.on]]]
    BY <1>3 DEF Found
  <2>2. UNCHANGED dbVars
    BY <1>3 DEF Found
  <2>3. ASSUME task[c.on] = "implementing"
        PROVE  Took("approve_plan", c.on)' # {}
    <3>1. Record(c.on)
      BY <2>3, TaskCallFields DEF Records, TaskRecord
    <3> QED
      BY <2>2, <2>3, <3>1 DEF Record, Took, dbVars
  <2>4. HasPlan(r)'
    <3>1. req'[r].saw = task[c.on] /\ req'[r].call = c
      BY <2>1 DEF TypeOK, Idle
    <3> QED
      BY <2>3, <3>1 DEF HasPlan, Took
  <2>5. ASSUME NEW q \in Requests \ {r}
        PROVE  HasPlan(q)'
    <3>1. req'[q] = req[q]
      BY <2>1 DEF TypeOK
    <3> QED
      BY <2>2, <3>1, PlanStays DEF dbVars
  <2> QED
    BY <2>2, <2>4, <2>5, RecordsQuiet
<1>4. CASE /\ UNCHANGED dbVars
           /\ \A q \in Requests : req'[q].saw \in {"none", req[q].saw}
                                  /\ (req'[q].saw # "none" => req'[q].call = req[q].call)
  BY <1>4, PlanStays, RecordsQuiet DEF dbVars
<1>5. ASSUME NEW r \in Requests, \/ Received(r) \/ SubmitFromGithub(r) \/ LockTask(r)
                                 \/ LockItemForDerivation(r) \/ LockItem(r) \/ Abort(r)
      PROVE  /\ UNCHANGED dbVars
             /\ \A q \in Requests : req'[q].saw \in {"none", req[q].saw}
                                    /\ (req'[q].saw # "none" => req'[q].call = req[q].call)
  <2>1. UNCHANGED dbVars
    BY <1>5 DEF Received, SubmitFromGithub, LockTask, LockItemForDerivation, LockItem, Abort
  <2>2. \A q \in Requests \ {r} : req'[q] = req[q]
    BY <1>5 DEF Received, SubmitFromGithub, LockTask, LockItemForDerivation, LockItem, Abort,
                Rollback, TypeOK
  <2>3. \/ req'[r].saw = "none"
        \/ req'[r].saw = req[r].saw /\ req'[r].call = req[r].call
    <3>1. CASE Received(r)
      BY <3>1 DEF Received, Idle, TypeOK
    <3>2. CASE SubmitFromGithub(r)
      BY <3>2 DEF SubmitFromGithub, Rollback, Idle, TypeOK
    <3>3. CASE LockTask(r)
      BY <3>3 DEF LockTask, Rollback, Idle, TypeOK
    <3>4. CASE LockItemForDerivation(r)
      BY <3>4 DEF LockItemForDerivation, TypeOK
    <3>5. CASE LockItem(r)
      BY <3>5 DEF LockItem, Rollback, Idle, TypeOK
    <3>6. CASE Abort(r)
      BY <3>6 DEF Abort, Rollback, Idle, TypeOK
    <3> QED
      BY <1>5, <3>1, <3>2, <3>3, <3>4, <3>5, <3>6
  <2> QED
    BY <2>1, <2>2, <2>3
<1>6. CASE UNCHANGED vars
  BY <1>4, <1>6 DEF vars
<1> QED
  BY <1>1, <1>2, <1>3, <1>4, <1>5, <1>6, SignalReceives, RecordsCommitTask DEF Next, Statement

THEOREM RecordsInductive == Spec => [](IInv /\ Records)
<1>1. Init => Records
  BY DEF Init, Idle, Records, TaskRecord, HasPlan, Took
<1>2. IInv /\ Records /\ [Next]_vars => Records'
  BY RecordsStep
<1> QED
  BY <1>1, <1>2, Inductive, PTL DEF Spec

\* Status and record agree in every reachable state.
THEOREM RecordsAgree == Spec => []StatusHasItsRecord
<1>1. Records => StatusHasItsRecord
  BY DEF Records, TaskRecord, StatusHasItsRecord
<1> QED
  BY <1>1, RecordsInductive, PTL

(***************************************************************************)
(* The transactions implement the signals                                  *)
(***************************************************************************)

\* The instance of the table in the abstract specification is this table.
LEMMA SameTable ==
    /\ Flow!ItemCalls = ItemCalls
    /\ Flow!TaskCalls = TaskCalls
    /\ Flow!ItemTransition = ItemTransition
    /\ Flow!TaskTransition = TaskTransition
    /\ \A c, a : Flow!MayDecide(c, a) <=> MayDecide(c, a)
    /\ \A d, i, s : Flow!Derived(d, i, s) = Derived(d, i, s)
<1>1. Flow!ItemCalls = ItemCalls
  BY DEF Flow!ItemCalls, ItemCalls, Flow!UnlockCall, UnlockCall, Flow!Call, Call
<1>2. Flow!TaskCalls = TaskCalls
  BY DEF Flow!TaskCalls, TaskCalls, Flow!Call, Call, Flow!Assignees, Assignees,
         Flow!Roles, Roles
<1>3. Flow!ItemTransition = ItemTransition
  BY DEF Flow!ItemTransition, ItemTransition, Flow!OpenWorkItem, OpenWorkItem,
         Flow!LockWorkItem, LockWorkItem, Flow!UnlockWorkItem, UnlockWorkItem,
         Flow!CloseWorkItem, CloseWorkItem
<1>4. Flow!TaskTransition = TaskTransition
  BY DEF Flow!TaskTransition, TaskTransition, Flow!ApproveTask, ApproveTask,
         Flow!RejectTask, RejectTask, Flow!AssignTask, AssignTask, Flow!SubmitPlan,
         SubmitPlan, Flow!ApprovePlan, ApprovePlan, Flow!RejectPlan, RejectPlan,
         Flow!SubmitImplementation, SubmitImplementation, Flow!ApproveReview,
         ApproveReview, Flow!RejectReview, RejectReview, Flow!DeferTask, DeferTask,
         Flow!TaskStatus, TaskStatus, Flow!TaskTerminal, TaskTerminal
<1>5. \A c, a : Flow!MayDecide(c, a) <=> MayDecide(c, a)
  BY DEF Flow!MayDecide, MayDecide, Flow!PlanReview, PlanReview, Flow!ImplReview,
         ImplReview, Flow!ApprovalMatrix, ApprovalMatrix
<1>6. \A d, i, s : Flow!Derived(d, i, s) = Derived(d, i, s)
  BY DEF Flow!Derived, Derived, Flow!TaskTerminal, TaskTerminal
<1> QED
  BY <1>1, <1>2, <1>3, <1>4, <1>5, <1>6

\* Concurrent transactions add up to a sequence of signals: a commit is the
\* signal, or the late submission, the creation of the seeds is Generate, all
\* else stutters.
THEOREM Refinement == Spec => Serializable
<1>1. Init => Flow!Init
  BY DEF Init, Flow!Init
<1>2. ASSUME IInv, Records, [Next]_vars
      PROVE  [Flow!Next]_(Flow!vars)
  <2> USE <1>2 DEF IInv
  <2>1. ASSUME NEW r \in Requests, CommitItem(r)
        PROVE  Flow!Next
    <3> DEFINE c == req[r].call
    <3>1. /\ c \in ItemCalls /\ c \notin keys
          /\ item = ItemTransition[c.sig].from
          /\ item' = ItemTransition[c.sig].to
          /\ keys' = keys \cup {c}
          /\ UNCHANGED <<task, assignee, reopened>>
      BY <2>1 DEF CommitItem, LockInv, Stage, InTransaction
    <3>2. Flow!ItemSignal(c)
      BY <3>1, SameTable DEF Flow!ItemSignal, Flow!Takes
    <3> QED
      BY <3>1, <3>2, SameTable DEF Flow!Next
  <2>2. ASSUME NEW r \in Requests, CommitTask(r)
        PROVE  Flow!Next
    <3> DEFINE c == req[r].call
               tr == TaskTransition[c.sig]
    <3>1. /\ c \in TaskCalls /\ c \notin keys /\ MayDecide(c, assignee[c.on])
          /\ task' = [task EXCEPT ![c.on] = tr.to]
          /\ assignee' = [assignee EXCEPT ![c.on] =
                              IF c.sig = "assign_task" THEN c.pay ELSE @]
          /\ keys' = keys \cup {c}
      BY <2>2, CommitMoves DEF CommitTask
    <3>2. Flow!Takes(c)
      BY <3>1 DEF Flow!Takes
    <3>3. CASE task[c.on] \in tr.from /\ reopened' = reopened
      <4>1. \E seen \in {task', Flow!Before(task')} : item' = Derived(tr.derives, item, seen)
        BY <2>2, CommitDerives
      <4>2. Flow!TaskSignal(c)
        BY <3>1, <3>2, <3>3, <4>1, SameTable DEF Flow!TaskSignal
      <4> QED
        BY <3>1, <4>2, SameTable DEF Flow!Next
    <3>4. CASE /\ req[r].saw = "implementing" /\ c.sig = "submit_implementation"
               /\ task[c.on] \in {"impl_review"} \cup TaskTerminal
               /\ reopened' = reopened \cup ({c.on} \cap {t \in Tasks : task[t] \in TaskTerminal})
      <4>1. \E d \in keys : d.sig = "approve_plan" /\ d.on = c.on
        BY <3>4 DEF Records, HasPlan, Took
      <4>2. tr.to = "impl_review" /\ tr.derives = "none"
        BY <3>4 DEF TaskTransition, SubmitImplementation
      <4>3. item' = item
        <5>1. PICK seen : item' = Derived(tr.derives, item, seen)
          BY <2>2, CommitDerives
        <5> QED
          BY <4>2, <5>1 DEF Derived
      <4>4. assignee' = assignee
        BY <3>1, <3>4 DEF TypeOK
      <4>5. Flow!LateSubmission(c)
        BY <3>1, <3>2, <3>4, <4>1, <4>2, <4>3, <4>4 DEF Flow!LateSubmission,
           Flow!TaskTerminal, TaskTerminal
      <4> QED
        BY <3>1, <4>5, SameTable DEF Flow!Next
    <3> QED
      BY <2>2, <3>3, <3>4, CommitMoves
  <2>3. ASSUME NEW r \in Requests, GenerateTasks(r)
        PROVE  [Flow!Next]_(Flow!vars)
    <3>1. item # "absent"
      BY <2>3 DEF GenerateTasks, LockInv, Stage
    <3> QED
      BY <2>3, <3>1 DEF GenerateTasks, Flow!Next, Flow!Generate, Flow!vars
  <2>4. CASE UNCHANGED dbVars
    BY <2>4 DEF dbVars, Flow!vars
  <2>5. \/ UNCHANGED dbVars
        \/ \E r \in Requests : CommitItem(r) \/ CommitTask(r) \/ GenerateTasks(r)
    BY SignalReceives DEF Next, Statement, Received, Found, SubmitFromGithub, LockTask,
       LockItemForDerivation, LockItem, Abort, vars
  <2> QED
    BY <2>1, <2>2, <2>3, <2>4, <2>5
<1> QED
  BY <1>1, <1>2, RecordsInductive, PTL DEF Spec, Serializable, Flow!Spec
=============================================================================
