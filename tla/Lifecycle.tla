----------------------------- MODULE Lifecycle -----------------------------
(***************************************************************************)
(* The lifecycle signals as the service runs them when no flow engine is   *)
(* configured: every request is a database transaction of several          *)
(* statements (lifecycle/service.py), concurrent with the others under     *)
(* READ COMMITTED.                                                         *)
(*                                                                         *)
(* A transaction inserts its idempotency key, locks the task row (SELECT   *)
(* ... FOR UPDATE) and checks it, locks the work item row for the          *)
(* derivation, and commits; what it writes is invisible to the others      *)
(* until then, except to the COUNT of its own session.  A request stands   *)
(* at the statement it executes next, and the locks it holds follow from   *)
(* where it stands.  An exception, a lost connection or a crash rolls the  *)
(* whole transaction back, its key included.                               *)
(*                                                                         *)
(* The GitHub webhook is the exception: it finds its task by a plain read  *)
(* before it sends S11, and the ORM keeps the row it has in the session    *)
(* when the same session selects it FOR UPDATE, so the status it checks    *)
(* under the lock is the one from before the lock.                         *)
(***************************************************************************)
EXTENDS SignalTable

CONSTANTS
    Requests,      \* one identifier per request served at the same time
    Sent,          \* bound: the calls that are sent
    PullRequests   \* bound: the calls that pull requests stand for

VARIABLES
    item,      \* work_items.status
    task,      \* tasks.status
    assignee,  \* type of the active task_assignments row
    keys,      \* lifecycle_signals: keys committed
    repeated,  \* calls that took effect, and wrote their rows, again
    reopened,  \* tasks whose terminal status a pull request wrote over
    req        \* the transactions in flight

dbVars == <<item, task, assignee, keys, repeated, reopened>>
vars   == <<dbVars, req>>

NoCall == Call("none", Item, "admin", "none")

\* at: the next statement; saw: the status of the task as the session has
\* read it before the transaction, "none" unless a pull request found it;
\* sees: the status the transaction will leave the work item in, once it has
\* locked it.
Idle == [at |-> "idle", call |-> NoCall, saw |-> "none", sees |-> "absent"]

ReqAt == {"idle", "github", "task", "item", "commit", "generate"}

TypeOK ==
    /\ item \in ItemStatus \cup {"absent"}
    /\ task \in [Tasks -> TaskStatus \cup {"absent"}]
    /\ assignee \in [Tasks -> Assignees \cup {"none"}]
    /\ keys \subseteq Calls
    /\ repeated \subseteq Calls
    /\ reopened \subseteq Tasks
    /\ req \in [Requests -> [at : ReqAt, call : Calls \cup {NoCall},
                             saw : TaskStatus \cup {"none"},
                             sees : ItemStatus \cup {"absent"}]]

Init ==
    /\ item = "absent"
    /\ task = [t \in Tasks |-> "absent"]
    /\ assignee = [t \in Tasks |-> "none"]
    /\ keys = {}
    /\ repeated = {}
    /\ reopened = {}
    /\ req = [r \in Requests |-> Idle]

-----------------------------------------------------------------------------
(* Locks *)

InTransaction(q) == req[q].at \in {"task", "item", "commit"}

\* An uncommitted key makes a second INSERT of it wait.
KeyHeld(c) == \E q \in Requests : InTransaction(q) /\ req[q].call = c

\* Mutant: the row is read without FOR UPDATE.
TaskLocked_PlainRead(t) == FALSE

\* Mutant: whoever waits for the row counts as holding it.
TaskLocked_Queue(t) ==
    \E q \in Requests : req[q].at \in {"task", "item", "commit"} /\ req[q].call.on = t

TaskLocked(t) ==
    \E q \in Requests : req[q].at \in {"item", "commit"} /\ req[q].call.on = t

TouchesItem(c) ==
    c \in ItemCalls \/ (c \in TaskCalls /\ TaskTransition[c.sig].derives # "none")

\* Mutant: the derivation reads the work item without FOR UPDATE.
ItemLocked_PlainRead ==
    \E q \in Requests : req[q].at = "commit" /\ req[q].call \in ItemCalls

ItemLocked ==
    \E q \in Requests : req[q].at = "commit" /\ TouchesItem(req[q].call)

-----------------------------------------------------------------------------
(* The requests.  A key already committed ends the request there: it       *)
(* answers with the row as it is (alreadyReceived) and changes nothing.    *)

\* Mutant: a key that another transaction is inserting is taken for new.
Receive_NoConflict(r, c) ==
    /\ req[r].at = "idle" /\ c \in Sent
    /\ c \notin keys
    /\ req' = [req EXCEPT ![r] = [Idle EXCEPT
                   !.at = IF c \in ItemCalls THEN "item" ELSE "task", !.call = c]]
    /\ UNCHANGED dbVars

Receive(r, c) ==
    /\ req[r].at = "idle" /\ c \in Sent
    /\ c \notin keys /\ ~KeyHeld(c)
    /\ req' = [req EXCEPT ![r] = [Idle EXCEPT
                   !.at = IF c \in ItemCalls THEN "item" ELSE "task", !.call = c]]
    /\ UNCHANGED dbVars

OpenWorkItemSignal(r) ==
    \E p \in Payloads : Receive(r, Call("open", Item, "admin", p))

LockWorkItemSignal(r) ==
    \E p \in Payloads : Receive(r, Call("lock", Item, "admin", p))

UnlockWorkItemSignal(r) == Receive(r, UnlockCall)

CloseWorkItemSignal(r) ==
    \E p \in Payloads : Receive(r, Call("close", Item, "admin", p))

ApproveTaskSignal(r) ==
    \E t \in Tasks : Receive(r, Call("approve_task", t, "admin", "none"))

RejectTaskSignal(r) ==
    \E t \in Tasks, p \in Payloads : Receive(r, Call("reject_task", t, "admin", p))

AssignTaskSignal(r) ==
    \E t \in Tasks, a \in Assignees : Receive(r, Call("assign_task", t, "admin", a))

DeferTaskSignal(r) ==
    \E t \in Tasks, p \in Payloads : Receive(r, Call("defer_task", t, "admin", p))

SubmitPlanSignal(r) ==
    \E t \in Tasks, p \in Payloads : Receive(r, Call("submit_plan", t, "admin", p))

ApprovePlanSignal(r) ==
    \E t \in Tasks, role \in Roles : Receive(r, Call("approve_plan", t, role, "none"))

RejectPlanSignal(r) ==
    \E t \in Tasks, role \in Roles, p \in Payloads :
        Receive(r, Call("reject_plan", t, role, p))

SubmitImplementationSignal(r) ==
    \E t \in Tasks, p \in Payloads :
        Receive(r, Call("submit_implementation", t, "admin", p))

ApproveReviewSignal(r) ==
    \E t \in Tasks, role \in Roles : Receive(r, Call("approve_review", t, role, "none"))

RejectReviewSignal(r) ==
    \E t \in Tasks, role \in Roles, p \in Payloads :
        Receive(r, Call("reject_review", t, role, p))

\* receive_github_pr: the task a pull request names is read without a lock.
ReceiveGithubPr(r) ==
    /\ req[r].at = "idle"
    /\ \E t \in Tasks, p \in Payloads :
           LET c == Call("submit_implementation", t, "admin", p) IN
           /\ c \in PullRequests /\ task[t] # "absent"
           /\ req' = [req EXCEPT ![r] = [Idle EXCEPT
                  !.at = "github", !.call = c, !.saw = task[t]]]
    /\ UNCHANGED dbVars

-----------------------------------------------------------------------------
(* The statements of a transaction *)

Rollback(r) == req' = [req EXCEPT ![r] = Idle]

\* submit_implementation_signal for the webhook: it inserts the key, or finds
\* it and is done.
SubmitFromGithub(r) ==
    /\ req[r].at = "github"
    /\ ~KeyHeld(req[r].call)
    /\ IF req[r].call \in keys THEN Rollback(r)
       ELSE req' = [req EXCEPT ![r].at = "task"]
    /\ UNCHANGED dbVars

\* The status a transition checks.
Status(r) == IF req[r].saw # "none" THEN req[r].saw ELSE task[req[r].call.on]

Permitted(r) ==
    LET c == req[r].call IN
    /\ Status(r) \in TaskTransition[c.sig].from
    /\ MayDecide(c, assignee[c.on])

\* _load_locked on the task, then the transition's checks and writes.
LockTask(r) ==
    LET c == req[r].call IN
    /\ req[r].at = "task"
    /\ ~TaskLocked(c.on)
    /\ IF Permitted(r)
       THEN req' = [req EXCEPT ![r].at =
                       IF TaskTransition[c.sig].derives = "none" THEN "commit" ELSE "item"]
       ELSE Rollback(r)
    /\ UNCHANGED dbVars

\* Mutant: the COUNT runs before the task's new status is flushed.
Seen_Unflushed(c) == task

\* What the transaction's own COUNT sees: committed rows and its own write.
Seen(c) == [task EXCEPT ![c.on] = TaskTransition[c.sig].to]

\* maybe_advance_to_in_progress, maybe_advance_to_ready.
LockItemForDerivation(r) ==
    LET c == req[r].call IN
    /\ req[r].at = "item" /\ c \in TaskCalls
    /\ ~ItemLocked
    /\ req' = [req EXCEPT ![r].at = "commit",
                          ![r].sees = Derived(TaskTransition[c.sig].derives, item, Seen(c))]
    /\ UNCHANGED dbVars

\* The guarded body of S2, S3 and S4; for S1, the INSERT under its unique
\* external reference.
LockItem(r) ==
    LET c == req[r].call IN
    /\ req[r].at = "item" /\ c \in ItemCalls
    /\ ~ItemLocked
    /\ IF item = ItemTransition[c.sig].from
       THEN req' = [req EXCEPT ![r].at = "commit", ![r].sees = ItemTransition[c.sig].to]
       ELSE Rollback(r)
    /\ UNCHANGED dbVars

CommitItem(r) ==
    LET c == req[r].call IN
    /\ req[r].at = "commit" /\ c \in ItemCalls
    /\ item' = req[r].sees
    /\ keys' = keys \cup {c}
    /\ repeated' = repeated \cup ({c} \cap keys)
    /\ reopened' = reopened
    /\ req' = [req EXCEPT ![r] =
                   IF c.sig = "open" THEN [Idle EXCEPT !.at = "generate"] ELSE Idle]
    /\ UNCHANGED <<task, assignee>>

CommitTask(r) ==
    LET c == req[r].call IN
    /\ req[r].at = "commit" /\ c \in TaskCalls
    /\ task' = [task EXCEPT ![c.on] = TaskTransition[c.sig].to]
    /\ assignee' = [assignee EXCEPT ![c.on] =
                        IF c.sig = "assign_task" THEN c.pay ELSE @]
    /\ item' = IF TouchesItem(c) THEN req[r].sees ELSE item
    /\ keys' = keys \cup {c}
    /\ repeated' = repeated \cup ({c} \cap keys)
    /\ reopened' = IF req[r].saw # "none" /\ task[c.on] \in TaskTerminal
                   THEN reopened \cup {c.on} ELSE reopened
    /\ Rollback(r)

\* The seeds are inserted by a transaction of their own, after the commit
\* that opened the work item.
GenerateTasks(r) ==
    /\ req[r].at = "generate"
    /\ task' = IF \A t \in Tasks : task[t] = "absent"
               THEN [t \in Tasks |-> "proposed"] ELSE task
    /\ Rollback(r)
    /\ UNCHANGED <<item, assignee, keys, repeated, reopened>>

\* The connection or the process is lost.
Abort(r) ==
    /\ req[r].at # "idle"
    /\ Rollback(r)
    /\ UNCHANGED dbVars

Signal(r) ==
    \/ OpenWorkItemSignal(r) \/ LockWorkItemSignal(r) \/ UnlockWorkItemSignal(r)
    \/ CloseWorkItemSignal(r) \/ ApproveTaskSignal(r) \/ RejectTaskSignal(r)
    \/ AssignTaskSignal(r) \/ DeferTaskSignal(r) \/ SubmitPlanSignal(r)
    \/ ApprovePlanSignal(r) \/ RejectPlanSignal(r) \/ SubmitImplementationSignal(r)
    \/ ApproveReviewSignal(r) \/ RejectReviewSignal(r) \/ ReceiveGithubPr(r)

Statement(r) ==
    \/ SubmitFromGithub(r) \/ LockTask(r) \/ LockItemForDerivation(r) \/ LockItem(r)
    \/ CommitItem(r) \/ CommitTask(r) \/ GenerateTasks(r)

Next == \E r \in Requests : Signal(r) \/ Statement(r) \/ Abort(r)

\* The database grants a lock once it is free, and a handler that has its
\* answer goes on.
Fairness == \A r \in Requests : SF_vars(Statement(r))

Spec == Init /\ [][Next]_vars
FairSpec == Spec /\ Fairness

-----------------------------------------------------------------------------
(* Properties *)

AllTerminal == \A t \in Tasks : task[t] \in TaskTerminal

\* A call takes effect once: two deliveries of one signal, however they
\* overlap, write one set of rows (check_and_record; FEAT-006 AC-8, "no
\* duplicate approval rows").
KeyedOnce == repeated = {}

Took(sig, t) == {c \in keys : c.sig = sig /\ c.on = t}

Record(t) ==
    /\ (task[t] = "proposed") <=> (Took("approve_task", t) = {})
    /\ (task[t] \in {"proposed", "assigning"}) <=> (Took("assign_task", t) = {})
    /\ (task[t] \in {"proposed", "assigning"}) <=> (assignee[t] = "none")
    /\ (task[t] \in {"implementing", "impl_review", "done"}) <=>
           (Took("approve_plan", t) # {})
    /\ task[t] = "done" => Took("approve_review", t) # {}
    /\ Took("approve_review", t) # {} => task[t] = "done" \/ t \in reopened
    /\ \A c \in Took("approve_plan", t) \cup Took("approve_review", t) :
           MayDecide(c, assignee[t])
    /\ \A sig \in {"assign_task", "approve_plan", "approve_review"} :
           \A c, d \in Took(sig, t) : c = d

\* The status of a task and the record of who decided what agree, whatever
\* signals overlapped on it: a task past plan review has one plan approval, by
\* the role its assignee calls for; one before it has none; likewise for the
\* proposal, the assignment and the review.  Only a task that a late pull
\* request took back from "done" has a review approval and is not done.
StatusHasItsRecord ==
    \A t \in Tasks : task[t] \notin {"absent", "deferred"} => Record(t)

\* A work item is offered for closing, and closed, only when no task is open
\* (docs/data-model.md, "all tasks in a terminal state").  The code breaks it.
ReadyIsFinished == item \in {"ready", "closed"} => AllTerminal

\* What the code does promise of it: no task is open then but one whose
\* terminal status a late pull request wrote over.
OpenOnlyByPullRequest ==
    item \in {"ready", "closed"} =>
        \A t \in Tasks \ reopened : task[t] \in TaskTerminal

\* W5 is not lost: whoever finishes the last task of a work item in progress
\* makes it ready in the same commit, even when two tasks are finished by two
\* transactions that cannot see each other's.
LastTaskMakesReady ==
    [][item = "in_progress" /\ ~AllTerminal /\ AllTerminal' => item' = "ready"]_vars

\* Concurrent transactions add up to a sequence of atomic signals and late
\* submissions.
Flow == INSTANCE WorkItemFlow WITH
            item <- item, task <- task, assignee <- assignee, keys <- keys,
            reopened <- reopened
Serializable == Flow!Spec

\* No two transactions wait for each other: each is answered.
Answered == \A r \in Requests : req[r].at # "idle" ~> req[r].at = "idle"
=============================================================================
