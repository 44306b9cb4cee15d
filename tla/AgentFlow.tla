------------------------------ MODULE AgentFlow ------------------------------
(***************************************************************************)
(* One run of a deterministic lifecycle agent (@0.3.0, @0.4.0-manual,      *)
(* @0.5.0-manual, @0.6.0-human), from the declaration to the flow engine:  *)
(* the transitions of agents/*.yaml, the resolver with its predicates, the *)
(* bindings of executors/bootstrap.py and what every node does to the      *)
(* run's memory and to the work item and its tasks in the engine.          *)
(*                                                                         *)
(* A node is one action: its executor, the state it writes and the choice  *)
(* of the successor.  How the loop, its dispatches and its wakes interleave *)
(* is RunLoop's subject; here the run may stop between any two nodes.      *)
(***************************************************************************)
EXTENDS Naturals, Sequences, FiniteSets
LOCAL INSTANCE Functions

CONSTANTS
    Ids,          \* task ids of a task list
    Mockups,      \* those of kind "mockup"
    TaskLists,    \* bound: the task lists written, in declaration order
    Agents,       \* the variants that run
    Corrections,  \* correction_bound
    Rejections,   \* lifecycle_max_checkpoint_rejections
    RejectCap,    \* bound: rejections in a run of 0.6.0, which has no gates
    Retries,      \* bound: signals the client sends again
    None

\* What a verdict can say, and how a run can end.
Verdicts == {"approve", "reject", "pass", "fail"}
Ends == {"done_node", "budget", "refused", "outage", "payload", "nothing",
         "contract", "stopped"}

ASSUME IdsAssumption ==
    None \notin Ids \cup Verdicts \cup Ends /\ Mockups \subseteq Ids
\* Nothing in the code rejects a list that names a task twice.
ASSUME ListsAssumption == TaskLists \subseteq Seq(Ids)
ASSUME AgentsAssumption == Agents \subseteq {"v03", "v04", "v05", "v06"}
ASSUME BoundsAssumption ==
    /\ Corrections \in Nat \ {0}
    /\ {Rejections, RejectCap, Retries} \subseteq Nat

VARIABLES
    agent,       \* the variant
    node,        \* the node dispatched, or to be dispatched next
    hop,         \* the engine call the node makes next
    run,         \* status of the run
    cause,       \* why it ended
    mem,         \* RunMemory.data["lifecycle.v1"]
    filed,       \* the sidecars: plans, mockups, assignments, refs by task
    rejections,  \* the sidecar "rejections": attempts by checkpoint
    engine,      \* the work item and, of each task, the last item linked to it
                 \* (or the one created for it) in the flow engine
    posted,      \* the last signal sent to the run
    retries      \* signals sent again so far

data == <<mem, filed, rejections>>
vars == <<agent, node, hop, run, cause, data, engine, posted, retries>>

-----------------------------------------------------------------------------
(* Declarations *)

Edge(rule, yes, no) == [rule |-> rule, yes |-> yes, no |-> no]
To(n) == Edge("always", n, n)

V03 == [
    start                  |-> To("load_work_item"),
    load_work_item         |-> To("register_work_item"),
    register_work_item     |-> To("generate_tasks"),
    generate_tasks         |-> To("propose_tasks"),
    propose_tasks          |-> To("assign_task"),
    assign_task            |-> To("generate_plan"),
    generate_plan          |-> To("advance_plan"),
    advance_plan           |-> To("approve_plan"),
    approve_plan           |-> To("request_implementation"),
    request_implementation |-> To("submit_implementation"),
    submit_implementation  |-> To("review_implementation"),
    review_implementation  |->
        Edge("review_passed", "approve_review", "correct_implementation"),
    approve_review         |-> To("mark_task_done"),
    mark_task_done         |->
        Edge("tasks_remaining", "assign_task", "close_work_item"),
    correct_implementation |->
        Edge("correction_attempts_under_bound",
             "request_implementation", "terminate_correction_budget")]

Gate(n) == Edge("checkpoint_rejections_under_bound",
                n, "terminate_rejection_budget")

\* A variant restates some nodes of the one before and keeps the others.
Amended(base, nodes) ==
    [n \in DOMAIN base \cup DOMAIN nodes |->
        IF n \in DOMAIN nodes THEN nodes[n] ELSE base[n]]

V04 == Amended(V03, [
    load_work_item         |-> Gate("confirm_brief"),
    confirm_brief          |->
        Edge("checkpoint_approved", "register_work_item", "load_work_item"),
    generate_tasks         |-> Gate("confirm_tasks"),
    confirm_tasks          |->
        Edge("checkpoint_approved", "propose_tasks", "generate_tasks"),
    propose_tasks          |-> To("confirm_assignment"),
    confirm_assignment     |-> To("assign_task"),
    advance_plan           |-> Gate("confirm_plan"),
    confirm_plan           |->
        Edge("checkpoint_approved", "approve_plan", "generate_plan"),
    submit_implementation  |-> To("human_review_implementation"),
    human_review_implementation |->
        Edge("review_passed", "approve_review", "correct_implementation"),
    mark_task_done         |->
        Edge("tasks_remaining", "confirm_assignment", "close_work_item")])

V05 == Amended(V04, [
    assign_task     |->
        Edge("current_task_is_mockup", "generate_mockup", "generate_plan"),
    generate_mockup |-> Gate("confirm_mockup"),
    confirm_mockup  |->
        Edge("checkpoint_approved", "generate_plan", "generate_mockup")])

Again(n, next) == Edge("checkpoint_approved", next, n)

V06 == [
    start                  |-> To("log_run_started"),
    log_run_started        |-> To("confirm_brief"),
    confirm_brief          |-> Again("confirm_brief", "register_work_item"),
    register_work_item     |-> To("commit_brief"),
    commit_brief           |-> To("confirm_tasks"),
    confirm_tasks          |-> Again("confirm_tasks", "run_validate_tasks"),
    run_validate_tasks     |-> To("confirm_task_review"),
    confirm_task_review    |-> Again("confirm_tasks", "commit_tasks"),
    commit_tasks           |-> To("propose_tasks"),
    propose_tasks          |-> To("confirm_assignment"),
    confirm_assignment     |-> To("assign_task"),
    assign_task            |->
        Edge("current_task_is_mockup", "confirm_mockup", "confirm_plan"),
    confirm_mockup         |-> Again("confirm_mockup", "confirm_plan"),
    confirm_plan           |-> Again("confirm_plan", "commit_plan"),
    commit_plan            |-> To("approve_plan"),
    approve_plan           |-> To("request_implementation"),
    request_implementation |-> To("submit_implementation"),
    submit_implementation  |-> To("run_tests"),
    run_tests              |-> To("human_review_implementation"),
    human_review_implementation |->
        Edge("review_passed", "commit_review", "correct_implementation"),
    commit_review          |-> To("approve_review"),
    approve_review         |-> To("mark_task_done"),
    mark_task_done         |->
        Edge("tasks_remaining", "confirm_assignment", "confirm_docs_update"),
    confirm_docs_update    |->
        Again("confirm_docs_update", "run_validate_specs_strict"),
    run_validate_specs_strict |->
        Edge("validator_passed", "log_run_completed", "confirm_docs_update"),
    log_run_completed      |-> To("close_work_item"),
    correct_implementation |->
        Edge("correction_attempts_under_bound",
             "request_implementation", "terminate_correction_budget")]

Transitions == [v03 |-> V03, v04 |-> V04, v05 |-> V05, v06 |-> V06]

TerminalNodes == {"close_work_item", "terminate_correction_budget",
                  "terminate_rejection_budget"}

Nodes == (UNION {DOMAIN Transitions[a] : a \in DOMAIN Transitions})
             \cup TerminalNodes

-----------------------------------------------------------------------------
(* Bindings: the nodes of each variant by the kind of their executor *)

Bound03 == [
    content |-> {"load_work_item", "generate_tasks", "generate_plan",
                 "review_implementation"},
    human   |-> {"request_implementation"},
    engine  |-> {"register_work_item", "propose_tasks", "assign_task",
                 "advance_plan", "approve_plan", "submit_implementation",
                 "approve_review", "close_work_item"},
    local   |-> {"mark_task_done", "correct_implementation",
                 "terminate_correction_budget"}]

\* @0.4.0 registers the bindings of @0.3.0 but the reviewer.
Bound04 == [Bound03 EXCEPT
    !.content = @ \ {"review_implementation"},
    !.human   = @ \cup {"confirm_brief", "confirm_tasks", "confirm_plan",
                        "confirm_assignment", "human_review_implementation"},
    !.local   = @ \cup {"terminate_rejection_budget"}]

Bound05 == [Bound04 EXCEPT
    !.content = @ \cup {"generate_mockup"},
    !.human   = @ \cup {"confirm_mockup"}]

Human06 == {"confirm_brief", "confirm_tasks", "confirm_task_review",
            "confirm_assignment", "confirm_mockup", "confirm_plan",
            "request_implementation", "human_review_implementation",
            "confirm_docs_update"}

Engine06 == {"register_work_item", "propose_tasks", "assign_task",
             "approve_plan", "submit_implementation", "approve_review",
             "close_work_item"}

Local06 == {"log_run_started", "commit_brief", "commit_tasks", "commit_plan",
            "commit_review", "log_run_completed", "run_validate_tasks",
            "run_tests", "run_validate_specs_strict", "mark_task_done",
            "correct_implementation", "terminate_correction_budget",
            "terminate_rejection_budget"}

Bound06 == [content |-> {}, human |-> Human06, engine |-> Engine06,
            local |-> Local06]

Bound == [v03 |-> Bound03, v04 |-> Bound04, v05 |-> Bound05, v06 |-> Bound06]

-----------------------------------------------------------------------------
(* Memory *)

Listed(tasks) == {tasks[i] : i \in DOMAIN tasks}

\* (mutant) The position instead of the id.
FirstUndone_Position(tasks, done) ==
    LET undone == {i \in DOMAIN tasks : tasks[i] \notin done}
    IN  IF undone = {} THEN None
        ELSE CHOOSE i \in undone : \A j \in undone : i <= j

\* The next task in declaration order.
FirstUndone(tasks, done) ==
    LET undone == {i \in DOMAIN tasks : tasks[i] \notin done}
    IN  IF undone = {} THEN None
        ELSE tasks[CHOOSE i \in undone : \A j \in undone : i <= j]

FreshMemory ==
    [brief |-> FALSE, tasks |-> <<>>, cursor |-> None, done |-> {},
     linked |-> {}, submitted |-> {},
     attempts |-> [t \in Ids \cup {None} |-> 0],
     fails |-> [t \in Ids |-> 0]]

Sidecars == {"plans", "mockups", "assignments", "refs"}

\* (mutant) The patch replaces the sidecar, as before BUG-013.
File_Replaces(f, sidecar, t) == [f EXCEPT ![sidecar] = {t}]

\* The patch of a sidecar merges: the entries of other tasks stay.
File(f, sidecar, t) == [f EXCEPT ![sidecar] = @ \cup {t}]

Rejectable == {"confirm_brief", "confirm_tasks", "confirm_task_review",
               "confirm_mockup", "confirm_plan", "confirm_docs_update"}

\* (mutant) Feedback without its count.
Reject_Uncounted(rj, checkpoint) == rj

Reject(rj, checkpoint) == [rj EXCEPT ![checkpoint] = @ + 1]

\* review_history, as far as its failed verdicts on the current task go.
FailNoted(m) == [m EXCEPT !.fails[m.cursor] = @ + 1]

\* (mutant) The count under the key of no task.
CorrectionCounted_Unkeyed(m) == [m EXCEPT !.attempts[None] = @ + 1]

CorrectionCounted(m) == [m EXCEPT !.attempts[m.cursor] = @ + 1]

\* (mutant) The cursor stays on the task that is done.
TaskMarkedDone_Stuck(m) == [m EXCEPT !.done = @ \cup ({m.cursor} \ {None})]

\* (mutant) The whole list is marked.
TaskMarkedDone_All(m) == [m EXCEPT !.done = Listed(m.tasks), !.cursor = None]

TaskMarkedDone(m) ==
    LET done == m.done \cup ({m.cursor} \ {None})
    IN  [m EXCEPT !.done = done, !.cursor = FirstUndone(m.tasks, done)]

-----------------------------------------------------------------------------
(* Resolver *)

\* What the predicates read of the last dispatch's result.
Ok == [verdict |-> None, passed |-> TRUE, task |-> None]
WithVerdict(v) == [Ok EXCEPT !.verdict = v]

\* A predicate that raises ends the run.
Raises(rule, last) ==
    \/ rule = "checkpoint_approved"
       /\ last.verdict \notin {None, "approve", "reject"}
    \/ rule = "review_passed" /\ last.verdict \notin {"pass", "fail"}

UnderCorrectionBound(m, t) == m.attempts[t] < Corrections

\* (mutant) One rejection too many.
UnderRejectionBound_Closed(rj) == \A c \in Rejectable : rj[c] <= Rejections

UnderRejectionBound(rj) == \A c \in Rejectable : rj[c] < Rejections

\* (mutant) The current task is not counted out.
TasksRemaining_OffByOne(m) == Cardinality(Listed(m.tasks) \ m.done) > 1

TasksRemaining(m) == ~(Listed(m.tasks) \subseteq m.done)

Holds(rule, m, rj, last) ==
    CASE rule = "always"              -> TRUE
      [] rule = "checkpoint_approved" -> last.verdict # "reject"
      [] rule = "review_passed"       -> last.verdict = "pass"
      [] rule = "validator_passed"    -> last.passed
      [] rule = "tasks_remaining"     -> TasksRemaining(m)
      [] rule = "current_task_is_mockup" ->
             m.cursor \in Mockups \cap Listed(m.tasks)
      [] rule = "correction_attempts_under_bound" ->
             UnderCorrectionBound(m, last.task)
      [] rule = "checkpoint_rejections_under_bound" ->
             UnderRejectionBound(rj)

Successor(m, rj, last) ==
    LET edge == Transitions[agent][node]
    IN  IF Holds(edge.rule, m, rj, last) THEN edge.yes ELSE edge.no

End(status, why) ==
    /\ run' = status
    /\ cause' = why
    /\ UNCHANGED node

\* _write_state, then the next iteration's resolve_next.
Proceed(m, f, rj, last) ==
    /\ mem' = m
    /\ filed' = f
    /\ rejections' = rj
    /\ hop' = 1
    /\ IF node \in TerminalNodes THEN End("completed", "done_node")
       ELSE IF Raises(Transitions[agent][node].rule, last)
            THEN End("failed", "contract")
       ELSE /\ node' = Successor(m, rj, last)
            /\ UNCHANGED <<run, cause>>
    /\ UNCHANGED agent

\* The dispatch comes back failed: the run fails at this node.
Fail(why) ==
    /\ End("failed", why)
    /\ UNCHANGED <<agent, hop, data>>

\* The registry has an executor of this kind for the node.
Runs(kind) == run = "running" /\ node \in Bound[agent][kind]

At(kind, n) == Runs(kind) /\ node = n

-----------------------------------------------------------------------------
(* Checkpoints: a signal, its payload and the patch of the payload *)

Schema(signal, fields, needs, verdicts) ==
    [signal |-> signal, fields |-> fields, needs |-> needs,
     verdicts |-> verdicts]

Judged(signal, fields) ==
    Schema(signal, {"verdict"} \cup fields, {}, {"approve", "reject"})

Checkpoint == [
    confirm_brief       |-> Judged("brief-confirmed", {"workItem"}),
    confirm_tasks       |-> Judged("tasks-confirmed", {"tasks"}),
    confirm_task_review |-> Judged("tasks-reviewed", {}),
    confirm_mockup      |-> Judged("mockup-approved", {"mockupHtml"}),
    confirm_plan        |-> Judged("plan-confirmed", {"plan"}),
    confirm_docs_update |-> Judged("docs-update-confirmed", {}),
    confirm_assignment  |->
        Schema("assignment-confirmed", {"assignee", "taskId"}, {"assignee"}, {}),
    request_implementation |->
        Schema("implementation-complete", {"prUrl"}, {}, {}),
    human_review_implementation |->
        Schema("review-completed", {"verdict"}, {"verdict"}, {"pass", "fail"})]

Approve == [verdict |-> "approve"]
Refuse  == [verdict |-> "reject"]
NoFields == [x \in {} |-> x]

\* Bound: what an operator answers at each checkpoint.
Answers == [
    confirm_brief       |-> {Approve, Refuse} \cup
                            [workItem : {"complete", "partial"}],
    confirm_tasks       |-> {Approve, Refuse} \cup
                            [tasks : TaskLists \ {<<>>}],
    confirm_task_review |-> {Approve, Refuse},
    confirm_mockup      |-> {Refuse, [mockupHtml |-> "html"]},
    confirm_plan        |-> {Approve, Refuse, [plan |-> "plan"]},
    confirm_docs_update |-> {Approve, Refuse},
    confirm_assignment  |-> {[assignee |-> "dev"]} \cup
                            [assignee : {"dev"}, taskId : Ids],
    request_implementation |-> {NoFields, [prUrl |-> "url"]},
    human_review_implementation |-> [verdict : {"pass", "fail"}]]

Verdict(p) == IF "verdict" \in DOMAIN p THEN p.verdict ELSE None

\* model_validate: unknown fields are forbidden.
Valid(n, p) ==
    LET s == Checkpoint[n] IN
    /\ DOMAIN p \subseteq s.fields
    /\ s.needs \subseteq DOMAIN p
    /\ Verdict(p) \in s.verdicts \cup {None}

\* The business rules of the builders.
Applicable(n, p) ==
    /\ n = "confirm_assignment" /\ "taskId" \notin DOMAIN p
           => mem.cursor # None
    /\ n = "human_review_implementation"
           => mem.cursor # None
    /\ n = "confirm_plan" /\ "plan" \in DOMAIN p
           => mem.cursor # None
    /\ n = "confirm_brief" /\ "workItem" \in DOMAIN p
           => mem.brief \/ p.workItem = "complete"

TasksReplaced(m, tasks) ==
    [m EXCEPT !.tasks     = tasks,
              !.linked    = @ \cap Listed(tasks),
              !.submitted = @ \cap Listed(tasks),
              !.cursor    = FirstUndone(tasks, m.done)]

PatchedMemory(n, p) ==
    CASE n = "confirm_brief" /\ "workItem" \in DOMAIN p ->
             [mem EXCEPT !.brief = TRUE]
      [] n = "confirm_tasks" /\ "tasks" \in DOMAIN p ->
             TasksReplaced(mem, p.tasks)
      [] n = "human_review_implementation" /\ Verdict(p) = "fail" ->
             FailNoted(mem)
      [] OTHER -> mem

\* The sidecar an answer writes, if any.
Writes(n, p) ==
    CASE n = "confirm_plan" /\ "plan" \in DOMAIN p         -> {"plans"}
      [] n = "confirm_mockup" /\ "mockupHtml" \in DOMAIN p -> {"mockups"}
      [] n = "request_implementation" /\ "prUrl" \in DOMAIN p -> {"refs"}
      [] n = "confirm_assignment"                          -> {"assignments"}
      [] OTHER                                             -> {}

\* The task an answer is filed under: the one an assignment names, listed or
\* not, or else the current one.
Subject(p) == IF "taskId" \in DOMAIN p THEN p.taskId ELSE mem.cursor

PatchedFiles(n, p) ==
    [s \in Sidecars |->
        IF s \in Writes(n, p) THEN filed[s] \cup ({Subject(p)} \ {None})
        ELSE filed[s]]

PatchedRejections(n, p) ==
    IF Verdict(p) = "reject" THEN Reject(rejections, n) ELSE rejections

\* What the other variants reject is up to their gates.
Capped == agent = "v06" => SumFunction(rejections) < RejectCap

\* send_signal and _deliver_to_human_dispatch: the answer goes to the one
\* human dispatch in flight, whatever the signal's name.
Deliver(p) ==
    /\ Runs("human")
    /\ IF Valid(node, p) /\ Applicable(node, p)
       THEN /\ Verdict(p) = "reject" => Capped
            /\ Proceed(PatchedMemory(node, p), PatchedFiles(node, p),
                       PatchedRejections(node, p), WithVerdict(Verdict(p)))
       ELSE Fail("payload")
    /\ UNCHANGED engine

-----------------------------------------------------------------------------
(* The flow engine *)

TaskEdges == {
    <<"proposed", "approved">>, <<"approved", "assigning">>,
    <<"assigning", "planning">>, <<"planning", "plan_review">>,
    <<"plan_review", "implementing">>, <<"implementing", "impl_review">>,
    <<"impl_review", "done">>,
    <<"plan_review", "planning">>, <<"impl_review", "implementing">>}

ItemEdges == {
    <<"open", "in_progress">>, <<"in_progress", "locked">>,
    <<"locked", "in_progress">>, <<"in_progress", "ready">>,
    <<"ready", "closed">>}

\* (mutant) 0.6.0 has no node that asks for T6.
Calls_NoPlanReview(a, n) ==
    CASE n = "assign_task"    -> <<"planning">>
      [] n = "advance_plan"   -> <<"plan_review">>
      [] n = "approve_plan"   -> <<"implementing">>
      [] n = "approve_review" -> <<"done">>

\* The transitions a node asks for, one call each.
Calls(a, n) ==
    CASE n = "assign_task"    -> <<"planning">>
      [] n = "advance_plan"   -> <<"plan_review">>
      [] n = "approve_plan"   -> IF a = "v06"
                                 THEN <<"plan_review", "implementing">>
                                 ELSE <<"implementing">>
      [] n = "approve_review" -> <<"done">>

EngineNodes == {"assign_task", "advance_plan", "approve_plan",
                "approve_review"}

\* The executor's target: the engine id of the current task.
Target == IF mem.cursor \in Listed(mem.tasks) /\ mem.cursor \in mem.linked
          THEN mem.cursor ELSE None

TaskMoved(t, to) == [engine EXCEPT !.task[t] = to]
ItemMoved(to) == [engine EXCEPT !.item = to]

\* A transition answered with success: what follows is up to the caller.
TransitionTask(t, to) ==
    /\ <<engine.task[t], to>> \in TaskEdges
    /\ engine' = TaskMoved(t, to)

TransitionItem(to) ==
    /\ <<engine.item, to>> \in ItemEdges
    /\ engine' = ItemMoved(to)

\* 422: the engine knows no such transition.
RefuseTask(t, to) ==
    /\ <<engine.task[t], to>> \notin TaskEdges
    /\ Fail("refused")
    /\ UNCHANGED engine

RefuseItem(to) ==
    /\ <<engine.item, to>> \notin ItemEdges
    /\ Fail("refused")
    /\ UNCHANGED engine

\* No answer: the transition may have happened.
LoseTask(t, to) ==
    /\ Fail("outage")
    /\ \/ TransitionTask(t, to)
       \/ UNCHANGED engine

LoseItem(to) ==
    /\ Fail("outage")
    /\ \/ TransitionItem(to)
       \/ UNCHANGED engine

-----------------------------------------------------------------------------
(* Nodes *)

Unsent == UNCHANGED <<posted, retries>>

\* The run is created at the entry node, which is never dispatched.
Init ==
    /\ agent \in Agents
    /\ node = Transitions[agent].start.yes
    /\ hop = 1
    /\ run = "running"
    /\ cause = None
    /\ mem = FreshMemory
    /\ filed = [s \in Sidecars |-> {}]
    /\ rejections = [c \in Rejectable |-> 0]
    /\ engine = [item |-> "absent", task |-> [t \in Ids |-> "absent"]]
    /\ posted = None
    /\ retries = 0

\* A content node whose result m, f is valid.
Author(n, m, f, last) ==
    /\ At("content", n)
    /\ Proceed(m, f, rejections, last)
    /\ UNCHANGED engine
    /\ Unsent

LoadWorkItem ==
    Author("load_work_item", [FreshMemory EXCEPT !.brief = TRUE], filed, Ok)

\* The namespace starts anew, with the work item left out of it.
GenerateTasks ==
    \E ts \in TaskLists :
        Author("generate_tasks",
               [FreshMemory EXCEPT !.tasks  = ts,
                                   !.cursor = FirstUndone(ts, {})],
               filed, Ok)

\* The plan is filed under the task the model names.
GeneratePlan ==
    \E t \in Ids :
        Author("generate_plan", mem, File(filed, "plans", t), Ok)

GenerateMockup ==
    \E t \in Ids \cup {None} :
        Author("generate_mockup", mem,
               IF t = None THEN filed ELSE File(filed, "mockups", t), Ok)

ReviewImplementation ==
    \E v \in {"pass", "fail"} :
        Author("review_implementation",
               IF v = "fail" THEN FailNoted(mem) ELSE mem,
               filed, WithVerdict(v))

\* The provider fails, or its answer does not fit the result schema.
ContentFails ==
    /\ Runs("content")
    /\ Fail("outage")
    /\ UNCHANGED engine
    /\ Unsent

\* EngineCreateExecutor: create_item for the brief in memory.
RegisterWorkItem ==
    /\ At("engine", "register_work_item")
    /\ IF ~mem.brief
       THEN Fail("nothing") /\ UNCHANGED engine
       ELSE \/ /\ engine' = ItemMoved("open")
               /\ Proceed(mem, filed, rejections, Ok)
            \/ /\ Fail("outage")
               /\ engine' \in {engine, ItemMoved("open")}
    /\ Unsent

Linked(t) == mem' = [mem EXCEPT !.linked = @ \cup {t}]

\* One task: create_item, its row and its link to memory, T2 and T4.  A task
\* the list names again gets a second item, and the first one stays behind.
ProposeTask ==
    /\ At("engine", "propose_tasks")
    /\ hop \in DOMAIN mem.tasks
    /\ LET t == mem.tasks[hop] IN
       \/ /\ engine' = TaskMoved(t, "assigning")
          /\ Linked(t)
          /\ hop' = hop + 1
          /\ UNCHANGED <<agent, node, run, cause, filed, rejections>>
       \/ /\ End("failed", "outage")
          /\ \/ /\ \/ UNCHANGED engine
                   \/ t \notin mem.linked /\ engine' = TaskMoved(t, "proposed")
                /\ UNCHANGED mem
             \/ /\ \E s \in {"proposed", "approved", "assigning"} :
                       engine' = TaskMoved(t, s)
                /\ Linked(t)
          /\ UNCHANGED <<agent, hop, filed, rejections>>
    /\ Unsent

\* W2 when every task is proposed.
ProposeTasks ==
    /\ At("engine", "propose_tasks")
    /\ hop \notin DOMAIN mem.tasks
    /\ IF mem.tasks = <<>>
       THEN Fail("nothing") /\ UNCHANGED engine
       ELSE \/ /\ TransitionItem("in_progress")
               /\ Proceed(mem, filed, rejections, Ok)
            \/ RefuseItem("in_progress")
            \/ LoseItem("in_progress")
    /\ Unsent

\* EngineExecutor and SequenceEngineExecutor on the current task.
EngineNode ==
    /\ Runs("engine")
    /\ node \in EngineNodes
    /\ IF Target = None
       THEN Fail("nothing") /\ UNCHANGED engine
       ELSE LET calls == Calls(agent, node)
                to    == calls[hop]
            IN \/ /\ TransitionTask(Target, to)
                  /\ IF hop < Len(calls)
                     THEN /\ hop' = hop + 1
                          /\ UNCHANGED <<agent, node, run, cause, data>>
                     ELSE Proceed(mem, filed, rejections, Ok)
               \/ RefuseTask(Target, to)
               \/ LoseTask(Target, to)
    /\ Unsent

\* T9 happens once: a task that comes back after a correction is skipped.
SubmitImplementation ==
    /\ At("engine", "submit_implementation")
    /\ IF Target = None
       THEN Fail("nothing") /\ UNCHANGED engine
       ELSE IF Target \in mem.submitted
       THEN Proceed(mem, filed, rejections, Ok) /\ UNCHANGED engine
       ELSE \/ /\ TransitionTask(Target, "impl_review")
               /\ Proceed([mem EXCEPT !.submitted = @ \cup {Target}],
                          filed, rejections, Ok)
            \/ RefuseTask(Target, "impl_review")
            \/ LoseTask(Target, "impl_review")
    /\ Unsent

MarkTaskDone ==
    /\ At("local", "mark_task_done")
    /\ Proceed(TaskMarkedDone(mem), filed, rejections, Ok)
    /\ UNCHANGED engine
    /\ Unsent

CorrectImplementation ==
    /\ At("local", "correct_implementation")
    /\ Proceed(CorrectionCounted(mem), filed, rejections,
               [Ok EXCEPT !.task = mem.cursor])
    /\ UNCHANGED engine
    /\ Unsent

\* The handlers of both nodes raise.
TerminateBudget ==
    /\ Runs("local")
    /\ node \in {"terminate_correction_budget", "terminate_rejection_budget"}
    /\ Fail("budget")
    /\ UNCHANGED engine
    /\ Unsent

Local(nodes) ==
    /\ Runs("local")
    /\ node \in nodes
    /\ Proceed(mem, filed, rejections, Ok)
    /\ UNCHANGED engine
    /\ Unsent

\* A commit to the project's repository is skipped when it cannot be made.
CommitArtifact ==
    Local({"commit_brief", "commit_tasks", "commit_plan", "commit_review"})

LogRun == Local({"log_run_started", "log_run_completed"})

\* Validators whose verdict nothing branches on.
Validate == Local({"run_validate_tasks", "run_tests"})

\* A failed validation counts as a rejection of the documents.
ValidateSpecs ==
    /\ At("local", "run_validate_specs_strict")
    /\ \/ Proceed(mem, filed, rejections, Ok)
       \/ /\ Capped
          /\ Proceed(mem, filed, Reject(rejections, "confirm_docs_update"),
                     [Ok EXCEPT !.passed = FALSE])
    /\ UNCHANGED engine
    /\ Unsent

\* W4 and W6 on the work item of the run.
CloseWorkItem ==
    /\ At("engine", "close_work_item")
    /\ LET to == <<"ready", "closed">>[hop] IN
       \/ /\ TransitionItem(to)
          /\ IF hop = 1
             THEN /\ hop' = 2
                  /\ UNCHANGED <<agent, node, run, cause, data>>
             ELSE Proceed(mem, filed, rejections, Ok)
       \/ RefuseItem(to)
       \/ LoseItem(to)
    /\ Unsent

\* The operator answers the checkpoint the run waits at.
Answer ==
    /\ Runs("human")
    /\ \E p \in Answers[node] :
           /\ Deliver(p)
           /\ posted' = [signal |-> Checkpoint[node].signal, payload |-> p]
    /\ UNCHANGED retries

\* A client that saw no response sends its last signal once more; the run
\* may have moved on to another checkpoint.
Resend ==
    /\ retries < Retries
    /\ posted # None
    /\ Deliver(posted.payload)
    /\ retries' = retries + 1
    /\ UNCHANGED posted

\* Cancellation, a crash of the service, a dispatch that times out.
Interrupt ==
    /\ run = "running"
    /\ Fail("stopped")
    /\ UNCHANGED engine
    /\ Unsent

Step ==
    \/ LoadWorkItem \/ GenerateTasks \/ GeneratePlan \/ GenerateMockup
    \/ ReviewImplementation \/ ContentFails
    \/ RegisterWorkItem \/ ProposeTask \/ ProposeTasks
    \/ EngineNode \/ SubmitImplementation \/ CloseWorkItem
    \/ MarkTaskDone \/ CorrectImplementation \/ TerminateBudget
    \/ CommitArtifact \/ LogRun \/ Validate \/ ValidateSpecs
    \/ Answer

Terminated == run # "running" /\ UNCHANGED vars

Next == Step \/ Resend \/ Interrupt \/ Terminated

Spec == Init /\ [][Next]_vars

\* The loop goes on to the next node, and operators answer (assumed).
FairSpec == Spec /\ WF_vars(Step)

-----------------------------------------------------------------------------
(* Properties *)

TaskStages == {"absent", "proposed", "approved", "assigning", "planning",
               "plan_review", "implementing", "impl_review", "done"}
ItemStages == {"absent", "open", "in_progress", "locked", "ready", "closed"}

Memory == [brief : BOOLEAN, tasks : Seq(Ids), cursor : Ids \cup {None},
           done : SUBSET Ids, linked : SUBSET Ids, submitted : SUBSET Ids,
           attempts : [Ids \cup {None} -> Nat], fails : [Ids -> Nat]]

\* The type invariant.
TypeOK ==
    /\ agent \in Agents
    /\ node \in Nodes
    /\ hop \in Nat
    /\ run \in {"running", "completed", "failed"}
    /\ cause \in Ends \cup {None}
    /\ mem \in Memory
    /\ filed \in [Sidecars -> SUBSET Ids]
    /\ rejections \in [Rejectable -> Nat]
    /\ engine \in [item : ItemStages, task : [Ids -> TaskStages]]
    /\ retries \in 0..Retries

\* Where the engine has the current task when a node of its loop runs.
StageAt == [
    confirm_assignment     |-> {"assigning"},
    assign_task            |-> {"assigning"},
    generate_mockup        |-> {"planning"},
    confirm_mockup         |-> {"planning"},
    generate_plan          |-> {"planning", "plan_review"},
    advance_plan           |-> {"planning", "plan_review"},
    confirm_plan           |-> {"planning", "plan_review"},
    commit_plan            |-> {"planning"},
    approve_plan           |-> {"planning", "plan_review"},
    request_implementation |-> {"implementing", "impl_review"},
    submit_implementation  |-> {"implementing", "impl_review"},
    run_tests              |-> {"impl_review"},
    review_implementation  |-> {"impl_review"},
    human_review_implementation |-> {"impl_review"},
    commit_review          |-> {"impl_review"},
    correct_implementation |-> {"impl_review"},
    approve_review         |-> {"impl_review"},
    mark_task_done         |-> {"done"}]

\* In the loop over the tasks, the memory's cursor is a linked task that is
\* not done, the engine has it where the node needs it, the tasks the memory
\* calls done are done in the engine and the others have not begun
\* (mark_task_done, tasks_remaining and the target resolver of bootstrap.py
\* read the memory; nothing reads the engine back).
Aligned ==
    run = "running" /\ node \in DOMAIN StageAt =>
        /\ mem.cursor \in (Listed(mem.tasks) \cap mem.linked) \ mem.done
        /\ engine.task[mem.cursor] \in StageAt[node]
        /\ \A t \in Listed(mem.tasks) \ {mem.cursor} :
               engine.task[t] = IF t \in mem.done THEN "done" ELSE "assigning"

\* The engine refuses a transition in one case only: T6 of a task whose plan
\* was rejected after it went to plan_review.
OnlyReplanRefused ==
    cause = "refused" =>
        /\ agent \in {"v04", "v05"}
        /\ node = "advance_plan"
        /\ rejections["confirm_plan"] > 0

\* Every failed review is counted against a task's budget, once, before the
\* task is asked for again (correction_attempts_under_bound reads the count,
\* never the review history).
CorrectionsCounted ==
    run = "running" =>
        \A t \in Ids :
            mem.fails[t] = mem.attempts[t] +
                           IF node = "correct_implementation" /\ mem.cursor = t
                           THEN 1 ELSE 0

\* No budget is exceeded, and no predicate meets a result it cannot read.
BudgetsRespected ==
    /\ \A t \in Ids : mem.attempts[t] <= Corrections
    /\ agent # "v06" => \A c \in Rejectable : rejections[c] <= Rejections
    /\ cause # "contract"

\* A run completes only with its work item closed and every task of its list
\* done in the engine and in the memory.
CompletedMeansDone ==
    run = "completed" =>
        /\ engine.item = "closed"
        /\ \A t \in Listed(mem.tasks) : engine.task[t] = "done"
        /\ Listed(mem.tasks) \subseteq mem.done

\* Once the tasks are in progress no later iteration loses what an earlier
\* one wrote: links, sidecars, tasks done, corrections counted.
Kept ==
    [][engine.item = "in_progress" =>
        /\ mem.tasks' = mem.tasks
        /\ mem.linked \subseteq mem.linked'
        /\ mem.submitted \subseteq mem.submitted'
        /\ mem.done \subseteq mem.done'
        /\ \A t \in Ids : mem.attempts[t] <= mem.attempts[t]'
        /\ \A s \in Sidecars : filed[s] \subseteq filed'[s]]_vars

\* A run ends: every loop of the declarations but those of 0.6.0 has a
\* budget.
Terminates == run = "running" /\ agent # "v06" ~> run # "running"

\* A task has entered the pipeline when an item of its was assigned.
Entering(t) == IF \E i \in 1 .. hop - 1 : i \in DOMAIN mem.tasks /\ mem.tasks[i] = t
               THEN "assigning" ELSE "absent"

\* The promise of every variant.
Pipeline == INSTANCE TaskPipeline WITH
    item  <- engine.item,
    stage <- [t \in Ids |->
                 IF engine.task[t] \in {"proposed", "approved"} THEN Entering(t)
                 ELSE engine.task[t]]

Implements == Pipeline!Spec

\* IMP-006: a plan may be rejected, and the flow goes back to its author.
RejectedPlanLoopsBack ==
    rejections["confirm_plan"] \in 1 .. (Rejections - 1) => cause # "refused"
=============================================================================
