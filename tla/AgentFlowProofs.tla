--------------------------- MODULE AgentFlowProofs ---------------------------
(***************************************************************************)
(* What a run of any of the four variants keeps, for every set of task     *)
(* ids, of written task lists and of requests, and every budget.           *)
(*                                                                         *)
(* Three inductive invariants, each above the one before.  TypeInv: what   *)
(* every variable and every field of the memory is.  BudgetInv: what is    *)
(* left of each budget while the run goes on, except where its last unit   *)
(* has just been spent.  FlowInv: the nodes of a declaration fall into     *)
(* phases, and the phase of the cursor fixes what the memory, the files    *)
(* and the engine hold; it is preserved node by node.  The next part maps  *)
(* each step of the variants to a step of TaskPipeline, and the last shows *)
(* what gets smaller with every step of a run.                             *)
(***************************************************************************)
EXTENDS AgentFlow, FiniteSetTheorems, WellFoundedInduction, TLAPS

(* The declarations: their nodes, and that every edge leads to one of them. *)

Variants == {"v03", "v04", "v05", "v06"}

LEMMA Flows ==
    /\ DOMAIN Transitions = Variants
    /\ Transitions["v03"] = V03 /\ Transitions["v04"] = V04
    /\ Transitions["v05"] = V05 /\ Transitions["v06"] = V06
BY DEF Transitions, Variants

LEMMA Names4 ==
    DOMAIN V04 = DOMAIN V03 \cup
        {"confirm_brief", "confirm_tasks", "confirm_assignment",
         "confirm_plan", "human_review_implementation"}
BY DEF V03, V04, Edge, To, Gate, Amended

LEMMA Names5 ==
    DOMAIN V05 = DOMAIN V04 \cup {"generate_mockup", "confirm_mockup"}
BY Names4 DEF V03, V04, V05, Edge, To, Gate, Amended

Reached(a) == DOMAIN Transitions[a] \cup TerminalNodes

Closed(flow) ==
    \A n \in DOMAIN flow :
        {flow[n].yes, flow[n].no} \subseteq DOMAIN flow \cup TerminalNodes

LEMMA Closed3 == Closed(V03)
BY DEF Closed, V03, Edge, To, TerminalNodes
LEMMA Closed4 == Closed(V04)
BY Names4, SMTT(60) DEF Closed, V03, V04, Edge, To, Gate, Amended, TerminalNodes
LEMMA Closed5 == Closed(V05)
BY Names4, Names5, Closed4 DEF Closed, V03, V05, Edge, To, Gate, Amended, TerminalNodes
LEMMA Closed6 == Closed(V06)
BY DEF Closed, V06, Edge, To, Again, TerminalNodes

LEMMA FlowsClosed ==
    ASSUME NEW a \in Agents
    PROVE  /\ a \in Variants
           /\ Closed(Transitions[a])
           /\ Transitions[a].start.yes \in Reached(a)
           /\ Reached(a) \subseteq Nodes
<1>1. a \in Variants /\ Closed(Transitions[a])
  BY Flows, Closed3, Closed4, Closed5, Closed6, AgentsAssumption DEF Variants
<1>2. "start" \in DOMAIN Transitions[a]
  BY <1>1, Flows, Names4, Names5 DEF Variants, V03, V06
<1>3. Reached(a) \subseteq Nodes
  BY <1>1, Flows DEF Reached, Nodes
<1> QED
  BY <1>1, <1>2, <1>3 DEF Closed, Reached

Payloads == UNION {Answers[n] : n \in DOMAIN Answers}

LEMMA PayloadFields ==
    ASSUME NEW p \in Payloads
    PROVE  /\ "tasks" \in DOMAIN p => p.tasks \in TaskLists \ {<<>>}
           /\ "verdict" \in DOMAIN p => p.verdict \in Verdicts
           /\ "taskId" \in DOMAIN p => p.taskId \in Ids
<1>1. PICK n \in DOMAIN Answers : p \in Answers[n]
  BY DEF Payloads
<1>2. \/ p \in {Approve, Refuse} \/ p \in [workItem : {"complete", "partial"}]
      \/ p \in [tasks : TaskLists \ {<<>>}] \/ p \in {[mockupHtml |-> "html"]}
      \/ p \in {[plan |-> "plan"]}
      \/ p \in {[assignee |-> "dev"]} \cup [assignee : {"dev"}, taskId : Ids]
      \/ p \in {NoFields} \/ p \in {[prUrl |-> "url"]}
      \/ p \in [verdict : {"pass", "fail"}]
  <2>1. DOMAIN Answers = {"confirm_brief", "confirm_tasks", "confirm_task_review",
            "confirm_mockup", "confirm_plan", "confirm_docs_update",
            "confirm_assignment", "request_implementation",
            "human_review_implementation"}
    BY DEF Answers
  <2>2. /\ Answers["confirm_brief"] = {Approve, Refuse} \cup [workItem : {"complete", "partial"}]
        /\ Answers["confirm_tasks"] = {Approve, Refuse} \cup [tasks : TaskLists \ {<<>>}]
        /\ Answers["confirm_task_review"] = {Approve, Refuse}
        /\ Answers["confirm_mockup"] = {Refuse, [mockupHtml |-> "html"]}
        /\ Answers["confirm_plan"] = {Approve, Refuse, [plan |-> "plan"]}
        /\ Answers["confirm_docs_update"] = {Approve, Refuse}
        /\ Answers["confirm_assignment"] =
               {[assignee |-> "dev"]} \cup [assignee : {"dev"}, taskId : Ids]
        /\ Answers["request_implementation"] = {NoFields, [prUrl |-> "url"]}
        /\ Answers["human_review_implementation"] = [verdict : {"pass", "fail"}]
    BY DEF Answers
  <2> QED
    BY <1>1, <2>1, <2>2, Zenon
<1> QED
  BY <1>2 DEF Approve, Refuse, NoFields, Verdicts

-----------------------------------------------------------------------------

(* The cursor: the first task of the list that is not done. *)

LEMMA Least ==
    ASSUME NEW S, S \subseteq Nat, S # {}
    PROVE  \E i \in S : \A j \in S : i <= j
<1> DEFINE T == {1 .. i : i \in S}
<1>1. T \subseteq FiniteSubsetsOf(Nat) /\ T # {}
  <2>1. \A i \in S : 1 .. i \subseteq Nat /\ IsFiniteSet(1 .. i)
    BY FS_Interval
  <2> QED
    BY <2>1 DEF FiniteSubsetsOf
<1>2. PICK x \in T : \A y \in T : <<y, x>> \notin StrictSubsetOrdering(Nat)
  BY <1>1, FS_StrictSubsetOrderingWellFounded, WFMin
<1>3. PICK i \in S : x = 1 .. i
  OBVIOUS
<1>4. ASSUME NEW j \in S, j < i PROVE FALSE
  <2>1. /\ 1 .. j \subseteq Nat /\ 1 .. i \subseteq Nat
        /\ 1 .. j \subseteq 1 .. i /\ i \notin 1 .. j /\ i \in 1 .. i
    BY <1>4
  <2>2. <<1 .. j, 1 .. i>> \in StrictSubsetOrdering(Nat)
    BY <2>1 DEF StrictSubsetOrdering
  <2>3. 1 .. j \in T
    OBVIOUS
  <2> QED
    BY <1>2, <1>3, <2>2, <2>3
<1> QED
  BY <1>4

LEMMA FirstUndoneIs ==
    ASSUME NEW tasks \in Seq(Ids), NEW done
    PROVE  \/ FirstUndone(tasks, done) = None /\ Listed(tasks) \subseteq done
           \/ FirstUndone(tasks, done) \in Listed(tasks) \ done
<1> DEFINE undone == {i \in DOMAIN tasks : tasks[i] \notin done}
<1>1. undone \subseteq Nat
  OBVIOUS
<1>2. CASE undone = {}
  BY <1>2 DEF FirstUndone, Listed
<1>3. CASE undone # {}
  <2>1. PICK i \in undone : \A j \in undone : i <= j
    BY <1>1, <1>3, Least
  <2>2. (CHOOSE k \in undone : \A j \in undone : k <= j) \in undone
    BY <2>1
  <2> QED
    BY <1>3, <2>2 DEF FirstUndone, Listed
<1> QED
  BY <1>2, <1>3

-----------------------------------------------------------------------------
(* Types *)

LEMMA MemoryUpdates ==
    ASSUME NEW m \in Memory
    PROVE  /\ [m EXCEPT !.brief = TRUE] \in Memory
           /\ FailNoted(m) \in Memory
           /\ CorrectionCounted(m) \in Memory
           /\ TaskMarkedDone(m) \in Memory
           /\ \A t \in Ids : [m EXCEPT !.linked = @ \cup {t}] \in Memory
           /\ \A t \in Ids : [m EXCEPT !.submitted = @ \cup {t}] \in Memory
           /\ \A ts \in TaskLists : TasksReplaced(m, ts) \in Memory
<1>1. \A ts \in Seq(Ids), done \in SUBSET Ids : FirstUndone(ts, done) \in Ids \cup {None}
  BY FirstUndoneIs DEF Listed
<1>2. \A ts \in TaskLists : ts \in Seq(Ids)
  BY ListsAssumption
<1>3. FailNoted(m) \in Memory /\ CorrectionCounted(m) \in Memory
  <2>1. /\ m.cursor \in Ids \cup {None} /\ m.fails \in [Ids -> Nat]
        /\ m.attempts \in [Ids \cup {None} -> Nat]
    BY DEF Memory
  <2>2. ASSUME NEW S, NEW c, NEW g \in [S -> Nat]
        PROVE  [g EXCEPT ![c] = @ + 1] \in [S -> Nat]
    <3>1. CASE c \in S
      BY <3>1
    <3>2. CASE c \notin S
      <4>1. [g EXCEPT ![c] = @ + 1] = [x \in S |-> g[x]]
        BY <3>2
      <4> QED
        BY <4>1
    <3> QED
      BY <3>1, <3>2
  <2> QED
    BY <2>1, <2>2 DEF FailNoted, CorrectionCounted, Memory
<1>4. TaskMarkedDone(m) \in Memory
  <2> DEFINE done == m.done \cup ({m.cursor} \ {None})
  <2>1. done \in SUBSET Ids /\ m.tasks \in Seq(Ids)
    BY DEF Memory
  <2>2. FirstUndone(m.tasks, done) \in Ids \cup {None}
    BY <1>1, <2>1
  <2>3. TaskMarkedDone(m) = [m EXCEPT !.done = done, !.cursor = FirstUndone(m.tasks, done)]
    BY DEF TaskMarkedDone
  <2> QED
    BY <2>1, <2>2, <2>3 DEF Memory
<1>5. ASSUME NEW ts \in TaskLists PROVE TasksReplaced(m, ts) \in Memory
  <2>1. ts \in Seq(Ids) /\ m.done \in SUBSET Ids
    BY <1>2 DEF Memory
  <2>2. FirstUndone(ts, m.done) \in Ids \cup {None}
    BY <1>1, <2>1
  <2>3. /\ m.linked \cap Listed(ts) \in SUBSET Ids
        /\ m.submitted \cap Listed(ts) \in SUBSET Ids
    BY DEF Memory
  <2> QED
    BY <2>1, <2>2, <2>3 DEF TasksReplaced, Memory
<1> QED
  BY <1>3, <1>4, <1>5 DEF Memory

LEMMA FreshIs ==
    /\ FreshMemory \in Memory
    /\ [FreshMemory EXCEPT !.brief = TRUE] \in Memory
    /\ \A ts \in TaskLists :
          [FreshMemory EXCEPT !.tasks = ts, !.cursor = FirstUndone(ts, {})] \in Memory
<1>1. FreshMemory \in Memory
  BY DEF FreshMemory, Memory
<1>2. \A ts \in TaskLists : ts \in Seq(Ids) /\ FirstUndone(ts, {}) \in Ids \cup {None}
  BY ListsAssumption, FirstUndoneIs DEF Listed
<1> QED
  BY <1>1, <1>2 DEF Memory

Placed == node \in Reached(agent)
PostedOK == posted = None \/ posted.payload \in Payloads
TypeInv == TypeOK /\ Placed /\ PostedOK

Files == [Sidecars -> SUBSET Ids]
Counts == [Rejectable -> Nat]

LEMMA ProceedTo ==
    ASSUME TypeInv, run = "running",
           NEW m, NEW f, NEW rj, NEW last, Proceed(m, f, rj, last)
    PROVE  /\ mem' = m /\ filed' = f /\ rejections' = rj
           /\ hop' = 1 /\ agent' = agent
           /\ node' \in Reached(agent)
           /\ run' \in {"running", "completed", "failed"}
           /\ cause' \in Ends \cup {None}
           /\ run' = "running" =>
                /\ node \in DOMAIN Transitions[agent]
                /\ node \notin TerminalNodes
                /\ ~Raises(Transitions[agent][node].rule, last)
                /\ cause' = cause
                /\ LET edge == Transitions[agent][node]
                    IN  node' = IF Holds(edge.rule, m, rj, last) THEN edge.yes ELSE edge.no
           /\ run' = "completed" => node \in TerminalNodes /\ node' = node /\ cause' = "done_node"
           /\ run' = "failed" =>
                /\ node' = node /\ node \in DOMAIN Transitions[agent] \ TerminalNodes
                /\ Raises(Transitions[agent][node].rule, last) /\ cause' = "contract"
<1> USE DEF TypeInv, Placed, Reached
<1>1. agent \in Agents
  BY DEF TypeOK
<1>2. cause \in Ends \cup {None}
  BY DEF TypeOK
<1>3. CASE node \in TerminalNodes
  BY <1>3, <1>2 DEF Proceed, End, Ends
<1>4. CASE node \notin TerminalNodes /\ Raises(Transitions[agent][node].rule, last)
  BY <1>4, <1>2 DEF Proceed, End, Ends
<1>5. CASE node \notin TerminalNodes /\ ~Raises(Transitions[agent][node].rule, last)
  <2>1. node' = Successor(m, rj, last) /\ UNCHANGED <<run, cause>>
    BY <1>5 DEF Proceed
  <2>2. node \in DOMAIN Transitions[agent]
    BY <1>5
  <2>3. Successor(m, rj, last) \in Reached(agent)
    BY <1>1, <2>2, FlowsClosed DEF Successor, Closed
  <2> QED
    BY <1>2, <1>5, <2>1, <2>2, <2>3 DEF Proceed, Successor
<1> QED
  BY <1>3, <1>4, <1>5

LEMMA ProceedType ==
    ASSUME TypeInv, run = "running",
           NEW m \in Memory, NEW f \in Files, NEW rj \in Counts, NEW last,
           Proceed(m, f, rj, last),
           engine' \in [item : ItemStages, task : [Ids -> TaskStages]],
           retries' \in 0 .. Retries, PostedOK'
    PROVE  TypeInv'
<1>1. agent \in Agents /\ Reached(agent) \subseteq Nodes
  BY FlowsClosed DEF TypeInv, TypeOK
<1> QED
  BY <1>1, ProceedTo DEF TypeInv, TypeOK, Placed, Files, Counts

LEMMA FailType ==
    ASSUME TypeInv, NEW why \in Ends, Fail(why),
           engine' \in [item : ItemStages, task : [Ids -> TaskStages]],
           retries' \in 0 .. Retries, PostedOK'
    PROVE  TypeInv'
BY DEF Fail, End, TypeInv, TypeOK, Placed, Reached, data

LEMMA PatchedType ==
    ASSUME TypeInv, NEW p \in Payloads, NEW n,
           n \in Rejectable \/ Verdict(p) # "reject"
    PROVE  /\ PatchedMemory(n, p) \in Memory
           /\ PatchedFiles(n, p) \in Files
           /\ PatchedRejections(n, p) \in Counts
<1> USE DEF TypeInv, TypeOK
<1>1. PatchedMemory(n, p) \in Memory
  BY MemoryUpdates, PayloadFields DEF PatchedMemory
<1>2. PatchedFiles(n, p) \in Files
  <2>1. Subject(p) \in Ids \cup {None}
    BY PayloadFields DEF Memory, Subject
  <2> QED
    BY <2>1 DEF PatchedFiles, Files
<1>3. PatchedRejections(n, p) \in Counts
  BY DEF PatchedRejections, Reject, Counts
<1> QED
  BY <1>1, <1>2, <1>3

\* An answer the checkpoint takes.
LEMMA Accepted ==
    ASSUME NEW n \in DOMAIN Checkpoint, NEW p \in Payloads, Valid(n, p)
    PROVE  /\ Verdict(p) = "reject" => n \in Rejectable
           /\ n = "human_review_implementation" => Verdict(p) \in {"pass", "fail"}
           /\ n \in Rejectable => Verdict(p) \in {None, "approve", "reject"}
           /\ Verdict(p) = "fail" => n = "human_review_implementation"
<1>1. /\ DOMAIN Checkpoint = Rejectable \cup {"confirm_assignment", "request_implementation",
                                  "human_review_implementation"}
      /\ \A c \in Rejectable : Checkpoint[c].verdicts = {"approve", "reject"}
      /\ Checkpoint["confirm_assignment"].verdicts = {}
      /\ Checkpoint["request_implementation"].verdicts = {}
      /\ Checkpoint["human_review_implementation"].verdicts = {"pass", "fail"}
      /\ Checkpoint["human_review_implementation"].needs = {"verdict"}
  BY DEF Checkpoint, Rejectable, Judged, Schema
<1>2. Verdict(p) \in Checkpoint[n].verdicts \cup {None}
  BY DEF Valid
<1>3. None \notin Verdicts
  BY IdsAssumption
<1>4. n = "human_review_implementation" => Verdict(p) # None
  BY <1>1, <1>3, PayloadFields DEF Valid, Verdict
<1> QED
  BY <1>1, <1>2, <1>3, <1>4 DEF Rejectable, Verdicts

LEMMA Bindings ==
    /\ Bound["v03"] = Bound03 /\ Bound["v04"] = Bound04
    /\ Bound["v05"] = Bound05 /\ Bound["v06"] = Bound06
BY DEF Bound

Human05 == {"request_implementation", "confirm_brief", "confirm_tasks", "confirm_plan",
            "confirm_assignment", "human_review_implementation", "confirm_mockup"}

LEMMA HumanNodes ==
    ASSUME NEW a \in Variants
    PROVE  Bound[a].human \subseteq DOMAIN Checkpoint \cap DOMAIN Answers
<1>2. /\ Bound03.human \subseteq Human05 /\ Bound04.human \subseteq Human05
      /\ Bound05.human = Human05 /\ Bound06.human = Human06
  BY DEF Bound03, Bound04, Bound05, Bound06, Human05
<1>3. DOMAIN Checkpoint = Human06 /\ DOMAIN Answers = Human06 /\ Human05 \subseteq Human06
  BY DEF Checkpoint, Answers, Human05, Human06
<1> QED
  BY <1>2, <1>3, Bindings DEF Variants

Engines == [item : ItemStages, task : [Ids -> TaskStages]]

\* What the engine can become stays typed.
LEMMA Moves ==
    ASSUME engine \in Engines
    PROVE  /\ \A t, to : TransitionTask(t, to) => engine' \in Engines
           /\ \A to : TransitionItem(to) => engine' \in Engines
           /\ \A t, to : LoseTask(t, to) => engine' \in Engines
           /\ \A to : LoseItem(to) => engine' \in Engines
           /\ \A t : \A to \in TaskStages : TaskMoved(t, to) \in Engines
           /\ \A to \in ItemStages : ItemMoved(to) \in Engines
<1>1. \A t : \A to \in TaskStages : TaskMoved(t, to) \in Engines
  BY DEF TaskMoved, Engines
<1>2. \A to \in ItemStages : ItemMoved(to) \in Engines
  BY DEF ItemMoved, Engines
<1>3. ASSUME NEW t, NEW to, TransitionTask(t, to) PROVE engine' \in Engines
  <2>1. <<engine.task[t], to>> \in TaskEdges /\ engine' = TaskMoved(t, to)
    BY <1>3 DEF TransitionTask
  <2>2. to \in TaskStages
    BY <2>1 DEF TaskEdges, TaskStages
  <2> QED
    BY <1>1, <2>1, <2>2
<1>4. ASSUME NEW to, TransitionItem(to) PROVE engine' \in Engines
  <2>1. <<engine.item, to>> \in ItemEdges /\ engine' = ItemMoved(to)
    BY <1>4 DEF TransitionItem
  <2>2. to \in ItemStages
    BY <2>1 DEF ItemEdges, ItemStages
  <2> QED
    BY <1>2, <2>1, <2>2
<1> QED
  BY <1>1, <1>2, <1>3, <1>4 DEF LoseTask, LoseItem

LEMMA DeliverType ==
    ASSUME TypeInv, NEW p \in Payloads, Deliver(p), PostedOK', retries' \in 0 .. Retries
    PROVE  TypeInv'
<1>1. run = "running" /\ node \in DOMAIN Checkpoint
  BY HumanNodes, FlowsClosed DEF Deliver, Runs, TypeInv, TypeOK
<1>2. engine' \in Engines
  BY DEF Deliver, Engines, TypeInv, TypeOK
<1>3. CASE Valid(node, p) /\ Applicable(node, p)
  <2>1. node \in Rejectable \/ Verdict(p) # "reject"
    BY <1>1, <1>3, Accepted
  <2>2. Proceed(PatchedMemory(node, p), PatchedFiles(node, p),
                PatchedRejections(node, p), WithVerdict(Verdict(p)))
    BY <1>3 DEF Deliver
  <2> QED
    BY <1>1, <1>2, <2>1, <2>2, PatchedType, ProceedType DEF Engines
<1>4. CASE ~(Valid(node, p) /\ Applicable(node, p))
  BY <1>2, <1>4, FailType DEF Deliver, Ends, Engines
<1> QED
  BY <1>3, <1>4

LEMMA InitType == Init => TypeInv
<1> SUFFICES ASSUME Init PROVE TypeInv
  OBVIOUS
<1>1. agent \in Agents /\ node \in Reached(agent) /\ node \in Nodes
  BY FlowsClosed DEF Init
<1>2. mem \in Memory
  BY FreshIs DEF Init
<1>3. engine \in Engines
  BY DEF Init, Engines, ItemStages, TaskStages
<1> QED
  BY <1>1, <1>2, <1>3, BoundsAssumption
     DEF Init, TypeInv, TypeOK, Placed, PostedOK, Engines, Sidecars, Rejectable

LEMMA NextType == TypeInv /\ [Next]_vars => TypeInv'
<1> SUFFICES ASSUME TypeInv, [Next]_vars PROVE TypeInv'
  OBVIOUS
<1> DEFINE E == engine' \in Engines
<1>1. /\ agent \in Agents /\ hop \in Nat /\ mem \in Memory /\ filed \in Files
      /\ rejections \in Counts /\ engine \in Engines /\ retries \in 0 .. Retries
  BY DEF TypeInv, TypeOK, Files, Counts, Engines
<1>2. UNCHANGED posted => PostedOK'
  BY DEF TypeInv, PostedOK
<1>3. ASSUME run = "running", NEW m \in Memory, NEW f \in Files, NEW rj \in Counts,
             NEW last, Proceed(m, f, rj, last), Unsent, E
      PROVE  TypeInv'
  BY <1>1, <1>2, <1>3, ProceedType DEF Unsent, Engines
<1>4. ASSUME NEW why \in Ends, Fail(why), Unsent, E
      PROVE  TypeInv'
  BY <1>1, <1>2, <1>4, FailType DEF Unsent, Engines
<1>5. UNCHANGED engine => E
  BY <1>1
<1>6. ASSUME NEW t \in Ids, NEW s \in {"plans", "mockups"} PROVE File(filed, s, t) \in Files
  BY <1>1 DEF File, Files, Sidecars
<1> HIDE DEF E
<1>11. CASE LoadWorkItem
  BY <1>1, <1>3, <1>5, <1>11, FreshIs DEF LoadWorkItem, Author, At, Runs
<1>12. CASE GenerateTasks
  BY <1>1, <1>3, <1>5, <1>12, FreshIs DEF GenerateTasks, Author, At, Runs
<1>13. CASE GeneratePlan
  BY <1>1, <1>3, <1>5, <1>6, <1>13 DEF GeneratePlan, Author, At, Runs
<1>14. CASE GenerateMockup
  BY <1>1, <1>3, <1>5, <1>6, <1>14 DEF GenerateMockup, Author, At, Runs
<1>15. CASE ReviewImplementation
  BY <1>1, <1>3, <1>5, <1>15, MemoryUpdates DEF ReviewImplementation, Author, At, Runs
<1>16. CASE ContentFails
  BY <1>4, <1>5, <1>16 DEF ContentFails, Ends
<1>17. CASE RegisterWorkItem
  <2>1. "open" \in ItemStages /\ ItemMoved("open") \in Engines
    BY <1>1, Moves DEF ItemStages
  <2>2. E
    BY <1>1, <1>5, <1>17, <2>1 DEF RegisterWorkItem, E
  <2> QED
    BY <1>1, <1>3, <1>4, <1>17, <2>2 DEF RegisterWorkItem, At, Runs, Ends
<1>18. CASE ProposeTask
  <2> DEFINE t == mem.tasks[hop]
  <2>1. t \in Ids
    BY <1>1, <1>18 DEF ProposeTask, Memory
  <2>2. E
    <3>1. \A x \in {"proposed", "approved", "assigning"} : TaskMoved(t, x) \in Engines
      BY <1>1, Moves DEF TaskStages
    <3>2. engine' \in {engine, TaskMoved(t, "proposed"), TaskMoved(t, "approved"),
                       TaskMoved(t, "assigning")}
      BY <1>18, Zenon DEF ProposeTask
    <3> QED
      BY <1>1, <3>1, <3>2 DEF E
  <2>3. mem' \in Memory
    BY <1>1, <1>18, <2>1, MemoryUpdates DEF ProposeTask, Linked
  <2> QED
    BY <1>1, <1>2, <1>18, <2>2, <2>3
       DEF ProposeTask, TypeInv, TypeOK, Placed, Reached, End, Ends, Unsent, E, Engines
<1>19. CASE ProposeTasks
  <2>2. E
    BY <1>1, <1>5, <1>19, Moves DEF ProposeTasks, RefuseItem, E
  <2> QED
    BY <1>1, <1>3, <1>4, <1>19, <2>2
       DEF ProposeTasks, At, Runs, Ends, RefuseItem, LoseItem
<1>20. CASE EngineNode
  <2> DEFINE to == Calls(agent, node)[hop]
  <2>1. E
    BY <1>1, <1>5, <1>20, Moves DEF EngineNode, RefuseTask, E
  <2>2. CASE /\ hop' = hop + 1
             /\ UNCHANGED <<agent, node, run, cause, data>>
    BY <1>1, <1>2, <1>20, <2>1, <2>2
       DEF EngineNode, TypeInv, TypeOK, Placed, Reached, data, Unsent, E, Engines
  <2>3. CASE Proceed(mem, filed, rejections, Ok)
    BY <1>1, <1>3, <1>20, <2>1, <2>3 DEF EngineNode, Runs
  <2>4. CASE \E why \in Ends : Fail(why)
    BY <1>4, <1>20, <2>1, <2>4 DEF EngineNode
  <2> QED
    BY <1>20, <2>2, <2>3, <2>4 DEF EngineNode, RefuseTask, LoseTask, Ends
<1>21. CASE SubmitImplementation
  <2>1. E
    BY <1>1, <1>5, <1>21, Moves DEF SubmitImplementation, RefuseTask, E
  <2>2. CASE Proceed(mem, filed, rejections, Ok)
    BY <1>1, <1>3, <1>21, <2>1, <2>2 DEF SubmitImplementation, At, Runs
  <2>3. CASE /\ Target # None
             /\ Proceed([mem EXCEPT !.submitted = @ \cup {Target}], filed, rejections, Ok)
    <3>1. Target \in Ids
      BY <1>1, <2>3 DEF Target, Memory
    <3> QED
      BY <1>1, <1>3, <1>21, <2>1, <2>3, <3>1, MemoryUpdates DEF SubmitImplementation, At, Runs
  <2>4. CASE \E why \in Ends : Fail(why)
    BY <1>4, <1>21, <2>1, <2>4 DEF SubmitImplementation
  <2> QED
    BY <1>21, <2>2, <2>3, <2>4 DEF SubmitImplementation, RefuseTask, LoseTask, Ends
<1>22. CASE CloseWorkItem
  <2>1. E
    BY <1>1, <1>5, <1>22, Moves DEF CloseWorkItem, RefuseItem, E
  <2>2. CASE /\ hop' = 2
             /\ UNCHANGED <<agent, node, run, cause, data>>
    BY <1>1, <1>2, <1>22, <2>1, <2>2
       DEF CloseWorkItem, TypeInv, TypeOK, Placed, Reached, data, Unsent, E, Engines
  <2>3. CASE Proceed(mem, filed, rejections, Ok)
    BY <1>1, <1>3, <1>22, <2>1, <2>3 DEF CloseWorkItem, At, Runs
  <2>4. CASE \E why \in Ends : Fail(why)
    BY <1>4, <1>22, <2>1, <2>4 DEF CloseWorkItem
  <2> QED
    BY <1>22, <2>2, <2>3, <2>4 DEF CloseWorkItem, RefuseItem, LoseItem, Ends
<1>23. CASE MarkTaskDone
  BY <1>1, <1>3, <1>5, <1>23, MemoryUpdates DEF MarkTaskDone, At, Runs
<1>24. CASE CorrectImplementation
  BY <1>1, <1>3, <1>5, <1>24, MemoryUpdates DEF CorrectImplementation, At, Runs
<1>25. CASE TerminateBudget
  BY <1>4, <1>5, <1>25 DEF TerminateBudget, Ends
<1>26. CASE CommitArtifact \/ LogRun \/ Validate
  BY <1>1, <1>3, <1>5, <1>26 DEF CommitArtifact, LogRun, Validate, Local, Runs
<1>27. CASE ValidateSpecs
  <2>1. Reject(rejections, "confirm_docs_update") \in Counts
    BY <1>1 DEF Reject, Counts, Rejectable
  <2> QED
    BY <1>1, <1>3, <1>5, <1>27, <2>1 DEF ValidateSpecs, At, Runs
<1>28. CASE Answer
  <2>1. PICK p \in Answers[node] :
            Deliver(p) /\ posted' = [signal |-> Checkpoint[node].signal, payload |-> p]
    BY <1>28 DEF Answer
  <2>2. p \in Payloads
    BY <1>1, <1>28, HumanNodes, FlowsClosed DEF Answer, Runs, Payloads
  <2> QED
    BY <1>1, <1>28, <2>1, <2>2, DeliverType DEF Answer, PostedOK
<1>29. CASE Resend
  <2>1. posted.payload \in Payloads /\ PostedOK' /\ retries' \in 0 .. Retries
    BY <1>1, <1>2, <1>29, BoundsAssumption DEF Resend, TypeInv, PostedOK
  <2> QED
    BY <1>29, <2>1, DeliverType DEF Resend
<1>30. CASE Interrupt
  BY <1>4, <1>5, <1>30 DEF Interrupt, Ends
<1>31. CASE Terminated \/ UNCHANGED vars
  BY <1>31 DEF Terminated, vars, data, TypeInv, TypeOK, Placed, Reached, PostedOK
<1> QED
  BY <1>11, <1>12, <1>13, <1>14, <1>15, <1>16, <1>17, <1>18, <1>19, <1>20, <1>21, <1>22,
     <1>23, <1>24, <1>25, <1>26, <1>27, <1>28, <1>29, <1>30, <1>31 DEF Next, Step

\* Every variable keeps its type: the cursor is a node of a declaration, the
\* memory is well formed after every patch a checkpoint accepts, and the
\* cause of an end is one the loop knows.
THEOREM TypeCorrect == Spec => []TypeOK
<1>1. Spec => []TypeInv
  BY InitType, NextType, PTL DEF Spec
<1> QED
  BY <1>1, PTL DEF TypeInv

-----------------------------------------------------------------------------
(* Corrections and budgets *)

Reviews == {"review_implementation", "human_review_implementation"}

\* How a declaration spends its budgets.
Budgeted(flow) ==
    \A n \in DOMAIN flow :
        /\ flow[n].rule = "review_passed" <=> n \in Reviews
        /\ n \in Reviews =>
              flow[n].yes # "correct_implementation" /\ flow[n].no = "correct_implementation"
        /\ n \notin Reviews => "correct_implementation" \notin {flow[n].yes, flow[n].no}
        /\ flow[n].rule = "checkpoint_approved" => n \in Rejectable
        /\ n = "correct_implementation" =>
              /\ flow[n].rule = "correction_attempts_under_bound"
              /\ flow[n].no = "terminate_correction_budget"
        /\ n # "correct_implementation" =>
              "terminate_correction_budget" \notin {flow[n].yes, flow[n].no}

\* A checkpoint that can be rejected lies behind the gate.
Gated(flow) ==
    \A n \in DOMAIN flow :
        /\ flow[n].no \notin Rejectable
        /\ flow[n].yes \in Rejectable => flow[n].rule = "checkpoint_rejections_under_bound"

LEMMA Budgeted3 == Budgeted(V03) /\ Gated(V03)
BY DEF Budgeted, Gated, V03, Edge, To, Reviews, Rejectable
LEMMA Budgeted4 == Budgeted(V04) /\ Gated(V04)
<1>1. Budgeted(V04)
  BY Names4, Budgeted3, SMTT(60)
     DEF Budgeted, V03, V04, Edge, To, Gate, Amended, Reviews, Rejectable
<1>2. Gated(V04)
  BY Names4, Budgeted3, SMTT(60)
     DEF Gated, V03, V04, Edge, To, Gate, Amended, Rejectable
<1> QED
  BY <1>1, <1>2
LEMMA Budgeted5 == Budgeted(V05) /\ Gated(V05)
<1>1. Budgeted(V05)
  BY Names4, Names5, Budgeted4, SMTT(60)
     DEF Budgeted, V03, V05, Edge, To, Gate, Amended, Reviews, Rejectable
<1>2. Gated(V05)
  BY Names4, Names5, Budgeted4, SMTT(60)
     DEF Gated, V03, V05, Edge, To, Gate, Amended, Rejectable
<1> QED
  BY <1>1, <1>2
LEMMA Budgeted6 == Budgeted(V06)
BY DEF Budgeted, V06, Edge, To, Again, Reviews, Rejectable

LEMMA FlowsBudgeted ==
    ASSUME NEW a \in Agents
    PROVE  Budgeted(Transitions[a]) /\ (a # "v06" => Gated(Transitions[a]))
BY Flows, FlowsClosed, Budgeted3, Budgeted4, Budgeted5, Budgeted6 DEF Variants

LEMMA Starts ==
    ASSUME NEW a \in Agents
    PROVE  Transitions[a].start.yes \in {"load_work_item", "log_run_started"}
<1>1. "start" \in DOMAIN V03 /\ V03["start"].yes = "load_work_item"
  BY DEF V03, To, Edge
<1>2. "start" \in DOMAIN V04 /\ V04["start"] = V03["start"]
  BY <1>1, Names4 DEF V04, Amended
<1>3. V05["start"] = V04["start"]
  BY <1>2, Names5 DEF V05, Amended
<1>4. V06["start"].yes = "log_run_started"
  BY DEF V06, To, Edge
<1> QED
  BY <1>1, <1>2, <1>3, <1>4, Flows, FlowsClosed DEF Variants

\* While a run goes on every budget has something left, but where its last
\* unit has just been spent.
AttemptsLeft ==
    run = "running" /\ node # "terminate_correction_budget" =>
        \A t \in Ids : mem.attempts[t] < Corrections
RejectionsLeft ==
    run = "running" /\ agent # "v06" /\ node \in Rejectable =>
        UnderRejectionBound(rejections)

BudgetInv ==
    CorrectionsCounted /\ AttemptsLeft /\ RejectionsLeft /\ BudgetsRespected

LEMMA Spent ==
    ASSUME TypeInv, BudgetInv, run = "running",
           NEW m \in Memory, NEW f, NEW rj \in Counts, NEW last, Proceed(m, f, rj, last),
           node \in Reviews => last.verdict \in {"pass", "fail"},
           node \in Rejectable => last.verdict \in {None, "approve", "reject"},
           \A t \in Ids : m.fails[t] = m.attempts[t] +
               IF node \in Reviews /\ last.verdict # "pass" /\ m.cursor = t THEN 1 ELSE 0,
           \A t \in Ids : m.attempts[t] < Corrections
               \/ (node = "correct_implementation" /\ m.cursor = t /\ m.attempts[t] <= Corrections),
           node = "correct_implementation" => last.task = m.cursor,
           agent # "v06" => \A c \in Rejectable : rj[c] <= Rejections
    PROVE  BudgetInv'
<1> DEFINE edge == Transitions[agent][node]
<1>1. agent \in Agents /\ Budgeted(Transitions[agent])
      /\ (agent # "v06" => Gated(Transitions[agent]))
  BY FlowsBudgeted DEF TypeInv, TypeOK
<1>2. /\ mem' = m /\ rejections' = rj /\ agent' = agent
      /\ run' = "running" =>
            /\ node \in DOMAIN Transitions[agent]
            /\ cause' = cause
            /\ node' = IF Holds(edge.rule, m, rj, last) THEN edge.yes ELSE edge.no
      /\ run' = "completed" => cause' = "done_node"
      /\ run' = "failed" => node \in DOMAIN Transitions[agent] /\ Raises(edge.rule, last)
      /\ run' \in {"running", "completed", "failed"}
  BY ProceedTo
<1>3. node \in DOMAIN Transitions[agent] => ~Raises(edge.rule, last)
  BY <1>1 DEF Budgeted, Raises
<1>4. run' # "failed"
  BY <1>2, <1>3
<1>5. BoundsAssumption /\ \A t \in Ids : m.attempts[t] \in Nat
  BY BoundsAssumption DEF Memory
<1>6. CorrectionsCounted'
  <2>1. SUFFICES ASSUME run' = "running", NEW t \in Ids
                 PROVE  m.fails[t] = m.attempts[t] +
                    IF node' = "correct_implementation" /\ m.cursor = t THEN 1 ELSE 0
    BY <1>2 DEF CorrectionsCounted
  <2>2. node' = "correct_implementation" <=> node \in Reviews /\ last.verdict # "pass"
    BY <1>1, <1>2, <2>1 DEF Budgeted, Holds
  <2> QED
    BY <2>2
<1>7. AttemptsLeft'
  <2>1. SUFFICES ASSUME run' = "running", node' # "terminate_correction_budget",
                        NEW t \in Ids
                 PROVE  m.attempts[t] < Corrections
    BY <1>2 DEF AttemptsLeft
  <2>2. CASE node = "correct_implementation" /\ m.cursor = t
    <3>1. Holds(edge.rule, m, rj, last) \/ node' = edge.no
      BY <1>2, <2>1
    <3>2. CASE Holds(edge.rule, m, rj, last)
      BY <1>1, <1>2, <2>1, <2>2, <3>2 DEF Budgeted, Holds, UnderCorrectionBound
    <3>3. edge.no = "terminate_correction_budget"
      BY <1>1, <1>2, <2>1, <2>2 DEF Budgeted
    <3> QED
      BY <2>1, <3>1, <3>2, <3>3
  <2> QED
    BY <2>2
<1>8. RejectionsLeft'
  BY <1>1, <1>2 DEF RejectionsLeft, Gated, Holds
<1>9. BudgetsRespected'
  BY <1>2, <1>4, <1>5 DEF BudgetInv, BudgetsRespected
<1> QED
  BY <1>6, <1>7, <1>8, <1>9 DEF BudgetInv

LEMMA InitBudget == Init => BudgetInv
<1> SUFFICES ASSUME Init PROVE BudgetInv
  OBVIOUS
<1>1. node \in {"load_work_item", "log_run_started"}
  BY Starts DEF Init
<1>2. None \notin Ends /\ Corrections \in Nat \ {0} /\ Rejections \in Nat
  BY IdsAssumption, BoundsAssumption
<1> QED
  BY <1>1, <1>2 DEF Init, BudgetInv, CorrectionsCounted, AttemptsLeft, RejectionsLeft,
     BudgetsRespected, FreshMemory, Rejectable, Ends

\* A run that ends, and a step of a node that has more calls to make.
LEMMA Unspent ==
    ASSUME BudgetInv, mem'.attempts = mem.attempts, mem'.fails = mem.fails,
           mem'.cursor = mem.cursor, UNCHANGED <<agent, node, rejections>>,
           run' \in {run, "failed"}, cause' \in {cause} \cup (Ends \ {"contract"})
    PROVE  BudgetInv'
BY DEF BudgetInv, CorrectionsCounted, AttemptsLeft, RejectionsLeft, BudgetsRespected,
       UnderRejectionBound

LEMMA FailUnspent ==
    ASSUME BudgetInv, NEW why \in Ends \ {"contract"}, Fail(why)
    PROVE  BudgetInv'
BY Unspent DEF Fail, End, data

Spending == Reviews \cup {"correct_implementation", "terminate_correction_budget"}

LEMMA PlainStep ==
    ASSUME TypeInv, BudgetInv, run = "running",
           NEW m \in Memory, NEW f, Proceed(m, f, rejections, Ok), node \notin Spending,
           \/ m.attempts = mem.attempts /\ m.fails = mem.fails
           \/ m.attempts = FreshMemory.attempts /\ m.fails = FreshMemory.fails
    PROVE  BudgetInv'
<1>1. /\ \A t \in Ids : m.fails[t] = m.attempts[t]
      /\ \A t \in Ids : m.attempts[t] < Corrections
  BY BoundsAssumption
     DEF Spending, Reviews, FreshMemory, Memory, BudgetInv, CorrectionsCounted, AttemptsLeft
<1>2. \A t \in Ids : m.attempts[t] \in Nat
  BY DEF Memory
<1>3. /\ rejections \in Counts
      /\ agent # "v06" => \A c \in Rejectable : rejections[c] <= Rejections
  BY DEF TypeInv, TypeOK, Counts, BudgetInv, BudgetsRespected
<1> QED
  BY <1>1, <1>2, <1>3, Spent DEF Spending, Reviews, Ok

LEMMA DeliverBudget ==
    ASSUME TypeInv, BudgetInv, NEW p \in Payloads, Deliver(p)
    PROVE  BudgetInv'
<1>1. run = "running" /\ node \in DOMAIN Checkpoint
  BY HumanNodes, FlowsClosed DEF Deliver, Runs, TypeInv, TypeOK
<1>2. node \notin {"correct_implementation", "terminate_correction_budget", "review_implementation"}
  BY <1>1 DEF Checkpoint
<1>3. CASE Valid(node, p) /\ Applicable(node, p)
  <2> DEFINE m == PatchedMemory(node, p)
             rj == PatchedRejections(node, p)
             last == WithVerdict(Verdict(p))
  <2>1. /\ Verdict(p) = "reject" => node \in Rejectable
        /\ node = "human_review_implementation" => Verdict(p) \in {"pass", "fail"}
        /\ node \in Rejectable => Verdict(p) \in {None, "approve", "reject"}
        /\ Verdict(p) = "fail" => node = "human_review_implementation"
    BY <1>1, <1>3, Accepted
  <2>2. last.verdict = Verdict(p)
    BY DEF WithVerdict, Ok
  <2>3. /\ Proceed(m, PatchedFiles(node, p), rj, last)
        /\ m \in Memory /\ rj \in Counts
    BY <1>3, <2>1, PatchedType DEF Deliver
  <2>4. /\ \A t \in Ids : mem.fails[t] = mem.attempts[t] /\ mem.attempts[t] < Corrections
        /\ \A t \in Ids : mem.attempts[t] \in Nat
        /\ mem.fails \in [Ids -> Nat] /\ mem \in Memory
    BY <1>1, <1>2 DEF BudgetInv, CorrectionsCounted, AttemptsLeft, TypeInv, TypeOK, Memory
  <2>5. /\ m.attempts = mem.attempts
        /\ \A t \in Ids : m.fails[t] = mem.fails[t] +
               IF node \in Reviews /\ Verdict(p) # "pass" /\ m.cursor = t THEN 1 ELSE 0
    <3>1. CASE node = "human_review_implementation" /\ Verdict(p) = "fail"
      <4>1. m = FailNoted(mem)
        BY <3>1 DEF PatchedMemory
      <4> QED
        BY <2>4, <3>1, <4>1 DEF FailNoted, Reviews, Memory
    <3>2. CASE ~(node = "human_review_implementation" /\ Verdict(p) = "fail")
      <4>1. m.attempts = mem.attempts /\ m.fails = mem.fails
        BY <2>4, <3>2 DEF PatchedMemory, TasksReplaced, Memory
      <4>2. ~(node \in Reviews /\ Verdict(p) # "pass")
        BY <1>2, <2>1, <3>2 DEF Reviews
      <4> QED
        BY <2>4, <4>1, <4>2
    <3> QED
      BY <3>1, <3>2
  <2>6. agent # "v06" => \A c \in Rejectable : rj[c] <= Rejections
    <3>1. rejections \in Counts /\ Rejections \in Nat
      BY BoundsAssumption DEF TypeInv, TypeOK, Counts
    <3>2. agent # "v06" => \A c \in Rejectable : rejections[c] <= Rejections
      BY DEF BudgetInv, BudgetsRespected
    <3>3. agent # "v06" /\ node \in Rejectable => \A c \in Rejectable : rejections[c] < Rejections
      BY <1>1 DEF BudgetInv, RejectionsLeft, UnderRejectionBound
    <3> QED
      BY <2>1, <3>1, <3>2, <3>3 DEF PatchedRejections, Reject, Counts
  <2> HIDE DEF m, rj, last
  <2> QED
    BY <1>1, <1>2, <2>1, <2>2, <2>3, <2>4, <2>5, <2>6, Spent DEF Reviews
<1>4. CASE ~(Valid(node, p) /\ Applicable(node, p))
  BY <1>4, FailUnspent DEF Deliver, Ends
<1> QED
  BY <1>3, <1>4

\* 0.6.0 alone has the validator of the documents.
LEMMA ValidatorAgent == ASSUME TypeInv, ValidateSpecs PROVE agent = "v06"
<1>1. agent \in Variants
  BY FlowsClosed DEF TypeInv, TypeOK
<1>2. /\ "run_validate_specs_strict" \notin Bound03.local
      /\ "run_validate_specs_strict" \notin Bound04.local
      /\ "run_validate_specs_strict" \notin Bound05.local
  BY DEF Bound03, Bound04, Bound05
<1> QED
  BY <1>1, <1>2, Bindings DEF ValidateSpecs, At, Runs, Variants

LEMMA NextBudget == TypeInv /\ BudgetInv /\ [Next]_vars => BudgetInv'
<1> SUFFICES ASSUME TypeInv, BudgetInv, [Next]_vars PROVE BudgetInv'
  OBVIOUS
<1>1. /\ agent \in Agents /\ mem \in Memory /\ rejections \in Counts
      /\ hop \in Nat /\ agent \in Variants
  BY FlowsClosed DEF TypeInv, TypeOK, Counts
<1>2. ASSUME NEW why \in Ends \ {"contract"}, Fail(why) PROVE BudgetInv'
  BY <1>2, FailUnspent
<1>3. ASSUME run = "running", node \notin Spending, NEW f, Proceed(mem, f, rejections, Ok)
      PROVE  BudgetInv'
  BY <1>1, <1>3, PlainStep
<1>11. CASE LoadWorkItem
  <2>1. [FreshMemory EXCEPT !.brief = TRUE].attempts = FreshMemory.attempts
        /\ [FreshMemory EXCEPT !.brief = TRUE].fails = FreshMemory.fails
    BY DEF FreshMemory
  <2> QED
    BY <1>11, <2>1, FreshIs, PlainStep DEF LoadWorkItem, Author, At, Runs, Spending, Reviews
<1>12. CASE GenerateTasks
  <2>1. PICK ts \in TaskLists : Proceed([FreshMemory EXCEPT !.tasks  = ts,
                                   !.cursor = FirstUndone(ts, {})], filed, rejections, Ok)
    BY <1>12 DEF GenerateTasks, Author
  <2> DEFINE m == [FreshMemory EXCEPT !.tasks  = ts, !.cursor = FirstUndone(ts, {})]
  <2>2. m.attempts = FreshMemory.attempts /\ m.fails = FreshMemory.fails /\ m \in Memory
    BY FreshIs DEF FreshMemory
  <2> HIDE DEF m
  <2> QED
    BY <1>12, <2>1, <2>2, PlainStep DEF GenerateTasks, Author, At, Runs, Spending, Reviews, m
<1>13. CASE GeneratePlan \/ GenerateMockup
  BY <1>3, <1>13 DEF GeneratePlan, GenerateMockup, Author, At, Runs, Spending, Reviews
<1>15. CASE ReviewImplementation
  <2>1. PICK v \in {"pass", "fail"} :
          Proceed(IF v = "fail" THEN FailNoted(mem) ELSE mem, filed, rejections, WithVerdict(v))
    BY <1>15 DEF ReviewImplementation, Author
  <2>2. run = "running" /\ node = "review_implementation"
    BY <1>15 DEF ReviewImplementation, Author, At, Runs
  <2> DEFINE m == IF v = "fail" THEN FailNoted(mem) ELSE mem
  <2>3. m \in Memory /\ WithVerdict(v).verdict = v
    BY <1>1, MemoryUpdates DEF WithVerdict, Ok
  <2>4. /\ \A t \in Ids : mem.fails[t] = mem.attempts[t] /\ mem.attempts[t] < Corrections
        /\ \A t \in Ids : mem.attempts[t] \in Nat
        /\ mem.fails \in [Ids -> Nat]
    BY <1>1, <2>2 DEF BudgetInv, CorrectionsCounted, AttemptsLeft, Memory
  <2>5. /\ m.attempts = mem.attempts
        /\ \A t \in Ids : m.fails[t] = mem.fails[t] +
               IF v # "pass" /\ m.cursor = t THEN 1 ELSE 0
    BY <1>1, <2>4 DEF FailNoted, Memory
  <2>6. agent # "v06" => \A c \in Rejectable : rejections[c] <= Rejections
    BY DEF BudgetInv, BudgetsRespected
  <2> HIDE DEF m
  <2>7. Proceed(m, filed, rejections, WithVerdict(v))
    BY <2>1 DEF m
  <2> QED
    BY <1>1, <2>2, <2>3, <2>4, <2>5, <2>6, <2>7, Spent DEF Reviews, Rejectable
<1>16. CASE ContentFails \/ TerminateBudget \/ Interrupt
  BY <1>2, <1>16 DEF ContentFails, TerminateBudget, Interrupt, Ends
<1>17. CASE RegisterWorkItem
  BY <1>2, <1>3, <1>17 DEF RegisterWorkItem, At, Runs, Ends, Spending, Reviews
<1>18. CASE ProposeTask
  <2>1. /\ mem'.attempts = mem.attempts /\ mem'.fails = mem.fails
        /\ mem'.cursor = mem.cursor
    BY <1>1, <1>18 DEF ProposeTask, Linked, Memory
  <2> QED
    BY <1>18, <2>1, Unspent DEF ProposeTask, End, Ends
<1>19. CASE ProposeTasks
  BY <1>2, <1>3, <1>19
     DEF ProposeTasks, At, Runs, Ends, RefuseItem, LoseItem, Spending, Reviews
<1>20. CASE EngineNode
  <2>1. node \notin Spending /\ run = "running"
    BY <1>20 DEF EngineNode, EngineNodes, Spending, Reviews, Runs
  <2>2. CASE UNCHANGED <<agent, node, run, cause, data>>
    BY <2>2, Unspent DEF data
  <2>3. CASE Proceed(mem, filed, rejections, Ok)
    BY <1>3, <2>1, <2>3
  <2>4. CASE \E why \in Ends \ {"contract"} : Fail(why)
    BY <1>2, <2>4
  <2> QED
    BY <1>20, <2>2, <2>3, <2>4 DEF EngineNode, RefuseTask, LoseTask, Ends
<1>21. CASE SubmitImplementation
  <2>1. node \notin Spending /\ run = "running"
    BY <1>21 DEF SubmitImplementation, At, Runs, Spending, Reviews
  <2>2. CASE Proceed(mem, filed, rejections, Ok)
    BY <1>3, <2>1, <2>2
  <2> DEFINE m == [mem EXCEPT !.submitted = @ \cup {Target}]
  <2>3. CASE Target # None /\ Proceed(m, filed, rejections, Ok)
    <3>1. Target \in Ids
      BY <1>1, <2>3 DEF Target, Memory
    <3>2. m \in Memory /\ m.attempts = mem.attempts /\ m.fails = mem.fails
      BY <1>1, <3>1, MemoryUpdates DEF Memory
    <3> HIDE DEF m
    <3> QED
      BY <2>1, <2>3, <3>2, PlainStep
  <2>4. CASE \E why \in Ends \ {"contract"} : Fail(why)
    BY <1>2, <2>4
  <2> QED
    BY <1>21, <2>2, <2>3, <2>4 DEF SubmitImplementation, RefuseTask, LoseTask, Ends
<1>22. CASE CloseWorkItem
  <2>1. node \notin Spending /\ run = "running"
    BY <1>22 DEF CloseWorkItem, At, Runs, Spending, Reviews
  <2>2. CASE UNCHANGED <<agent, node, run, cause, data>>
    BY <2>2, Unspent DEF data
  <2>3. CASE Proceed(mem, filed, rejections, Ok)
    BY <1>3, <2>1, <2>3
  <2>4. CASE \E why \in Ends \ {"contract"} : Fail(why)
    BY <1>2, <2>4
  <2> QED
    BY <1>22, <2>2, <2>3, <2>4 DEF CloseWorkItem, RefuseItem, LoseItem, Ends
<1>23. CASE MarkTaskDone
  <2>1. TaskMarkedDone(mem).attempts = mem.attempts /\ TaskMarkedDone(mem).fails = mem.fails
    BY <1>1 DEF TaskMarkedDone, Memory
  <2> QED
    BY <1>1, <1>23, <2>1, MemoryUpdates, PlainStep DEF MarkTaskDone, At, Runs, Spending, Reviews
<1>24. CASE CorrectImplementation
  <2> DEFINE m == CorrectionCounted(mem)
             last == [Ok EXCEPT !.task = mem.cursor]
  <2>1. /\ run = "running" /\ node = "correct_implementation"
        /\ Proceed(m, filed, rejections, last)
    BY <1>24 DEF CorrectImplementation, At, Runs
  <2>2. m \in Memory /\ last.task = mem.cursor /\ m.cursor = mem.cursor
    BY <1>1, MemoryUpdates DEF CorrectionCounted, Ok, Memory
  <2>3. /\ \A t \in Ids : mem.fails[t] = mem.attempts[t] + IF mem.cursor = t THEN 1 ELSE 0
        /\ \A t \in Ids : mem.attempts[t] \in Nat /\ mem.attempts[t] < Corrections
        /\ mem.attempts \in [Ids \cup {None} -> Nat] /\ Corrections \in Nat
    BY <1>1, <2>1, BoundsAssumption DEF BudgetInv, CorrectionsCounted, AttemptsLeft, Memory
  <2>4. \A t \in Ids : /\ m.fails[t] = mem.fails[t]
                       /\ m.attempts[t] = mem.attempts[t] + IF mem.cursor = t THEN 1 ELSE 0
    BY <1>1, <2>3 DEF CorrectionCounted, Memory
  <2>5. agent # "v06" => \A c \in Rejectable : rejections[c] <= Rejections
    BY DEF BudgetInv, BudgetsRespected
  <2> HIDE DEF m, last
  <2> QED
    BY <1>1, <2>1, <2>2, <2>3, <2>4, <2>5, Spent DEF Reviews, Rejectable
<1>26. CASE CommitArtifact \/ LogRun \/ Validate
  BY <1>3, <1>26 DEF CommitArtifact, LogRun, Validate, Local, Runs, Spending, Reviews
<1>27. CASE ValidateSpecs
  <2>1. agent = "v06" /\ run = "running" /\ node = "run_validate_specs_strict"
    BY <1>27, ValidatorAgent DEF ValidateSpecs, At, Runs
  <2>2. Reject(rejections, "confirm_docs_update") \in Counts
    BY <1>1 DEF Reject, Counts, Rejectable
  <2>3. CASE Proceed(mem, filed, rejections, Ok)
    BY <1>3, <2>1, <2>3 DEF Spending, Reviews
  <2> DEFINE rj == Reject(rejections, "confirm_docs_update")
             last == [Ok EXCEPT !.passed = FALSE]
  <2>4. CASE Proceed(mem, filed, rj, last)
    <3>1. /\ \A t \in Ids : mem.fails[t] = mem.attempts[t] /\ mem.attempts[t] < Corrections
          /\ \A t \in Ids : mem.attempts[t] \in Nat
      BY <1>1, <2>1 DEF BudgetInv, CorrectionsCounted, AttemptsLeft, Memory
    <3> HIDE DEF rj, last
    <3> QED
      BY <1>1, <2>1, <2>2, <2>4, <3>1, Spent DEF Reviews, Rejectable, rj
  <2> QED
    BY <1>27, <2>3, <2>4 DEF ValidateSpecs
<1>28. CASE Answer
  <2>1. PICK p \in Answers[node] : Deliver(p)
    BY <1>28 DEF Answer
  <2>2. p \in Payloads
    BY <1>1, <1>28, HumanNodes DEF Answer, Runs, Payloads
  <2> QED
    BY <2>1, <2>2, DeliverBudget
<1>29. CASE Resend
  BY <1>29, DeliverBudget DEF Resend, TypeInv, PostedOK
<1>31. CASE Terminated \/ UNCHANGED vars
  BY <1>31, Unspent DEF Terminated, vars, data
<1> QED
  BY <1>11, <1>12, <1>13, <1>15, <1>16, <1>17, <1>18, <1>19, <1>20, <1>21, <1>22,
     <1>23, <1>24, <1>26, <1>27, <1>28, <1>29, <1>31 DEF Next, Step

LEMMA BudgetAlways == Spec => [](CorrectionsCounted /\ BudgetsRespected)
<1>1. Init => TypeInv /\ BudgetInv
  BY InitType, InitBudget
<1>2. TypeInv /\ BudgetInv /\ [Next]_vars => (TypeInv /\ BudgetInv)'
  BY NextType, NextBudget
<1>3. TypeInv /\ BudgetInv => CorrectionsCounted /\ BudgetsRespected
  BY DEF BudgetInv
<1> QED
  BY <1>1, <1>2, <1>3, PTL DEF Spec

\* The corrections the memory counts for a task are the corrections made for
\* it (correct_implementation, and the key under which it counts them).
THEOREM CorrectionsHold == Spec => []CorrectionsCounted
<1> QED
  BY BudgetAlways, PTL

\* No declaration exceeds its budget of corrections, and none but 0.6.0, which
\* has no gate, its budget of rejections (the predicates of the flow resolver).
THEOREM BudgetsHold == Spec => []BudgetsRespected
<1> QED
  BY BudgetAlways, PTL

-----------------------------------------------------------------------------
(* Phases *)

\* Before the work item is in the engine, and before its tasks are.
Opening == {"load_work_item", "log_run_started", "confirm_brief", "register_work_item"}
Listing == {"generate_tasks", "confirm_tasks", "commit_brief", "run_validate_tasks",
            "confirm_task_review", "commit_tasks"}
\* The loop over the tasks, and what follows it.
Loop    == {"confirm_assignment", "assign_task", "generate_mockup", "confirm_mockup",
            "generate_plan", "advance_plan", "confirm_plan", "commit_plan", "approve_plan",
            "request_implementation", "submit_implementation", "run_tests", "commit_review",
            "correct_implementation", "approve_review", "mark_task_done"} \cup Reviews
Closing == {"confirm_docs_update", "run_validate_specs_strict", "log_run_completed",
            "close_work_item"}
Over    == {"terminate_correction_budget", "terminate_rejection_budget"}

Ways(flow, n) == {flow[n].yes, flow[n].no}

\* The nodes before the loop and after it.
Outer(flow) ==
    \A n \in DOMAIN flow \ {"start"} :
        /\ n \in Opening \cup Listing \cup {"propose_tasks"} \cup Loop \cup Closing
        /\ n \in Opening \ {"register_work_item"} => Ways(flow, n) \subseteq Opening \cup Over
        /\ n = "register_work_item" => Ways(flow, n) \subseteq Listing
        /\ n \in Listing => Ways(flow, n) \subseteq Listing \cup {"propose_tasks"} \cup Over
        /\ n = "propose_tasks" => Ways(flow, n) \subseteq {"confirm_assignment", "assign_task"}
        /\ n \in Closing => Ways(flow, n) \subseteq Closing

\* From the assignment to the plan.
Planning(flow, v) ==
    \A n \in DOMAIN flow :
        /\ n = "confirm_assignment" => Ways(flow, n) = {"assign_task"}
        /\ n = "assign_task" => Ways(flow, n) \subseteq
              {"generate_mockup", "confirm_mockup", "generate_plan", "confirm_plan"}
        /\ n = "generate_mockup" => Ways(flow, n) \subseteq {"confirm_mockup"} \cup Over
        /\ n = "confirm_mockup" => Ways(flow, n) \subseteq
              {"generate_mockup", "confirm_mockup", "generate_plan", "confirm_plan"}
        /\ n = "generate_plan" => Ways(flow, n) = {"advance_plan"}
        /\ n = "advance_plan" =>
              v # "v06" /\ Ways(flow, n) \subseteq {"confirm_plan", "approve_plan"} \cup Over
        /\ n = "confirm_plan" =>
              /\ v # "v03" /\ flow[n].rule = "checkpoint_approved"
              /\ v = "v06" => Ways(flow, n) = {"confirm_plan", "commit_plan"}
              /\ v # "v06" => flow[n].yes = "approve_plan" /\ flow[n].no = "generate_plan"
        /\ n = "commit_plan" => v = "v06" /\ Ways(flow, n) = {"approve_plan"}
        /\ n \in {"assign_task", "confirm_mockup"} /\ v # "v06" => "confirm_plan" \notin Ways(flow, n)
        /\ n \in {"assign_task", "confirm_mockup"} /\ v = "v06" => "generate_plan" \notin Ways(flow, n)

\* From the implementation to the next task.
Implementing(flow, v) ==
    \A n \in DOMAIN flow :
        /\ n = "approve_plan" => Ways(flow, n) = {"request_implementation"}
        /\ n = "request_implementation" => Ways(flow, n) = {"submit_implementation"}
        /\ n = "submit_implementation" => Ways(flow, n) \subseteq {"run_tests"} \cup Reviews
        /\ n = "run_tests" => Ways(flow, n) \subseteq Reviews
        /\ n \in Reviews => Ways(flow, n) \subseteq
              {"correct_implementation", "approve_review", "commit_review"}
        /\ n = "commit_review" => Ways(flow, n) = {"approve_review"}
        /\ n = "correct_implementation" => Ways(flow, n) \subseteq {"request_implementation"} \cup Over
        /\ n = "approve_review" => Ways(flow, n) = {"mark_task_done"}
        /\ n = "mark_task_done" =>
              /\ flow[n].rule = "tasks_remaining"
              /\ flow[n].yes \in {"confirm_assignment", "assign_task"}
              /\ flow[n].no \in Closing
        /\ v # "v03" /\ n \in {"propose_tasks", "mark_task_done"} => flow[n].yes # "assign_task"
        /\ v # "v03" /\ n = "propose_tasks" => flow[n].no # "assign_task"

Phased(flow, v) == Outer(flow) /\ Planning(flow, v) /\ Implementing(flow, v)

LEMMA Phased3 == Phased(V03, "v03")
<1>1. Outer(V03)
  BY SMTT(60) DEF Outer, V03, To, Edge, Ways, Opening, Listing, Loop, Reviews, Closing, Over
<1>2. Planning(V03, "v03")
  BY SMTT(60) DEF Planning, V03, To, Edge, Ways, Over
<1>3. Implementing(V03, "v03")
  BY SMTT(60) DEF Implementing, V03, To, Edge, Ways, Reviews, Closing, Over
<1> QED
  BY <1>1, <1>2, <1>3 DEF Phased
LEMMA Edges4 ==
    LET restated == {"load_work_item", "confirm_brief", "generate_tasks", "confirm_tasks",
            "propose_tasks", "confirm_assignment", "advance_plan", "confirm_plan",
            "submit_implementation", "human_review_implementation", "mark_task_done"}
    IN  /\ restated \subseteq DOMAIN V04 /\ DOMAIN V04 = DOMAIN V03 \cup restated
        /\ \A n \in DOMAIN V03 \ restated : V04[n] = V03[n]
        /\ V04["load_work_item"] = Gate("confirm_brief")
        /\ V04["confirm_brief"] =
              Edge("checkpoint_approved", "register_work_item", "load_work_item")
        /\ V04["generate_tasks"] = Gate("confirm_tasks")
        /\ V04["confirm_tasks"] = Edge("checkpoint_approved", "propose_tasks", "generate_tasks")
        /\ V04["propose_tasks"] = To("confirm_assignment")
        /\ V04["confirm_assignment"] = To("assign_task")
        /\ V04["advance_plan"] = Gate("confirm_plan")
        /\ V04["confirm_plan"] = Edge("checkpoint_approved", "approve_plan", "generate_plan")
        /\ V04["submit_implementation"] = To("human_review_implementation")
        /\ V04["human_review_implementation"] =
              Edge("review_passed", "approve_review", "correct_implementation")
        /\ V04["mark_task_done"] = Edge("tasks_remaining", "confirm_assignment", "close_work_item")
BY DEF V04, Amended

LEMMA Edges5 ==
    LET restated == {"assign_task", "generate_mockup", "confirm_mockup"}
    IN  /\ restated \subseteq DOMAIN V05 /\ DOMAIN V05 = DOMAIN V04 \cup restated
        /\ \A n \in DOMAIN V04 \ restated : V05[n] = V04[n]
        /\ V05["assign_task"] = Edge("current_task_is_mockup", "generate_mockup", "generate_plan")
        /\ V05["generate_mockup"] = Gate("confirm_mockup")
        /\ V05["confirm_mockup"] = Edge("checkpoint_approved", "generate_plan", "generate_mockup")
BY DEF V05, Amended

LEMMA Phased4 == Phased(V04, "v04")
<1>1. Outer(V04)
  BY Edges4, Phased3 DEF Phased, Outer, To, Edge, Gate, Ways, Opening, Listing, Loop, Reviews, Closing, Over
<1>2. Planning(V04, "v04")
  BY Edges4, Phased3 DEF Phased, Planning, To, Edge, Gate, Ways, Over
<1>3. Implementing(V04, "v04")
  BY Edges4, Phased3 DEF Phased, Implementing, To, Edge, Gate, Ways, Reviews, Closing, Over
<1> QED
  BY <1>1, <1>2, <1>3 DEF Phased

LEMMA Phased5 == Phased(V05, "v05")
<1>1. Outer(V05)
  BY Edges5, Phased4 DEF Phased, Outer, To, Edge, Gate, Ways, Opening, Listing, Loop, Reviews, Closing, Over
<1>2. Planning(V05, "v05")
  BY Edges5, Phased4 DEF Phased, Planning, To, Edge, Gate, Ways, Over
<1>3. Implementing(V05, "v05")
  BY Edges5, Phased4 DEF Phased, Implementing, To, Edge, Gate, Ways, Reviews, Closing, Over
<1> QED
  BY <1>1, <1>2, <1>3 DEF Phased

LEMMA Phased6 == Phased(V06, "v06")
<1>1. Outer(V06)
  BY SMTT(60) DEF Outer, V06, To, Edge, Again, Ways, Opening, Listing, Loop, Reviews, Closing, Over
<1>2. Planning(V06, "v06")
  BY SMTT(60) DEF Planning, V06, To, Edge, Again, Ways, Over
<1>3. Implementing(V06, "v06")
  BY SMTT(60) DEF Implementing, V06, To, Edge, Again, Ways, Reviews, Closing, Over
<1> QED
  BY <1>1, <1>2, <1>3 DEF Phased

LEMMA FlowsPhased ==
    ASSUME NEW a \in Agents
    PROVE  Phased(Transitions[a], a)
BY Flows, FlowsClosed, Phased3, Phased4, Phased5, Phased6 DEF Variants

-----------------------------------------------------------------------------
(* Memory and engine, phase by phase *)

Current == engine.task[mem.cursor]

OpeningInv ==
    node \in Opening \cup Listing =>
        /\ hop = 1
        /\ mem.done = {} /\ mem.linked = {} /\ mem.submitted = {}
        /\ \A t \in Ids : engine.task[t] = "absent"
        /\ engine.item = IF node \in Opening THEN "absent" ELSE "open"

\* The tasks before the hop are proposed.
ProposingInv ==
    node = "propose_tasks" =>
        /\ hop >= 1 /\ mem.done = {} /\ mem.submitted = {} /\ engine.item = "open"
        /\ \A i \in DOMAIN mem.tasks : i < hop =>
              engine.task[mem.tasks[i]] = "assigning" /\ mem.tasks[i] \in mem.linked
        /\ \A t \in Ids : (\A i \in DOMAIN mem.tasks : i < hop => mem.tasks[i] # t) =>
              engine.task[t] = "absent"

\* The engine has nothing but the tasks of the list: one is current.
TasksInv ==
    /\ engine.item = "in_progress"
    /\ Listed(mem.tasks) \subseteq mem.linked
    /\ mem.cursor \in Listed(mem.tasks) \ mem.done
    /\ \A t \in Ids \ Listed(mem.tasks) : engine.task[t] = "absent"
    /\ \A t \in Listed(mem.tasks) \ {mem.cursor} :
          engine.task[t] = IF t \in mem.done THEN "done" ELSE "assigning"
    /\ \A t \in Listed(mem.tasks) :
          t \in mem.submitted <=> engine.task[t] \in {"impl_review", "done"}

\* StageAt, variant by variant.
StageInv ==
    /\ node \in {"confirm_assignment", "assign_task"} => Current = "assigning"
    /\ node \in {"generate_mockup", "confirm_mockup", "commit_plan"} => Current = "planning"
    /\ node = "confirm_plan" => Current = IF agent = "v06" THEN "planning" ELSE "plan_review"
    /\ node \in {"generate_plan", "advance_plan"} =>
          \/ Current = "planning"
          \/ /\ Current = "plan_review" /\ agent \in {"v04", "v05"}
             /\ rejections["confirm_plan"] > 0
    /\ node = "approve_plan" =>
          Current = IF agent = "v06" /\ hop = 1 THEN "planning" ELSE "plan_review"
    /\ node \in {"request_implementation", "submit_implementation"} =>
          Current \in {"implementing", "impl_review"}
    /\ node \in {"run_tests", "commit_review", "correct_implementation", "approve_review"}
                  \cup Reviews => Current = "impl_review"
    /\ node = "mark_task_done" => Current = "done"

HopInv == hop = 1 \/ (node = "approve_plan" /\ agent = "v06" /\ hop = 2)

LoopInv == node \in Loop => TasksInv /\ StageInv /\ HopInv

ClosingInv ==
    node \in Closing =>
        /\ \/ hop = 1 /\ engine.item = "in_progress"
           \/ hop = 2 /\ engine.item = "ready" /\ node = "close_work_item"
        /\ \A t \in Listed(mem.tasks) : engine.task[t] = "done" /\ t \in mem.done
        /\ \A t \in Ids \ Listed(mem.tasks) : engine.task[t] = "absent"

PhaseInv ==
    run = "running" =>
        /\ cause = None
        /\ node \in Opening \cup Listing \cup {"propose_tasks"} \cup Loop \cup Closing \cup Over
        /\ OpeningInv /\ ProposingInv /\ LoopInv /\ ClosingInv

CursorInv == mem.cursor = FirstUndone(mem.tasks, mem.done)
EndInv    == CompletedMeansDone /\ OnlyReplanRefused
FlowInv   == PhaseInv /\ CursorInv /\ EndInv

LEMMA InitFlow == Init => FlowInv
<1> SUFFICES ASSUME Init PROVE FlowInv
  OBVIOUS
<1>1. node \in {"load_work_item", "log_run_started"}
  BY Starts DEF Init
<1>2. CursorInv
  BY DEF Init, CursorInv, FreshMemory, FirstUndone
<1>3. EndInv
  BY IdsAssumption DEF Init, EndInv, CompletedMeansDone, OnlyReplanRefused, Ends
<1>4. PhaseInv
  BY <1>1 DEF Init, PhaseInv, OpeningInv, ProposingInv, LoopInv, ClosingInv, FreshMemory,
     Opening, Listing, Loop, Reviews, Closing
<1> QED
  BY <1>2, <1>3, <1>4 DEF FlowInv

\* A run that fails keeps what EndInv says, whatever it did to the engine.
LEMMA Failed ==
    ASSUME CursorInv, run' = "failed", cause' \in Ends,
           mem'.tasks = mem.tasks, mem'.done = mem.done, mem'.cursor = mem.cursor,
           cause' = "refused" => agent' \in {"v04", "v05"} /\ node' = "advance_plan"
                                 /\ rejections'["confirm_plan"] > 0
    PROVE  FlowInv'
BY DEF FlowInv, PhaseInv, CursorInv, EndInv, CompletedMeansDone, OnlyReplanRefused

LEMMA FailFlow ==
    ASSUME CursorInv, NEW why \in Ends \ {"refused"}, Fail(why)
    PROVE  FlowInv'
BY Failed DEF Fail, End, data

\* A node before the last one, as far as the loop of the engine goes.
LEMMA Onward ==
    ASSUME TypeInv, FlowInv, run = "running", node \notin TerminalNodes,
           NEW m, NEW f, NEW rj, NEW last, Proceed(m, f, rj, last),
           m.cursor = FirstUndone(m.tasks, m.done)
    PROVE  /\ CursorInv' /\ EndInv' /\ agent' = agent /\ hop' = 1
           /\ mem' = m /\ filed' = f /\ rejections' = rj
           /\ run' # "running" => FlowInv'
           /\ run' = "running" =>
                /\ cause' = None /\ node \in DOMAIN Transitions[agent] \ {"start"}
                /\ node' \in Ways(Transitions[agent], node)
                /\ LET edge == Transitions[agent][node]
                    IN  node' = IF Holds(edge.rule, m, rj, last) THEN edge.yes ELSE edge.no
<1>1. cause = None /\ node # "start"
  BY DEF FlowInv, PhaseInv, Opening, Listing, Loop, Reviews, Closing, Over
<1>2. run' # "completed" /\ (cause' = None \/ cause' = "contract")
  BY <1>1, ProceedTo
<1>3. CursorInv' /\ EndInv'
  BY <1>1, <1>2, ProceedTo, IdsAssumption
     DEF CursorInv, EndInv, CompletedMeansDone, OnlyReplanRefused, Ends
<1>4. run' = "running" => node' \in Ways(Transitions[agent], node)
  BY ProceedTo DEF Ways
<1> QED
  BY <1>1, <1>2, <1>3, <1>4, ProceedTo DEF FlowInv, PhaseInv

LEMMA PhaseSets ==
    /\ \A n \in Opening \cup Listing : n \notin {"propose_tasks"} \cup Loop \cup Closing \cup TerminalNodes
    /\ \A n \in Loop : n \notin {"propose_tasks"} \cup Closing \cup TerminalNodes
    /\ \A n \in Closing : n # "propose_tasks" /\ n \notin Over
    /\ \A n \in Over : n \notin Opening \cup Listing \cup {"propose_tasks"} \cup Loop
    /\ "propose_tasks" \notin Over \cup TerminalNodes
    /\ \A n \in Opening : n \notin Listing
BY DEF Opening, Listing, Loop, Reviews, Closing, Over, TerminalNodes

\* A node before the proposal that leaves the engine alone.
LEMMA StayEarly ==
    ASSUME TypeInv, FlowInv, run = "running",
           node \in Opening \cup Listing, node # "register_work_item",
           NEW m \in Memory, NEW f, NEW rj, NEW last, Proceed(m, f, rj, last),
           UNCHANGED engine,
           m.done = {}, m.linked = {}, m.submitted = {}, m.cursor = FirstUndone(m.tasks, {})
    PROVE  FlowInv'
<1>1. /\ node \notin TerminalNodes
      /\ node \in Opening => node \notin Listing
  BY PhaseSets
<1>2. /\ CursorInv' /\ EndInv' /\ agent' = agent /\ hop' = 1
      /\ mem' = m /\ filed' = f /\ rejections' = rj
      /\ run' # "running" => FlowInv'
      /\ run' = "running" =>
            /\ cause' = None /\ node \in DOMAIN Transitions[agent] \ {"start"}
            /\ node' \in Ways(Transitions[agent], node)
  BY <1>1, Onward
<1>3. SUFFICES ASSUME run' = "running" PROVE FlowInv'
  BY <1>2
<1>4. /\ node \in Opening => node' \in Opening \cup Over
      /\ node \in Listing => node' \in Listing \cup {"propose_tasks"} \cup Over
  BY <1>2, <1>3, FlowsPhased DEF Phased, Outer, TypeInv, TypeOK
<1>5. OpeningInv
  BY DEF FlowInv, PhaseInv
<1>6. OpeningInv'
  BY <1>1, <1>2, <1>4, <1>5, PhaseSets DEF OpeningInv
<1>7. ProposingInv'
  BY <1>2, <1>4, <1>5, PhaseSets DEF OpeningInv, ProposingInv, Memory
<1>8. node' \notin Loop \cup Closing
  BY <1>4, PhaseSets DEF Over, Closing, Loop, Reviews
<1> QED
  BY <1>2, <1>3, <1>4, <1>6, <1>7, <1>8 DEF FlowInv, PhaseInv, LoopInv, ClosingInv

\* What the tasks are, for the nodes of the loop that leave them alone.
Kin(m) == m.tasks = mem.tasks /\ m.cursor = mem.cursor /\ m.done = mem.done
          /\ m.linked = mem.linked /\ m.submitted = mem.submitted

LEMMA KinSteps ==
    /\ mem \in Memory => Kin(mem) /\ Kin(FailNoted(mem)) /\ Kin(CorrectionCounted(mem))
BY DEF Kin, FailNoted, CorrectionCounted, Memory

LEMMA StayLoop ==
    ASSUME TypeInv, FlowInv, run = "running", node \in Loop,
           node \notin {"approve_plan", "advance_plan", "assign_task", "approve_review",
                       "mark_task_done"},
           NEW m \in Memory, NEW f \in Files, NEW rj \in Counts, NEW last,
           Proceed(m, f, rj, last), UNCHANGED engine, Kin(m),
           rejections["confirm_plan"] <= rj["confirm_plan"],
           node = "submit_implementation" => Current = "impl_review",
           node = "confirm_plan" /\ last.verdict = "reject" => rj["confirm_plan"] > 0
    PROVE  FlowInv'
<1> DEFINE edge == Transitions[agent][node]
<1>1. node \notin TerminalNodes /\ node # "start"
  BY PhaseSets DEF Loop, Reviews
<1>2. /\ CursorInv' /\ EndInv' /\ agent' = agent /\ hop' = 1
      /\ mem' = m /\ filed' = f /\ rejections' = rj
      /\ run' # "running" => FlowInv'
      /\ run' = "running" =>
            /\ cause' = None /\ node \in DOMAIN Transitions[agent] \ {"start"}
            /\ node' \in Ways(Transitions[agent], node)
            /\ node' = IF Holds(edge.rule, m, rj, last) THEN edge.yes ELSE edge.no
  BY <1>1, Onward DEF Kin, FlowInv, CursorInv
<1>3. SUFFICES ASSUME run' = "running" PROVE FlowInv'
  BY <1>2
<1>4. /\ agent \in Agents /\ agent \in Variants /\ rejections \in Counts
      /\ Planning(Transitions[agent], agent) /\ Implementing(Transitions[agent], agent)
  BY FlowsPhased, FlowsClosed DEF Phased, TypeInv, TypeOK, Counts
<1>5. TasksInv /\ StageInv /\ HopInv
  BY DEF FlowInv, PhaseInv, LoopInv
<1>6. /\ node' \in Loop \cup Over /\ node' # "confirm_assignment" /\ node' # "mark_task_done"
  BY <1>2, <1>3, <1>4 DEF Planning, Implementing, Loop, Reviews, Over, Variants
<1>7. Current' = Current /\ TasksInv'
  BY <1>2, <1>5 DEF Kin, TasksInv, Current
<1>9. StageInv'
  <2>1. CASE node \in {"confirm_assignment", "generate_mockup", "confirm_mockup", "generate_plan",
                      "commit_plan"}
    BY <1>2, <1>3, <1>4, <1>5, <1>7, <2>1
       DEF Planning, StageInv, Over, Variants, Reviews, Counts, Rejectable
  <2>2. CASE node = "confirm_plan"
    <3>1. edge.rule = "checkpoint_approved"
      BY <1>2, <1>3, <1>4, <2>2 DEF Planning
    <3> QED
      BY <1>2, <1>3, <1>4, <1>5, <1>7, <2>2, <3>1
         DEF Planning, StageInv, Over, Variants, Reviews, Holds
  <2>3. CASE node \in {"request_implementation", "submit_implementation", "run_tests",
                      "commit_review", "correct_implementation"} \cup Reviews
    BY <1>2, <1>3, <1>4, <1>5, <1>7, <2>3 DEF Implementing, StageInv, Over, Reviews
  <2> QED
    BY <2>1, <2>2, <2>3 DEF Loop
<1>10. HopInv'
  BY <1>2 DEF HopInv
<1>11. node' \notin Opening \cup Listing \cup {"propose_tasks"} \cup Closing
  BY <1>6, PhaseSets DEF Loop, Reviews, Over, Opening, Listing, Closing
<1> QED
  BY <1>2, <1>3, <1>6, <1>7, <1>9, <1>10, <1>11
     DEF FlowInv, PhaseInv, OpeningInv, ProposingInv, LoopInv, ClosingInv

LEMMA StayClosing ==
    ASSUME TypeInv, FlowInv, run = "running", node \in Closing \ {"close_work_item"},
           NEW f \in Files, NEW rj, NEW last, Proceed(mem, f, rj, last), UNCHANGED engine
    PROVE  FlowInv'
<1>1. node \notin TerminalNodes /\ node # "start" /\ node \notin Loop
  BY DEF Closing, TerminalNodes, Loop, Reviews
<1>2. /\ CursorInv' /\ EndInv' /\ agent' = agent /\ hop' = 1
      /\ mem' = mem /\ filed' = f /\ rejections' = rj
      /\ run' # "running" => FlowInv'
      /\ run' = "running" =>
            /\ cause' = None /\ node \in DOMAIN Transitions[agent] \ {"start"}
            /\ node' \in Ways(Transitions[agent], node)
  BY <1>1, Onward DEF FlowInv, CursorInv
<1>3. SUFFICES ASSUME run' = "running" PROVE FlowInv'
  BY <1>2
<1>4. node' \in Closing
  BY <1>2, <1>3, FlowsPhased DEF Phased, Outer, TypeInv, TypeOK
<1>5. ClosingInv /\ node' \notin Loop
  BY <1>4, PhaseSets DEF FlowInv, PhaseInv
<1>6. ClosingInv'
  BY <1>2, <1>4, <1>5 DEF ClosingInv
<1>7. node' \notin Opening \cup Listing \cup {"propose_tasks"} \cup Loop
  BY <1>4, PhaseSets
<1> QED
  BY <1>2, <1>3, <1>4, <1>6, <1>7 DEF FlowInv, PhaseInv, OpeningInv, ProposingInv, LoopInv

\* The moves of the engine.

LEMMA RegisterFlow ==
    ASSUME TypeInv, FlowInv, RegisterWorkItem PROVE FlowInv'
<1>1. run = "running" /\ node = "register_work_item"
  BY DEF RegisterWorkItem, At, Runs
<1>2. CASE \E why \in Ends \ {"refused"} : Fail(why)
  BY <1>2, FailFlow DEF FlowInv
<1>3. CASE engine' = ItemMoved("open") /\ Proceed(mem, filed, rejections, Ok)
  <2>1. /\ CursorInv' /\ EndInv' /\ agent' = agent /\ hop' = 1 /\ mem' = mem
        /\ run' # "running" => FlowInv'
        /\ run' = "running" =>
              /\ cause' = None /\ node \in DOMAIN Transitions[agent] \ {"start"}
              /\ node' \in Ways(Transitions[agent], node)
    BY <1>1, <1>3, Onward DEF FlowInv, CursorInv, TerminalNodes
  <2>2. SUFFICES ASSUME run' = "running" PROVE FlowInv'
    BY <2>1
  <2>3. node' \in Listing
    BY <1>1, <2>1, <2>2, FlowsPhased DEF Phased, Outer, TypeInv, TypeOK
  <2>4. /\ mem.done = {} /\ mem.linked = {} /\ mem.submitted = {}
        /\ \A t \in Ids : engine.task[t] = "absent"
    BY <1>1 DEF FlowInv, PhaseInv, OpeningInv, Opening
  <2>5. engine'.item = "open" /\ engine'.task = engine.task
    BY <1>3 DEF ItemMoved, TypeInv, TypeOK
  <2>6. OpeningInv'
    BY <2>1, <2>3, <2>4, <2>5, PhaseSets DEF OpeningInv
  <2>7. node' \notin {"propose_tasks"} \cup Loop \cup Closing
    BY <2>3, PhaseSets
  <2> QED
    BY <2>1, <2>2, <2>3, <2>6, <2>7 DEF FlowInv, PhaseInv, ProposingInv, LoopInv, ClosingInv
<1> QED
  BY <1>2, <1>3 DEF RegisterWorkItem, Ends

LEMMA ProposeFlow ==
    ASSUME TypeInv, FlowInv, ProposeTask PROVE FlowInv'
<1> DEFINE t == mem.tasks[hop]
<1>1. /\ run = "running" /\ node = "propose_tasks" /\ hop \in DOMAIN mem.tasks
      /\ mem.tasks \in Seq(Ids) /\ t \in Ids /\ mem \in Memory /\ hop \in Nat
  BY DEF ProposeTask, At, Runs, TypeInv, TypeOK, Memory
<1>3. ProposingInv /\ CursorInv /\ EndInv /\ cause = None
  BY <1>1 DEF FlowInv, PhaseInv
<1>4. CASE /\ engine' = TaskMoved(t, "assigning") /\ Linked(t) /\ hop' = hop + 1
           /\ UNCHANGED <<agent, node, run, cause, filed, rejections>>
  <2>1. /\ mem'.tasks = mem.tasks /\ mem'.cursor = mem.cursor /\ mem'.done = mem.done
        /\ mem'.linked = mem.linked \cup {t} /\ mem'.submitted = mem.submitted
    BY <1>1, <1>4 DEF Linked, Memory
  <2>2. /\ engine'.item = engine.item
        /\ \A x \in Ids : engine'.task[x] = IF x = t THEN "assigning" ELSE engine.task[x]
    BY <1>1, <1>4 DEF TaskMoved, TypeInv, TypeOK
  <2>3. ProposingInv'
    <3>1. /\ hop' >= 1 /\ mem'.done = {} /\ mem'.submitted = {} /\ engine'.item = "open"
      BY <1>1, <1>3, <1>4, <2>1, <2>2 DEF ProposingInv
    <3>2. ASSUME NEW i \in DOMAIN mem.tasks, i < hop + 1
          PROVE  engine'.task[mem.tasks[i]] = "assigning" /\ mem.tasks[i] \in mem'.linked
      <4>1. i \in Nat /\ mem.tasks[i] \in Ids /\ (i < hop \/ i = hop)
        BY <1>1, <3>2
      <4> QED
        BY <1>1, <1>3, <2>1, <2>2, <4>1 DEF ProposingInv
    <3>3. ASSUME NEW x \in Ids, \A i \in DOMAIN mem.tasks : i < hop + 1 => mem.tasks[i] # x
          PROVE  engine'.task[x] = "absent"
      <4>1. x # t /\ \A i \in DOMAIN mem.tasks : i < hop => mem.tasks[i] # x
        BY <1>1, <3>3
      <4> QED
        BY <1>1, <1>3, <2>2, <4>1 DEF ProposingInv
    <3> QED
      BY <1>4, <2>1, <3>1, <3>2, <3>3 DEF ProposingInv
  <2>4. CursorInv' /\ EndInv'
    BY <1>1, <1>3, <1>4, <2>1, IdsAssumption
       DEF CursorInv, EndInv, CompletedMeansDone, OnlyReplanRefused, Ends
  <2>5. node' \notin Opening \cup Listing \cup Loop \cup Closing
    BY <1>1, <1>4, PhaseSets
  <2> QED
    BY <1>1, <1>3, <1>4, <2>3, <2>4, <2>5
       DEF FlowInv, PhaseInv, OpeningInv, LoopInv, ClosingInv
<1>5. CASE /\ End("failed", "outage") /\ (mem' = mem \/ Linked(t))
  <2>1. mem'.tasks = mem.tasks /\ mem'.cursor = mem.cursor /\ mem'.done = mem.done
    BY <1>1, <1>5 DEF Linked, Memory
  <2> QED
    BY <1>3, <1>5, <2>1, Failed DEF End, Ends
<1> QED
  BY <1>4, <1>5 DEF ProposeTask

LEMMA StartFlow ==
    ASSUME TypeInv, FlowInv, ProposeTasks PROVE FlowInv'
<1>1. /\ run = "running" /\ node = "propose_tasks" /\ hop \notin DOMAIN mem.tasks
      /\ mem.tasks \in Seq(Ids) /\ mem \in Memory /\ hop \in Nat
      /\ agent \in Agents /\ agent \in Variants
  BY FlowsClosed DEF ProposeTasks, At, Runs, TypeInv, TypeOK, Memory
<1>2. ProposingInv /\ CursorInv /\ EndInv /\ cause = None
  BY <1>1 DEF FlowInv, PhaseInv
<1>3. CASE \E why \in Ends \ {"refused"} : Fail(why)
  BY <1>2, <1>3, FailFlow
<1>4. ~RefuseItem("in_progress")
  BY <1>1, <1>2 DEF RefuseItem, ProposingInv, ItemEdges
<1>5. CASE /\ mem.tasks # <<>> /\ engine' = ItemMoved("in_progress")
           /\ Proceed(mem, filed, rejections, Ok)
  <2>1. /\ CursorInv' /\ EndInv' /\ agent' = agent /\ hop' = 1 /\ mem' = mem
        /\ filed' = filed
        /\ run' # "running" => FlowInv'
        /\ run' = "running" =>
              /\ cause' = None /\ node \in DOMAIN Transitions[agent] \ {"start"}
              /\ node' \in Ways(Transitions[agent], node)
    BY <1>1, <1>2, <1>5, Onward DEF CursorInv, TerminalNodes
  <2>2. SUFFICES ASSUME run' = "running" PROVE FlowInv'
    BY <2>1
  <2>3. /\ node' \in {"confirm_assignment", "assign_task"}
        /\ agent # "v03" => node' = "confirm_assignment"
    BY <1>1, <2>1, <2>2, FlowsPhased DEF Phased, Outer, Implementing, Ways
  <2>4. /\ engine'.item = "in_progress" /\ engine'.task = engine.task
    BY <1>5 DEF ItemMoved, TypeInv, TypeOK
  <2>5. \A i \in DOMAIN mem.tasks : i < hop /\ i \in Nat
    BY <1>1, <1>2 DEF ProposingInv
  <2>6. \A t \in Listed(mem.tasks) : engine.task[t] = "assigning" /\ t \in mem.linked
    BY <1>1, <1>2, <2>5 DEF ProposingInv, Listed
  <2>7. \A t \in Ids \ Listed(mem.tasks) : engine.task[t] = "absent"
    BY <1>1, <1>2, <2>5 DEF ProposingInv, Listed
  <2>8. mem.cursor \in Listed(mem.tasks) \ mem.done
    <3>1. 1 \in DOMAIN mem.tasks
      BY <1>1, <1>5
    <3>2. mem.tasks[1] \in Listed(mem.tasks) /\ mem.tasks[1] \notin mem.done
      BY <1>1, <1>2, <3>1 DEF Listed, ProposingInv
    <3> QED
      BY <1>1, <1>2, <3>2, FirstUndoneIs DEF CursorInv
  <2>9. TasksInv'
    BY <1>1, <1>2, <2>1, <2>4, <2>6, <2>7, <2>8 DEF TasksInv, ProposingInv
  <2>11. StageInv' /\ HopInv'
    BY <2>1, <2>3, <2>4, <2>6, <2>8 DEF StageInv, HopInv, Current, Reviews
  <2>12. node' \in Loop /\ node' \notin Opening \cup Listing \cup {"propose_tasks"} \cup Closing
    BY <2>3 DEF Loop, Opening, Listing, Closing
  <2> QED
    BY <2>1, <2>2, <2>9, <2>11, <2>12
       DEF FlowInv, PhaseInv, OpeningInv, ProposingInv, LoopInv, ClosingInv
<1> QED
  BY <1>3, <1>4, <1>5 DEF ProposeTasks, TransitionItem, LoseItem, Ends

\* The engine moves the current task.
LEMMA Advanced ==
    ASSUME TypeInv, TasksInv, NEW to \in TaskStages, engine' = TaskMoved(mem.cursor, to),
           to # "absent",
           mem'.tasks = mem.tasks, mem'.cursor = mem.cursor, mem'.done = mem.done,
           mem'.linked = mem.linked,
           \A t \in Listed(mem.tasks) \ {mem.cursor} : t \in mem'.submitted <=> t \in mem.submitted,
           mem.cursor \in mem'.submitted <=> to \in {"impl_review", "done"}
    PROVE  TasksInv' /\ Current' = to
<1>1. mem.cursor \in Ids /\ mem.cursor \in Listed(mem.tasks)
  BY DEF TasksInv, Listed, TypeInv, TypeOK, Memory
<1>2. /\ engine'.item = engine.item
      /\ \A x \in Ids : engine'.task[x] = IF x = mem.cursor THEN to ELSE engine.task[x]
  BY <1>1 DEF TaskMoved, TypeInv, TypeOK
<1>3. Listed(mem.tasks) \subseteq Ids
  BY DEF Listed, TypeInv, TypeOK, Memory
<1> QED
  BY <1>1, <1>2, <1>3 DEF TasksInv, Current

LEMMA CallFlow ==
    ASSUME TypeInv, FlowInv, EngineNode PROVE FlowInv'
<1> DEFINE to == Calls(agent, node)[hop]
<1>1. /\ run = "running" /\ node \in EngineNodes /\ node \in Loop
      /\ agent \in Agents /\ agent \in Variants /\ rejections \in Counts /\ mem \in Memory
  BY FlowsClosed DEF EngineNode, EngineNodes, Runs, Loop, TypeInv, TypeOK, Counts
<1>2. TasksInv /\ StageInv /\ HopInv /\ CursorInv /\ EndInv /\ cause = None
  BY <1>1 DEF FlowInv, PhaseInv, LoopInv
<1>3. Target = mem.cursor /\ mem.cursor # None
  BY <1>1, <1>2, IdsAssumption DEF Target, TasksInv, Memory, Listed
<1>4. CASE \E why \in Ends \ {"refused"} : Fail(why)
  BY <1>2, <1>4, FailFlow
<1>5. /\ Calls(agent, "assign_task") = <<"planning">>
      /\ Calls(agent, "advance_plan") = <<"plan_review">>
      /\ Calls(agent, "approve_plan") = IF agent = "v06" THEN <<"plan_review", "implementing">>
                                        ELSE <<"implementing">>
      /\ Calls(agent, "approve_review") = <<"done">>
  BY DEF Calls
<1>6. /\ node = "assign_task" => hop = 1 /\ to = "planning" /\ Current = "assigning"
      /\ node = "advance_plan" => hop = 1 /\ to = "plan_review" /\
            (Current = "planning" \/ (Current = "plan_review" /\ agent \in {"v04", "v05"}
                                     /\ rejections["confirm_plan"] > 0))
      /\ node = "approve_plan" =>
            \/ agent = "v06" /\ hop = 1 /\ to = "plan_review" /\ Current = "planning"
            \/ agent = "v06" /\ hop = 2 /\ to = "implementing" /\ Current = "plan_review"
            \/ agent # "v06" /\ hop = 1 /\ to = "implementing" /\ Current = "plan_review"
      /\ node = "approve_review" => hop = 1 /\ to = "done" /\ Current = "impl_review"
  BY <1>2, <1>5 DEF StageInv, HopInv
<1>7. CASE RefuseTask(mem.cursor, to)
  <2>1. node = "advance_plan" /\ Current = "plan_review" /\ agent \in {"v04", "v05"}
        /\ rejections["confirm_plan"] > 0
    BY <1>1, <1>6, <1>7 DEF RefuseTask, TaskEdges, EngineNodes, Current
  <2> QED
    BY <1>2, <1>7, <2>1, Failed DEF RefuseTask, Fail, End, data, Ends
<1>8. CASE /\ engine' = TaskMoved(mem.cursor, to) /\ <<Current, to>> \in TaskEdges
           /\ hop < Len(Calls(agent, node)) /\ hop' = hop + 1
           /\ UNCHANGED <<agent, node, run, cause, data>>
  <2>1. node = "approve_plan" /\ agent = "v06" /\ hop = 1 /\ to = "plan_review"
    <3>1. Len(<<"planning">>) = 1 /\ Len(<<"plan_review">>) = 1 /\ Len(<<"implementing">>) = 1
          /\ Len(<<"done">>) = 1 /\ Len(<<"plan_review", "implementing">>) = 2
      OBVIOUS
    <3>2. hop = 1 \/ hop = 2
      BY <1>2 DEF HopInv
    <3>3. Len(Calls(agent, node)) = 2
      BY <1>1, <1>5, <1>8, <3>1, <3>2 DEF EngineNodes
    <3>4. node = "approve_plan" /\ agent = "v06"
      BY <1>1, <1>5, <3>1, <3>3 DEF EngineNodes
    <3> QED
      BY <1>6, <1>8, <3>2, <3>3, <3>4
  <2>2. TasksInv' /\ Current' = "plan_review"
    <3>1. mem.cursor \notin mem.submitted
      BY <1>2, <1>6, <2>1 DEF TasksInv, Current
    <3> QED
      BY <1>2, <1>8, <2>1, <3>1, Advanced DEF data, TaskStages
  <2>3. StageInv' /\ HopInv'
    BY <1>2, <1>8, <2>1, <2>2 DEF StageInv, HopInv, data, Reviews
  <2>4. CursorInv' /\ EndInv'
    BY <1>1, <1>2, <1>8, IdsAssumption
       DEF CursorInv, EndInv, CompletedMeansDone, OnlyReplanRefused, Ends, data
  <2> QED
    BY <1>1, <1>2, <1>8, <2>2, <2>3, <2>4, PhaseSets
       DEF FlowInv, PhaseInv, OpeningInv, ProposingInv, LoopInv, ClosingInv
<1>9. CASE /\ engine' = TaskMoved(mem.cursor, to) /\ <<Current, to>> \in TaskEdges
           /\ ~(hop < Len(Calls(agent, node))) /\ Proceed(mem, filed, rejections, Ok)
  <2>1. /\ CursorInv' /\ EndInv' /\ agent' = agent /\ hop' = 1 /\ mem' = mem
        /\ filed' = filed /\ rejections' = rejections
        /\ run' # "running" => FlowInv'
        /\ run' = "running" =>
              /\ cause' = None /\ node \in DOMAIN Transitions[agent] \ {"start"}
              /\ node' \in Ways(Transitions[agent], node)
    BY <1>1, <1>2, <1>9, Onward DEF CursorInv, TerminalNodes, EngineNodes
  <2>2. SUFFICES ASSUME run' = "running" PROVE FlowInv'
    BY <2>1
  <2>3. /\ Planning(Transitions[agent], agent) /\ Implementing(Transitions[agent], agent)
    BY <1>1, FlowsPhased DEF Phased
  <2>4. \/ /\ node = "assign_task" /\ to = "planning"
           /\ node' \in {"generate_mockup", "confirm_mockup", "generate_plan", "confirm_plan"}
           /\ agent # "v06" => node' # "confirm_plan"
        \/ /\ node = "advance_plan" /\ to = "plan_review" /\ agent # "v06"
           /\ node' \in {"confirm_plan", "approve_plan"} \cup Over
        \/ /\ node = "approve_plan" /\ to = "implementing" /\ node' = "request_implementation"
        \/ /\ node = "approve_review" /\ to = "done" /\ node' = "mark_task_done"
    BY <1>1, <1>5, <1>6, <1>9, <2>1, <2>2, <2>3 DEF Planning, Implementing, EngineNodes
  <2>5. TasksInv' /\ Current' = to
    <3>1. mem.cursor \in mem.submitted <=> to = "done"
      BY <1>2, <1>6, <1>9, <2>4 DEF TasksInv, Current, TaskEdges
    <3>2. to \in TaskStages /\ to \notin {"absent", "impl_review"}
      BY <2>4 DEF TaskStages
    <3> QED
      BY <1>2, <1>9, <2>1, <3>1, <3>2, Advanced
  <2>6. HopInv'
    BY <1>2, <2>1, <2>4 DEF HopInv, Loop
  <2>7. StageInv'
    BY <2>1, <2>4, <2>5 DEF StageInv, Reviews, Over
  <2>8. node' \in Loop \cup Over
    BY <2>4 DEF Loop
  <2>9. node' \notin Opening \cup Listing \cup {"propose_tasks"} \cup Closing
    BY <2>4, PhaseSets DEF Loop, Reviews, Over, Opening, Listing, Closing
  <2> QED
    BY <2>1, <2>2, <2>5, <2>6, <2>7, <2>8, <2>9
       DEF FlowInv, PhaseInv, OpeningInv, ProposingInv, LoopInv, ClosingInv
<1> QED
  BY <1>3, <1>4, <1>7, <1>8, <1>9 DEF EngineNode, TransitionTask, LoseTask, Ends, Current

LEMMA SubmitFlow ==
    ASSUME TypeInv, FlowInv, SubmitImplementation PROVE FlowInv'
<1>1. /\ run = "running" /\ node = "submit_implementation" /\ node \in Loop
      /\ agent \in Agents /\ agent \in Variants /\ mem \in Memory
      /\ filed \in Files /\ rejections \in Counts
  BY FlowsClosed DEF SubmitImplementation, At, Runs, Loop, TypeInv, TypeOK, Files, Counts
<1>2. TasksInv /\ StageInv /\ HopInv /\ CursorInv /\ EndInv /\ cause = None
  BY <1>1 DEF FlowInv, PhaseInv, LoopInv
<1>3. Target = mem.cursor /\ mem.cursor # None /\ mem.cursor \in Ids
  BY <1>1, <1>2, IdsAssumption DEF Target, TasksInv, Memory, Listed
<1>4. CASE \E why \in Ends \ {"refused"} : Fail(why)
  BY <1>2, <1>4, FailFlow
<1>5. CASE mem.cursor \in mem.submitted /\ Proceed(mem, filed, rejections, Ok) /\ UNCHANGED engine
  <2>1. Current = "impl_review"
    BY <1>1, <1>2, <1>5 DEF TasksInv, StageInv, Current
  <2>2. rejections["confirm_plan"] <= rejections["confirm_plan"]
    BY <1>1 DEF Counts, Rejectable
  <2> QED
    BY <1>1, <1>5, <2>1, <2>2, KinSteps, StayLoop
<1>6. CASE RefuseTask(mem.cursor, "impl_review") /\ mem.cursor \notin mem.submitted
  BY <1>1, <1>2, <1>6 DEF RefuseTask, TaskEdges, StageInv, TasksInv, Current
<1> DEFINE m == [mem EXCEPT !.submitted = @ \cup {mem.cursor}]
<1>7. CASE engine' = TaskMoved(mem.cursor, "impl_review") /\ Proceed(m, filed, rejections, Ok)
  <2>1. /\ m.tasks = mem.tasks /\ m.cursor = mem.cursor /\ m.done = mem.done
        /\ m.linked = mem.linked /\ m.submitted = mem.submitted \cup {mem.cursor}
    BY <1>1 DEF Memory
  <2> HIDE DEF m
  <2>2. /\ CursorInv' /\ EndInv' /\ agent' = agent /\ hop' = 1 /\ mem' = m
        /\ filed' = filed
        /\ run' # "running" => FlowInv'
        /\ run' = "running" =>
              /\ cause' = None /\ node \in DOMAIN Transitions[agent] \ {"start"}
              /\ node' \in Ways(Transitions[agent], node)
    BY <1>1, <1>2, <1>7, <2>1, Onward DEF CursorInv, TerminalNodes
  <2>3. SUFFICES ASSUME run' = "running" PROVE FlowInv'
    BY <2>2
  <2>4. node' \in {"run_tests"} \cup Reviews
    BY <1>1, <2>2, <2>3, FlowsPhased DEF Phased, Implementing
  <2>5. TasksInv' /\ Current' = "impl_review"
    BY <1>2, <1>7, <2>1, <2>2, Advanced DEF TaskStages
  <2>6. HopInv' /\ StageInv'
    BY <1>1, <1>2, <2>1, <2>2, <2>4, <2>5 DEF HopInv, StageInv, Loop, Reviews
  <2>7. node' \in Loop /\ node' \notin Opening \cup Listing \cup {"propose_tasks"} \cup Closing
    BY <2>4, PhaseSets DEF Loop, Reviews, Opening, Listing
  <2> QED
    BY <2>2, <2>3, <2>5, <2>6, <2>7
       DEF FlowInv, PhaseInv, OpeningInv, ProposingInv, LoopInv, ClosingInv
<1> QED
  BY <1>3, <1>4, <1>5, <1>6, <1>7 DEF SubmitImplementation, TransitionTask, LoseTask, Ends

LEMMA DoneFlow ==
    ASSUME TypeInv, FlowInv, MarkTaskDone PROVE FlowInv'
<1> DEFINE m == TaskMarkedDone(mem)
           edge == Transitions[agent][node]
<1>1. /\ run = "running" /\ node = "mark_task_done" /\ node \in Loop
      /\ agent \in Agents /\ agent \in Variants /\ mem \in Memory
      /\ Proceed(m, filed, rejections, Ok) /\ UNCHANGED engine
  BY FlowsClosed DEF MarkTaskDone, At, Runs, Loop, TypeInv, TypeOK
<1>2. TasksInv /\ StageInv /\ CursorInv
  BY <1>1 DEF FlowInv, PhaseInv, LoopInv
<1>3. mem.cursor \in Ids /\ mem.cursor # None
  BY <1>1, <1>2, IdsAssumption DEF TasksInv, Memory, Listed
<1>4. /\ m.tasks = mem.tasks /\ m.done = mem.done \cup {mem.cursor}
      /\ m.cursor = FirstUndone(m.tasks, m.done)
      /\ m.linked = mem.linked /\ m.submitted = mem.submitted
  BY <1>1, <1>3 DEF TaskMarkedDone, Memory
<1> HIDE DEF m
<1>5. /\ CursorInv' /\ EndInv' /\ agent' = agent /\ hop' = 1 /\ mem' = m
      /\ filed' = filed
      /\ run' # "running" => FlowInv'
      /\ run' = "running" =>
            /\ cause' = None /\ node \in DOMAIN Transitions[agent] \ {"start"}
            /\ node' \in Ways(Transitions[agent], node)
            /\ node' = IF Holds(edge.rule, m, rejections, Ok) THEN edge.yes ELSE edge.no
  BY <1>1, <1>4, Onward DEF TerminalNodes
<1>6. SUFFICES ASSUME run' = "running" PROVE FlowInv'
  BY <1>5
<1>7. /\ edge.rule = "tasks_remaining" /\ edge.yes \in {"confirm_assignment", "assign_task"}
      /\ edge.no \in Closing /\ (agent # "v03" => edge.yes = "confirm_assignment")
  BY <1>1, <1>5, <1>6, FlowsPhased DEF Phased, Implementing
<1>8. node' = IF TasksRemaining(m) THEN edge.yes ELSE edge.no
  BY <1>5, <1>6, <1>7 DEF Holds
<1>9. engine.task[mem.cursor] = "done"
  BY <1>1, <1>2 DEF StageInv, Current
<1>10. \A t \in Listed(mem.tasks) : engine.task[t] = IF t \in m.done THEN "done" ELSE "assigning"
  BY <1>2, <1>4, <1>9 DEF TasksInv
<1>12. CASE TasksRemaining(m)
  <2>1. node' \in {"confirm_assignment", "assign_task"}
        /\ (agent # "v03" => node' = "confirm_assignment")
    BY <1>7, <1>8, <1>12
  <2>2. m.cursor \in Listed(mem.tasks) \ m.done
    BY <1>1, <1>4, <1>12, FirstUndoneIs DEF TasksRemaining, Memory
  <2>3. TasksInv'
    BY <1>1, <1>2, <1>4, <1>5, <1>10, <2>2 DEF TasksInv
  <2>5. StageInv' /\ HopInv'
    BY <1>1, <1>5, <1>10, <2>1, <2>2 DEF StageInv, HopInv, Current, Reviews
  <2>6. node' \in Loop /\ node' \notin Opening \cup Listing \cup {"propose_tasks"} \cup Closing
    BY <2>1, PhaseSets DEF Loop, Opening, Listing
  <2> QED
    BY <1>5, <1>6, <2>3, <2>5, <2>6
       DEF FlowInv, PhaseInv, OpeningInv, ProposingInv, LoopInv, ClosingInv
<1>13. CASE ~TasksRemaining(m)
  <2>1. node' \in Closing /\ Listed(mem.tasks) \subseteq m.done
    BY <1>4, <1>7, <1>8, <1>13 DEF TasksRemaining
  <2>2. node' \notin Opening \cup Listing \cup {"propose_tasks"} \cup Loop
    BY <2>1, PhaseSets
  <2>3. ClosingInv'
    <3>1. \A t \in Listed(mem.tasks) : engine.task[t] = "done" /\ t \in m.done
      BY <1>10, <2>1
    <3> QED
      BY <1>1, <1>2, <1>4, <1>5, <3>1 DEF ClosingInv, TasksInv
  <2> QED
    BY <1>5, <1>6, <2>1, <2>2, <2>3
       DEF FlowInv, PhaseInv, OpeningInv, ProposingInv, LoopInv
<1> QED
  BY <1>12, <1>13

LEMMA CloseFlow ==
    ASSUME TypeInv, FlowInv, CloseWorkItem PROVE FlowInv'
<1> DEFINE to == <<"ready", "closed">>[hop]
<1>1. run = "running" /\ node = "close_work_item" /\ node \in Closing /\ mem \in Memory
  BY DEF CloseWorkItem, At, Runs, Closing, TypeInv, TypeOK
<1>2. /\ CursorInv /\ EndInv /\ cause = None
      /\ \/ hop = 1 /\ engine.item = "in_progress" /\ to = "ready"
         \/ hop = 2 /\ engine.item = "ready" /\ to = "closed"
      /\ \A t \in Listed(mem.tasks) : engine.task[t] = "done" /\ t \in mem.done
      /\ \A t \in Ids \ Listed(mem.tasks) : engine.task[t] = "absent"
  BY <1>1 DEF FlowInv, PhaseInv, ClosingInv
<1>3. CASE \E why \in Ends \ {"refused"} : Fail(why)
  BY <1>2, <1>3, FailFlow
<1>4. ~RefuseItem(to)
  BY <1>2 DEF RefuseItem, ItemEdges
<1>5. CASE /\ hop = 1 /\ engine' = ItemMoved("ready") /\ hop' = 2
           /\ UNCHANGED <<agent, node, run, cause, data>>
  <2>1. engine'.item = "ready" /\ engine'.task = engine.task
    BY <1>5 DEF ItemMoved, TypeInv, TypeOK
  <2>2. ClosingInv'
    BY <1>1, <1>2, <1>5, <2>1 DEF ClosingInv, data
  <2>3. CursorInv' /\ EndInv'
    BY <1>1, <1>2, <1>5, IdsAssumption
       DEF CursorInv, EndInv, CompletedMeansDone, OnlyReplanRefused, Ends, data
  <2>4. node' \notin Opening \cup Listing \cup {"propose_tasks"} \cup Loop
    BY <1>1, <1>5, PhaseSets
  <2> QED
    BY <1>1, <1>2, <1>5, <2>2, <2>3, <2>4
       DEF FlowInv, PhaseInv, OpeningInv, ProposingInv, LoopInv
<1>6. CASE hop = 2 /\ engine' = ItemMoved("closed") /\ Proceed(mem, filed, rejections, Ok)
  <2>1. engine'.item = "closed" /\ engine'.task = engine.task
    BY <1>6 DEF ItemMoved, TypeInv, TypeOK
  <2>2. /\ run' = "completed" /\ cause' = "done_node" /\ mem' = mem /\ filed' = filed
        /\ agent' = agent
    BY <1>1, <1>6 DEF Proceed, End, TerminalNodes
  <2>4. CursorInv' /\ EndInv'
    BY <1>2, <2>1, <2>2 DEF CursorInv, EndInv, CompletedMeansDone, OnlyReplanRefused
  <2> QED
    BY <2>2, <2>4 DEF FlowInv, PhaseInv
<1> QED
  BY <1>2, <1>3, <1>4, <1>5, <1>6 DEF CloseWorkItem, TransitionItem, LoseItem, Ends

LEMMA DeliverFlow ==
    ASSUME TypeInv, FlowInv, NEW p \in Payloads, Deliver(p) PROVE FlowInv'
<1> DEFINE m    == PatchedMemory(node, p)
           f    == PatchedFiles(node, p)
           rj   == PatchedRejections(node, p)
           last == WithVerdict(Verdict(p))
<1>1. /\ run = "running" /\ node \in DOMAIN Checkpoint /\ UNCHANGED engine
      /\ mem \in Memory /\ filed \in Files /\ rejections \in Counts
  BY HumanNodes, FlowsClosed DEF Deliver, Runs, TypeInv, TypeOK, Files, Counts
<1>2. CASE Fail("payload")
  BY <1>2, FailFlow DEF FlowInv, Ends
<1>3. CASE Valid(node, p) /\ Applicable(node, p) /\ Proceed(m, f, rj, last)
  <2>1. Verdict(p) = "reject" => node \in Rejectable
    BY <1>1, <1>3, Accepted
  <2>2. m \in Memory /\ f \in Files /\ rj \in Counts
    BY <2>1, PatchedType
  <2>4. \A c \in Rejectable : rejections[c] <= rj[c]
    BY <1>1 DEF PatchedRejections, Reject, Counts
  <2>5. CASE node \in {"confirm_brief", "confirm_tasks", "confirm_task_review"}
    <3>1. node \in Opening \cup Listing /\ node # "register_work_item"
      BY <2>5 DEF Opening, Listing
    <3>2. /\ mem.done = {} /\ mem.linked = {} /\ mem.submitted = {}
          /\ mem.cursor = FirstUndone(mem.tasks, {})
      BY <1>1, <3>1 DEF FlowInv, PhaseInv, OpeningInv, CursorInv
    <3>3. /\ m.done = {} /\ m.linked = {} /\ m.submitted = {}
          /\ m.cursor = FirstUndone(m.tasks, {})
      <4>1. \/ m = mem \/ m = [mem EXCEPT !.brief = TRUE]
            \/ \E ts \in TaskLists : m = TasksReplaced(mem, ts)
        BY <2>5, PayloadFields DEF PatchedMemory
      <4>2. \A ts : /\ TasksReplaced(mem, ts).tasks = ts
                    /\ TasksReplaced(mem, ts).done = mem.done
                    /\ TasksReplaced(mem, ts).linked = mem.linked \cap Listed(ts)
                    /\ TasksReplaced(mem, ts).submitted = mem.submitted \cap Listed(ts)
                    /\ TasksReplaced(mem, ts).cursor = FirstUndone(ts, mem.done)
        BY <1>1 DEF TasksReplaced, Memory
      <4>3. CASE \E ts \in TaskLists : m = TasksReplaced(mem, ts)
        BY <3>2, <4>2, <4>3
      <4>4. CASE m = mem \/ m = [mem EXCEPT !.brief = TRUE]
        BY <1>1, <3>2, <4>4 DEF Memory
      <4> QED
        BY <4>1, <4>3, <4>4
    <3> HIDE DEF m, f, rj, last
    <3> QED
      BY <1>1, <1>3, <2>2, <3>1, <3>3, StayEarly
  <2>6. CASE node \in {"confirm_mockup", "confirm_plan", "confirm_assignment",
                      "request_implementation", "human_review_implementation"}
    <3>1. node \in Loop
      BY <2>6 DEF Loop, Reviews
    <3>2. Kin(m)
      BY <1>1, <2>6, KinSteps DEF PatchedMemory
    <3>4. node = "confirm_plan" /\ last.verdict = "reject" => rj["confirm_plan"] > 0
      <4>1. last.verdict = Verdict(p)
        BY DEF WithVerdict, Ok
      <4> QED
        BY <1>1, <4>1 DEF PatchedRejections, Reject, Counts, Rejectable
    <3>5. rejections["confirm_plan"] <= rj["confirm_plan"]
      BY <2>4 DEF Rejectable
    <3> HIDE DEF m, f, rj, last
    <3> QED
      BY <1>1, <1>3, <2>2, <2>6, <3>1, <3>2, <3>4, <3>5, StayLoop
  <2>7. CASE node = "confirm_docs_update"
    <3>1. m = mem
      BY <2>7 DEF PatchedMemory
    <3>2. node \in Closing \ {"close_work_item"}
      BY <2>7 DEF Closing
    <3> HIDE DEF m, f, rj, last
    <3> QED
      BY <1>1, <1>3, <2>2, <3>1, <3>2, StayClosing
  <2> QED
    BY <1>1, <2>5, <2>6, <2>7 DEF Checkpoint
<1> QED
  BY <1>2, <1>3 DEF Deliver

LEMMA NextFlow == TypeInv /\ FlowInv /\ [Next]_vars => FlowInv'
<1> SUFFICES ASSUME TypeInv, FlowInv, [Next]_vars PROVE FlowInv'
  OBVIOUS
<1>1. /\ agent \in Variants /\ mem \in Memory /\ filed \in Files /\ rejections \in Counts
      /\ rejections["confirm_plan"] <= rejections["confirm_plan"]
      /\ CursorInv
  BY FlowsClosed DEF TypeInv, TypeOK, Files, Counts, Rejectable, FlowInv
<1>2. ASSUME NEW why \in Ends \ {"refused"}, Fail(why) PROVE FlowInv'
  BY <1>1, <1>2, FailFlow
<1>11. CASE LoadWorkItem
  <2> DEFINE m == [FreshMemory EXCEPT !.brief = TRUE]
  <2>1. m.done = {} /\ m.linked = {} /\ m.submitted = {} /\ m.cursor = FirstUndone(m.tasks, {})
    BY DEF FreshMemory, FirstUndone
  <2>2. /\ run = "running" /\ node = "load_work_item" /\ node \in Opening
        /\ Proceed(m, filed, rejections, Ok) /\ UNCHANGED engine
    BY <1>11 DEF LoadWorkItem, Author, At, Runs, Opening
  <2>3. m \in Memory
    BY FreshIs
  <2> HIDE DEF m
  <2> QED
    BY <2>1, <2>2, <2>3, StayEarly
<1>12. CASE GenerateTasks
  <2>1. PICK ts \in TaskLists : Author("generate_tasks",
               [FreshMemory EXCEPT !.tasks  = ts, !.cursor = FirstUndone(ts, {})], filed, Ok)
    BY <1>12 DEF GenerateTasks
  <2> DEFINE m == [FreshMemory EXCEPT !.tasks  = ts, !.cursor = FirstUndone(ts, {})]
  <2>2. m.done = {} /\ m.linked = {} /\ m.submitted = {} /\ m.cursor = FirstUndone(m.tasks, {})
    BY DEF FreshMemory
  <2>3. m \in Memory
    BY FreshIs
  <2>4. /\ run = "running" /\ node = "generate_tasks" /\ node \in Listing
        /\ Proceed(m, filed, rejections, Ok) /\ UNCHANGED engine
    BY <2>1 DEF Author, At, Runs, Listing
  <2> HIDE DEF m
  <2> QED
    BY <2>2, <2>3, <2>4, StayEarly
<1>13. CASE GeneratePlan \/ GenerateMockup
  <2>1. PICK f : /\ Proceed(mem, f, rejections, Ok) /\ UNCHANGED engine
                 /\ \/ f = filed
                    \/ \E s \in {"plans", "mockups"}, t \in Ids : f = File(filed, s, t)
    BY <1>13 DEF GeneratePlan, GenerateMockup, Author
  <2>2. run = "running" /\ node \in {"generate_plan", "generate_mockup"} /\ node \in Loop
    BY <1>13 DEF GeneratePlan, GenerateMockup, Author, At, Runs, Loop
  <2>3. f \in Files
    BY <1>1, <2>1 DEF File, Files, Sidecars
  <2> QED
    BY <1>1, <2>1, <2>2, <2>3, KinSteps, StayLoop
<1>15. CASE ReviewImplementation
  <2>1. PICK v : Author("review_implementation", IF v = "fail" THEN FailNoted(mem) ELSE mem,
                        filed, WithVerdict(v))
    BY <1>15 DEF ReviewImplementation
  <2> DEFINE m == IF v = "fail" THEN FailNoted(mem) ELSE mem
  <2>2. Kin(m) /\ m \in Memory
    BY <1>1, KinSteps, MemoryUpdates
  <2>3. /\ run = "running" /\ node = "review_implementation" /\ node \in Loop
        /\ Proceed(m, filed, rejections, WithVerdict(v)) /\ UNCHANGED engine
    BY <2>1 DEF Author, At, Runs, Loop, Reviews
  <2> HIDE DEF m
  <2> QED
    BY <1>1, <2>2, <2>3, StayLoop
<1>16. CASE ContentFails \/ TerminateBudget \/ Interrupt
  BY <1>2, <1>16 DEF ContentFails, TerminateBudget, Interrupt, Ends
<1>24. CASE CorrectImplementation
  <2>1. /\ run = "running" /\ node = "correct_implementation" /\ node \in Loop
        /\ Proceed(CorrectionCounted(mem), filed, rejections, [Ok EXCEPT !.task = mem.cursor])
        /\ UNCHANGED engine
    BY <1>24 DEF CorrectImplementation, At, Runs, Loop
  <2> QED
    BY <1>1, <2>1, KinSteps, MemoryUpdates, StayLoop
<1>26. CASE CommitArtifact \/ LogRun \/ Validate
  <2>1. /\ run = "running" /\ Proceed(mem, filed, rejections, Ok) /\ UNCHANGED engine
        /\ node \in {"commit_brief", "commit_tasks", "commit_plan", "commit_review",
                     "log_run_started", "log_run_completed", "run_validate_tasks", "run_tests"}
    BY <1>26 DEF CommitArtifact, LogRun, Validate, Local, Runs
  <2>2. CASE node \in {"commit_brief", "commit_tasks", "log_run_started", "run_validate_tasks"}
    <3>1. node \in Opening \cup Listing /\ node # "register_work_item"
      BY <2>2 DEF Opening, Listing
    <3>2. mem.done = {} /\ mem.linked = {} /\ mem.submitted = {}
          /\ mem.cursor = FirstUndone(mem.tasks, {})
      BY <2>1, <3>1 DEF FlowInv, PhaseInv, OpeningInv, CursorInv
    <3> QED
      BY <1>1, <2>1, <3>1, <3>2, StayEarly
  <2>3. CASE node \in {"commit_plan", "commit_review", "run_tests"}
    <3>1. node \in Loop
      BY <2>3 DEF Loop
    <3> QED
      BY <1>1, <2>1, <2>3, <3>1, KinSteps, StayLoop
  <2>4. CASE node = "log_run_completed"
    BY <1>1, <2>1, <2>4, StayClosing DEF Closing
  <2> QED
    BY <2>1, <2>2, <2>3, <2>4
<1>27. CASE ValidateSpecs
  <2>1. PICK rj, last : Proceed(mem, filed, rj, last)
    BY <1>27 DEF ValidateSpecs
  <2>2. run = "running" /\ node \in Closing \ {"close_work_item"} /\ UNCHANGED engine
    BY <1>27 DEF ValidateSpecs, At, Runs, Closing
  <2> QED
    BY <1>1, <2>1, <2>2, StayClosing
<1>28. CASE Answer
  BY <1>1, <1>28, HumanNodes, DeliverFlow DEF Answer, Runs, Payloads
<1>29. CASE Resend
  BY <1>29, DeliverFlow DEF Resend, TypeInv, PostedOK
<1>31. CASE Terminated \/ UNCHANGED vars
  BY <1>31
     DEF Terminated, vars, data, FlowInv, PhaseInv, CursorInv, EndInv, OpeningInv, ProposingInv,
         LoopInv, ClosingInv, TasksInv, StageInv, HopInv, Current,
         CompletedMeansDone, OnlyReplanRefused
<1> QED
  BY <1>11, <1>12, <1>13, <1>15, <1>16, <1>24, <1>26, <1>27, <1>28, <1>29, <1>31,
     RegisterFlow, ProposeFlow, StartFlow, CallFlow, SubmitFlow, DoneFlow, CloseFlow DEF Next, Step

LEMMA FlowAligned == TypeInv /\ FlowInv => Aligned
<1> SUFFICES ASSUME TypeInv, FlowInv, run = "running", node \in DOMAIN StageAt
             PROVE  /\ mem.cursor \in (Listed(mem.tasks) \cap mem.linked) \ mem.done
                    /\ engine.task[mem.cursor] \in StageAt[node]
                    /\ \A t \in Listed(mem.tasks) \ {mem.cursor} :
                          engine.task[t] = IF t \in mem.done THEN "done" ELSE "assigning"
  BY DEF Aligned
<1>1. DOMAIN StageAt = Loop
  BY DEF StageAt, Loop, Reviews
<1>2. TasksInv /\ StageInv
  BY <1>1 DEF FlowInv, PhaseInv, LoopInv
<1>3. Current \in StageAt[node]
  BY <1>1, <1>2 DEF StageInv, StageAt, Loop, Reviews
<1> QED
  BY <1>2, <1>3 DEF TasksInv, Current

LEMMA FlowAlways == Spec => [](Aligned /\ OnlyReplanRefused /\ CompletedMeansDone)
<1>1. Init => TypeInv /\ FlowInv
  BY InitType, InitFlow
<1>2. TypeInv /\ FlowInv /\ [Next]_vars => (TypeInv /\ FlowInv)'
  BY NextType, NextFlow
<1>3. TypeInv /\ FlowInv => Aligned /\ OnlyReplanRefused /\ CompletedMeansDone
  BY FlowAligned DEF FlowInv, EndInv
<1> QED
  BY <1>1, <1>2, <1>3, PTL DEF Spec

\* Memory and engine agree at every node: the engine's stage of each task is
\* the one the cursor and the memory say, whatever checkpoint was rejected or
\* edited on the way.
THEOREM AlignedHolds == Spec => []Aligned
<1> QED
  BY FlowAlways, PTL

\* The one call of a declaration the engine refuses is the advance_plan that
\* follows a rejected plan: no other path asks for a transition it lacks.
THEOREM RefusalsHold == Spec => []OnlyReplanRefused
<1> QED
  BY FlowAlways, PTL

\* A completed run leaves the work item closed and every task of its list
\* done, in the engine and in the memory.
THEOREM CompletedHolds == Spec => []CompletedMeansDone
<1> QED
  BY FlowAlways, PTL

-----------------------------------------------------------------------------
(* What is kept, and the pipeline *)

Grown ==
    /\ mem.tasks' = mem.tasks
    /\ mem.linked \subseteq mem.linked'
    /\ mem.submitted \subseteq mem.submitted'
    /\ mem.done \subseteq mem.done'
    /\ \A t \in Ids : mem.attempts[t] <= mem.attempts[t]'
    /\ \A s \in Sidecars : filed[s] \subseteq filed'[s]

LEMMA NextKept ==
    ASSUME TypeInv, FlowInv, [Next]_vars, engine.item = "in_progress" PROVE Grown
<1>1. /\ mem \in Memory /\ filed \in Files /\ agent \in Variants
      /\ \A t \in Ids : mem.attempts[t] \in Nat
  BY FlowsClosed DEF TypeInv, TypeOK, Files, Memory
<1>2. run = "running" => node \notin Opening \cup Listing \cup {"propose_tasks"}
  BY DEF FlowInv, PhaseInv, OpeningInv, ProposingInv
<1>3. ASSUME mem' = mem, filed' = filed PROVE Grown
  BY <1>1, <1>3 DEF Grown
<1>4. /\ \A f, rj, last : Proceed(mem, f, rj, last) => mem' = mem /\ filed' = f
      /\ \A m, f, rj, last : Proceed(m, f, rj, last) => mem' = m /\ filed' = f
      /\ \A why : Fail(why) => mem' = mem /\ filed' = filed
  BY DEF Proceed, Fail, data
<1>5. ASSUME NEW p, Deliver(p) PROVE Grown
  <2>1. run = "running" /\ node \notin {"confirm_brief", "confirm_tasks"}
    BY <1>2, <1>5 DEF Deliver, Runs, Opening, Listing
  <2>2. CASE Fail("payload")
    BY <1>3, <1>4, <2>2
  <2>3. CASE Proceed(PatchedMemory(node, p), PatchedFiles(node, p),
                     PatchedRejections(node, p), WithVerdict(Verdict(p)))
    <3>1. mem' = PatchedMemory(node, p) /\ filed' = PatchedFiles(node, p)
      BY <1>4, <2>3
    <3>2. mem' = mem \/ mem' = FailNoted(mem)
      BY <2>1, <3>1 DEF PatchedMemory
    <3>3. \A s \in Sidecars : filed[s] \subseteq filed'[s]
      BY <1>1, <3>1 DEF PatchedFiles, Files
    <3>4. Kin(mem') /\ mem'.attempts = mem.attempts
      BY <1>1, <3>2, KinSteps DEF FailNoted, Memory
    <3> QED
      BY <1>1, <3>3, <3>4 DEF Grown, Kin
  <2> QED
    BY <1>5, <2>2, <2>3 DEF Deliver
<1>11. CASE LoadWorkItem \/ GenerateTasks \/ RegisterWorkItem \/ ProposeTask \/ ProposeTasks
  BY <1>2, <1>11 DEF LoadWorkItem, GenerateTasks, Author, RegisterWorkItem, ProposeTask,
     ProposeTasks, At, Runs, Opening, Listing
<1>13. CASE GeneratePlan \/ GenerateMockup
  <2>1. PICK f : /\ Proceed(mem, f, rejections, Ok)
                 /\ \/ f = filed
                    \/ \E s \in {"plans", "mockups"}, t \in Ids : f = File(filed, s, t)
    BY <1>13 DEF GeneratePlan, GenerateMockup, Author
  <2>2. \A s \in Sidecars : filed[s] \subseteq f[s]
    BY <1>1, <2>1 DEF File, Files, Sidecars
  <2> QED
    BY <1>1, <1>4, <2>1, <2>2 DEF Grown
<1>15. CASE ReviewImplementation
  <2>1. (mem' = mem \/ mem' = FailNoted(mem)) /\ filed' = filed
    BY <1>4, <1>15 DEF ReviewImplementation, Author
  <2>2. Kin(mem') /\ mem'.attempts = mem.attempts
    BY <1>1, <2>1, KinSteps DEF FailNoted, Memory
  <2> QED
    BY <1>1, <2>1, <2>2 DEF Grown, Kin
<1>16. CASE ContentFails \/ TerminateBudget \/ Interrupt
  BY <1>3, <1>4, <1>16 DEF ContentFails, TerminateBudget, Interrupt
<1>20. CASE EngineNode
  BY <1>3, <1>4, <1>20 DEF EngineNode, RefuseTask, LoseTask, data
<1>21. CASE SubmitImplementation
  <2>1. CASE mem' = mem /\ filed' = filed
    BY <1>3, <2>1
  <2>2. CASE mem' = [mem EXCEPT !.submitted = @ \cup {Target}] /\ filed' = filed
    BY <1>1, <2>2 DEF Grown, Memory
  <2> QED
    BY <1>4, <1>21, <2>1, <2>2 DEF SubmitImplementation, RefuseTask, LoseTask
<1>22. CASE CloseWorkItem
  BY <1>3, <1>4, <1>22 DEF CloseWorkItem, RefuseItem, LoseItem, data
<1>23. CASE MarkTaskDone
  <2>1. mem' = TaskMarkedDone(mem) /\ filed' = filed
    BY <1>4, <1>23 DEF MarkTaskDone
  <2> QED
    BY <1>1, <2>1 DEF TaskMarkedDone, Grown, Memory
<1>24. CASE CorrectImplementation
  <2>1. mem' = CorrectionCounted(mem) /\ filed' = filed
    BY <1>4, <1>24 DEF CorrectImplementation
  <2>2. Kin(mem') /\ \A t \in Ids : mem.attempts[t] <= mem'.attempts[t]
    BY <1>1, <2>1, KinSteps DEF CorrectionCounted, Memory
  <2> QED
    BY <1>1, <2>1, <2>2 DEF Grown, Kin
<1>26. CASE CommitArtifact \/ LogRun \/ Validate \/ ValidateSpecs
  BY <1>3, <1>4, <1>26 DEF CommitArtifact, LogRun, Validate, Local, ValidateSpecs
<1>28. CASE Answer \/ Resend
  BY <1>5, <1>28 DEF Answer, Resend
<1>31. CASE Terminated \/ UNCHANGED vars
  BY <1>3, <1>31 DEF Terminated, vars, data
<1> QED
  BY <1>11, <1>13, <1>15, <1>16, <1>20, <1>21, <1>22, <1>23, <1>24, <1>26, <1>28, <1>31
     DEF Next, Step

\* Once the tasks are in progress no patch of the memory or of its sidecars
\* loses what an earlier one wrote: every builder carries the other tasks over.
THEOREM NothingLost == Spec => Kept
<1>1. Init => TypeInv /\ FlowInv
  BY InitType, InitFlow
<1>2. TypeInv /\ FlowInv /\ [Next]_vars => (TypeInv /\ FlowInv)'
  BY NextType, NextFlow
<1>3. TypeInv /\ FlowInv /\ [Next]_vars =>
        [engine.item = "in_progress" =>
            /\ mem.tasks' = mem.tasks
            /\ mem.linked \subseteq mem.linked'
            /\ mem.submitted \subseteq mem.submitted'
            /\ mem.done \subseteq mem.done'
            /\ \A t \in Ids : mem.attempts[t] <= mem.attempts[t]'
            /\ \A s \in Sidecars : filed[s] \subseteq filed'[s]]_vars
  BY NextKept DEF Grown
<1> QED
  BY <1>1, <1>2, <1>3, PTL DEF Spec, Kept

PipelineStep == [Pipeline!Next]_(Pipeline!vars)
StageSeen == [t \in Ids |->
                 IF engine.task[t] \in {"proposed", "approved"} THEN Entering(t)
                 ELSE engine.task[t]]

\* No task is between its creation and its assignment.
Settled == \A t \in Ids : engine.task[t] \notin {"proposed", "approved"}

LEMMA SettledRun ==
    ASSUME TypeInv, FlowInv, run = "running", node \notin Over PROVE Settled
<1>1. mem \in Memory /\ hop \in Nat /\ PhaseInv
  BY DEF TypeInv, TypeOK, FlowInv
<1>2. CASE node \in Opening \cup Listing
  BY <1>1, <1>2 DEF PhaseInv, OpeningInv, Settled
<1>3. CASE node = "propose_tasks"
  BY <1>1, <1>3 DEF PhaseInv, ProposingInv, Settled
<1>4. CASE node \in Loop
  <2>1. TasksInv /\ StageInv
    BY <1>1, <1>4 DEF PhaseInv, LoopInv
  <2>2. Current \notin {"proposed", "approved"}
    BY <1>4, <2>1 DEF StageInv, Loop, Reviews
  <2> QED
    BY <2>1, <2>2 DEF TasksInv, Settled, Current
<1>5. CASE node \in Closing
  BY <1>1, <1>5 DEF PhaseInv, ClosingInv, Settled
<1> QED
  BY <1>1, <1>2, <1>3, <1>4, <1>5 DEF PhaseInv

\* The engine as the pipeline sees it.
LEMMA SeenSame ==
    ASSUME engine'.item = engine.item, StageSeen' = StageSeen
    PROVE  PipelineStep
BY DEF PipelineStep, Pipeline!vars, StageSeen

LEMMA SeenItem ==
    ASSUME StageSeen' = StageSeen,
           \/ engine.item = "absent" /\ engine'.item = "open"
           \/ /\ engine.item = "open" /\ engine'.item = "in_progress"
              /\ \E t \in Ids : engine.task[t] = "assigning"
           \/ /\ engine.item = "in_progress" /\ engine'.item = "ready"
              /\ \A t \in Ids : engine.task[t] \in {"absent", "done"}
           \/ engine.item = "ready" /\ engine'.item = "closed"
    PROVE  PipelineStep
<1>1. CASE engine.item = "absent" /\ engine'.item = "open"
  BY <1>1 DEF PipelineStep, StageSeen, Pipeline!Next, Pipeline!Open
<1>2. CASE /\ engine.item = "open" /\ engine'.item = "in_progress"
           /\ \E t \in Ids : engine.task[t] = "assigning"
  <2>1. PICK t \in Ids : engine.task[t] = "assigning"
    BY <1>2
  <2>2. StageSeen[t] # "absent"
    BY <2>1 DEF StageSeen
  <2> QED
    BY <1>2, <2>2 DEF PipelineStep, StageSeen, Pipeline!Next, Pipeline!Start, Pipeline!Entered
<1>3. CASE /\ engine.item = "in_progress" /\ engine'.item = "ready"
           /\ \A t \in Ids : engine.task[t] \in {"absent", "done"}
  BY <1>3 DEF PipelineStep, StageSeen, Pipeline!Next, Pipeline!Finish, Pipeline!Entered
<1>4. CASE engine.item = "ready" /\ engine'.item = "closed"
  BY <1>4 DEF PipelineStep, StageSeen, Pipeline!Next, Pipeline!Close
<1> QED
  BY <1>1, <1>2, <1>3, <1>4

LEMMA SeenTask ==
    ASSUME NEW t \in Ids, NEW to \in TaskStages \ {"absent", "proposed", "approved"},
           engine \in Engines, Settled, engine' = TaskMoved(t, to),
           \/ to = "assigning" /\ engine.item = "open" /\ engine.task[t] = "absent"
           \/ /\ engine.item = "in_progress"
              /\ \A x \in Ids \ {t} : engine.task[x] \in {"absent", "assigning", "done"}
              /\ \/ engine.task[t] = "assigning" /\ to = "planning"
                 \/ engine.task[t] = "planning" /\ to = "plan_review"
                 \/ engine.task[t] = "plan_review" /\ to = "implementing"
                 \/ engine.task[t] = "implementing" /\ to = "impl_review"
                 \/ engine.task[t] = "impl_review" /\ to = "done"
    PROVE  PipelineStep
<1>1. /\ engine'.item = engine.item
      /\ engine'.task = [engine.task EXCEPT ![t] = to]
  BY DEF TaskMoved, Engines
<1>2. StageSeen' = [StageSeen EXCEPT ![t] = to]
  BY <1>1 DEF StageSeen, Engines, Settled
<1>3. CASE to = "assigning" /\ engine.item = "open" /\ engine.task[t] = "absent"
  <2>1. StageSeen[t] = "absent"
    BY <1>3 DEF StageSeen
  <2> QED
    BY <1>1, <1>2, <1>3, <2>1 DEF PipelineStep, StageSeen, Pipeline!Next, Pipeline!Enter
<1>4. CASE /\ engine.item = "in_progress"
           /\ \A x \in Ids \ {t} : engine.task[x] \in {"absent", "assigning", "done"}
           /\ \/ engine.task[t] = "assigning" /\ to = "planning"
              \/ engine.task[t] = "planning" /\ to = "plan_review"
              \/ engine.task[t] = "plan_review" /\ to = "implementing"
              \/ engine.task[t] = "implementing" /\ to = "impl_review"
              \/ engine.task[t] = "impl_review" /\ to = "done"
  <2>1. /\ StageSeen[t] \in DOMAIN Pipeline!After /\ to = Pipeline!After[StageSeen[t]]
    BY <1>4 DEF StageSeen, Pipeline!After
  <2>2. \A x \in Ids \ {t} : StageSeen[x] \in {"absent", "assigning", "done"}
    BY <1>4 DEF StageSeen
  <2>3. Pipeline!Started \subseteq {t}
    BY <2>2 DEF StageSeen, Pipeline!Started, Pipeline!Entered
  <2>4. StageSeen' = [StageSeen EXCEPT ![t] = Pipeline!After[@]]
    BY <1>2, <2>1 DEF StageSeen
  <2>5. Pipeline!Advance(t)
    BY <1>1, <1>4, <2>1, <2>3, <2>4 DEF StageSeen, Pipeline!Advance
  <2> QED
    BY <2>5 DEF PipelineStep, Pipeline!Next
<1> QED
  BY <1>3, <1>4

\* One task is proposed: it enters, or has entered by an earlier place in the list.
LEMMA SeenProposed ==
    ASSUME TypeInv, FlowInv, ProposeTask PROVE PipelineStep
<1> DEFINE t == mem.tasks[hop]
<1>1. /\ run = "running" /\ node = "propose_tasks" /\ hop \in DOMAIN mem.tasks /\ t \in Ids
      /\ mem \in Memory /\ engine \in Engines /\ hop \in Nat
  BY DEF ProposeTask, At, Runs, TypeInv, TypeOK, Memory, Engines
<1>2. Settled
  BY <1>1, SettledRun, PhaseSets
<1>3. /\ engine.item = "open"
      /\ \A x \in Ids : engine.task[x] = Entering(x)
  <2>1. ProposingInv
    BY <1>1 DEF FlowInv, PhaseInv
  <2>2. mem.tasks \in Seq(Ids)
    BY <1>1 DEF Memory
  <2>3. \A x : (\E i \in 1 .. hop - 1 : i \in DOMAIN mem.tasks /\ mem.tasks[i] = x)
             <=> \E i \in DOMAIN mem.tasks : i < hop /\ mem.tasks[i] = x
    BY <1>1, <2>2
  <2> QED
    BY <1>1, <2>1, <2>3 DEF ProposingInv, Entering
<1>4. CASE engine' = engine
  BY <1>1, <1>2, <1>4, SeenSame DEF StageSeen, Settled
<1>5. CASE engine' = TaskMoved(t, "assigning")
  <2>1. CASE engine.task[t] = "absent"
    BY <1>1, <1>2, <1>3, <1>5, <2>1, SeenTask DEF TaskStages
  <2>2. CASE engine.task[t] = "assigning"
    <3>1. engine' = engine
      BY <1>1, <1>5, <2>2 DEF TaskMoved, Engines
    <3> QED
      BY <1>4, <3>1
  <2> QED
    BY <1>1, <1>3, <2>1, <2>2 DEF Entering
<1>6. CASE /\ engine' = TaskMoved(t, "proposed") \/ engine' = TaskMoved(t, "approved")
           /\ hop' = hop /\ (mem' = mem \/ Linked(t))
  <2>1. mem'.tasks = mem.tasks
    BY <1>1, <1>6 DEF Linked, Memory
  <2>2. \A x \in Ids : Entering(x)' = Entering(x)
    BY <1>6, <2>1 DEF Entering
  <2>3. engine'.item = engine.item
        /\ \A x \in Ids : StageSeen'[x] = StageSeen[x]
    BY <1>1, <1>2, <1>3, <1>6, <2>2 DEF TaskMoved, Engines, StageSeen, Settled
  <2> QED
    BY <2>3, SeenSame DEF StageSeen
<1> QED
  BY <1>4, <1>5, <1>6, Zenon DEF ProposeTask

LEMMA InitPipeline == Init => Pipeline!Init
BY DEF Init, Pipeline!Init

LEMMA NextPipeline ==
    ASSUME TypeInv, FlowInv, [Next]_vars PROVE PipelineStep
<1>1. /\ agent \in Variants /\ mem \in Memory /\ engine \in Engines /\ hop \in Nat
      /\ mem.tasks \in Seq(Ids) /\ Listed(mem.tasks) \subseteq Ids
  BY FlowsClosed DEF TypeInv, TypeOK, Engines, Memory, Listed
<1>2. CASE UNCHANGED vars
  BY <1>2, SeenSame DEF StageSeen, Entering, vars, data
<1>3. CASE \E why : Fail(why) /\ UNCHANGED engine
  BY <1>3, SeenSame DEF StageSeen, Entering, Fail, data
<1>4. CASE Settled /\ UNCHANGED engine
  BY <1>4, SeenSame DEF StageSeen, Settled
<1>5. run = "running" /\ node \notin Over => Settled
  BY SettledRun
<1>6. ASSUME Settled, NEW x, engine' = ItemMoved(x)
      PROVE  engine'.item = x /\ StageSeen' = StageSeen
  BY <1>1, <1>6 DEF ItemMoved, Engines, StageSeen, Settled
<1>7. ASSUME run = "running", node \notin Over, UNCHANGED engine PROVE PipelineStep
  BY <1>4, <1>5, <1>7
<1>8. ASSUME NEW kind \in {"content", "human", "engine"}, Runs(kind)
      PROVE  run = "running" /\ node \notin Over
  <2>1. node \in Bound[agent][kind] /\ run = "running"
    BY <1>8 DEF Runs
  <2>2. \A n \in Bound03[kind] \cup Bound04[kind] \cup Bound05[kind] \cup Bound06[kind] : n \notin Over
    <3>1. \A n \in Bound03[kind] : n \notin Over
      BY DEF Bound03, Over
    <3>2. \A n \in Bound04[kind] : n \notin Over
      <4>1. Bound04.content \cap Over = {}
        BY DEF Bound04, Bound03, Over
      <4>2. Bound04.human \cap Over = {}
        BY DEF Bound04, Bound03, Over
      <4>3. Bound04.engine \cap Over = {}
        BY DEF Bound04, Bound03, Over
      <4> QED
        BY <4>1, <4>2, <4>3
    <3>3. \A n \in Bound05[kind] : n \notin Over
      BY <3>2 DEF Bound05, Bound04, Bound03, Over
    <3>4. \A n \in Bound06[kind] : n \notin Over
      BY DEF Bound06, Human06, Engine06, Over
    <3> QED
      BY <3>1, <3>2, <3>3, <3>4
  <2>3. Bound[agent] \in {Bound03, Bound04, Bound05, Bound06}
    BY <1>1 DEF Bound, Variants
  <2> QED
    BY <2>1, <2>2, <2>3
<1>11. CASE LoadWorkItem \/ GenerateTasks \/ GeneratePlan \/ GenerateMockup
            \/ ReviewImplementation \/ ContentFails
  BY <1>7, <1>8, <1>11 DEF LoadWorkItem, GenerateTasks, GeneratePlan, GenerateMockup,
     ReviewImplementation, ContentFails, Author, At
<1>12. CASE TerminateBudget \/ Interrupt
  BY <1>3, <1>12 DEF TerminateBudget, Interrupt
<1>13. CASE Answer \/ Resend
  BY <1>7, <1>8, <1>13 DEF Answer, Resend, Deliver
<1>14. CASE MarkTaskDone \/ CorrectImplementation \/ CommitArtifact \/ LogRun
            \/ Validate \/ ValidateSpecs
  BY <1>7, <1>14 DEF MarkTaskDone, CorrectImplementation, CommitArtifact, LogRun,
     Validate, ValidateSpecs, Local, At, Runs, Over
<1>15. CASE Terminated
  BY <1>2, <1>15 DEF Terminated
<1>16. CASE RegisterWorkItem
  <2>1. engine.item = "absent" /\ Settled
    BY <1>5, <1>16 DEF RegisterWorkItem, At, Runs, FlowInv, PhaseInv, OpeningInv, Opening, Over
  <2>2. engine' = engine \/ engine' = ItemMoved("open")
    BY <1>16 DEF RegisterWorkItem
  <2> QED
    BY <1>4, <1>6, <2>1, <2>2, SeenItem
<1>17. CASE ProposeTask
  BY <1>17, SeenProposed
<1>18. CASE ProposeTasks
  <2>1. run = "running" /\ node = "propose_tasks" /\ hop \notin DOMAIN mem.tasks
    BY <1>18 DEF ProposeTasks, At, Runs
  <2>2. CASE engine' = ItemMoved("in_progress") /\ mem.tasks # <<>>
    <3>1. 1 \in DOMAIN mem.tasks /\ 1 < hop /\ mem.tasks[1] \in Ids
      BY <1>1, <2>1, <2>2 DEF FlowInv, PhaseInv, ProposingInv
    <3>2. engine.item = "open" /\ engine.task[mem.tasks[1]] = "assigning"
      BY <2>1, <3>1 DEF FlowInv, PhaseInv, ProposingInv
    <3>3. Settled
      BY <1>5, <2>1, PhaseSets
    <3> QED
      BY <1>6, <2>2, <3>1, <3>2, <3>3, SeenItem
  <2> QED
    BY <1>7, <1>18, <2>1, <2>2, PhaseSets
       DEF ProposeTasks, RefuseItem, LoseItem, TransitionItem
<1>19. CASE EngineNode \/ SubmitImplementation
  <2>1. run = "running" /\ node \in EngineNodes \cup {"submit_implementation"} /\ node \in Loop
        /\ node \notin Over
    BY <1>19 DEF EngineNode, SubmitImplementation, At, Runs, EngineNodes, Loop, Over
  <2>2. TasksInv /\ StageInv /\ HopInv /\ Settled
    BY <1>5, <2>1 DEF FlowInv, PhaseInv, LoopInv
  <2>3. Target = mem.cursor /\ mem.cursor \in Ids /\ mem.cursor # None
    BY <1>1, <2>2, IdsAssumption DEF Target, TasksInv
  <2>4. engine.item = "in_progress"
        /\ \A x \in Ids \ {mem.cursor} : engine.task[x] \in {"absent", "assigning", "done"}
    BY <1>1, <2>2 DEF TasksInv
  <2>5. \/ UNCHANGED engine
        \/ /\ node \in EngineNodes /\ TransitionTask(mem.cursor, Calls(agent, node)[hop])
        \/ /\ node = "submit_implementation" /\ TransitionTask(mem.cursor, "impl_review")
    BY <1>19, <2>3 DEF EngineNode, SubmitImplementation, RefuseTask, LoseTask, At
  <2>6. CASE node = "submit_implementation" /\ TransitionTask(mem.cursor, "impl_review")
    <3>1. Current = "implementing"
      BY <2>2, <2>6 DEF StageInv, TransitionTask, TaskEdges, Current
    <3> QED
      BY <1>1, <2>2, <2>3, <2>4, <2>6, <3>1, SeenTask DEF TransitionTask, Current, TaskStages
  <2>7. CASE node \in EngineNodes /\ TransitionTask(mem.cursor, Calls(agent, node)[hop])
    <3> DEFINE to == Calls(agent, node)[hop]
    <3>1. \/ Current = "assigning" /\ to = "planning"
          \/ Current = "planning" /\ to = "plan_review"
          \/ Current = "plan_review" /\ to = "implementing"
          \/ Current = "impl_review" /\ to = "done"
          \/ Current = "plan_review" /\ to = "plan_review"
      BY <2>2, <2>7 DEF StageInv, HopInv, Calls, EngineNodes, Reviews
    <3>2. <<Current, to>> \in TaskEdges /\ engine' = TaskMoved(mem.cursor, to)
      BY <2>7 DEF TransitionTask, Current
    <3>3. ~(Current = "plan_review" /\ to = "plan_review")
      BY <3>2 DEF TaskEdges
    <3>4. to \in TaskStages \ {"absent", "proposed", "approved"}
      BY <3>1 DEF TaskStages
    <3> HIDE DEF to
    <3> QED
      BY <1>1, <2>2, <2>3, <2>4, <3>1, <3>2, <3>3, <3>4, SeenTask DEF Current
  <2> QED
    BY <1>7, <2>1, <2>5, <2>6, <2>7
<1>20. CASE CloseWorkItem
  <2>1. run = "running" /\ node = "close_work_item" /\ node \in Closing /\ node \notin Over
    BY <1>20 DEF CloseWorkItem, At, Runs, Closing, Over
  <2>2. /\ \/ hop = 1 /\ engine.item = "in_progress"
           \/ hop = 2 /\ engine.item = "ready"
        /\ \A t \in Ids : engine.task[t] \in {"absent", "done"}
    BY <1>1, <2>1 DEF FlowInv, PhaseInv, ClosingInv
  <2>3. engine' = engine \/ engine' = ItemMoved(<<"ready", "closed">>[hop])
    BY <1>20 DEF CloseWorkItem, RefuseItem, LoseItem, TransitionItem
  <2>4. CASE hop = 1 /\ engine' = ItemMoved("ready")
    BY <1>5, <1>6, <2>1, <2>2, <2>4, SeenItem
  <2>5. CASE hop = 2 /\ engine' = ItemMoved("closed")
    BY <1>5, <1>6, <2>1, <2>2, <2>5, SeenItem
  <2> QED
    BY <1>7, <2>1, <2>2, <2>3, <2>4, <2>5
<1> QED
  BY <1>2, <1>11, <1>12, <1>13, <1>14, <1>15, <1>16, <1>17, <1>18, <1>19, <1>20 DEF Next, Step

\* The four variants implement one pipeline: whatever they declare, and however
\* often the task list names a task, a task goes through the stages of
\* TaskPipeline one after the other, and the work item follows its tasks.
THEOREM Refines == Spec => Implements
<1>1. Init => TypeInv /\ FlowInv
  BY InitType, InitFlow
<1>2. TypeInv /\ FlowInv /\ [Next]_vars => (TypeInv /\ FlowInv)'
  BY NextType, NextFlow
<1>3. TypeInv /\ FlowInv /\ [Next]_vars => [Pipeline!Next]_(Pipeline!vars)
  BY NextPipeline DEF PipelineStep
<1> QED
  BY <1>1, <1>2, <1>3, InitPipeline, PTL DEF Spec, Implements, Pipeline!Spec

-----------------------------------------------------------------------------
(* Progress: what gets smaller with every step of a run *)

\* How far a node is from the end of its phase.
Rank(n) ==
    CASE n \in {"load_work_item", "log_run_started"}       -> 27
      [] n = "confirm_brief"                               -> 26
      [] n = "register_work_item"                          -> 25
      [] n \in {"generate_tasks", "commit_brief"}          -> 24
      [] n = "confirm_tasks"                               -> 23
      [] n = "run_validate_tasks"                          -> 22
      [] n = "confirm_task_review"                         -> 21
      [] n = "commit_tasks"                                -> 20
      [] n = "propose_tasks"                               -> 19
      [] n = "confirm_assignment"                          -> 18
      [] n = "assign_task"                                 -> 17
      [] n = "generate_mockup"                             -> 16
      [] n = "confirm_mockup"                              -> 15
      [] n = "generate_plan"                               -> 14
      [] n = "advance_plan"                                -> 13
      [] n = "confirm_plan"                                -> 12
      [] n = "commit_plan"                                 -> 11
      [] n = "approve_plan"                                -> 10
      [] n = "request_implementation"                      -> 9
      [] n = "submit_implementation"                       -> 8
      [] n = "run_tests"                                   -> 7
      [] n \in Reviews                                     -> 6
      [] n \in {"correct_implementation", "commit_review"} -> 5
      [] n = "approve_review"                              -> 4
      [] n \in {"mark_task_done", "confirm_docs_update"}   -> 3
      [] n = "run_validate_specs_strict"                   -> 2
      [] n = "log_run_completed"                           -> 1
      [] OTHER                                             -> 0

\* The phases: before the loop over the tasks, the loop, after it.
Part(n) == IF n \in Loop THEN 1 ELSE IF n \in Closing \cup Over THEN 0 ELSE 2

Left(bound, n) == IF n < bound THEN bound - n ELSE 0

RejectionsMade(rj) ==
    rj["confirm_brief"] + rj["confirm_tasks"] + rj["confirm_task_review"]
        + rj["confirm_mockup"] + rj["confirm_plan"] + rj["confirm_docs_update"]

\* The rejections left, the phase, the tasks to do, the corrections left of the
\* current one, the nodes and the calls before the phase ends.
Measure ==
    <<Left(6 * Rejections, RejectionsMade(rejections)),
      Part(node),
      IF node \in Loop THEN Cardinality(Listed(mem.tasks) \ mem.done) ELSE 0,
      IF node \in Loop THEN Left(Corrections, mem.attempts[mem.cursor]) ELSE 0,
      Rank(node),
      Left(IF node = "propose_tasks" THEN Len(mem.tasks) + 1 ELSE 2, hop)>>

Descent == LexProductOrdering(OpToRel(<, Nat), Nat, 6)
GoesOn == run = "running" /\ run' = "running" /\ (agent = "v06" => rejections' = rejections)

\* The order has no infinite descent.
THEOREM Founded == IsWellFoundedOn(Descent, [1 .. 6 -> Nat])
BY NatLessThanWellFounded, WFLexProductOrdering DEF Descent

LEMMA Lower ==
    ASSUME NEW x \in [1 .. 6 -> Nat], NEW y \in [1 .. 6 -> Nat], NEW i \in 1 .. 6,
           x[i] < y[i], \A j \in 1 .. (i - 1) : x[j] = y[j]
    PROVE  <<x, y>> \in Descent
<1>1. <<x[i], y[i]>> \in OpToRel(<, Nat)
  BY DEF OpToRel
<1> QED
  BY <1>1 DEF Descent, LexProductOrdering

LEMMA FewTasks ==
    ASSUME NEW tasks \in Seq(Ids), NEW done
    PROVE  /\ IsFiniteSet(Listed(tasks) \ done)
           /\ Cardinality(Listed(tasks) \ done) \in Nat
           /\ \A t \in Listed(tasks) \ done :
                 Cardinality(Listed(tasks) \ (done \cup {t})) < Cardinality(Listed(tasks) \ done)
<1>1. IsFiniteSet(Listed(tasks))
  <2>1. IsFiniteSet(1 .. Len(tasks))
    BY FS_Interval
  <2>2. tasks \in Surjection(1 .. Len(tasks), Listed(tasks))
    BY DEF Listed, Surjection
  <2> QED
    BY <2>1, <2>2, FS_Surjection
<1>2. IsFiniteSet(Listed(tasks) \ done)
  BY <1>1, FS_Subset
<1>3. ASSUME NEW t \in Listed(tasks) \ done
      PROVE  Cardinality(Listed(tasks) \ (done \cup {t})) < Cardinality(Listed(tasks) \ done)
  <2>1. Listed(tasks) \ (done \cup {t}) = (Listed(tasks) \ done) \ {t}
    OBVIOUS
  <2>2. /\ Cardinality((Listed(tasks) \ done) \ {t}) = Cardinality(Listed(tasks) \ done) - 1
        /\ Cardinality(Listed(tasks) \ done) \in Nat
    BY <1>2, <1>3, FS_RemoveElement, FS_CardinalityType
  <2> QED
    BY <2>1, <2>2
<1> QED
  BY <1>2, <1>3, FS_CardinalityType

\* Nearer to the end of the run, within the phase or by leaving it.
Below(w, n) == Part(w) < Part(n) \/ (Part(w) = Part(n) /\ Rank(w) < Rank(n))

\* Every edge leads nearer to the end, but for the loops over the tasks, the
\* corrections, and back from a checkpoint or a validator.
Descending(flow) ==
    \A n \in DOMAIN flow \ {"start", "mark_task_done", "correct_implementation"} :
        /\ Below(flow[n].yes, n)
        /\ \/ flow[n].rule \in {"checkpoint_approved", "validator_passed"}
           \/ Below(flow[n].no, n)

LEMMA Parts ==
    /\ \A n : Part(n) \in Nat /\ Rank(n) \in Nat
    /\ \A n \in Loop : Part(n) = 1
    /\ \A n \in Closing \cup Over : Part(n) = 0
    /\ \A n \in Opening \cup Listing \cup {"propose_tasks"} : Part(n) = 2
    /\ "mark_task_done" \in Loop /\ "correct_implementation" \in Loop
BY PhaseSets, SMTT(60) DEF Part, Rank, Loop, Over, Closing, Opening, Listing

LEMMA Heights ==
    /\ Rank("load_work_item") = 27 /\ Part("load_work_item") = 2
    /\ Rank("log_run_started") = 27 /\ Part("log_run_started") = 2
    /\ Rank("confirm_brief") = 26 /\ Part("confirm_brief") = 2
    /\ Rank("register_work_item") = 25 /\ Part("register_work_item") = 2
    /\ Rank("generate_tasks") = 24 /\ Part("generate_tasks") = 2
    /\ Rank("commit_brief") = 24 /\ Part("commit_brief") = 2
    /\ Rank("confirm_tasks") = 23 /\ Part("confirm_tasks") = 2
    /\ Rank("run_validate_tasks") = 22 /\ Part("run_validate_tasks") = 2
    /\ Rank("confirm_task_review") = 21 /\ Part("confirm_task_review") = 2
    /\ Rank("commit_tasks") = 20 /\ Part("commit_tasks") = 2
    /\ Rank("propose_tasks") = 19 /\ Part("propose_tasks") = 2
    /\ Rank("confirm_assignment") = 18 /\ Part("confirm_assignment") = 1
    /\ Rank("assign_task") = 17 /\ Part("assign_task") = 1
    /\ Rank("generate_mockup") = 16 /\ Part("generate_mockup") = 1
    /\ Rank("confirm_mockup") = 15 /\ Part("confirm_mockup") = 1
    /\ Rank("generate_plan") = 14 /\ Part("generate_plan") = 1
    /\ Rank("advance_plan") = 13 /\ Part("advance_plan") = 1
    /\ Rank("confirm_plan") = 12 /\ Part("confirm_plan") = 1
    /\ Rank("commit_plan") = 11 /\ Part("commit_plan") = 1
    /\ Rank("approve_plan") = 10 /\ Part("approve_plan") = 1
    /\ Rank("request_implementation") = 9 /\ Part("request_implementation") = 1
    /\ Rank("submit_implementation") = 8 /\ Part("submit_implementation") = 1
    /\ Rank("run_tests") = 7 /\ Part("run_tests") = 1
    /\ Rank("review_implementation") = 6 /\ Part("review_implementation") = 1
    /\ Rank("human_review_implementation") = 6 /\ Part("human_review_implementation") = 1
    /\ Rank("correct_implementation") = 5 /\ Part("correct_implementation") = 1
    /\ Rank("commit_review") = 5 /\ Part("commit_review") = 1
    /\ Rank("approve_review") = 4 /\ Part("approve_review") = 1
    /\ Rank("mark_task_done") = 3 /\ Part("mark_task_done") = 1
    /\ Rank("confirm_docs_update") = 3 /\ Part("confirm_docs_update") = 0
    /\ Rank("run_validate_specs_strict") = 2 /\ Part("run_validate_specs_strict") = 0
    /\ Rank("log_run_completed") = 1 /\ Part("log_run_completed") = 0
    /\ Rank("close_work_item") = 0 /\ Part("close_work_item") = 0
    /\ Rank("terminate_correction_budget") = 0 /\ Part("terminate_correction_budget") = 0
    /\ Rank("terminate_rejection_budget") = 0 /\ Part("terminate_rejection_budget") = 0
BY DEF Rank, Part, Opening, Listing, Loop, Reviews, Closing, Over

LEMMA Descending3 == Descending(V03)
BY Heights, SMTT(60) DEF Descending, Below, V03, To, Edge
LEMMA Descending4 == Descending(V04)
BY Heights, Edges4, Descending3, SMTT(60) DEF Descending, Below, To, Edge, Gate
LEMMA Descending5 == Descending(V05)
BY Heights, Edges5, Descending4, SMTT(60) DEF Descending, Below, To, Edge, Gate
LEMMA Descending6 == Descending(V06)
BY Heights, SMTT(60) DEF Descending, Below, V06, To, Edge, Again

LEMMA FlowsDescending ==
    ASSUME NEW a \in Agents
    PROVE  Descending(Transitions[a])
BY Flows, FlowsClosed, Descending3, Descending4, Descending5, Descending6 DEF Variants

LEMMA MeasureType == TypeInv => Measure \in [1 .. 6 -> Nat]
<1> SUFFICES ASSUME TypeInv PROVE Measure \in [1 .. 6 -> Nat]
  OBVIOUS
<1>1. /\ mem \in Memory /\ rejections \in Counts /\ hop \in Nat
      /\ Rejections \in Nat /\ Corrections \in Nat
  BY BoundsAssumption DEF TypeInv, TypeOK, Counts
<1>2. \A b, n \in Nat : Left(b, n) \in Nat
  BY DEF Left
<1>3. Cardinality(Listed(mem.tasks) \ mem.done) \in Nat
  BY <1>1, FewTasks DEF Memory
<1>4. Left(6 * Rejections, RejectionsMade(rejections)) \in Nat
  <2>1. RejectionsMade(rejections) \in Nat
    BY <1>1 DEF RejectionsMade, Counts, Rejectable
  <2>2. 6 * Rejections \in Nat
    BY <1>1
  <2> QED
    BY <1>2, <2>1, <2>2
<1>5. Left(Corrections, mem.attempts[mem.cursor]) \in Nat
  BY <1>1, <1>2 DEF Memory
<1>6. Left(IF node = "propose_tasks" THEN Len(mem.tasks) + 1 ELSE 2, hop) \in Nat
  <2>1. (IF node = "propose_tasks" THEN Len(mem.tasks) + 1 ELSE 2) \in Nat
    BY <1>1 DEF Memory
  <2> QED
    BY <1>1, <1>2, <2>1
<1> QED
  BY <1>3, <1>4, <1>5, <1>6, Parts DEF Measure

LEMMA MeasureNext == TypeInv' => (Measure \in [1 .. 6 -> Nat])'
BY MeasureType, PTL

LEMMA Descends ==
    ASSUME TypeInv, TypeInv', NEW i \in 1 .. 6,
           Measure'[i] < Measure[i], \A j \in 1 .. (i - 1) : Measure'[j] = Measure[j]
    PROVE  <<Measure', Measure>> \in Descent
BY MeasureType, MeasureNext, Lower

\* The next node, on an edge that does not go back.
LEMMA NodeDescends ==
    ASSUME TypeInv, TypeInv', FlowInv, run = "running", run' = "running",
           NEW m, NEW f, NEW last, Proceed(m, f, rejections, last),
           node \notin {"mark_task_done", "correct_implementation"},
           last.verdict # "reject", last.passed,
           node \in Loop => m.tasks = mem.tasks /\ m.done = mem.done
                            /\ m.cursor = mem.cursor /\ m.attempts = mem.attempts
    PROVE  <<Measure', Measure>> \in Descent
<1>1. /\ mem' = m /\ rejections' = rejections /\ agent' = agent /\ agent \in Agents
      /\ node \in DOMAIN Transitions[agent]
      /\ LET edge == Transitions[agent][node]
         IN  node' = IF Holds(edge.rule, m, rejections, last) THEN edge.yes ELSE edge.no
  BY ProceedTo DEF TypeInv, TypeOK
<1>2. node # "start"
  BY DEF FlowInv, PhaseInv, Opening, Listing, Loop, Reviews, Closing, Over
<1>3. Below(node', node)
  BY <1>1, <1>2, FlowsDescending DEF Descending, Holds
<1>4. CASE Part(node') < Part(node)
  <2>1. Measure'[1] = Measure[1] /\ Measure'[2] < Measure[2]
    BY <1>1, <1>4 DEF Measure
  <2> QED
    BY <2>1, Descends
<1>5. CASE Part(node') = Part(node) /\ Rank(node') < Rank(node)
  <2>1. node' \in Loop <=> node \in Loop
    BY <1>5 DEF Part
  <2>2. /\ Measure'[1] = Measure[1] /\ Measure'[2] = Measure[2] /\ Measure'[3] = Measure[3]
        /\ Measure'[4] = Measure[4] /\ Measure'[5] < Measure[5]
    BY <1>1, <1>5, <2>1 DEF Measure
  <2> QED
    BY <2>2, Descends
<1> QED
  BY <1>3, <1>4, <1>5 DEF Below

\* One more call of the same node.
LEMMA HopDescends ==
    ASSUME TypeInv, TypeInv', UNCHANGED <<node, rejections>>,
           mem'.tasks = mem.tasks, mem'.done = mem.done,
           mem'.cursor = mem.cursor, mem'.attempts = mem.attempts,
           hop' = hop + 1, hop < IF node = "propose_tasks" THEN Len(mem.tasks) + 1 ELSE 2
    PROVE  <<Measure', Measure>> \in Descent
<1> DEFINE bound == IF node = "propose_tasks" THEN Len(mem.tasks) + 1 ELSE 2
<1>1. hop \in Nat /\ bound \in Nat
  BY DEF TypeInv, TypeOK, Memory
<1>2. Left(bound, hop + 1) < Left(bound, hop)
  BY <1>1 DEF Left
<1>3. /\ Measure'[1] = Measure[1] /\ Measure'[2] = Measure[2] /\ Measure'[3] = Measure[3]
      /\ Measure'[4] = Measure[4] /\ Measure'[5] = Measure[5] /\ Measure'[6] < Measure[6]
  BY <1>2 DEF Measure
<1> QED
  BY <1>3, Descends

\* A rejection.
LEMMA RejectDescends ==
    ASSUME TypeInv, TypeInv', BudgetInv, run = "running", agent # "v06",
           node \in Rejectable, rejections' = Reject(rejections, node)
    PROVE  <<Measure', Measure>> \in Descent
<1>1. rejections \in Counts /\ Rejections \in Nat
  BY BoundsAssumption DEF TypeInv, TypeOK, Counts
<1>2. \A c \in Rejectable : rejections[c] \in Nat /\ rejections[c] < Rejections
  BY <1>1 DEF BudgetInv, RejectionsLeft, UnderRejectionBound, Counts
<1>3. /\ RejectionsMade(rejections) \in Nat /\ RejectionsMade(rejections) < 6 * Rejections
  BY <1>1, <1>2 DEF RejectionsMade, Rejectable
<1>4. RejectionsMade(rejections') = RejectionsMade(rejections) + 1
  BY <1>1, <1>2 DEF RejectionsMade, Rejectable, Reject, Counts
<1>5. Measure'[1] < Measure[1]
  BY <1>1, <1>3, <1>4 DEF Measure, Left
<1> QED
  BY <1>5, Descends

\* A task done: the next one, or the end of the loop.
LEMMA DoneDescends ==
    ASSUME TypeInv, TypeInv', FlowInv, MarkTaskDone, run' = "running"
    PROVE  <<Measure', Measure>> \in Descent
<1> DEFINE m == TaskMarkedDone(mem)
<1>1. run = "running" /\ node = "mark_task_done" /\ node \in Loop /\ mem \in Memory
  BY DEF MarkTaskDone, At, Runs, Loop, TypeInv, TypeOK
<1>2. /\ mem' = m /\ rejections' = rejections /\ agent' = agent /\ agent \in Agents
      /\ node \in DOMAIN Transitions[agent]
      /\ node' \in Ways(Transitions[agent], node)
  <2>1. Proceed(m, filed, rejections, Ok)
    BY DEF MarkTaskDone
  <2> HIDE DEF m
  <2> QED
    BY <1>1, <2>1, ProceedTo DEF TypeInv, TypeOK, Ways
<1>3. node' \in Closing \/ node' \in Loop
  BY <1>1, <1>2, FlowsPhased DEF Phased, Implementing, Ways, Loop
<1>4. CASE node' \in Closing
  <2>1. Measure'[1] = Measure[1] /\ Measure'[2] < Measure[2]
    BY <1>1, <1>2, <1>4, Parts DEF Measure
  <2> QED
    BY <2>1, Descends
<1>5. CASE node' \in Loop
  <2>1. mem.cursor \in Listed(mem.tasks) \ mem.done /\ mem.cursor # None
    BY <1>1, IdsAssumption DEF FlowInv, PhaseInv, LoopInv, TasksInv, Listed, Memory
  <2>2. mem'.tasks = mem.tasks /\ mem'.done = mem.done \cup {mem.cursor}
    BY <1>1, <1>2, <2>1 DEF TaskMarkedDone, Memory
  <2>3. mem.tasks \in Seq(Ids)
    BY <1>1 DEF Memory
  <2>4. Cardinality(Listed(mem'.tasks) \ mem'.done) < Cardinality(Listed(mem.tasks) \ mem.done)
    BY <2>1, <2>2, <2>3, FewTasks
  <2>5. Measure'[1] = Measure[1] /\ Measure'[2] = Measure[2] /\ Measure'[3] < Measure[3]
    BY <1>1, <1>2, <1>5, <2>4, Parts DEF Measure
  <2> QED
    BY <2>5, Descends
<1> QED
  BY <1>3, <1>4, <1>5

\* A correction: the task once more, or the end.
LEMMA CorrectionDescends ==
    ASSUME TypeInv, TypeInv', BudgetInv, FlowInv, CorrectImplementation, run' = "running"
    PROVE  <<Measure', Measure>> \in Descent
<1>1. /\ run = "running" /\ node = "correct_implementation" /\ node \in Loop /\ mem \in Memory
  BY DEF CorrectImplementation, At, Runs, Loop, TypeInv, TypeOK
<1>2. /\ mem' = CorrectionCounted(mem) /\ rejections' = rejections
      /\ agent' = agent /\ agent \in Agents
      /\ node \in DOMAIN Transitions[agent]
      /\ node' \in Ways(Transitions[agent], node)
  BY <1>1, ProceedTo DEF CorrectImplementation, TypeInv, TypeOK, Ways
<1>3. node' \in Over \/ node' \in Loop
  BY <1>1, <1>2, FlowsPhased DEF Phased, Implementing, Loop
<1>4. CASE node' \in Over
  <2>1. Measure'[1] = Measure[1] /\ Measure'[2] < Measure[2]
    BY <1>1, <1>2, <1>4, Parts DEF Measure
  <2> QED
    BY <2>1, Descends
<1>5. CASE node' \in Loop
  <2>1. mem.cursor \in Ids
    BY <1>1 DEF FlowInv, PhaseInv, LoopInv, TasksInv, Listed, Memory
  <2>2. /\ mem.attempts[mem.cursor] \in Nat /\ mem.attempts[mem.cursor] < Corrections
        /\ Corrections \in Nat
    BY <1>1, <2>1, BoundsAssumption DEF BudgetInv, AttemptsLeft, Memory
  <2>3. /\ mem'.tasks = mem.tasks /\ mem'.done = mem.done /\ mem'.cursor = mem.cursor
        /\ mem'.attempts[mem.cursor] = mem.attempts[mem.cursor] + 1
    BY <1>1, <1>2, <2>1 DEF CorrectionCounted, Memory
  <2>4. Left(Corrections, mem'.attempts[mem'.cursor]) < Left(Corrections, mem.attempts[mem.cursor])
    BY <2>2, <2>3 DEF Left
  <2>5. /\ Measure'[1] = Measure[1] /\ Measure'[2] = Measure[2] /\ Measure'[3] = Measure[3]
        /\ Measure'[4] < Measure[4]
    BY <1>1, <1>2, <1>5, <2>3, <2>4, Parts DEF Measure
  <2> QED
    BY <2>5, Descends
<1> QED
  BY <1>3, <1>4, <1>5

LEMMA DeliverDescends ==
    ASSUME TypeInv, TypeInv', BudgetInv, FlowInv, GoesOn, NEW p \in Payloads, Deliver(p)
    PROVE  <<Measure', Measure>> \in Descent
<1>1. run = "running" /\ node \in DOMAIN Checkpoint
  BY HumanNodes, FlowsClosed DEF Deliver, Runs, TypeInv, TypeOK
<1>2. node \notin {"correct_implementation", "mark_task_done"}
  BY <1>1 DEF Checkpoint
<1> DEFINE m == PatchedMemory(node, p)
           last == WithVerdict(Verdict(p))
<1>3. Valid(node, p) /\ Applicable(node, p)
  BY DEF Deliver, Fail, End, GoesOn
<1>4. Proceed(m, PatchedFiles(node, p), PatchedRejections(node, p), last)
  BY <1>3 DEF Deliver
<1>5. rejections' = PatchedRejections(node, p)
  BY <1>4 DEF Proceed
<1>6. CASE Verdict(p) = "reject"
  <2>1. node \in Rejectable /\ rejections' = Reject(rejections, node)
    BY <1>1, <1>3, <1>5, <1>6, Accepted DEF PatchedRejections
  <2>2. rejections' # rejections
    BY <2>1 DEF Reject, TypeInv, TypeOK
  <2> QED
    BY <1>1, <2>1, <2>2, RejectDescends DEF GoesOn
<1>7. CASE Verdict(p) # "reject"
  <2>1. last.verdict = Verdict(p) /\ last.passed
    BY DEF WithVerdict, Ok
  <2>2. Proceed(m, PatchedFiles(node, p), rejections, last)
    BY <1>4, <1>7 DEF PatchedRejections
  <2>3. node \in Loop => m.tasks = mem.tasks /\ m.done = mem.done
                         /\ m.cursor = mem.cursor /\ m.attempts = mem.attempts
    <3>1. node \in Loop => m = mem \/ m = FailNoted(mem)
      BY DEF PatchedMemory, Loop, Reviews
    <3> QED
      BY <3>1 DEF FailNoted, TypeInv, TypeOK, Memory
  <2> HIDE DEF m, last
  <2> QED
    BY <1>1, <1>2, <1>7, <2>1, <2>2, <2>3, NodeDescends DEF GoesOn
<1> QED
  BY <1>6, <1>7

LEMMA NextDescends ==
    ASSUME TypeInv, TypeInv', BudgetInv, FlowInv, Next, GoesOn
    PROVE  <<Measure', Measure>> \in Descent
<1>1. /\ run = "running" /\ run' = "running" /\ mem \in Memory /\ hop \in Nat
      /\ rejections \in Counts /\ agent \in Variants
      /\ Ok.verdict # "reject" /\ Ok.passed
  BY FlowsClosed, IdsAssumption DEF GoesOn, TypeInv, TypeOK, Counts, Ok, Verdicts
<1>2. \A why : ~Fail(why)
  BY <1>1 DEF Fail, End
<1>3. ASSUME node \notin {"mark_task_done", "correct_implementation"},
             NEW f, Proceed(mem, f, rejections, Ok)
      PROVE  <<Measure', Measure>> \in Descent
  BY <1>1, <1>3, NodeDescends
<1>4. ASSUME node \notin Loop, NEW m, Proceed(m, filed, rejections, Ok)
      PROVE  <<Measure', Measure>> \in Descent
  BY <1>1, <1>4, NodeDescends, Parts
<1>11. CASE LoadWorkItem \/ GenerateTasks
  BY <1>4, <1>11 DEF LoadWorkItem, GenerateTasks, Author, At, Loop, Reviews
<1>12. CASE GeneratePlan \/ GenerateMockup
  BY <1>3, <1>12 DEF GeneratePlan, GenerateMockup, Author, At
<1>13. CASE ReviewImplementation
  <2>1. PICK v \in {"pass", "fail"} :
          Proceed(IF v = "fail" THEN FailNoted(mem) ELSE mem, filed, rejections, WithVerdict(v))
    BY <1>13 DEF ReviewImplementation, Author
  <2> DEFINE m == IF v = "fail" THEN FailNoted(mem) ELSE mem
  <2>2. m.tasks = mem.tasks /\ m.done = mem.done
        /\ m.cursor = mem.cursor /\ m.attempts = mem.attempts
    BY <1>1 DEF FailNoted, Memory
  <2>3. WithVerdict(v).verdict # "reject" /\ WithVerdict(v).passed
    BY DEF WithVerdict, Ok
  <2>4. node = "review_implementation" /\ Proceed(m, filed, rejections, WithVerdict(v))
    BY <1>13, <2>1 DEF ReviewImplementation, Author, At
  <2> HIDE DEF m
  <2> QED
    BY <1>1, <2>2, <2>3, <2>4, NodeDescends
<1>14. CASE ContentFails \/ TerminateBudget \/ Interrupt \/ Terminated
  BY <1>1, <1>2, <1>14 DEF ContentFails, TerminateBudget, Interrupt, Terminated
<1>15. CASE RegisterWorkItem
  BY <1>2, <1>3, <1>15 DEF RegisterWorkItem, At
<1>16. CASE ProposeTask
  <2>1. /\ node = "propose_tasks" /\ hop \in DOMAIN mem.tasks /\ hop' = hop + 1
        /\ UNCHANGED <<node, rejections>> /\ Linked(mem.tasks[hop])
    BY <1>1, <1>16 DEF ProposeTask, At, End
  <2>2. /\ mem'.tasks = mem.tasks /\ mem'.done = mem.done
        /\ mem'.cursor = mem.cursor /\ mem'.attempts = mem.attempts
    BY <1>1, <2>1 DEF Linked, Memory
  <2>3. hop < Len(mem.tasks) + 1
    BY <1>1, <2>1 DEF Memory
  <2> QED
    BY <2>1, <2>2, <2>3, HopDescends
<1>17. CASE ProposeTasks
  BY <1>2, <1>3, <1>17 DEF ProposeTasks, At, RefuseItem, LoseItem
<1>18. CASE EngineNode
  <2>1. node \in EngineNodes
        /\ \/ Proceed(mem, filed, rejections, Ok)
           \/ /\ hop < Len(Calls(agent, node)) /\ hop' = hop + 1
              /\ UNCHANGED <<agent, node, run, cause, data>>
    BY <1>2, <1>18 DEF EngineNode, RefuseTask, LoseTask
  <2>2. node \notin {"mark_task_done", "correct_implementation", "propose_tasks"}
        /\ (hop < Len(Calls(agent, node)) => hop < 2)
    BY <1>1, <2>1 DEF EngineNodes, Calls
  <2>3. CASE Proceed(mem, filed, rejections, Ok)
    BY <1>3, <2>2, <2>3
  <2>4. CASE /\ hop < Len(Calls(agent, node)) /\ hop' = hop + 1
             /\ UNCHANGED <<agent, node, run, cause, data>>
    <3>1. hop < (IF node = "propose_tasks" THEN Len(mem.tasks) + 1 ELSE 2)
      BY <2>2, <2>4
    <3>2. UNCHANGED <<node, rejections, mem>> /\ hop' = hop + 1
      BY <2>4 DEF data
    <3> QED
      BY <3>1, <3>2, HopDescends
  <2> QED
    BY <2>1, <2>3, <2>4
<1>19. CASE SubmitImplementation
  <2>1. \/ Proceed(mem, filed, rejections, Ok)
        \/ Proceed([mem EXCEPT !.submitted = @ \cup {Target}], filed, rejections, Ok)
    BY <1>2, <1>19 DEF SubmitImplementation, RefuseTask, LoseTask
  <2> DEFINE m == [mem EXCEPT !.submitted = @ \cup {Target}]
  <2>2. m.tasks = mem.tasks /\ m.done = mem.done
        /\ m.cursor = mem.cursor /\ m.attempts = mem.attempts
    BY <1>1 DEF Memory
  <2>3. node = "submit_implementation"
    BY <1>19 DEF SubmitImplementation, At
  <2> HIDE DEF m
  <2>4. Proceed(mem, filed, rejections, Ok) \/ Proceed(m, filed, rejections, Ok)
    BY <2>1 DEF m
  <2> QED
    BY <1>1, <1>3, <2>2, <2>3, <2>4, NodeDescends
<1>20. CASE CloseWorkItem
  <2>1. CASE Proceed(mem, filed, rejections, Ok)
    BY <1>3, <1>20, <2>1 DEF CloseWorkItem, At
  <2>2. CASE hop = 1 /\ hop' = 2 /\ UNCHANGED <<agent, node, run, cause, data>>
    BY <1>1, <1>20, <2>2, HopDescends DEF data, CloseWorkItem, At
  <2> QED
    BY <1>2, <1>20, <2>1, <2>2 DEF CloseWorkItem, RefuseItem, LoseItem
<1>21. CASE MarkTaskDone
  BY <1>1, <1>21, DoneDescends
<1>22. CASE CorrectImplementation
  BY <1>1, <1>22, CorrectionDescends
<1>23. CASE CommitArtifact \/ LogRun \/ Validate
  BY <1>3, <1>23 DEF CommitArtifact, LogRun, Validate, Local
<1>24. CASE ValidateSpecs
  <2>1. rejections' = rejections
    BY <1>24, ValidatorAgent DEF GoesOn
  <2>2. Reject(rejections, "confirm_docs_update") # rejections
    BY <1>1 DEF Reject, Counts, Rejectable
  <2>3. Proceed(mem, filed, rejections, Ok)
    BY <1>24, <2>1, <2>2 DEF ValidateSpecs, Proceed
  <2> QED
    BY <1>3, <1>24, <2>3 DEF ValidateSpecs, At
<1>25. CASE Answer
  <2>1. PICK p \in Answers[node] : Deliver(p)
    BY <1>25 DEF Answer
  <2>2. p \in Payloads
    BY <1>1, <1>25, HumanNodes DEF Answer, Runs, Payloads
  <2> QED
    BY <2>1, <2>2, DeliverDescends
<1>26. CASE Resend
  BY <1>26, DeliverDescends DEF Resend, TypeInv, PostedOK
<1> QED
  BY <1>11, <1>12, <1>13, <1>14, <1>15, <1>16, <1>17, <1>18, <1>19, <1>20, <1>21, <1>22,
     <1>23, <1>24, <1>25, <1>26 DEF Next, Step

\* Every step of a run that goes on lowers the measure: a rejection, of which
\* there are finitely many but in 0.6.0, or one step less of a phase, a task, a
\* correction, a node, a call.  So a run can go on for ever only where a
\* checkpoint of 0.6.0 is rejected for ever (the loops of the declarations, the
\* two budget predicates and tasks_remaining).
THEOREM RunsDescend == Spec => [][GoesOn => <<Measure', Measure>> \in Descent]_vars
<1>1. Init => TypeInv /\ BudgetInv /\ FlowInv
  BY InitType, InitBudget, InitFlow
<1>2. TypeInv /\ BudgetInv /\ FlowInv /\ [Next]_vars => (TypeInv /\ BudgetInv /\ FlowInv)'
  BY NextType, NextBudget, NextFlow
<1>3. TypeInv /\ TypeInv' /\ BudgetInv /\ FlowInv /\ [Next]_vars
         => [GoesOn => <<Measure', Measure>> \in Descent]_vars
  BY NextDescends
<1> QED
  BY <1>1, <1>2, <1>3, PTL DEF Spec
=============================================================================
