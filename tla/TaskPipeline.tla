---------------------------- MODULE TaskPipeline ----------------------------
(***************************************************************************)
(* What a lifecycle agent promises about a work item and its tasks,        *)
(* whatever the variant of the agent and whoever answers its checkpoints.  *)
(*                                                                         *)
(* Tasks enter the pipeline while the work item is open and go through it  *)
(* one after the other, each through every stage in order; the work item   *)
(* becomes ready, and is closed, when every task that entered is done.     *)
(* A run that fails stops wherever it is.                                  *)
(***************************************************************************)
EXTENDS Naturals

CONSTANT Ids       \* task ids

VARIABLES
    item,          \* status of the work item
    stage          \* status of each task; absent: not in the pipeline

vars == <<item, stage>>

Stages == {"assigning", "planning", "plan_review", "implementing",
           "impl_review", "done"}

After == [assigning |-> "planning", planning |-> "plan_review",
          plan_review |-> "implementing", implementing |-> "impl_review",
          impl_review |-> "done"]

Entered == {t \in Ids : stage[t] # "absent"}

\* Tasks somebody works on.
Started == {t \in Entered : stage[t] \notin {"assigning", "done"}}

Init ==
    /\ item = "absent"
    /\ stage = [t \in Ids |-> "absent"]

Open ==
    /\ item = "absent"
    /\ item' = "open"
    /\ UNCHANGED stage

Enter(t) ==
    /\ item = "open"
    /\ stage[t] = "absent"
    /\ stage' = [stage EXCEPT ![t] = "assigning"]
    /\ UNCHANGED item

Start ==
    /\ item = "open"
    /\ Entered # {}
    /\ item' = "in_progress"
    /\ UNCHANGED stage

Advance(t) ==
    /\ item = "in_progress"
    /\ stage[t] \in DOMAIN After
    /\ Started \subseteq {t}
    /\ stage' = [stage EXCEPT ![t] = After[@]]
    /\ UNCHANGED item

Finish ==
    /\ item = "in_progress"
    /\ \A t \in Entered : stage[t] = "done"
    /\ item' = "ready"
    /\ UNCHANGED stage

Close ==
    /\ item = "ready"
    /\ item' = "closed"
    /\ UNCHANGED stage

Next ==
    \/ Open
    \/ Start
    \/ Finish
    \/ Close
    \/ \E t \in Ids : Enter(t) \/ Advance(t)

Spec == Init /\ [][Next]_vars

=============================================================================
