--------------------------- MODULE DecisionOutbox ---------------------------
(***************************************************************************)
(* What the tables of accepted signals promise when a flow engine is       *)
(* configured: a decision is accepted once, together with its outbox row   *)
(* or with its record; a row leaves the outbox together with the record,   *)
(* and none of the drainers writes the record of a decision twice.  The    *)
(* reactor writes only what is in the outbox; reconcile-aux may also write *)
(* what the reactor has taken out of it since it read the rows.            *)
(***************************************************************************)
EXTENDS Naturals

CONSTANTS
    Decisions,   \* what may be accepted
    Recorded     \* the decisions of which a record is kept

VARIABLES
    keys,        \* the decisions accepted
    outbox,      \* those whose record is still to be written
    records      \* the records written: decision, writer, and which copy

vars == <<keys, outbox, records>>

Init ==
    /\ keys = {}
    /\ outbox = {}
    /\ records = {}

Copy(w, S, n) == (S \X {w}) \X {n}

\* The records of S, none of which this writer has written.
Write(w, S) ==
    /\ Copy(w, S, 1) \cap records = {}
    /\ records' = records \cup Copy(w, S, 1)

Accept(d) ==
    /\ d \notin keys
    /\ keys' = keys \cup {d}
    /\ \/ d \notin Recorded /\ UNCHANGED <<outbox, records>>
       \/ d \in Recorded /\ outbox' = outbox \cup {d} /\ UNCHANGED records
       \/ d \in Recorded /\ Write("inline", {d}) /\ UNCHANGED outbox

Materialize(d) ==
    /\ d \in outbox
    /\ Write("reactor", {d})
    /\ outbox' = outbox \ {d}
    /\ UNCHANGED keys

\* What reconcile-aux may have read before the reactor took it out.
Drainable == outbox \cup {d \in Decisions : <<<<d, "reactor">>, 1>> \in records}

Reconcile(S) ==
    /\ Write("cli", S)
    /\ outbox' = outbox \ S
    /\ UNCHANGED keys

Next ==
    \/ \E d \in Decisions : Accept(d) \/ Materialize(d)
    \/ \E S \in SUBSET Drainable : Reconcile(S)

Spec == Init /\ [][Next]_vars

=============================================================================
