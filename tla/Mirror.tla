------------------------------- MODULE Mirror -------------------------------
(***************************************************************************)
(* The lifecycle signals when a flow engine is configured.  The engine     *)
(* owns the state: a signal checks the cached status, asks the engine for  *)
(* the transition (a refusal or an outage is swallowed), and commits its   *)
(* key with an outbox row for the record of the decision                   *)
(* (lifecycle/service.py).  The engine posts item.transitioned for every   *)
(* transition; the reactor (lifecycle/reactor.py) writes the record, the   *)
(* cached status and the derivations W2 and W5 in a transaction of its     *)
(* own.  reconcile-aux (lifecycle/reconciliation.py) drains outbox rows    *)
(* whose webhook never came.                                               *)
(*                                                                         *)
(* The engine and its webhooks are external: they are what engine_client   *)
(* expects of them.  Since a key takes effect once, a call stands for its  *)
(* own correlation id; the id of an attempt that was rolled back matches   *)
(* nothing and becomes NoCall.                                             *)
(***************************************************************************)
EXTENDS SignalTable, Sequences, Naturals

CONSTANTS
    Requests,   \* signal requests served at the same time
    Hooks,      \* webhook deliveries served at the same time
    Signals,    \* bound: the signals that are sent
    MaxEvents,  \* bound: transitions the engine carries out
    Start,      \* bound: the statuses a task under way is found in
    Orderly     \* webhooks come once each, in order, one at a time

ASSUME OrderlyAssumption == Orderly \in BOOLEAN
ASSUME StartAssumption == Start \subseteq TaskStatus
ASSUME MaxEventsAssumption == MaxEvents \in Nat

VARIABLES
    engine,    \* the engine's status of its items; "absent": no linked item
    log,       \* the transitions the engine carried out, in order
    seen,      \* the transitions whose webhook the reactor committed
    cache,     \* tasks.status and work_items.status
    assignee,  \* type of the active task_assignments row
    keys,      \* lifecycle_signals: keys committed
    outbox,    \* pending_aux_writes
    aux,       \* the records written, each with who wrote it
    twice,     \* records written a second time by the same writer
    req,       \* the signal transactions in flight
    hook,      \* the reactor's transactions in flight
    cli        \* the reconcile-aux process

engineVars == <<engine, log>>
dbVars     == <<seen, cache, assignee, keys, outbox, aux, twice>>
vars       == <<engineVars, dbVars, req, hook, cli>>

Rows   == Tasks \cup {Item}
NoCall == Call("none", Item, "admin", "none")

Event == [row : Tasks, to : TaskStatus, corr : Calls \cup {NoCall}]
         \cup [row : {Item}, to : ItemStatus, corr : Calls \cup {NoCall}]

\* Signals that leave the record of the decision to the reactor.
AuxSignals == {"approve_task", "assign_task", "submit_plan", "approve_plan",
               "submit_implementation", "approve_review"}

Writers == {"reactor", "cli", "inline"}
ItemSeen == ItemStatus \cup {"absent"}

IdleReq  == [at |-> "idle", call |-> NoCall, inline |-> FALSE, hops |-> <<>>,
             sees |-> "absent"]
IdleHook == [at |-> "idle", ev |-> 0, claims |-> FALSE, writes |-> FALSE,
             sees |-> "absent"]
IdleCli  == [at |-> "idle", todo |-> {}, row |-> NoCall, done |-> {}]

TypeOK ==
    /\ engine \in [Rows -> TaskStatus \cup ItemStatus \cup {"absent"}]
    /\ log \in Seq(Event)
    /\ seen \subseteq DOMAIN log
    /\ \A t \in Tasks : cache[t] \in TaskStatus \cup {"absent"}
    /\ cache[Item] \in ItemStatus /\ DOMAIN cache = Rows
    /\ assignee \in [Tasks -> Assignees \cup {"none"}]
    /\ keys \subseteq Calls
    /\ outbox \subseteq Calls
    /\ aux \subseteq Calls \X Writers
    /\ twice \subseteq Calls \X Writers
    /\ req \in [Requests -> [at : {"idle", "row", "mirror", "item", "commit"},
                             call : Calls \cup {NoCall}, inline : BOOLEAN,
                             hops : Seq(TaskStatus \cup ItemStatus), sees : ItemSeen]]
    /\ hook \in [Hooks -> [at : {"idle", "aux", "insert", "cache", "item", "commit"},
                           ev : Nat, claims : BOOLEAN, writes : BOOLEAN,
                           sees : ItemSeen]]
    /\ cli \in [at : {"idle", "rows", "delete", "broken"}, todo : SUBSET Calls,
                row : Calls \cup {NoCall}, done : SUBSET Calls]

\* A work item that was opened, with its seeds or without tasks; the engine
\* may have failed to create the item.
Opened ==
    /\ engine \in {[x \in Rows |-> IF x = Item THEN s ELSE "absent"]
                       : s \in {"absent", "open"}}
    /\ cache \in {[x \in Rows |-> IF x = Item THEN "open" ELSE s]
                      : s \in {"absent", "proposed"}}

\* A work item some way into its tasks, in step with the engine.
UnderWay ==
    /\ engine \in {[x \in Rows |-> IF x = Item THEN "in_progress" ELSE s] : s \in Start}
    /\ cache = engine

Init ==
    /\ Opened \/ UnderWay
    /\ log = <<>> /\ seen = {}
    /\ assignee = [t \in Tasks |-> "none"]
    /\ keys = {} /\ outbox = {} /\ aux = {} /\ twice = {}
    /\ req = [r \in Requests |-> IdleReq]
    /\ hook = [h \in Hooks |-> IdleHook]
    /\ cli = IdleCli

-----------------------------------------------------------------------------
(* Locks *)

Derives(c) == c \in TaskCalls /\ TaskTransition[c.sig].derives # "none"

EventOf(h) == log[hook[h].ev]

\* The derivation a webhook fires.
Fires(e) ==
    CASE e.row \in Tasks /\ e.to = "approved" -> "W2"
      [] e.row \in Tasks /\ e.to \in TaskTerminal -> "W5"
      [] OTHER -> "none"

InTransaction(q) == req[q].at # "idle"

KeyHeld(c) == \E q \in Requests : InTransaction(q) /\ req[q].call = c

SignalHolds(q, x) ==
    \/ req[q].at \in {"mirror", "item", "commit"} /\ req[q].call.on = x
    \/ req[q].at = "commit" /\ Derives(req[q].call) /\ x = Item

HookHolds(h, x) ==
    \/ hook[h].at \in {"item", "commit"} /\ hook[h].writes /\ EventOf(h).row = x
    \/ hook[h].at = "commit" /\ Fires(EventOf(h)) # "none" /\ x = Item

\* Mutant: a transaction that waits for the row counts as holding it.
Locked_Queue(x) ==
    \/ \E q \in Requests : SignalHolds(q, x) \/ (req[q].at = "row" /\ req[q].call.on = x)
    \/ \E h \in Hooks : HookHolds(h, x)

Locked(x) ==
    \/ \E q \in Requests : SignalHolds(q, x)
    \/ \E h \in Hooks : HookHolds(h, x)

\* Mutant: the reactor reads the outbox row without locking it.
Claimed_PlainRead(c) == FALSE

Claimed(c) == \E h \in Hooks : hook[h].claims /\ EventOf(h).corr = c

\* Records inserted and not committed.
HookInserted(h, c) ==
    /\ hook[h].at \in {"cache", "item", "commit"}
    /\ hook[h].claims /\ EventOf(h).corr = c

CliInserted(c) == c \in cli.done \/ (cli.at = "delete" /\ cli.row = c)

\* The foreign key of a record shares the task's row: its INSERT and the
\* FOR UPDATE of a signal wait for each other.
Referenced(x) ==
    \E c \in Calls : /\ c.on = x
                     /\ CliInserted(c) \/ \E h \in Hooks : HookInserted(h, c)

RowTaken(x) == \E q \in Requests : SignalHolds(q, x)

\* The unique index on active assignments makes a second INSERT wait.
CliAssigns(t)     == \E a \in Assignees : CliInserted(Call("assign_task", t, "admin", a))
HookAssigns(h, t) == \E a \in Assignees : HookInserted(h, Call("assign_task", t, "admin", a))

-----------------------------------------------------------------------------
(* The engine *)

TaskEdges ==
    {<<"proposed", "approved">>, <<"approved", "assigning">>,
     <<"assigning", "planning">>, <<"planning", "plan_review">>,
     <<"plan_review", "implementing">>, <<"implementing", "impl_review">>,
     <<"impl_review", "done">>, <<"plan_review", "planning">>,
     <<"impl_review", "implementing">>}
    \cup {<<s, "deferred">> : s \in TaskStatus \ TaskTerminal}

ItemEdges ==
    {<<"open", "in_progress">>, <<"in_progress", "locked">>,
     <<"locked", "in_progress">>, <<"in_progress", "ready">>, <<"ready", "closed">>}

Edges(x) == IF x = Item THEN ItemEdges ELSE TaskEdges

\* transition_item that the engine carries out.
Transition(x, to, corr) ==
    /\ <<engine[x], to>> \in Edges(x)
    /\ Len(log) < MaxEvents
    /\ engine' = [engine EXCEPT ![x] = to]
    /\ log' = Append(log, [row |-> x, to |-> to, corr |-> corr])

\* The executors of a run move the items they drive, under correlation ids
\* of their own.
EngineMoves(x) ==
    /\ \E to \in TaskStatus \cup ItemStatus : Transition(x, to, NoCall)
    /\ UNCHANGED <<dbVars, req, hook, cli>>

\* register_work_item of a run: create_item, and the id onto the row.
RegisterWorkItem ==
    /\ engine[Item] = "absent" /\ ~Locked(Item)
    /\ engine' = [engine EXCEPT ![Item] = "open"]
    /\ UNCHANGED <<log, dbVars, req, hook, cli>>

\* propose_tasks of a run: create_item, then the row is linked and set ahead
\* of the transitions that are to follow.
ProposeTask(t) ==
    /\ engine[Item] # "absent" /\ engine[t] = "absent" /\ ~Locked(t)
    /\ engine' = [engine EXCEPT ![t] = "proposed"]
    /\ cache' = [cache EXCEPT ![t] = "assigning"]
    /\ UNCHANGED <<log, seen, assignee, keys, outbox, aux, twice, req, hook, cli>>

-----------------------------------------------------------------------------
(* The signals *)

Target(c) == IF c \in ItemCalls THEN ItemTransition[c.sig].to
             ELSE TaskTransition[c.sig].to

Hops(c) ==
    CASE c.sig = "approve_task" -> <<"approved", "assigning">>
      [] c.sig = "reject_task"  -> <<>>
      [] OTHER                  -> <<Target(c)>>

Permitted(c) ==
    IF c \in ItemCalls THEN cache[Item] = ItemTransition[c.sig].from
    ELSE /\ cache[c.on] \in TaskTransition[c.sig].from
         /\ MayDecide(c, assignee[c.on])

Receive(r, c, inline) ==
    /\ req[r].at = "idle"
    /\ c \in Calls /\ c.sig \in Signals \ {"open"}
    /\ c \notin keys /\ ~KeyHeld(c)
    /\ req' = [req EXCEPT ![r] = [IdleReq EXCEPT !.at = "row", !.call = c,
                                                 !.inline = inline]]
    /\ UNCHANGED <<engineVars, dbVars, hook, cli>>

ReceiveSignal(r) == \E c \in Calls : Receive(r, c, FALSE)

\* The webhook of a pull request runs submit_implementation without the engine.
ReceiveGithubPr(r) ==
    \E t \in Tasks, p \in Payloads :
        Receive(r, Call("submit_implementation", t, "admin", p), TRUE)

\* The correlation id of the attempt is never committed.
Forgotten(c) ==
    [i \in DOMAIN log |-> IF log[i].corr = c
                          THEN [log[i] EXCEPT !.corr = NoCall] ELSE log[i]]

Rollback(r) ==
    /\ req' = [req EXCEPT ![r] = IdleReq]
    /\ log' = Forgotten(req[r].call)

AfterMirror(c) == IF Derives(c) THEN "item" ELSE "commit"

LockRow(r) ==
    LET c == req[r].call
        silent == req[r].inline \/ engine[c.on] = "absent" \/ Hops(c) = <<>>
    IN
    /\ req[r].at = "row" /\ ~Locked(c.on) /\ ~Referenced(c.on)
    /\ \/ /\ Permitted(c)
          /\ req' = [req EXCEPT ![r].at = IF silent THEN AfterMirror(c) ELSE "mirror",
                                ![r].hops = IF silent THEN <<>> ELSE Hops(c)]
          /\ UNCHANGED log
       \/ ~Permitted(c) /\ Rollback(r)
    /\ UNCHANGED <<engine, dbVars, hook, cli>>

\* _mirror_to_engine: a refusal, an outage or a timeout is logged and dropped.
MirrorToEngine(r) ==
    LET c == req[r].call IN
    /\ req[r].at = "mirror"
    /\ \/ Transition(c.on, Head(req[r].hops), c)
       \/ UNCHANGED engineVars
    /\ req' = [req EXCEPT ![r].hops = Tail(@),
                          ![r].at = IF Len(req[r].hops) = 1 THEN AfterMirror(c) ELSE @]
    /\ UNCHANGED <<dbVars, hook, cli>>

\* W2 and W5 write the parent's status here even with an engine, from the
\* cached statuses: this transaction's own task still has its old one.
LockItemForDerivation(r) ==
    LET c    == req[r].call
        next == Derived(TaskTransition[c.sig].derives, cache[Item], cache)
    IN
    /\ req[r].at = "item" /\ ~Locked(Item)
    /\ \/ next # cache[Item] /\ Transition(Item, next, NoCall)
       \/ UNCHANGED engineVars
    /\ req' = [req EXCEPT ![r].at = "commit", ![r].sees = next]
    /\ UNCHANGED <<dbVars, hook, cli>>

\* With an engine only the key, the outbox row, the end of the assignment
\* before and the derivation are written.
CommitSignal(r) ==
    LET c == req[r].call IN
    /\ req[r].at = "commit"
    /\ keys' = keys \cup {c}
    /\ outbox' = IF c.sig \in AuxSignals /\ ~req[r].inline THEN outbox \cup {c}
                 ELSE outbox
    /\ cache' = [x \in Rows |->
                    CASE req[r].inline /\ x = c.on -> Target(c)
                      [] Derives(c) /\ x = Item    -> req[r].sees
                      [] OTHER                     -> cache[x]]
    /\ aux' = IF req[r].inline THEN aux \cup {<<c, "inline">>} ELSE aux
    /\ assignee' = IF c.sig = "assign_task" THEN [assignee EXCEPT ![c.on] = "none"]
                   ELSE assignee
    /\ req' = [req EXCEPT ![r] = IdleReq]
    /\ UNCHANGED <<engineVars, seen, twice, hook, cli>>

\* An exception, a lost connection or a crash; what the engine did stays.
AbortSignal(r) ==
    /\ InTransaction(r)
    /\ Rollback(r)
    /\ UNCHANGED <<engine, dbVars, hook, cli>>

-----------------------------------------------------------------------------
(* The reactor.  The route records the delivery in webhook_events and goes *)
(* on to the reactor for a repeated one too.                               *)

Deliver(h, i) ==
    /\ hook[h].at = "idle" /\ i \in DOMAIN log
    /\ Orderly => /\ seen = 1 .. (i - 1)
                  /\ \A g \in Hooks : hook[g].at = "idle"
    /\ hook' = [hook EXCEPT ![h] = [IdleHook EXCEPT !.at = "aux", !.ev = i]]
    /\ UNCHANGED <<engineVars, dbVars, req, cli>>

HookStands(h, at) == hook[h].at = at /\ UNCHANGED <<engineVars, dbVars, req, cli>>

\* SELECT ... FOR UPDATE SKIP LOCKED on the outbox row.
MaterializeAux(h) ==
    LET c     == EventOf(h).corr
        found == c \in outbox /\ ~Claimed(c) /\ c \notin cli.done
    IN
    /\ HookStands(h, "aux")
    /\ hook' = [hook EXCEPT ![h].claims = found,
                            ![h].at = IF found THEN "insert" ELSE "cache"]

\* A second active assignment violates the index and ends the delivery.
InsertAux(h) ==
    LET c == EventOf(h).corr IN
    /\ HookStands(h, "insert") /\ ~RowTaken(c.on)
    /\ IF c.sig = "assign_task"
       THEN /\ ~CliAssigns(c.on) /\ \A g \in Hooks : ~HookAssigns(g, c.on)
            /\ hook' = IF assignee[c.on] = "none"
                       THEN [hook EXCEPT ![h].at = "cache"]
                       ELSE [hook EXCEPT ![h] = IdleHook]
       ELSE hook' = [hook EXCEPT ![h].at = "cache"]

AfterCache(h) == IF Fires(EventOf(h)) = "none" THEN "commit" ELSE "item"

\* Mutant: only the transitions of signals reach the cache.
UpdateStatusCache_Correlated(h) ==
    LET e == EventOf(h) IN
    /\ HookStands(h, "cache")
    /\ \/ /\ e.corr = NoCall \/ cache[e.row] = e.to
          /\ hook' = [hook EXCEPT ![h].at = AfterCache(h)]
       \/ /\ e.corr # NoCall /\ cache[e.row] # e.to /\ ~Locked(e.row)
          /\ hook' = [hook EXCEPT ![h].at = AfterCache(h), ![h].writes = TRUE]

\* Writing the value the row already has issues no UPDATE.
UpdateStatusCache(h) ==
    LET e == EventOf(h) IN
    /\ HookStands(h, "cache")
    /\ \/ /\ cache[e.row] = e.to
          /\ hook' = [hook EXCEPT ![h].at = AfterCache(h)]
       \/ /\ cache[e.row] # e.to /\ ~Locked(e.row)
          /\ hook' = [hook EXCEPT ![h].at = AfterCache(h), ![h].writes = TRUE]

\* The derivation of the reactor gets no engine: nothing is mirrored.
HandleTaskTransition(h) ==
    LET e == EventOf(h) IN
    /\ HookStands(h, "item") /\ ~Locked(Item)
    /\ hook' = [hook EXCEPT ![h].at = "commit",
                            ![h].sees = Derived(Fires(e), cache[Item],
                                                [cache EXCEPT ![e.row] = e.to])]

CommitHook(h) ==
    LET e == EventOf(h)
        c == e.corr
        records == IF hook[h].claims THEN {<<c, "reactor">>} ELSE {}
    IN
    /\ hook[h].at = "commit"
    /\ seen' = seen \cup {hook[h].ev}
    /\ cache' = [x \in Rows |->
                    CASE hook[h].writes /\ x = e.row      -> e.to
                      [] Fires(e) # "none" /\ x = Item    -> hook[h].sees
                      [] OTHER                            -> cache[x]]
    /\ outbox' = IF hook[h].claims THEN outbox \ {c} ELSE outbox
    /\ aux' = aux \cup records
    /\ twice' = twice \cup (records \cap aux)
    /\ assignee' = IF hook[h].claims /\ c.sig = "assign_task"
                   THEN [assignee EXCEPT ![c.on] = c.pay] ELSE assignee
    /\ hook' = [hook EXCEPT ![h] = IdleHook]
    /\ UNCHANGED <<engineVars, keys, req, cli>>

AbortHook(h) ==
    /\ hook[h].at # "idle"
    /\ hook' = [hook EXCEPT ![h] = IdleHook]
    /\ UNCHANGED <<engineVars, dbVars, req, cli>>

-----------------------------------------------------------------------------
(* reconcile-aux: one transaction over the rows it read when it started    *)

CliStands(at) == cli.at = at /\ UNCHANGED <<engineVars, req, hook>>

ReconcileStart ==
    /\ CliStands("idle") /\ outbox # {}
    /\ cli' = [IdleCli EXCEPT !.at = "rows", !.todo = outbox]
    /\ UNCHANGED dbVars

\* Stale, unknown to the engine, or the question to the engine failed.
ReconcileSkip(c) ==
    /\ CliStands("rows") /\ c \in cli.todo
    /\ cli' = [cli EXCEPT !.todo = @ \ {c}]
    /\ UNCHANGED dbVars

\* The record goes in before the outbox row goes out; a second active
\* assignment leaves the session unusable.
ReconcileInsert(c) ==
    /\ CliStands("rows") /\ c \in cli.todo
    /\ engine[c.on] = Target(c) /\ ~RowTaken(c.on)
    /\ c.sig = "assign_task" => \A h \in Hooks : ~HookAssigns(h, c.on)
    /\ cli' = IF c.sig = "assign_task" /\ (assignee[c.on] # "none" \/ CliAssigns(c.on))
              THEN [cli EXCEPT !.todo = @ \ {c}, !.at = "broken"]
              ELSE [cli EXCEPT !.todo = @ \ {c}, !.at = "delete", !.row = c]
    /\ UNCHANGED dbVars

\* A DELETE that finds no row any more is only warned about.
ReconcileDelete ==
    /\ CliStands("delete") /\ ~Claimed(cli.row)
    /\ cli' = [cli EXCEPT !.at = "rows", !.row = NoCall, !.done = @ \cup {cli.row}]
    /\ UNCHANGED dbVars

\* Mutant: stale rows are dropped with the others.
Drained_WithStale == outbox

\* The rows that leave the outbox; stale and unknown ones stay.
Drained == cli.done

ReconcileCommit ==
    /\ CliStands("rows") /\ cli.todo = {}
    /\ outbox' = outbox \ Drained
    /\ aux' = aux \cup (cli.done \X {"cli"})
    /\ twice' = twice \cup ((cli.done \X {"cli"}) \cap aux)
    /\ assignee' = [t \in Tasks |->
                      IF CliAssigns(t)
                      THEN CHOOSE a \in Assignees :
                               Call("assign_task", t, "admin", a) \in cli.done
                      ELSE assignee[t]]
    /\ cli' = IdleCli
    /\ UNCHANGED <<seen, cache, keys>>

\* Every later row and the final commit raise: the batch is lost.
ReconcileFails ==
    /\ CliStands("broken")
    /\ cli' = IdleCli
    /\ UNCHANGED dbVars

ReconcileCrash ==
    /\ CliStands(cli.at) /\ cli.at # "idle"
    /\ cli' = IdleCli
    /\ UNCHANGED dbVars

\* A delivery that claimed the outbox row waits for the assignment of
\* reconcile-aux, which waits for the outbox row: PostgreSQL cancels one.
DeadlockDetected(h) ==
    /\ hook[h].at = "insert" /\ cli.at = "delete" /\ EventOf(h).corr = cli.row
    /\ cli.row.sig = "assign_task"
    /\ AbortHook(h)

-----------------------------------------------------------------------------
(* The specification *)

SignalStep(r) ==
    \/ LockRow(r) \/ MirrorToEngine(r) \/ LockItemForDerivation(r) \/ CommitSignal(r)

HookStep(h) ==
    \/ MaterializeAux(h) \/ InsertAux(h) \/ UpdateStatusCache(h)
    \/ HandleTaskTransition(h) \/ CommitHook(h)

ReconcileStep ==
    \/ \E c \in Calls : ReconcileSkip(c) \/ ReconcileInsert(c)
    \/ ReconcileDelete \/ ReconcileCommit \/ ReconcileFails

Next ==
    \/ \E x \in Rows : EngineMoves(x)
    \/ RegisterWorkItem
    \/ \E t \in Tasks : ProposeTask(t)
    \/ \E r \in Requests :
           ReceiveSignal(r) \/ ReceiveGithubPr(r) \/ SignalStep(r) \/ AbortSignal(r)
    \/ \E h \in Hooks :
           \/ \E i \in DOMAIN log : Deliver(h, i)
           \/ HookStep(h) \/ AbortHook(h) \/ DeadlockDetected(h)
    \/ ReconcileStart \/ ReconcileStep \/ ReconcileCrash

Spec == Init /\ [][Next]_vars

\* Statements return: the HTTP client has a timeout, PostgreSQL grants row
\* locks in the order they are asked for and resolves deadlocks.
Fairness ==
    /\ \A r \in Requests : SF_vars(SignalStep(r))
    /\ \A h \in Hooks : SF_vars(HookStep(h)) /\ WF_vars(DeadlockDetected(h))
    /\ SF_vars(ReconcileStep)

FairSpec == Spec /\ Fairness

-----------------------------------------------------------------------------
(* Properties *)

\* Of every decision a committed signal leaves to the reactor there is an
\* outbox row or the record, whatever is delivered twice, late or never
\* and whoever crashes.
OutboxConserved ==
    /\ \A c \in keys : c.sig \in AuxSignals =>
           c \in outbox \/ \E w \in Writers : <<c, w>> \in aux
    /\ outbox \subseteq keys
    /\ \A x \in aux : x[1] \in keys

\* However often and however close together a webhook is delivered, the
\* reactor writes the record of a decision once.
HookWritesOnce == twice = {}

\* The promise about the tables.
Outbox == INSTANCE DecisionOutbox WITH
    Decisions <- Calls,
    Recorded  <- {c \in Calls : c.sig \in AuxSignals},
    records   <- aux \X {1} \cup twice \X {2}

ImplementsOutbox == Outbox!Spec

Quiet == (\A r \in Requests : ~InTransaction(r)) /\ \A h \in Hooks : hook[h].at = "idle"

\* With every webhook handled in order the cached status is the engine's,
\* also after transitions no signal asked for; a pull request's webhook
\* writes the cache behind the engine's back.
Converged ==
    Orderly /\ Quiet /\ seen = DOMAIN log =>
        \A t \in Tasks :
            \/ cache[t] = engine[t]
            \/ \A i \in DOMAIN log : log[i].row # t
            \/ \E x \in aux : x[1].on = t /\ x[2] = "inline"

\* No signal waits for ever behind deliveries and other signals, unless
\* reconcile-aux is started again and again.
Answered ==
    (<>[](cli = IdleCli)) => \A r \in Requests : InTransaction(r) ~> ~InTransaction(r)

=============================================================================
