---------------------------- MODULE MirrorProofs ----------------------------
(***************************************************************************)
(* Proofs about Mirror: types, and that whatever is delivered twice, late  *)
(* or never, no accepted decision loses its record and neither drainer of  *)
(* the outbox writes it twice; with webhooks in order, that the cached     *)
(* statuses follow the engine's.                                           *)
(***************************************************************************)
EXTENDS Mirror, SignalTableProofs, SequenceTheorems, TLAPS

Status == TaskStatus \cup ItemStatus

ReqRecord ==
    [at : {"idle", "row", "mirror", "item", "commit"}, call : Calls \cup {NoCall},
     inline : BOOLEAN, hops : Seq(Status), sees : ItemSeen]
HookRecord ==
    [at : {"idle", "aux", "insert", "cache", "item", "commit"}, ev : Nat,
     claims : BOOLEAN, writes : BOOLEAN, sees : ItemSeen]
CliRecord ==
    [at : {"idle", "rows", "delete", "broken"}, todo : SUBSET Calls,
     row : Calls \cup {NoCall}, done : SUBSET Calls]

EngineOK == engine \in [Rows -> Status \cup {"absent"}]
LogOK    == log \in Seq(Event) /\ seen \subseteq DOMAIN log
CacheOK  == /\ \A t \in Tasks : cache[t] \in TaskStatus \cup {"absent"}
            /\ cache[Item] \in ItemStatus /\ DOMAIN cache = Rows
TablesOK == /\ assignee \in [Tasks -> Assignees \cup {"none"}]
            /\ keys \subseteq Calls /\ outbox \subseteq Calls
            /\ aux \subseteq Calls \X Writers /\ twice \subseteq Calls \X Writers
ReqOK    == req \in [Requests -> ReqRecord]
HookOK   == hook \in [Hooks -> HookRecord]
CliOK    == cli \in CliRecord

LEMMA TypeParts ==
    TypeOK <=> EngineOK /\ LogOK /\ CacheOK /\ TablesOK /\ ReqOK /\ HookOK /\ CliOK
  BY DEF TypeOK, EngineOK, LogOK, CacheOK, TablesOK, ReqOK, HookOK, CliOK, ReqRecord,
         HookRecord, CliRecord, Status

LEMMA TypePartsNext ==
    ASSUME EngineOK', LogOK', CacheOK', TablesOK', ReqOK', HookOK', CliOK'
    PROVE  TypeOK'
  BY DEF TypeOK, EngineOK, LogOK, CacheOK, TablesOK, ReqOK, HookOK, CliOK, ReqRecord,
         HookRecord, CliRecord, Status

-----------------------------------------------------------------------------
(* What the proofs need of the data *)

LEMMA NoCallIsNone == NoCall \notin Calls
  BY TaskCallFields, ItemCallFields DEF NoCall, Call, Calls, Sigs

LEMMA CallTarget ==
    ASSUME NEW c \in Calls
    PROVE  /\ c.on \in Rows /\ Target(c) \in Status
           /\ c.on \in Tasks => c \in TaskCalls /\ Target(c) \in TaskStatus
           /\ c.on \notin Tasks => c.on = Item /\ Target(c) \in ItemStatus
<1>1. CASE c \in ItemCalls
  <2>1. c.on = Item /\ Target(c) \in ItemStatus
    BY <1>1, ItemCallFields, ItemTable DEF Target
  <2> QED
    BY <2>1, ItemAssumption DEF Rows, Status
<1>2. CASE c \in TaskCalls /\ c \notin ItemCalls
  <2>1. c.on \in Tasks /\ Target(c) \in TaskStatus
    BY <1>2, TaskCallFields, Table DEF Target
  <2> QED
    BY <1>2, <2>1, ItemAssumption DEF Rows, Status
<1> QED
  BY <1>1, <1>2 DEF Calls

LEMMA Assigning ==
    ASSUME NEW c \in Calls, c.sig = "assign_task"
    PROVE  c.on \in Tasks /\ c.pay \in Assignees
<1>1. c \in TaskCalls
  BY ItemCallFields DEF Calls
<1> QED
  BY <1>1, TaskCallFields, AssignPayload

LEMMA DerivedInItem ==
    ASSUME NEW d, NEW i \in ItemStatus, NEW s
    PROVE  Derived(d, i, s) \in ItemStatus
  BY DerivedStatus DEF ItemStatus

LEMMA EdgeEnds ==
    ASSUME NEW x \in Rows, NEW s, NEW to, <<s, to>> \in Edges(x)
    PROVE  (x = Item => to \in ItemStatus) /\ (x # Item => to \in TaskStatus)
<1>1. CASE x = Item
  BY <1>1 DEF Edges, ItemEdges, ItemStatus
<1>2. CASE x # Item
  BY <1>2 DEF Edges, TaskEdges, TaskStatus, TaskTerminal
<1> QED
  BY <1>1, <1>2

LEMMA EventFields ==
    ASSUME NEW e \in Event
    PROVE  /\ e.row \in Rows /\ e.to \in Status /\ e.corr \in Calls \cup {NoCall}
           /\ e.row \in Tasks => e.to \in TaskStatus
           /\ e.row = Item => e.to \in ItemStatus
  BY ItemAssumption DEF Event, Rows, Status

-----------------------------------------------------------------------------
(* The log *)

\* How a step may change the log: it grows, and the correlation id of a call
\* that has no key may be forgotten.
LogGrows ==
    /\ log' \in Seq(Event)
    /\ DOMAIN log \subseteq DOMAIN log'
    /\ \A i \in DOMAIN log :
          /\ log'[i].row = log[i].row /\ log'[i].to = log[i].to
          /\ \/ log'[i].corr = log[i].corr
             \/ log[i].corr \notin keys /\ log'[i].corr = NoCall

LEMMA TransitionGrows ==
    ASSUME LogOK, EngineOK, NEW x \in Rows, NEW to, NEW c \in Calls \cup {NoCall},
           Transition(x, to, c)
    PROVE  LogGrows /\ EngineOK'
<1>1. (x = Item => to \in ItemStatus) /\ (x # Item => to \in TaskStatus)
  BY EdgeEnds DEF Transition
<1> DEFINE e == [row |-> x, to |-> to, corr |-> c]
<1>2. e \in Event
  BY <1>1 DEF Event, Rows
<1>3. log' = Append(log, e)
  BY DEF Transition
<1>4. LogGrows
  <2>1. log \in Seq(Event)
    BY DEF LogOK
  <2> HIDE DEF e
  <2>2. log' \in Seq(Event) /\ Len(log') = Len(log) + 1
        /\ \A i \in 1 .. Len(log) : log'[i] = log[i]
    BY <1>2, <1>3, <2>1
  <2> QED
    BY <2>1, <2>2 DEF LogGrows
<1>5. EngineOK'
  BY <1>1 DEF EngineOK, Transition, Status
<1> QED
  BY <1>4, <1>5

LEMMA ForgottenGrows ==
    ASSUME LogOK, NEW c, c \notin keys, log' = Forgotten(c)
    PROVE  LogGrows
<1>1. PICK n \in Nat : log \in [1 .. n -> Event]
  BY SeqDef DEF LogOK
<1>2. DOMAIN log' = 1 .. n
  BY <1>1 DEF Forgotten
<1>3. ASSUME NEW i \in 1 .. n
      PROVE  /\ log'[i] \in Event
             /\ log'[i].row = log[i].row /\ log'[i].to = log[i].to
             /\ \/ log'[i].corr = log[i].corr
                \/ log[i].corr \notin keys /\ log'[i].corr = NoCall
  <2>1. log[i] \in Event
    BY <1>1, <1>3
  <2>2. log'[i] = IF log[i].corr = c THEN [log[i] EXCEPT !.corr = NoCall] ELSE log[i]
    BY <1>1 DEF Forgotten
  <2>3. [log[i] EXCEPT !.corr = NoCall] \in Event
        /\ [log[i] EXCEPT !.corr = NoCall].corr = NoCall
        /\ [log[i] EXCEPT !.corr = NoCall].row = log[i].row
        /\ [log[i] EXCEPT !.corr = NoCall].to = log[i].to
    BY <2>1 DEF Event
  <2> QED
    BY <2>1, <2>2, <2>3
<1>4. log' \in [1 .. n -> Event]
  BY <1>1, <1>3 DEF Forgotten
<1>5. log' \in Seq(Event)
  BY <1>4, SeqDef
<1> QED
  BY <1>1, <1>2, <1>3, <1>5 DEF LogGrows

-----------------------------------------------------------------------------
(* The invariant *)

\* A delivery stands on a transition of the log, and has derived the status
\* it commits.
OnLog ==
    \A h \in Hooks :
        /\ hook[h].at # "idle" => hook[h].ev \in DOMAIN log
        /\ hook[h].at = "commit" /\ Fires(EventOf(h)) # "none" =>
               hook[h].sees \in ItemStatus

\* A signal has a hop left to mirror, and has derived the status it commits.
Prepared ==
    \A r \in Requests :
        /\ req[r].at = "mirror" => req[r].hops # <<>>
        /\ req[r].at = "commit" /\ Derives(req[r].call) => req[r].sees \in ItemStatus

\* A transaction's key is its own and is not committed.
OwnKey ==
    /\ \A r \in Requests : InTransaction(r) => req[r].call \in Calls \ keys
    /\ \A q, r \in Requests : q # r /\ InTransaction(q) /\ InTransaction(r) =>
           req[q].call # req[r].call

\* An outbox row is claimed by one delivery, and reconcile-aux has not
\* deleted it.
OwnClaim ==
    /\ \A h \in Hooks : hook[h].claims =>
           /\ hook[h].at # "idle"
           /\ EventOf(h).corr \in outbox \ cli.done
    /\ \A g, h \in Hooks : g # h /\ hook[g].claims /\ hook[h].claims =>
           EventOf(g).corr # EventOf(h).corr

\* What reconcile-aux works on.
Pending == (cli.todo \cup cli.done \cup {cli.row}) \ {NoCall}

WorksOnKeys ==
    /\ Pending \subseteq keys
    /\ cli.at = "delete" => cli.row \in Calls

\* A record written has left the outbox for good.
RecordLeft ==
    \A c \in Calls :
        /\ <<c, "reactor">> \in aux => c \notin outbox
        /\ <<c, "cli">> \in aux => c \notin outbox /\ c \notin Pending

IInv ==
    /\ TypeOK /\ OnLog /\ Prepared /\ OwnKey /\ OwnClaim /\ WorksOnKeys /\ RecordLeft
    /\ OutboxConserved /\ HookWritesOnce

LEMMA InitIInv == Init => IInv
<1> SUFFICES ASSUME Init PROVE IInv
  OBVIOUS
<1>1. NoCall \in Calls \cup {NoCall} /\ <<>> \in Seq(Status) /\ <<>> \in Seq(Event)
      /\ DOMAIN <<>> = {}
  OBVIOUS
<1>2. EngineOK /\ CacheOK
  BY ItemAssumption, StartAssumption
  DEF Init, Opened, UnderWay, EngineOK, CacheOK, Rows, Status, ItemStatus, TaskStatus
<1>3. LogOK /\ TablesOK
  BY <1>1 DEF Init, LogOK, TablesOK
<1>4. ReqOK /\ HookOK /\ CliOK
  BY <1>1 DEF Init, ReqOK, HookOK, CliOK, ReqRecord, HookRecord, CliRecord, IdleReq,
              IdleHook, IdleCli, ItemSeen
<1>5. OnLog /\ Prepared /\ OwnKey /\ OwnClaim
  BY DEF Init, OnLog, Prepared, OwnKey, OwnClaim, InTransaction, IdleReq, IdleHook
<1>6. WorksOnKeys /\ RecordLeft /\ OutboxConserved /\ HookWritesOnce
  BY DEF Init, WorksOnKeys, RecordLeft, Pending, OutboxConserved, HookWritesOnce, IdleCli
<1> QED
  BY <1>2, <1>3, <1>4, <1>5, <1>6, TypeParts DEF IInv

-----------------------------------------------------------------------------
(* Steps that write no table *)

\* A claim names the same call whatever happens to the log: a claimed call
\* has a key, and only calls without one are forgotten.
LEMMA ClaimKept ==
    ASSUME IInv, LogGrows, hook' = hook, NEW h \in Hooks, hook[h].claims
    PROVE  EventOf(h)'.corr = EventOf(h).corr
<1>1. hook[h].ev \in DOMAIN log /\ EventOf(h).corr \in keys
  BY DEF IInv, OnLog, OwnClaim, OutboxConserved
<1>2. log'[hook[h].ev].corr = log[hook[h].ev].corr
  BY <1>1 DEF LogGrows, EventOf
<1> QED
  BY <1>2 DEF EventOf

LEMMA EngineOrSignalStep ==
    ASSUME IInv, LogGrows, UNCHANGED <<seen, assignee, keys, outbox, aux, twice>>,
           UNCHANGED <<hook, cli>>, EngineOK', CacheOK', ReqOK', Prepared', OwnKey'
    PROVE  IInv'
<1>1. TypeOK'
  <2>1. LogOK'
    BY TypeParts DEF IInv, LogOK, LogGrows
  <2>2. TablesOK'
    BY TypeParts DEF IInv, TablesOK
  <2>3. HookOK' /\ CliOK'
    BY TypeParts DEF IInv, HookOK, CliOK
  <2> QED
    BY <2>1, <2>2, <2>3, TypePartsNext
<1>2. OnLog'
  <2>1. \A h \in Hooks : hook[h].at # "idle" =>
            hook[h].ev \in DOMAIN log' /\ Fires(EventOf(h))' = Fires(EventOf(h))
    BY DEF IInv, OnLog, LogGrows, EventOf, Fires
  <2> QED
    BY <2>1 DEF IInv, OnLog
<1>3. OwnClaim'
  <2>1. \A h \in Hooks : hook[h].claims => EventOf(h)'.corr = EventOf(h).corr
    BY ClaimKept
  <2> QED
    BY <2>1 DEF IInv, OwnClaim
<1>4. WorksOnKeys' /\ RecordLeft' /\ OutboxConserved' /\ HookWritesOnce'
  BY DEF IInv, WorksOnKeys, RecordLeft, Pending, OutboxConserved, HookWritesOnce
<1> QED
  BY <1>1, <1>2, <1>3, <1>4 DEF IInv

LEMMA DeliveryStep ==
    ASSUME IInv, UNCHANGED <<engineVars, dbVars, req, cli>>, HookOK', OnLog', OwnClaim'
    PROVE  IInv'
<1>1. TypeOK'
  <2>1. EngineOK' /\ LogOK' /\ CacheOK'
    BY TypeParts DEF IInv, EngineOK, LogOK, CacheOK, engineVars, dbVars
  <2>2. TablesOK' /\ ReqOK' /\ CliOK'
    BY TypeParts DEF IInv, TablesOK, ReqOK, CliOK, dbVars
  <2> QED
    BY <2>1, <2>2, TypePartsNext
<1>2. Prepared' /\ OwnKey'
  BY DEF IInv, Prepared, OwnKey, InTransaction, dbVars
<1>3. WorksOnKeys' /\ RecordLeft' /\ OutboxConserved' /\ HookWritesOnce'
  BY DEF IInv, WorksOnKeys, RecordLeft, Pending, OutboxConserved, HookWritesOnce, dbVars
<1> QED
  BY <1>1, <1>2, <1>3 DEF IInv

\* reconcile-aux may take on rows of the outbox, and may add to what it
\* deletes only a row no delivery claims.
LEMMA ReconcileOnly ==
    ASSUME IInv, UNCHANGED <<engineVars, dbVars, req, hook>>, CliOK',
           Pending' \subseteq Pending \cup outbox,
           cli'.at = "delete" => cli'.row \in Calls,
           \A c \in cli'.done \ cli.done : ~Claimed(c)
    PROVE  IInv'
<1>1. TypeOK'
  <2>1. EngineOK' /\ LogOK' /\ CacheOK'
    BY TypeParts DEF IInv, EngineOK, LogOK, CacheOK, engineVars, dbVars
  <2>2. TablesOK' /\ ReqOK' /\ HookOK'
    BY TypeParts DEF IInv, TablesOK, ReqOK, HookOK, dbVars
  <2> QED
    BY <2>1, <2>2, TypePartsNext
<1>2. OnLog' /\ Prepared' /\ OwnKey'
  BY DEF IInv, OnLog, Prepared, OwnKey, InTransaction, EventOf, dbVars, engineVars
<1>3. OwnClaim'
  BY DEF IInv, OwnClaim, EventOf, Claimed, engineVars, dbVars
<1>4. WorksOnKeys' /\ RecordLeft' /\ OutboxConserved' /\ HookWritesOnce'
  <2>1. OutboxConserved' /\ HookWritesOnce'
    BY DEF IInv, OutboxConserved, HookWritesOnce, dbVars
  <2>2. WorksOnKeys'
    BY DEF IInv, WorksOnKeys, OutboxConserved, dbVars
  <2>3. RecordLeft'
    BY DEF IInv, RecordLeft, dbVars
  <2> QED
    BY <2>1, <2>2, <2>3
<1> QED
  BY <1>1, <1>2, <1>3, <1>4 DEF IInv

-----------------------------------------------------------------------------
(* The engine and the signals *)

LEMMA EngineKeeps ==
    ASSUME IInv,
           \/ \E x \in Rows : EngineMoves(x)
           \/ RegisterWorkItem
           \/ \E t \in Tasks : ProposeTask(t)
    PROVE  IInv'
<1>1. EngineOK /\ LogOK /\ CacheOK /\ ReqOK
  BY TypeParts DEF IInv
<1>2. CASE \E x \in Rows : EngineMoves(x)
  <2>1. PICK x \in Rows, to \in TaskStatus \cup ItemStatus : Transition(x, to, NoCall)
    BY <1>2 DEF EngineMoves
  <2>2. LogGrows /\ EngineOK'
    BY <1>1, <2>1, TransitionGrows
  <2>3. UNCHANGED <<seen, cache, assignee, keys, outbox, aux, twice>>
        /\ UNCHANGED <<req, hook, cli>>
    BY <1>2 DEF EngineMoves, dbVars
  <2>4. CacheOK' /\ ReqOK' /\ Prepared' /\ OwnKey'
    BY <1>1, <2>3 DEF CacheOK, ReqOK, IInv, Prepared, OwnKey, InTransaction
  <2> QED
    BY <2>2, <2>3, <2>4, EngineOrSignalStep
<1>3. CASE RegisterWorkItem \/ \E t \in Tasks : ProposeTask(t)
  <2>1. LogGrows
    BY <1>1, <1>3 DEF RegisterWorkItem, ProposeTask, LogGrows, LogOK
  <2>2. EngineOK'
    BY <1>1, <1>3 DEF RegisterWorkItem, ProposeTask, EngineOK, Status, TaskStatus,
                      ItemStatus
  <2>3. CacheOK'
    BY <1>1, <1>3, ItemAssumption
    DEF RegisterWorkItem, ProposeTask, CacheOK, Rows, TaskStatus, dbVars
  <2>4. UNCHANGED <<seen, assignee, keys, outbox, aux, twice>>
        /\ UNCHANGED <<req, hook, cli>>
    BY <1>3 DEF RegisterWorkItem, ProposeTask, dbVars
  <2>5. ReqOK' /\ Prepared' /\ OwnKey'
    BY <1>1, <2>4 DEF ReqOK, IInv, Prepared, OwnKey, InTransaction
  <2> QED
    BY <2>1, <2>2, <2>3, <2>4, <2>5, EngineOrSignalStep
<1> QED
  BY <1>2, <1>3

\* A step of one transaction: it starts with a key of its own, goes on with
\* its key, or ends.
LEMMA OneTransaction ==
    ASSUME IInv, NEW r \in Requests, NEW v \in ReqRecord, req' = [req EXCEPT ![r] = v],
           LogGrows, EngineOK', UNCHANGED <<dbVars, hook, cli>>,
           v.at = "mirror" => v.hops # <<>>,
           v.at = "commit" /\ Derives(v.call) => v.sees \in ItemStatus,
           v.at # "idle" =>
               \/ InTransaction(r) /\ v.call = req[r].call
               \/ v.call \in Calls \ keys /\ ~KeyHeld(v.call)
    PROVE  IInv'
<1>1. CacheOK /\ req \in [Requests -> ReqRecord]
  BY TypeParts DEF IInv, ReqOK
<1>2. ReqOK' /\ req'[r] = v /\ \A q \in Requests : q # r => req'[q] = req[q]
  BY <1>1 DEF ReqOK
<1>3. Prepared'
  BY <1>2 DEF IInv, Prepared
<1>4. keys' = keys
  BY DEF dbVars
<1>5. ASSUME NEW q \in Requests, InTransaction(q)'
      PROVE  \/ InTransaction(q) /\ req'[q].call = req[q].call
             \/ q = r /\ req'[q].call \in Calls \ keys /\ ~KeyHeld(req'[q].call)
  BY <1>2, <1>5 DEF InTransaction
<1>6. ASSUME NEW q \in Requests, NEW p \in Requests, q # p,
             InTransaction(q)', InTransaction(p)'
      PROVE  req'[q].call # req'[p].call
  BY <1>5, <1>6 DEF IInv, OwnKey, KeyHeld
<1>7. ASSUME NEW q \in Requests, InTransaction(q)'
      PROVE  req'[q].call \in Calls \ keys'
  BY <1>4, <1>5, <1>7 DEF IInv, OwnKey
<1>8. OwnKey'
  BY <1>6, <1>7 DEF OwnKey
<1>9. CacheOK' /\ UNCHANGED <<seen, assignee, keys, outbox, aux, twice>>
      /\ UNCHANGED <<hook, cli>>
  BY <1>1 DEF CacheOK, dbVars
<1> QED
  BY <1>2, <1>3, <1>8, <1>9, EngineOrSignalStep

LEMMA SameLog == ASSUME LogOK, log' = log PROVE LogGrows
  BY DEF LogOK, LogGrows

LEMMA IdleReqIsReq == IdleReq \in ReqRecord /\ IdleReq.at = "idle"
<1>1. <<>> \in Seq(Status)
  OBVIOUS
<1> QED
  BY <1>1 DEF IdleReq, ReqRecord, ItemSeen

LEMMA ReceiveKeeps ==
    ASSUME IInv, NEW r \in Requests, NEW c, NEW inline \in BOOLEAN, Receive(r, c, inline)
    PROVE  IInv'
<1> DEFINE v == [IdleReq EXCEPT !.at = "row", !.call = c, !.inline = inline]
<1>1. v \in ReqRecord /\ v.at = "row" /\ v.call = c
  BY IdleReqIsReq DEF Receive, ReqRecord, IdleReq
<1>2. LogGrows /\ EngineOK'
  BY TypeParts, SameLog DEF IInv, Receive, engineVars, EngineOK
<1>3. req' = [req EXCEPT ![r] = v] /\ UNCHANGED <<dbVars, hook, cli>>
      /\ c \in Calls \ keys /\ ~KeyHeld(c)
  BY DEF Receive
<1> HIDE DEF v
<1> QED
  BY <1>1, <1>2, <1>3, OneTransaction

LEMMA RollbackKeeps ==
    ASSUME IInv, NEW r \in Requests, InTransaction(r), Rollback(r),
           UNCHANGED <<engine, dbVars, hook, cli>>
    PROVE  IInv'
<1>1. LogGrows
  BY TypeParts, ForgottenGrows DEF IInv, OwnKey, Rollback
<1>2. EngineOK'
  BY TypeParts DEF IInv, EngineOK
<1>3. req' = [req EXCEPT ![r] = IdleReq]
  BY DEF Rollback
<1> QED
  BY <1>1, <1>2, <1>3, IdleReqIsReq, OneTransaction

LEMMA HopsStatus ==
    ASSUME NEW c \in Calls
    PROVE  Hops(c) \in Seq(Status)
<1>1. Target(c) \in Status
  BY CallTarget
<1>2. <<>> \in Seq(Status) /\ <<Target(c)>> \in Seq(Status)
      /\ <<"approved", "assigning">> \in Seq(Status)
  BY <1>1 DEF Status, TaskStatus
<1> QED
  BY <1>2 DEF Hops

LEMMA LockRowKeeps ==
    ASSUME IInv, NEW r \in Requests, LockRow(r)
    PROVE  IInv'
<1>1. InTransaction(r) /\ req[r].call \in Calls /\ req[r] \in ReqRecord
  BY TypeParts DEF IInv, OwnKey, LockRow, InTransaction, ReqOK
<1>2. UNCHANGED <<engine, dbVars, hook, cli>>
  BY DEF LockRow
<1>3. CASE Rollback(r)
  BY <1>1, <1>2, <1>3, RollbackKeeps
<1>4. CASE ~Rollback(r)
  <2>1. PICK a \in {"mirror", "item", "commit"}, h \in Seq(Status) :
            /\ req' = [req EXCEPT ![r].at = a, ![r].hops = h]
            /\ a = "mirror" => h # <<>>
            /\ a = "commit" => ~Derives(req[r].call)
    <3>1. Hops(req[r].call) \in Seq(Status) /\ <<>> \in Seq(Status)
      BY <1>1, HopsStatus
    <3> DEFINE silent == \/ req[r].inline \/ engine[req[r].call.on] = "absent"
                         \/ Hops(req[r].call) = <<>>
    <3>2. req' = [req EXCEPT ![r].at = IF silent THEN AfterMirror(req[r].call)
                                       ELSE "mirror",
                             ![r].hops = IF silent THEN <<>> ELSE Hops(req[r].call)]
      BY <1>4 DEF LockRow
    <3>3. CASE silent
      BY <3>1, <3>2, <3>3 DEF AfterMirror
    <3>4. CASE ~silent
      BY <3>1, <3>2, <3>4
    <3> QED
      BY <3>3, <3>4
  <2> DEFINE v == [req[r] EXCEPT !.at = a, !.hops = h]
  <2>2. v \in ReqRecord /\ v.at = a /\ v.hops = h /\ v.call = req[r].call
    BY <1>1 DEF ReqRecord
  <2>3. req' = [req EXCEPT ![r] = v]
    BY <2>1
  <2>4. LogGrows /\ EngineOK'
    BY <1>2, <1>4, TypeParts, SameLog DEF IInv, LockRow, EngineOK
  <2> HIDE DEF v
  <2> QED
    BY <1>1, <1>2, <2>1, <2>2, <2>3, <2>4, OneTransaction
<1> QED
  BY <1>3, <1>4

LEMMA TailHops ==
    ASSUME NEW s \in Seq(Status), s # <<>>
    PROVE  /\ Tail(s) \in Seq(Status) /\ Head(s) \in Status
           /\ Len(s) # 1 => Tail(s) # <<>>
<1>1. Len(s) \in Nat /\ Len(s) # 0
  OBVIOUS
<1>2. Tail(s) \in Seq(Status) /\ Len(Tail(s)) = Len(s) - 1 /\ Head(s) \in Status
  BY <1>1
<1> QED
  BY <1>1, <1>2

LEMMA MirrorKeeps ==
    ASSUME IInv, NEW r \in Requests, MirrorToEngine(r)
    PROVE  IInv'
<1>1. InTransaction(r) /\ req[r].call \in Calls /\ req[r] \in ReqRecord
      /\ req[r].hops \in Seq(Status) /\ req[r].hops # <<>>
  BY TypeParts DEF IInv, OwnKey, Prepared, MirrorToEngine, InTransaction, ReqOK, ReqRecord
<1>2. LogGrows /\ EngineOK'
  <2>1. CASE Transition(req[r].call.on, Head(req[r].hops), req[r].call)
    BY <1>1, <2>1, TypeParts, CallTarget, TransitionGrows DEF IInv
  <2>2. CASE UNCHANGED engineVars
    BY <2>2, TypeParts, SameLog DEF IInv, engineVars, EngineOK
  <2> QED
    BY <2>1, <2>2 DEF MirrorToEngine
<1>3. UNCHANGED <<dbVars, hook, cli>>
  BY DEF MirrorToEngine
<1>4. PICK a \in {"mirror", "item", "commit"} :
          /\ req' = [req EXCEPT ![r].hops = Tail(req[r].hops), ![r].at = a]
          /\ a = "mirror" => Len(req[r].hops) # 1
          /\ a = "commit" => ~Derives(req[r].call)
  BY DEF MirrorToEngine, AfterMirror
<1> DEFINE v == [req[r] EXCEPT !.hops = Tail(req[r].hops), !.at = a]
<1>5. v \in ReqRecord /\ v.at = a /\ v.call = req[r].call
      /\ (v.at = "mirror" => v.hops # <<>>)
  BY <1>1, <1>4, TailHops DEF ReqRecord
<1>6. req' = [req EXCEPT ![r] = v]
  BY <1>4
<1> HIDE DEF v
<1> QED
  BY <1>1, <1>2, <1>3, <1>4, <1>5, <1>6, OneTransaction

LEMMA DerivationKeeps ==
    ASSUME IInv, NEW r \in Requests, LockItemForDerivation(r)
    PROVE  IInv'
<1>1. InTransaction(r) /\ req[r] \in ReqRecord /\ cache[Item] \in ItemStatus
  BY TypeParts DEF IInv, OwnKey, LockItemForDerivation, InTransaction, ReqOK, CacheOK
<1>2. PICK s \in ItemStatus :
          /\ Transition(Item, s, NoCall) \/ UNCHANGED engineVars
          /\ req' = [req EXCEPT ![r].at = "commit", ![r].sees = s]
  BY <1>1, DerivedInItem DEF LockItemForDerivation
<1>3. LogGrows /\ EngineOK'
  <2>1. CASE Transition(Item, s, NoCall)
    BY <2>1, TypeParts, TransitionGrows DEF IInv, Rows
  <2>2. CASE UNCHANGED engineVars
    BY <2>2, TypeParts, SameLog DEF IInv, engineVars, EngineOK
  <2> QED
    BY <1>2, <2>1, <2>2
<1> DEFINE v == [req[r] EXCEPT !.at = "commit", !.sees = s]
<1>4. v \in ReqRecord /\ v.at = "commit" /\ v.call = req[r].call /\ v.sees = s
  BY <1>1 DEF ReqRecord, ItemSeen
<1>5. req' = [req EXCEPT ![r] = v]
  BY <1>2
<1>6. UNCHANGED <<dbVars, hook, cli>>
  BY DEF LockItemForDerivation
<1> HIDE DEF v
<1> QED
  BY <1>1, <1>3, <1>4, <1>5, <1>6, OneTransaction

LEMMA AbortSignalKeeps ==
    ASSUME IInv, NEW r \in Requests, AbortSignal(r)
    PROVE  IInv'
  BY RollbackKeeps DEF AbortSignal

LEMMA CommitSignalKeeps ==
    ASSUME IInv, NEW r \in Requests, CommitSignal(r), NEW c, c = req[r].call
    PROVE  IInv'
<1>1. /\ EngineOK /\ LogOK /\ CacheOK /\ TablesOK /\ HookOK /\ CliOK
      /\ req \in [Requests -> ReqRecord]
  BY TypeParts DEF IInv, ReqOK
<1>2. c \in Calls \ keys /\ InTransaction(r)
  BY DEF IInv, OwnKey, InTransaction, CommitSignal
<1>3. /\ keys' = keys \cup {c} /\ outbox \subseteq outbox'
      /\ outbox' \subseteq outbox \cup {c}
      /\ aux' \in {aux, aux \cup {<<c, "inline">>}}
      /\ req' = [req EXCEPT ![r] = IdleReq]
      /\ UNCHANGED <<engine, log, seen, twice, hook, cli>>
  BY DEF CommitSignal, engineVars
<1>4. ReqOK' /\ Prepared' /\ OwnKey'
  <2>1. /\ req' \in [Requests -> ReqRecord] /\ req'[r].at = "idle"
        /\ \A q \in Requests : q # r => req'[q] = req[q]
    BY <1>1, <1>3, IdleReqIsReq
  <2>2. ReqOK' /\ Prepared'
    BY <2>1 DEF ReqOK, IInv, Prepared
  <2>3. ASSUME NEW q \in Requests, InTransaction(q)'
        PROVE  InTransaction(q) /\ q # r /\ req'[q].call = req[q].call
    BY <2>1, <2>3 DEF InTransaction
  <2>4. ASSUME NEW q \in Requests, InTransaction(q)'
        PROVE  req'[q].call \in Calls \ keys'
    BY <1>2, <1>3, <2>3, <2>4 DEF IInv, OwnKey
  <2>5. ASSUME NEW q \in Requests, NEW p \in Requests, q # p, InTransaction(q)',
               InTransaction(p)'
        PROVE  req'[q].call # req'[p].call
    BY <2>3, <2>5 DEF IInv, OwnKey
  <2>6. OwnKey'
    BY <2>4, <2>5 DEF OwnKey
  <2> QED
    BY <2>2, <2>6
<1>5. TypeOK'
  <2>1. CacheOK'
    <3>1. c.on \in Tasks => Target(c) \in TaskStatus
      BY <1>2, CallTarget
    <3>2. c.on \notin Tasks => Target(c) \in ItemStatus
      BY <1>2, CallTarget
    <3>3. Derives(c) => req[r].sees \in ItemStatus
      BY DEF IInv, Prepared, CommitSignal
    <3>4. cache' = [x \in Rows |-> CASE req[r].inline /\ x = c.on -> Target(c)
                                     [] Derives(c) /\ x = Item    -> req[r].sees
                                     [] OTHER                     -> cache[x]]
      BY DEF CommitSignal
    <3>5. \A t \in Tasks : cache'[t] \in TaskStatus \cup {"absent"}
      BY <1>1, <3>1, <3>4, ItemAssumption DEF CacheOK, Rows
    <3>6. cache'[Item] \in ItemStatus
      BY <1>1, <3>2, <3>3, <3>4, ItemAssumption DEF CacheOK, Rows
    <3> QED
      BY <3>4, <3>5, <3>6 DEF CacheOK
  <2>2. TablesOK'
    <3>1. assignee' \in [Tasks -> Assignees \cup {"none"}]
      BY <1>1 DEF CommitSignal, TablesOK
    <3>2. <<c, "inline">> \in Calls \X Writers
      BY <1>2 DEF Writers
    <3> QED
      BY <1>1, <1>2, <1>3, <3>1, <3>2 DEF TablesOK
  <2>3. EngineOK' /\ LogOK' /\ HookOK' /\ CliOK'
    BY <1>1, <1>3 DEF EngineOK, LogOK, HookOK, CliOK
  <2> QED
    BY <1>4, <2>1, <2>2, <2>3, TypePartsNext
<1>6. OnLog' /\ OwnClaim'
  BY <1>3 DEF IInv, OnLog, OwnClaim, EventOf
<1>7. WorksOnKeys' /\ RecordLeft' /\ HookWritesOnce'
  <2>1. WorksOnKeys' /\ HookWritesOnce'
    BY <1>3 DEF IInv, WorksOnKeys, Pending, HookWritesOnce
  <2>2. ASSUME NEW d \in Calls, NEW w, <<d, w>> \in aux', w # "inline"
        PROVE  <<d, w>> \in aux /\ d # c
    BY <1>2, <1>3, <2>2 DEF IInv, OutboxConserved
  <2>3. RecordLeft'
    BY <1>3, <2>2 DEF IInv, RecordLeft, Pending
  <2> QED
    BY <2>1, <2>3
<1>8. OutboxConserved'
  <2>1. c.sig \in AuxSignals => c \in outbox' \/ <<c, "inline">> \in aux'
    BY DEF CommitSignal
  <2>2. aux \subseteq aux' /\ \A x \in aux' : x \in aux \/ x[1] = c
    BY <1>3
  <2>3. \A d \in keys' : d.sig \in AuxSignals =>
            d \in outbox' \/ \E w \in Writers : <<d, w>> \in aux'
    BY <1>3, <2>1, <2>2 DEF IInv, OutboxConserved, Writers
  <2>4. outbox' \subseteq keys' /\ \A x \in aux' : x[1] \in keys'
    BY <1>3, <2>2 DEF IInv, OutboxConserved
  <2> QED
    BY <2>3, <2>4 DEF OutboxConserved
<1> QED
  BY <1>4, <1>5, <1>6, <1>7, <1>8 DEF IInv

-----------------------------------------------------------------------------
(* The reactor *)

\* A step of one delivery that writes nothing.
LEMMA OneDelivery ==
    ASSUME IInv, NEW h \in Hooks, NEW v \in HookRecord, hook' = [hook EXCEPT ![h] = v],
           UNCHANGED <<engineVars, dbVars, req, cli>>,
           v.at # "idle" => v.ev \in DOMAIN log,
           v.at = "commit" /\ Fires(log[v.ev]) # "none" => v.sees \in ItemStatus,
           v.claims => /\ v.at # "idle" /\ v.ev = hook[h].ev
                       /\ \/ hook[h].claims
                          \/ /\ EventOf(h).corr \in outbox \ cli.done
                             /\ ~Claimed(EventOf(h).corr)
    PROVE  IInv'
<1>1. hook \in [Hooks -> HookRecord]
  BY TypeParts DEF IInv, HookOK
<1>2. HookOK' /\ hook'[h] = v /\ \A g \in Hooks : g # h => hook'[g] = hook[g]
  BY <1>1 DEF HookOK
<1>3. log' = log /\ outbox' = outbox /\ cli' = cli
  BY DEF engineVars, dbVars
<1>4. OnLog'
  BY <1>2, <1>3 DEF IInv, OnLog, EventOf
<1>5. \A g \in Hooks : hook'[g].claims =>
          /\ hook'[g].at # "idle" /\ EventOf(g)' = EventOf(g)
          /\ \/ hook[g].claims
             \/ /\ g = h /\ EventOf(h).corr \in outbox \ cli.done
                /\ ~Claimed(EventOf(h).corr)
  BY <1>2, <1>3 DEF IInv, OwnClaim, EventOf
<1>6. OwnClaim'
  BY <1>3, <1>5 DEF IInv, OwnClaim, Claimed
<1> QED
  BY <1>2, <1>4, <1>6, DeliveryStep

LEMMA IdleHookIsHook ==
    /\ IdleHook \in HookRecord /\ IdleHook.at = "idle" /\ ~IdleHook.claims
    /\ \A i \in Nat : LET v == [IdleHook EXCEPT !.at = "aux", !.ev = i]
                      IN v \in HookRecord /\ v.at = "aux" /\ v.ev = i /\ ~v.claims
  BY DEF IdleHook, HookRecord, ItemSeen

LEMMA EndOfDelivery ==
    ASSUME IInv, NEW h \in Hooks, hook' = [hook EXCEPT ![h] = IdleHook],
           UNCHANGED <<engineVars, dbVars, req, cli>>
    PROVE  IInv'
  BY IdleHookIsHook, OneDelivery

LEMMA DeliverKeeps ==
    ASSUME IInv, NEW h \in Hooks, NEW i \in DOMAIN log, Deliver(h, i)
    PROVE  IInv'
<1> DEFINE v == [IdleHook EXCEPT !.at = "aux", !.ev = i]
<1>1. i \in Nat
  BY TypeParts DEF IInv, LogOK
<1>2. v \in HookRecord /\ v.at = "aux" /\ v.ev = i /\ ~v.claims
  BY <1>1, IdleHookIsHook
<1>3. hook' = [hook EXCEPT ![h] = v] /\ UNCHANGED <<engineVars, dbVars, req, cli>>
  BY DEF Deliver
<1> HIDE DEF v
<1> QED
  BY <1>2, <1>3, OneDelivery

\* A delivery goes on with the transition it has.
LEMMA DeliveryGoesOn ==
    ASSUME IInv, NEW h \in Hooks, NEW v \in HookRecord, hook' = [hook EXCEPT ![h] = v],
           UNCHANGED <<engineVars, dbVars, req, cli>>,
           hook[h].at # "idle", v.at # "idle", v.ev = hook[h].ev,
           v.at = "commit" /\ Fires(EventOf(h)) # "none" => v.sees \in ItemStatus,
           v.claims => \/ hook[h].claims
                       \/ /\ EventOf(h).corr \in outbox \ cli.done
                          /\ ~Claimed(EventOf(h).corr)
    PROVE  IInv'
<1>1. v.ev \in DOMAIN log /\ EventOf(h) = log[v.ev]
  BY DEF IInv, OnLog, EventOf
<1> QED
  BY <1>1, OneDelivery

LEMMA MaterializeAuxKeeps ==
    ASSUME IInv, NEW h \in Hooks, MaterializeAux(h)
    PROVE  IInv'
<1>1. hook[h] \in HookRecord /\ hook[h].at = "aux"
  BY TypeParts DEF IInv, HookOK, MaterializeAux, HookStands
<1>2. PICK f \in BOOLEAN, a \in {"insert", "cache"} :
          /\ hook' = [hook EXCEPT ![h].claims = f, ![h].at = a]
          /\ f => /\ EventOf(h).corr \in outbox \ cli.done
                  /\ ~Claimed(EventOf(h).corr)
  BY DEF MaterializeAux
<1> DEFINE v == [hook[h] EXCEPT !.claims = f, !.at = a]
<1>3. v \in HookRecord /\ v.at = a /\ v.ev = hook[h].ev /\ v.claims = f
  BY <1>1 DEF HookRecord
<1>4. hook' = [hook EXCEPT ![h] = v] /\ UNCHANGED <<engineVars, dbVars, req, cli>>
  BY <1>2 DEF MaterializeAux, HookStands
<1> HIDE DEF v
<1> QED
  BY <1>1, <1>2, <1>3, <1>4, DeliveryGoesOn

LEMMA InsertAuxKeeps ==
    ASSUME IInv, NEW h \in Hooks, InsertAux(h)
    PROVE  IInv'
<1>1. hook[h] \in HookRecord /\ hook[h].at = "insert"
      /\ UNCHANGED <<engineVars, dbVars, req, cli>>
  BY TypeParts DEF IInv, HookOK, InsertAux, HookStands
<1>2. CASE hook' = [hook EXCEPT ![h] = IdleHook]
  BY <1>1, <1>2, EndOfDelivery
<1>3. CASE hook' = [hook EXCEPT ![h].at = "cache"]
  <2> DEFINE v == [hook[h] EXCEPT !.at = "cache"]
  <2>1. v \in HookRecord /\ v.at = "cache" /\ v.ev = hook[h].ev
        /\ v.claims = hook[h].claims
    BY <1>1 DEF HookRecord
  <2>2. hook' = [hook EXCEPT ![h] = v]
    BY <1>3
  <2> HIDE DEF v
  <2> QED
    BY <1>1, <2>1, <2>2, DeliveryGoesOn
<1> QED
  BY <1>2, <1>3 DEF InsertAux

LEMMA UpdateStatusCacheKeeps ==
    ASSUME IInv, NEW h \in Hooks, UpdateStatusCache(h)
    PROVE  IInv'
<1>1. hook[h] \in HookRecord /\ hook[h].at = "cache"
      /\ UNCHANGED <<engineVars, dbVars, req, cli>>
  BY TypeParts DEF IInv, HookOK, UpdateStatusCache, HookStands
<1>2. AfterCache(h) \in {"commit", "item"}
      /\ (AfterCache(h) = "commit" => Fires(EventOf(h)) = "none")
  BY DEF AfterCache
<1>3. PICK w \in BOOLEAN :
          hook' = [hook EXCEPT ![h] = [hook[h] EXCEPT !.at = AfterCache(h), !.writes = w]]
  <2>1. CASE hook' = [hook EXCEPT ![h].at = AfterCache(h)]
    <3>1. [hook[h] EXCEPT !.at = AfterCache(h)]
          = [hook[h] EXCEPT !.at = AfterCache(h), !.writes = hook[h].writes]
          /\ hook[h].writes \in BOOLEAN
      BY <1>1 DEF HookRecord
    <3> QED
      BY <2>1, <3>1
  <2>2. CASE hook' = [hook EXCEPT ![h].at = AfterCache(h), ![h].writes = TRUE]
    BY <2>2
  <2> QED
    BY <2>1, <2>2 DEF UpdateStatusCache
<1> DEFINE v == [hook[h] EXCEPT !.at = AfterCache(h), !.writes = w]
<1>4. v \in HookRecord /\ v.at = AfterCache(h) /\ v.ev = hook[h].ev
      /\ v.claims = hook[h].claims
  BY <1>1, <1>2 DEF HookRecord
<1>5. hook' = [hook EXCEPT ![h] = v]
  BY <1>3
<1> HIDE DEF v
<1> QED
  BY <1>1, <1>2, <1>4, <1>5, DeliveryGoesOn

LEMMA HandleTaskTransitionKeeps ==
    ASSUME IInv, NEW h \in Hooks, HandleTaskTransition(h)
    PROVE  IInv'
<1>1. hook[h] \in HookRecord /\ hook[h].at = "item" /\ cache[Item] \in ItemStatus
      /\ UNCHANGED <<engineVars, dbVars, req, cli>>
  BY TypeParts DEF IInv, HookOK, CacheOK, HandleTaskTransition, HookStands
<1>2. PICK s \in ItemStatus : hook' = [hook EXCEPT ![h].at = "commit", ![h].sees = s]
  BY <1>1, DerivedInItem DEF HandleTaskTransition
<1> DEFINE v == [hook[h] EXCEPT !.at = "commit", !.sees = s]
<1>3. v \in HookRecord /\ v.at = "commit" /\ v.ev = hook[h].ev
      /\ v.claims = hook[h].claims /\ v.sees = s
  BY <1>1 DEF HookRecord, ItemSeen
<1>4. hook' = [hook EXCEPT ![h] = v]
  BY <1>2
<1> HIDE DEF v
<1> QED
  BY <1>1, <1>3, <1>4, DeliveryGoesOn

\* The record goes in and its outbox row goes out, in one commit; nobody
\* wrote it before, since the row was still there.
LEMMA CommitHookKeeps ==
    ASSUME IInv, NEW h \in Hooks, CommitHook(h), NEW e, e = EventOf(h), NEW c, c = e.corr
    PROVE  IInv'
<1>1. /\ EngineOK /\ LogOK /\ CacheOK /\ TablesOK /\ ReqOK /\ CliOK
      /\ hook \in [Hooks -> HookRecord] /\ hook[h].ev \in DOMAIN log
  BY TypeParts DEF IInv, HookOK, OnLog, CommitHook
<1>2. e \in Event /\ (hook[h].claims => c \in outbox /\ c \in Calls \ cli.done)
  BY <1>1 DEF IInv, OwnClaim, EventOf, LogOK, TablesOK
<1> DEFINE records == IF hook[h].claims THEN {<<c, "reactor">>} ELSE {}
<1>3. /\ aux' = aux \cup records /\ twice' = twice \cup (records \cap aux)
      /\ outbox' = IF hook[h].claims THEN outbox \ {c} ELSE outbox
      /\ hook' = [hook EXCEPT ![h] = IdleHook]
      /\ UNCHANGED <<engine, log, keys, req, cli>>
  BY DEF CommitHook, engineVars
<1>4. records \cap aux = {}
  BY <1>2 DEF IInv, RecordLeft
<1>5. /\ hook' \in [Hooks -> HookRecord] /\ hook'[h].at = "idle" /\ ~hook'[h].claims
      /\ \A g \in Hooks : g # h => hook'[g] = hook[g]
  BY <1>1, <1>3, IdleHookIsHook
<1>6. TypeOK'
  <2>1. CacheOK'
    <3>1. cache' = [x \in Rows |-> CASE hook[h].writes /\ x = e.row   -> e.to
                                     [] Fires(e) # "none" /\ x = Item -> hook[h].sees
                                     [] OTHER                         -> cache[x]]
      BY DEF CommitHook
    <3>2. Fires(e) # "none" => hook[h].sees \in ItemStatus
      BY DEF IInv, OnLog, CommitHook
    <3>3. \A t \in Tasks : cache'[t] \in TaskStatus \cup {"absent"}
      BY <1>1, <1>2, <3>1, EventFields, ItemAssumption DEF CacheOK, Rows
    <3>4. cache'[Item] \in ItemStatus
      BY <1>1, <1>2, <3>1, <3>2, EventFields DEF CacheOK, Rows
    <3> QED
      BY <3>1, <3>3, <3>4 DEF CacheOK
  <2>2. TablesOK'
    <3>1. assignee' \in [Tasks -> Assignees \cup {"none"}]
      <4>1. CASE hook[h].claims /\ c.sig = "assign_task"
        BY <1>1, <1>2, <4>1, Assigning DEF CommitHook, TablesOK
      <4>2. CASE ~(hook[h].claims /\ c.sig = "assign_task")
        BY <1>1, <4>2 DEF CommitHook, TablesOK
      <4> QED
        BY <4>1, <4>2
    <3>2. records \subseteq Calls \X Writers
      BY <1>2 DEF Writers
    <3> QED
      BY <1>1, <1>3, <3>1, <3>2 DEF TablesOK
  <2>3. LogOK'
    BY <1>1, <1>3 DEF LogOK, CommitHook
  <2>4. EngineOK' /\ ReqOK' /\ HookOK' /\ CliOK'
    BY <1>1, <1>3, <1>5 DEF EngineOK, ReqOK, HookOK, CliOK
  <2> QED
    BY <2>1, <2>2, <2>3, <2>4, TypePartsNext
<1>7. OnLog' /\ Prepared' /\ OwnKey'
  <2>1. OnLog'
    BY <1>3, <1>5 DEF IInv, OnLog, EventOf
  <2>2. Prepared' /\ OwnKey'
    BY <1>3 DEF IInv, Prepared, OwnKey, InTransaction
  <2> QED
    BY <2>1, <2>2
<1>8. OwnClaim'
  <2>1. \A g \in Hooks : hook'[g].claims =>
            g # h /\ hook[g].claims /\ hook'[g].at = hook[g].at
            /\ EventOf(g)' = EventOf(g)
    BY <1>3, <1>5 DEF EventOf
  <2>2. \A g \in Hooks : g # h /\ hook[g].claims /\ hook[h].claims =>
            EventOf(g).corr # c
    BY DEF IInv, OwnClaim
  <2> QED
    BY <1>3, <2>1, <2>2 DEF IInv, OwnClaim
<1>9. WorksOnKeys' /\ RecordLeft' /\ HookWritesOnce'
  <2>1. WorksOnKeys' /\ HookWritesOnce'
    BY <1>3, <1>4 DEF IInv, WorksOnKeys, Pending, HookWritesOnce
  <2>2. RecordLeft'
    BY <1>3 DEF IInv, RecordLeft, Pending
  <2> QED
    BY <2>1, <2>2
<1>10. OutboxConserved'
  <2>1. aux \subseteq aux' /\ outbox' \subseteq outbox
    BY <1>3
  <2>2. \A d \in outbox : d \in outbox' \/ <<d, "reactor">> \in aux'
    BY <1>3
  <2>3. \A x \in aux' : x \in aux \/ x[1] \in outbox
    BY <1>2, <1>3
  <2>4. \A d \in keys' : d.sig \in AuxSignals =>
            d \in outbox' \/ \E w \in Writers : <<d, w>> \in aux'
    BY <1>3, <2>1, <2>2 DEF IInv, OutboxConserved, Writers
  <2> QED
    BY <1>3, <2>1, <2>3, <2>4 DEF IInv, OutboxConserved
<1> QED
  BY <1>6, <1>7, <1>8, <1>9, <1>10 DEF IInv

LEMMA HookKeeps ==
    ASSUME IInv, NEW h \in Hooks,
           \/ \E i \in DOMAIN log : Deliver(h, i)
           \/ HookStep(h) \/ AbortHook(h) \/ DeadlockDetected(h)
    PROVE  IInv'
<1>1. CASE AbortHook(h) \/ DeadlockDetected(h)
  BY <1>1, EndOfDelivery DEF AbortHook, DeadlockDetected
<1>2. CASE HookStep(h)
  BY <1>2, MaterializeAuxKeeps, InsertAuxKeeps, UpdateStatusCacheKeeps,
     HandleTaskTransitionKeeps, CommitHookKeeps DEF HookStep
<1> QED
  BY <1>1, <1>2, DeliverKeeps

-----------------------------------------------------------------------------
(* reconcile-aux *)

LEMMA ReconcileQuietKeeps ==
    ASSUME IInv,
           \/ ReconcileStart \/ ReconcileDelete \/ ReconcileFails \/ ReconcileCrash
           \/ \E c \in Calls : ReconcileSkip(c) \/ ReconcileInsert(c)
    PROVE  IInv'
<1>1. cli \in CliRecord /\ outbox \subseteq Calls /\ NoCall \notin Calls
  BY TypeParts, NoCallIsNone DEF IInv, CliOK, TablesOK
<1>2. UNCHANGED <<engineVars, dbVars, req, hook>>
  BY DEF ReconcileStart, ReconcileDelete, ReconcileFails, ReconcileCrash,
         ReconcileSkip, ReconcileInsert, CliStands
<1>3. CASE ReconcileStart \/ ReconcileFails \/ ReconcileCrash
  <2>1. cli'.at # "delete" /\ cli'.done = {} /\ cli'.row = NoCall
        /\ cli'.todo \subseteq outbox /\ cli' \in CliRecord
    <3>1. CASE ReconcileStart
      BY <1>1, <3>1 DEF ReconcileStart, IdleCli, CliRecord
    <3>2. CASE cli' = IdleCli
      BY <3>2 DEF IdleCli, CliRecord
    <3> QED
      BY <1>3, <3>1, <3>2 DEF ReconcileFails, ReconcileCrash
  <2> QED
    BY <1>2, <2>1, ReconcileOnly DEF Pending, CliOK
<1>4. CASE \E c \in Calls : ReconcileSkip(c) \/ ReconcileInsert(c)
  <2>1. PICK c \in cli.todo : ReconcileSkip(c) \/ ReconcileInsert(c)
    BY <1>4 DEF ReconcileSkip, ReconcileInsert
  <2>2. PICK a \in {"rows", "broken", "delete"}, y \in Calls \cup {NoCall} :
            /\ cli' = [cli EXCEPT !.todo = @ \ {c}, !.at = a, !.row = y]
            /\ y \in {cli.row, c} /\ (a = "delete" => y = c)
    <3>1. CASE cli' = [cli EXCEPT !.todo = @ \ {c}]
      <4>1. cli.at = "rows" /\ cli.row \in Calls \cup {NoCall}
        BY <1>1, <2>1 DEF CliRecord, ReconcileSkip, ReconcileInsert, CliStands
      <4>2. cli' = [cli EXCEPT !.todo = @ \ {c}, !.at = "rows", !.row = cli.row]
        BY <1>1, <3>1, <4>1 DEF CliRecord
      <4> QED
        BY <4>1, <4>2
    <3>2. CASE cli' = [cli EXCEPT !.todo = @ \ {c}, !.at = "broken"]
      <4>1. cli' = [cli EXCEPT !.todo = @ \ {c}, !.at = "broken", !.row = cli.row]
            /\ cli.row \in Calls \cup {NoCall}
        BY <1>1, <3>2 DEF CliRecord
      <4> QED
        BY <4>1
    <3>3. CASE cli' = [cli EXCEPT !.todo = @ \ {c}, !.at = "delete", !.row = c]
      BY <1>1, <3>3 DEF CliRecord
    <3> QED
      BY <2>1, <3>1, <3>2, <3>3 DEF ReconcileSkip, ReconcileInsert
  <2>3. c \in Calls /\ c \in Pending
    BY <1>1 DEF Pending, CliRecord
  <2>4. cli' \in CliRecord /\ cli'.done = cli.done /\ cli'.row = y /\ cli'.at = a
        /\ cli'.todo = cli.todo \ {c}
    BY <1>1, <2>2 DEF CliRecord
  <2>5. Pending' \subseteq Pending
    BY <2>2, <2>3, <2>4 DEF Pending
  <2> QED
    BY <1>2, <2>2, <2>3, <2>4, <2>5, ReconcileOnly DEF CliOK
<1>5. CASE ReconcileDelete
  <2>1. cli.row \in Calls /\ ~Claimed(cli.row)
    BY <1>5 DEF IInv, WorksOnKeys, ReconcileDelete, CliStands
  <2>2. cli' \in CliRecord /\ cli'.at = "rows" /\ cli'.row = NoCall
        /\ cli'.done = cli.done \cup {cli.row} /\ cli'.todo = cli.todo
    BY <1>1, <1>5, <2>1 DEF ReconcileDelete, CliRecord
  <2>3. Pending' \subseteq Pending
    BY <1>1, <2>1, <2>2 DEF Pending
  <2> QED
    BY <1>2, <2>1, <2>2, <2>3, ReconcileOnly DEF CliOK
<1> QED
  BY <1>3, <1>4, <1>5

LEMMA ReconcileCommitKeeps ==
    ASSUME IInv, ReconcileCommit
    PROVE  IInv'
<1>1. /\ EngineOK /\ LogOK /\ CacheOK /\ TablesOK /\ ReqOK /\ HookOK
      /\ cli \in CliRecord
  BY TypeParts DEF IInv, CliOK
<1> DEFINE records == cli.done \X {"cli"}
<1>2. /\ outbox' = outbox \ cli.done /\ aux' = aux \cup records
      /\ twice' = twice \cup (records \cap aux) /\ cli' = IdleCli
      /\ UNCHANGED <<engine, log, seen, cache, keys, req, hook>>
  BY DEF ReconcileCommit, Drained, CliStands, engineVars
<1>3. cli.done \subseteq Calls /\ cli.done \subseteq Pending
  BY <1>1, NoCallIsNone DEF CliRecord, Pending
<1>4. records \cap aux = {}
  <2>1. ASSUME NEW d \in cli.done, <<d, "cli">> \in aux
        PROVE  FALSE
    BY <1>3, <2>1 DEF IInv, RecordLeft
  <2> QED
    BY <2>1
<1>5. cli' \in CliRecord /\ Pending' = {} /\ cli'.done = {} /\ cli'.at = "idle"
  BY <1>2 DEF IdleCli, CliRecord, Pending
<1>6. TypeOK'
  <2>1. TablesOK'
    <3>1. assignee' \in [Tasks -> Assignees \cup {"none"}]
      <4>1. assignee' = [t \in Tasks |->
                           IF CliAssigns(t)
                           THEN CHOOSE a \in Assignees :
                                    Call("assign_task", t, "admin", a) \in cli.done
                           ELSE assignee[t]]
        BY DEF ReconcileCommit
      <4>2. ASSUME NEW t \in Tasks, CliAssigns(t)
            PROVE  (CHOOSE a \in Assignees :
                        Call("assign_task", t, "admin", a) \in cli.done) \in Assignees
        <5>1. \E a \in Assignees : Call("assign_task", t, "admin", a) \in cli.done
          BY <4>2 DEF CliAssigns, CliInserted, ReconcileCommit, CliStands
        <5> QED
          BY <5>1
      <4> QED
        BY <1>1, <4>1, <4>2 DEF TablesOK
    <3>2. records \subseteq Calls \X Writers
      BY <1>3 DEF Writers
    <3> QED
      BY <1>1, <1>2, <3>1, <3>2 DEF TablesOK
  <2>2. EngineOK' /\ LogOK' /\ CacheOK'
    BY <1>1, <1>2 DEF EngineOK, LogOK, CacheOK
  <2>3. ReqOK' /\ HookOK' /\ CliOK'
    BY <1>1, <1>2, <1>5 DEF ReqOK, HookOK, CliOK
  <2> QED
    BY <2>1, <2>2, <2>3, TypePartsNext
<1>7. OnLog' /\ Prepared' /\ OwnKey'
  BY <1>2 DEF IInv, OnLog, Prepared, OwnKey, InTransaction, EventOf
<1>8. OwnClaim'
  BY <1>2, <1>5 DEF IInv, OwnClaim, EventOf
<1>9. WorksOnKeys' /\ RecordLeft' /\ HookWritesOnce'
  <2>1. WorksOnKeys' /\ HookWritesOnce'
    BY <1>2, <1>4, <1>5 DEF IInv, WorksOnKeys, HookWritesOnce
  <2>2. RecordLeft'
    BY <1>2, <1>5 DEF IInv, RecordLeft
  <2> QED
    BY <2>1, <2>2
<1>10. OutboxConserved'
  <2>1. aux \subseteq aux' /\ outbox' \subseteq outbox /\ keys' = keys
    BY <1>2
  <2>2. \A d \in outbox : d \in outbox' \/ <<d, "cli">> \in aux'
    BY <1>2
  <2>3. \A x \in aux' : x \in aux \/ x[1] \in keys
    BY <1>2, <1>3 DEF IInv, WorksOnKeys
  <2>4. \A d \in keys' : d.sig \in AuxSignals =>
            d \in outbox' \/ \E w \in Writers : <<d, w>> \in aux'
    BY <2>1, <2>2 DEF IInv, OutboxConserved, Writers
  <2> QED
    BY <2>1, <2>3, <2>4 DEF IInv, OutboxConserved
<1> QED
  BY <1>6, <1>7, <1>8, <1>9, <1>10 DEF IInv

-----------------------------------------------------------------------------
(* Every behaviour *)

LEMMA SignalKeeps ==
    ASSUME IInv, NEW r \in Requests,
           ReceiveSignal(r) \/ ReceiveGithubPr(r) \/ SignalStep(r) \/ AbortSignal(r)
    PROVE  IInv'
<1>1. CASE ReceiveSignal(r) \/ ReceiveGithubPr(r)
  BY <1>1, ReceiveKeeps DEF ReceiveSignal, ReceiveGithubPr
<1>2. CASE SignalStep(r)
  BY <1>2, LockRowKeeps, MirrorKeeps, DerivationKeeps, CommitSignalKeeps DEF SignalStep
<1> QED
  BY <1>1, <1>2, AbortSignalKeeps

LEMMA IInvStep == IInv /\ [Next]_vars => IInv'
<1> SUFFICES ASSUME IInv, [Next]_vars PROVE IInv'
  OBVIOUS
<1>1. CASE UNCHANGED vars
  <2>1. UNCHANGED <<engineVars, dbVars, req, cli>> /\ UNCHANGED hook
    BY <1>1 DEF vars
  <2>2. HookOK' /\ OnLog' /\ OwnClaim'
    BY <2>1, TypeParts
    DEF IInv, HookOK, OnLog, OwnClaim, EventOf, engineVars, dbVars
  <2> QED
    BY <2>1, <2>2, DeliveryStep
<1>2. CASE Next
  BY <1>2, EngineKeeps, SignalKeeps, HookKeeps, ReconcileQuietKeeps, ReconcileCommitKeeps
  DEF Next, ReconcileStep
<1> QED
  BY <1>1, <1>2

LEMMA Invariance == Spec => []IInv
<1> QED
  BY InitIInv, IInvStep, PTL DEF Spec

\* What the tables, the engine and the transactions in flight hold
\* (lifecycle/models.py, service.py, reactor.py).
THEOREM TypeCorrect == Spec => []TypeOK
<1>1. IInv => TypeOK
  BY DEF IInv
<1> QED
  BY <1>1, Invariance, PTL

\* A decision a committed signal leaves to the reactor is in the outbox or
\* recorded, whatever is delivered twice, late or never, whoever crashes and
\* however many requests, deliveries and tasks there are (service.py writes
\* the outbox row with the key; reactor.py and reconciliation.py delete it
\* with the record).
THEOREM NothingLost == Spec => []OutboxConserved
<1>1. IInv => OutboxConserved
  BY DEF IInv
<1> QED
  BY <1>1, Invariance, PTL

\* No writer writes the record of a decision a second time: the outbox row
\* is claimed by one delivery and goes with the record (reactor.py
\* _materialize_aux, FOR UPDATE SKIP LOCKED).
THEOREM WrittenOnce == Spec => []HookWritesOnce
<1>1. IInv => HookWritesOnce
  BY DEF IInv
<1> QED
  BY <1>1, Invariance, PTL

-----------------------------------------------------------------------------
(* Webhooks in order: the cached status is the engine's *)

\* A pull request's webhook wrote the cached status of the task itself.
Inlined(t) == \E x \in aux : x[1].on = t /\ x[2] = "inline"

\* The engine stands where the last transition of the task left it.
EngineLast ==
    \A t \in Tasks :
        \/ \A i \in DOMAIN log : log[i].row # t
        \/ \E i \in DOMAIN log :
               /\ log[i].row = t /\ engine[t] = log[i].to
               /\ \A j \in DOMAIN log : j > i => log[j].row # t

\* The delivery under way is the only one, and the next of the log.
InOrder ==
    \A h \in Hooks : hook[h].at # "idle" =>
        /\ seen = 1 .. (hook[h].ev - 1)
        /\ \A g \in Hooks : g # h => hook[g].at = "idle"

\* The cached status is the one the last handled webhook of the task told.
CacheLast ==
    \A t \in Tasks, i \in seen :
        log[i].row = t /\ (\A j \in seen : j > i => log[j].row # t) =>
            cache[t] = log[i].to \/ Inlined(t)

\* A delivery that found nothing to write still has nothing to write.
NothingToWrite ==
    \A h \in Hooks :
        hook[h].at \in {"item", "commit"} /\ ~hook[h].writes /\ EventOf(h).row \in Tasks =>
            cache[EventOf(h).row] = EventOf(h).to \/ Inlined(EventOf(h).row)

InStep == EngineLast /\ (Orderly => InOrder /\ CacheLast /\ NothingToWrite)

LEMMA InitInStep == Init => InStep
  BY DEF Init, InStep, EngineLast, InOrder, CacheLast, NothingToWrite, IdleHook

\* What the engine does last is last in the log.
LEMMA TransitionIsLast ==
    ASSUME LogOK, EngineOK, EngineLast, NEW x \in Rows, NEW to,
           NEW c \in Calls \cup {NoCall}, Transition(x, to, c)
    PROVE  EngineLast'
<1>1. LogGrows
  BY TransitionGrows
<1> DEFINE e == [row |-> x, to |-> to, corr |-> c]
<1>2. e \in Event /\ e.row = x /\ e.to = to
  BY EdgeEnds DEF Event, Rows, Transition
<1>3. log' = Append(log, e) /\ engine' = [engine EXCEPT ![x] = to]
  BY DEF Transition
<1> HIDE DEF e
<1>4. /\ log \in Seq(Event) /\ DOMAIN log = 1 .. Len(log) /\ Len(log) \in Nat
      /\ DOMAIN log' = 1 .. Len(log) + 1 /\ log'[Len(log) + 1] = e
  BY <1>2, <1>3 DEF LogOK
<1>5. ASSUME NEW t \in Tasks
      PROVE  \/ \A i \in DOMAIN log' : log'[i].row # t
             \/ \E i \in DOMAIN log' :
                    /\ log'[i].row = t /\ engine'[t] = log'[i].to
                    /\ \A j \in DOMAIN log' : j > i => log'[j].row # t
  <2>1. CASE t = x
    <3>1. engine'[t] = to
      BY <1>3, <2>1 DEF EngineOK
    <3> QED
      BY <1>2, <1>4, <2>1, <3>1
  <2>2. CASE t # x
    <3>1. engine'[t] = engine[t]
      BY <1>3, <2>2 DEF EngineOK, Rows
    <3>2. \A i \in DOMAIN log' : i \in DOMAIN log \/ log'[i].row # t
      BY <1>2, <1>4, <2>2
    <3>3. CASE \A i \in DOMAIN log : log[i].row # t
      BY <1>1, <3>2, <3>3 DEF LogGrows
    <3>4. CASE \E i \in DOMAIN log :
                   /\ log[i].row = t /\ engine[t] = log[i].to
                   /\ \A j \in DOMAIN log : j > i => log[j].row # t
      <4>1. PICK i \in DOMAIN log :
                   /\ log[i].row = t /\ engine[t] = log[i].to
                   /\ \A j \in DOMAIN log : j > i => log[j].row # t
        BY <3>4
      <4>2. /\ i \in DOMAIN log' /\ log'[i].row = t /\ engine'[t] = log'[i].to
            /\ \A j \in DOMAIN log' : j > i => log'[j].row # t
        BY <1>1, <3>1, <3>2, <4>1 DEF LogGrows
      <4> QED
        BY <4>2
    <3> QED
      BY <3>3, <3>4 DEF EngineLast
  <2> QED
    BY <2>1, <2>2
<1> QED
  BY <1>5 DEF EngineLast

LEMMA SameTransitions ==
    ASSUME EngineLast, LogGrows, DOMAIN log' = DOMAIN log,
           \A t \in Tasks : engine'[t] = engine[t]
    PROVE  EngineLast'
<1>1. ASSUME NEW t \in Tasks
      PROVE  \/ \A i \in DOMAIN log' : log'[i].row # t
             \/ \E i \in DOMAIN log' :
                    /\ log'[i].row = t /\ engine'[t] = log'[i].to
                    /\ \A j \in DOMAIN log' : j > i => log'[j].row # t
  BY DEF EngineLast, LogGrows
<1> QED
  BY <1>1 DEF EngineLast

\* A task without a linked item has no transition in the log.
LEMMA AbsentIsNew ==
    ASSUME LogOK, EngineLast, NEW t \in Tasks, engine[t] = "absent"
    PROVE  \A i \in DOMAIN log : log[i].row # t
<1>1. \A i \in DOMAIN log : log[i].row = t => log[i].to \in TaskStatus
  BY EventFields DEF LogOK
<1>2. "absent" \notin TaskStatus
  BY DEF TaskStatus
<1> QED
  BY <1>1, <1>2 DEF EngineLast

\* Steps that are not of the reactor: they leave the cached status of a task
\* alone unless no transition of it is in the log or it is written inline.
LEMMA OutsideReactor ==
    ASSUME InStep, LogOK, OnLog, LogGrows, EngineLast', seen' = seen, hook' = hook,
           aux \subseteq aux',
           \A t \in Tasks : \/ cache'[t] = cache[t] \/ Inlined(t)'
                            \/ \A i \in DOMAIN log : log[i].row # t
    PROVE  InStep'
<1> SUFFICES ASSUME Orderly PROVE InOrder' /\ CacheLast' /\ NothingToWrite'
  BY DEF InStep
<1>1. \A t \in Tasks : Inlined(t) => Inlined(t)'
  BY DEF Inlined
<1>2. InOrder'
  BY DEF InStep, InOrder
<1>3. \A i \in seen : log'[i].row = log[i].row /\ log'[i].to = log[i].to
  BY DEF LogOK, LogGrows
<1>4. CacheLast'
  <2>1. ASSUME NEW t \in Tasks, NEW i \in seen,
               log[i].row = t, \A j \in seen : j > i => log[j].row # t
        PROVE  cache'[t] = log[i].to \/ Inlined(t)'
    <3>1. cache[t] = log[i].to \/ Inlined(t)
      BY <2>1 DEF InStep, CacheLast
    <3> QED
      BY <1>1, <2>1, <3>1 DEF LogOK
  <2> QED
    BY <1>3, <2>1 DEF CacheLast
<1>5. NothingToWrite'
  <2>1. ASSUME NEW h \in Hooks, hook[h].at \in {"item", "commit"}, ~hook[h].writes,
               EventOf(h)'.row \in Tasks
        PROVE  (cache[EventOf(h).row] = EventOf(h).to \/ Inlined(EventOf(h).row))'
    <3>1. hook[h].ev \in DOMAIN log
      BY <2>1 DEF OnLog
    <3>2. EventOf(h)'.row = EventOf(h).row /\ EventOf(h)'.to = EventOf(h).to
      BY <3>1 DEF LogGrows, EventOf
    <3> DEFINE t == EventOf(h).row
    <3>3. cache[t] = EventOf(h).to \/ Inlined(t)
      BY <2>1, <3>2 DEF InStep, NothingToWrite
    <3>4. cache'[t] = cache[t] \/ Inlined(t)'
      BY <2>1, <3>1, <3>2 DEF EventOf
    <3> QED
      BY <1>1, <2>1, <3>2, <3>3, <3>4 DEF Inlined
  <2> QED
    BY <2>1 DEF NothingToWrite
<1> QED
  BY <1>2, <1>4, <1>5

LEMMA EngineInStep ==
    ASSUME IInv, InStep,
           \/ \E x \in Rows : EngineMoves(x)
           \/ RegisterWorkItem
           \/ \E t \in Tasks : ProposeTask(t)
    PROVE  InStep'
<1>1. EngineOK /\ LogOK /\ OnLog /\ EngineLast /\ DOMAIN cache = Rows
  BY TypeParts DEF IInv, InStep, CacheOK
<1>2. CASE \E x \in Rows : EngineMoves(x)
  <2>1. PICK x \in Rows, to \in TaskStatus \cup ItemStatus : Transition(x, to, NoCall)
    BY <1>2 DEF EngineMoves
  <2>2. LogGrows /\ EngineLast'
    BY <1>1, <2>1, TransitionGrows, TransitionIsLast
  <2>3. UNCHANGED <<seen, cache, aux, hook>>
    BY <1>2 DEF EngineMoves, dbVars
  <2> QED
    BY <1>1, <2>2, <2>3, OutsideReactor
<1>3. CASE RegisterWorkItem \/ \E t \in Tasks : ProposeTask(t)
  <2>1. LogGrows /\ log' = log
    BY <1>1, <1>3 DEF RegisterWorkItem, ProposeTask, LogGrows, LogOK
  <2>2. UNCHANGED <<seen, aux, hook>>
    BY <1>3 DEF RegisterWorkItem, ProposeTask, dbVars
  <2>3. CASE RegisterWorkItem
    <3>1. \A t \in Tasks : engine'[t] = engine[t]
      BY <1>1, <2>3, ItemAssumption DEF RegisterWorkItem, EngineOK, Rows
    <3>2. cache' = cache
      BY <2>3 DEF RegisterWorkItem, dbVars
    <3> QED
      BY <1>1, <2>1, <2>2, <3>1, <3>2, SameTransitions, OutsideReactor
  <2>4. CASE \E t \in Tasks : ProposeTask(t)
    <3>1. PICK t \in Tasks : ProposeTask(t)
      BY <2>4
    <3>2. \A i \in DOMAIN log : log[i].row # t
      BY <1>1, <3>1, AbsentIsNew DEF ProposeTask
    <3>3. \A u \in Tasks : u # t => engine'[u] = engine[u] /\ cache'[u] = cache[u]
      BY <1>1, <3>1 DEF ProposeTask, EngineOK, Rows
    <3>4. EngineLast'
      BY <1>1, <2>1, <3>2, <3>3 DEF EngineLast
    <3> QED
      BY <1>1, <2>1, <2>2, <3>2, <3>3, <3>4, OutsideReactor
  <2> QED
    BY <1>3, <2>3, <2>4
<1> QED
  BY <1>2, <1>3

LEMMA SignalInStep ==
    ASSUME IInv, InStep, NEW r \in Requests,
           ReceiveSignal(r) \/ ReceiveGithubPr(r) \/ SignalStep(r) \/ AbortSignal(r)
    PROVE  InStep'
<1> DEFINE c == req[r].call
<1>1. EngineOK /\ LogOK /\ OnLog /\ EngineLast /\ CacheOK
  BY TypeParts DEF IInv, InStep
<1>2. CASE /\ UNCHANGED <<engine, seen, cache, aux, hook>>
           /\ log' = log \/ (log' = Forgotten(c) /\ InTransaction(r))
  <2>1. LogGrows
    <3>1. CASE log' = log
      BY <1>1, <3>1 DEF LogGrows, LogOK
    <3>2. CASE log' = Forgotten(c) /\ InTransaction(r)
      BY <1>1, <3>2, ForgottenGrows DEF IInv, OwnKey
    <3> QED
      BY <1>2, <3>1, <3>2
  <2>2. DOMAIN log' = DOMAIN log
    BY <1>2 DEF Forgotten
  <2> QED
    BY <1>1, <1>2, <2>1, <2>2, SameTransitions, OutsideReactor
<1>3. CASE /\ \E x \in Rows, to \in Status, d \in Calls \cup {NoCall} :
                  Transition(x, to, d)
           /\ UNCHANGED <<seen, cache, aux, hook>>
  BY <1>1, <1>3, TransitionGrows, TransitionIsLast, OutsideReactor
<1>4. CASE CommitSignal(r)
  <2>1. UNCHANGED <<engine, log, seen, hook>> /\ aux \subseteq aux'
    BY <1>4 DEF CommitSignal, engineVars
  <2>2. ASSUME NEW t \in Tasks
        PROVE  cache'[t] = cache[t] \/ Inlined(t)'
    <3>1. CASE req[r].inline /\ t = c.on
      <4>1. <<c, "inline">> \in aux' /\ <<c, "inline">>[1].on = t
            /\ <<c, "inline">>[2] = "inline"
        BY <1>4, <3>1 DEF CommitSignal
      <4> QED
        BY <4>1 DEF Inlined
    <3>2. CASE ~(req[r].inline /\ t = c.on)
      BY <1>4, <3>2, ItemAssumption DEF CommitSignal, Rows
    <3> QED
      BY <3>1, <3>2
  <2>3. LogGrows
    BY <1>1, <2>1 DEF LogGrows, LogOK
  <2> QED
    BY <1>1, <2>1, <2>2, <2>3, SameTransitions, OutsideReactor
<1>5. CASE ReceiveSignal(r) \/ ReceiveGithubPr(r)
  BY <1>2, <1>5 DEF ReceiveSignal, ReceiveGithubPr, Receive, engineVars, dbVars
<1>6. CASE AbortSignal(r)
  BY <1>2, <1>6 DEF AbortSignal, Rollback, dbVars
<1>7. CASE LockRow(r)
  BY <1>2, <1>7 DEF LockRow, Rollback, dbVars, InTransaction
<1>8. CASE MirrorToEngine(r)
  <2>1. c \in Calls /\ c.on \in Rows /\ Head(req[r].hops) \in Status
    <3>1. c \in Calls /\ req[r].hops \in Seq(Status) /\ req[r].hops # <<>>
      BY <1>8, TypeParts
      DEF IInv, MirrorToEngine, OwnKey, InTransaction, ReqOK, ReqRecord, Prepared
    <3> QED
      BY <3>1, CallTarget
  <2> QED
    BY <1>2, <1>3, <1>8, <2>1 DEF MirrorToEngine, dbVars, engineVars
<1>9. CASE LockItemForDerivation(r)
  <2>1. Item \in Rows
        /\ Derived(TaskTransition[c.sig].derives, cache[Item], cache) \in Status
    BY <1>1, DerivedInItem DEF CacheOK, Rows, Status
  <2> QED
    BY <1>2, <1>3, <1>9, <2>1 DEF LockItemForDerivation, dbVars, engineVars
<1> QED
  BY <1>4, <1>5, <1>6, <1>7, <1>8, <1>9 DEF SignalStep

\* Steps of the reactor before it commits.
LEMMA ReactorInStep ==
    ASSUME IInv, InStep, UNCHANGED <<engineVars, dbVars>>, InOrder', NothingToWrite'
    PROVE  InStep'
  BY DEF InStep, EngineLast, CacheLast, Inlined, engineVars, dbVars

LEMMA DeliverInStep ==
    ASSUME IInv, InStep, NEW h \in Hooks, NEW i \in DOMAIN log, Deliver(h, i)
    PROVE  InStep'
<1>1. UNCHANGED <<engineVars, dbVars>>
  BY DEF Deliver
<1>2. /\ hook'[h] = [IdleHook EXCEPT !.at = "aux", !.ev = i]
      /\ \A g \in Hooks : g # h => hook'[g] = hook[g]
  BY TypeParts DEF IInv, HookOK, Deliver
<1>3. hook'[h].at = "aux" /\ hook'[h].ev = i
  BY <1>2 DEF IdleHook
<1>4. CASE ~Orderly
  BY <1>1, <1>4 DEF InStep, EngineLast, engineVars
<1>5. CASE Orderly
  <2>1. seen' = 1 .. (i - 1) /\ \A g \in Hooks : hook[g].at = "idle"
    BY <1>1, <1>5 DEF Deliver, dbVars
  <2>2. InOrder'
    BY <1>2, <1>3, <2>1 DEF InOrder
  <2>3. NothingToWrite'
    BY <1>2, <1>3, <2>1 DEF NothingToWrite
  <2> QED
    BY <1>1, <2>2, <2>3, ReactorInStep
<1> QED
  BY <1>4, <1>5

\* A delivery goes on or ends; what it found to be written stays so.
LEMMA DeliveryInStep ==
    ASSUME IInv, InStep, NEW h \in Hooks, hook[h].at # "idle", NEW v,
           hook' = [hook EXCEPT ![h] = v], UNCHANGED <<engineVars, dbVars>>,
           v.at = "idle" \/ v.ev = hook[h].ev,
           v.at \in {"item", "commit"} /\ ~v.writes =>
               \/ cache[EventOf(h).row] = EventOf(h).to
               \/ hook[h].at \in {"item", "commit"} /\ ~hook[h].writes
    PROVE  InStep'
<1>1. hook'[h] = v /\ \A g \in Hooks : g # h => hook'[g] = hook[g]
  BY TypeParts DEF IInv, HookOK
<1>2. CASE ~Orderly
  BY <1>2 DEF InStep, EngineLast, engineVars
<1>3. CASE Orderly
  <2>1. InOrder'
    BY <1>1, <1>3 DEF InStep, InOrder, dbVars
  <2>2. NothingToWrite'
    <3>1. \A g \in Hooks : g # h => hook'[g].at = "idle"
      BY <1>1, <1>3 DEF InStep, InOrder
    <3>2. ASSUME v.at \in {"item", "commit"}, ~v.writes, EventOf(h).row \in Tasks
          PROVE  cache[EventOf(h).row] = EventOf(h).to \/ Inlined(EventOf(h).row)
      BY <1>3, <3>2 DEF InStep, NothingToWrite
    <3>3. v.at # "idle" => EventOf(h)' = EventOf(h)
      BY <1>1 DEF EventOf, engineVars
    <3> QED
      BY <1>1, <3>1, <3>2, <3>3 DEF NothingToWrite, Inlined, dbVars
  <2> QED
    BY <2>1, <2>2, ReactorInStep
<1> QED
  BY <1>2, <1>3

LEMMA ReactorStepInStep ==
    ASSUME IInv, InStep, NEW h \in Hooks,
           \/ MaterializeAux(h) \/ InsertAux(h) \/ UpdateStatusCache(h)
           \/ HandleTaskTransition(h) \/ AbortHook(h) \/ DeadlockDetected(h)
    PROVE  InStep'
<1>1. hook \in [Hooks -> HookRecord] /\ hook[h] \in HookRecord
  BY TypeParts DEF IInv, HookOK
<1>2. UNCHANGED <<engineVars, dbVars>> /\ hook[h].at # "idle"
  BY DEF MaterializeAux, InsertAux, UpdateStatusCache, HandleTaskTransition, AbortHook,
         DeadlockDetected, HookStands
<1>3. CASE hook' = [hook EXCEPT ![h] = IdleHook]
  BY <1>2, <1>3, DeliveryInStep DEF IdleHook
<1>4. CASE MaterializeAux(h)
  <2>1. PICK f \in BOOLEAN, a \in {"insert", "cache"} :
            hook' = [hook EXCEPT ![h].claims = f, ![h].at = a]
    BY <1>4 DEF MaterializeAux
  <2> DEFINE v == [hook[h] EXCEPT !.claims = f, !.at = a]
  <2>2. hook' = [hook EXCEPT ![h] = v] /\ v.at = a /\ v.ev = hook[h].ev
    BY <1>1, <2>1 DEF HookRecord
  <2> HIDE DEF v
  <2> QED
    BY <1>2, <2>2, DeliveryInStep
<1>5. CASE InsertAux(h)
  <2>1. CASE hook' = [hook EXCEPT ![h].at = "cache"]
    <3> DEFINE v == [hook[h] EXCEPT !.at = "cache"]
    <3>1. hook' = [hook EXCEPT ![h] = v] /\ v.at = "cache" /\ v.ev = hook[h].ev
      BY <1>1, <2>1 DEF HookRecord
    <3> HIDE DEF v
    <3> QED
      BY <1>2, <3>1, DeliveryInStep
  <2> QED
    BY <1>3, <1>5, <2>1 DEF InsertAux
<1>6. CASE UpdateStatusCache(h)
  <2>1. CASE /\ cache[EventOf(h).row] = EventOf(h).to
             /\ hook' = [hook EXCEPT ![h].at = AfterCache(h)]
    <3> DEFINE v == [hook[h] EXCEPT !.at = AfterCache(h)]
    <3>1. hook' = [hook EXCEPT ![h] = v] /\ v.ev = hook[h].ev
      BY <1>1, <2>1 DEF HookRecord
    <3> HIDE DEF v
    <3> QED
      BY <1>2, <2>1, <3>1, DeliveryInStep
  <2>2. CASE hook' = [hook EXCEPT ![h].at = AfterCache(h), ![h].writes = TRUE]
    <3> DEFINE v == [hook[h] EXCEPT !.at = AfterCache(h), !.writes = TRUE]
    <3>1. hook' = [hook EXCEPT ![h] = v] /\ v.ev = hook[h].ev /\ v.writes
      BY <1>1, <2>2 DEF HookRecord
    <3> HIDE DEF v
    <3> QED
      BY <1>2, <3>1, DeliveryInStep
  <2> QED
    BY <1>6, <2>1, <2>2 DEF UpdateStatusCache
<1>7. CASE HandleTaskTransition(h)
  <2>1. PICK s : hook' = [hook EXCEPT ![h].at = "commit", ![h].sees = s]
    BY <1>7 DEF HandleTaskTransition
  <2> DEFINE v == [hook[h] EXCEPT !.at = "commit", !.sees = s]
  <2>2. hook' = [hook EXCEPT ![h] = v] /\ v.ev = hook[h].ev /\ v.writes = hook[h].writes
    BY <1>1, <2>1 DEF HookRecord
  <2>3. hook[h].at = "item"
    BY <1>7 DEF HandleTaskTransition, HookStands
  <2> HIDE DEF v
  <2> QED
    BY <1>2, <2>2, <2>3, DeliveryInStep
<1> QED
  BY <1>3, <1>4, <1>5, <1>6, <1>7 DEF AbortHook, DeadlockDetected

\* The commit brings the cached status to the transition it has handled.
LEMMA CommitHookInStep ==
    ASSUME IInv, InStep, NEW h \in Hooks, CommitHook(h)
    PROVE  InStep'
<1> DEFINE e == EventOf(h)
<1>1. hook[h].ev \in DOMAIN log /\ LogOK /\ hook \in [Hooks -> HookRecord]
  BY TypeParts DEF IInv, OnLog, HookOK, CommitHook
<1>2. UNCHANGED <<engine, log>> /\ aux \subseteq aux' /\ seen' = seen \cup {hook[h].ev}
  BY DEF CommitHook, engineVars
<1>3. EngineLast'
  BY <1>2 DEF InStep, EngineLast
<1> SUFFICES ASSUME Orderly PROVE InOrder' /\ CacheLast' /\ NothingToWrite'
  BY <1>3 DEF InStep
<1>4. seen = 1 .. (hook[h].ev - 1) /\ \A g \in Hooks : hook'[g].at = "idle"
  BY <1>1 DEF InStep, InOrder, CommitHook, IdleHook
<1>5. InOrder' /\ NothingToWrite'
  BY <1>4 DEF InOrder, NothingToWrite
<1>6. \A t \in Tasks : Inlined(t) => Inlined(t)'
  BY <1>2 DEF Inlined
<1>7. \A t \in Tasks : cache'[t] = IF hook[h].writes /\ t = e.row THEN e.to ELSE cache[t]
  BY ItemAssumption DEF CommitHook, Rows
<1>8. ASSUME NEW t \in Tasks, NEW i \in seen', log[i].row = t,
             \A j \in seen' : j > i => log[j].row # t
      PROVE  cache'[t] = log[i].to \/ Inlined(t)'
  <2>1. CASE i = hook[h].ev
    <3>1. e.row = t /\ e.to = log[i].to
      BY <1>8, <2>1 DEF EventOf
    <3>2. CASE hook[h].writes
      BY <1>7, <3>1, <3>2
    <3>3. CASE ~hook[h].writes
      <4>1. cache[t] = e.to \/ Inlined(t)
        BY <3>1, <3>3 DEF InStep, NothingToWrite, CommitHook
      <4> QED
        BY <1>6, <1>7, <3>1, <3>3, <4>1
    <3> QED
      BY <3>2, <3>3
  <2>2. CASE i # hook[h].ev
    <3>1. i \in seen /\ i < hook[h].ev
      BY <1>1, <1>2, <1>4, <2>2 DEF LogOK
    <3>2. e.row # t
      BY <1>2, <1>8, <3>1 DEF EventOf
    <3>3. cache[t] = log[i].to \/ Inlined(t)
      BY <1>2, <1>8, <3>1 DEF InStep, CacheLast
    <3> QED
      BY <1>6, <1>7, <3>2, <3>3
  <2> QED
    BY <2>1, <2>2
<1>9. CacheLast'
  BY <1>2, <1>8 DEF CacheLast
<1> QED
  BY <1>5, <1>9

LEMMA ReconcileInStep ==
    ASSUME IInv, InStep, ReconcileStart \/ ReconcileStep \/ ReconcileCrash
    PROVE  InStep'
<1>1. LogOK /\ OnLog /\ EngineLast
  BY TypeParts DEF IInv, InStep
<1>2. UNCHANGED <<engine, log, seen, cache, hook>> /\ aux \subseteq aux'
  BY DEF ReconcileStart, ReconcileStep, ReconcileCrash, ReconcileSkip, ReconcileInsert,
         ReconcileDelete, ReconcileCommit, ReconcileFails, CliStands, engineVars, dbVars
<1>3. LogGrows
  BY <1>1, <1>2 DEF LogGrows, LogOK
<1> QED
  BY <1>1, <1>2, <1>3, SameTransitions, OutsideReactor

LEMMA InStepStep == IInv /\ InStep /\ [Next]_vars => InStep'
<1> SUFFICES ASSUME IInv, InStep, [Next]_vars PROVE InStep'
  OBVIOUS
<1>1. CASE UNCHANGED vars
  BY <1>1
  DEF InStep, EngineLast, InOrder, CacheLast, NothingToWrite, Inlined, EventOf, vars,
      engineVars, dbVars
<1>2. CASE Next
  BY <1>2, EngineInStep, SignalInStep, DeliverInStep, ReactorStepInStep,
     CommitHookInStep, ReconcileInStep
  DEF Next, HookStep
<1> QED
  BY <1>1, <1>2

\* When webhooks come once each and in order and all were handled, the cached
\* status of a task is the engine's, whatever aborted or crashed on the way
\* and whoever moved the item, unless a pull request's webhook wrote it
\* (reactor.py _update_status_cache; service.py leaves the cache of a task to
\* it when an engine is configured).
THEOREM Convergence == Spec => []Converged
<1>1. InStep => Converged
  <2> SUFFICES ASSUME InStep, Orderly, seen = DOMAIN log, NEW t \in Tasks
               PROVE  \/ cache[t] = engine[t]
                      \/ \A i \in DOMAIN log : log[i].row # t
                      \/ Inlined(t)
    BY DEF Converged, Inlined
  <2> QED
    BY DEF InStep, EngineLast, CacheLast
<1>2. Spec => []InStep
  BY InitInStep, InStepStep, Invariance, PTL DEF Spec
<1> QED
  BY <1>1, <1>2, PTL

-----------------------------------------------------------------------------
(* The tables keep the promise of DecisionOutbox *)

\* What reconcile-aux works on is in the outbox or was taken out of it by the
\* reactor, which then wrote the record.
FromOutbox == \A c \in Pending : c \in outbox \/ <<c, "reactor">> \in aux

LEMMA ReconcileTakes ==
    ASSUME IInv, ReconcileStart \/ ReconcileStep \/ ReconcileCrash
    PROVE  ReconcileCommit \/ (UNCHANGED dbVars /\ Pending' \subseteq Pending \cup outbox)
<1>1. cli \in CliRecord /\ NoCall \notin Calls
  BY TypeParts, NoCallIsNone DEF IInv, CliOK
<1>2. CASE ReconcileStart
  BY <1>2 DEF ReconcileStart, Pending, IdleCli
<1>3. CASE ReconcileFails \/ ReconcileCrash
  BY <1>3 DEF ReconcileFails, ReconcileCrash, Pending, IdleCli
<1>4. CASE ReconcileDelete
  BY <1>1, <1>4 DEF ReconcileDelete, Pending, CliRecord
<1>5. CASE \E c \in Calls : ReconcileSkip(c)
  BY <1>1, <1>5 DEF ReconcileSkip, Pending, CliRecord
<1>6. CASE \E c \in Calls : ReconcileInsert(c)
  <2>1. PICK c \in Calls : ReconcileInsert(c)
    BY <1>6
  <2>2. c \in cli.todo /\ UNCHANGED dbVars
        /\ cli'.todo = cli.todo \ {c} /\ cli'.done = cli.done /\ cli'.row \in {cli.row, c}
    BY <1>1, <2>1 DEF ReconcileInsert, CliRecord
  <2> QED
    BY <1>1, <2>2 DEF Pending
<1> QED
  BY <1>2, <1>3, <1>4, <1>5, <1>6 DEF ReconcileStep

\* What the steps may do to the tables.
TablesStand == UNCHANGED <<keys, outbox, aux, twice>>

LEMMA TablesStep ==
    ASSUME IInv, Next
    PROVE  \/ TablesStand /\ Pending' \subseteq Pending \cup outbox
           \/ \E r \in Requests : CommitSignal(r)
           \/ \E h \in Hooks : CommitHook(h)
           \/ ReconcileCommit
<1>1. CASE \E x \in Rows : EngineMoves(x)
  BY <1>1 DEF EngineMoves, dbVars, TablesStand, Pending
<1>2. CASE RegisterWorkItem \/ \E t \in Tasks : ProposeTask(t)
  BY <1>2 DEF RegisterWorkItem, ProposeTask, dbVars, TablesStand, Pending
<1>3. ASSUME NEW r \in Requests,
             ReceiveSignal(r) \/ ReceiveGithubPr(r) \/ SignalStep(r) \/ AbortSignal(r)
      PROVE  CommitSignal(r) \/ UNCHANGED <<dbVars, cli>>
  <2>1. CASE ReceiveSignal(r) \/ ReceiveGithubPr(r)
    BY <2>1 DEF ReceiveSignal, ReceiveGithubPr, Receive
  <2>2. CASE LockRow(r) \/ MirrorToEngine(r) \/ LockItemForDerivation(r)
    BY <2>2 DEF LockRow, MirrorToEngine, LockItemForDerivation
  <2>3. CASE AbortSignal(r)
    BY <2>3 DEF AbortSignal
  <2> QED
    BY <1>3, <2>1, <2>2, <2>3 DEF SignalStep
<1>4. ASSUME NEW h \in Hooks,
             \/ \E i \in DOMAIN log : Deliver(h, i)
             \/ HookStep(h) \/ AbortHook(h) \/ DeadlockDetected(h)
      PROVE  CommitHook(h) \/ UNCHANGED <<dbVars, cli>>
  <2>1. CASE \E i \in DOMAIN log : Deliver(h, i)
    BY <2>1 DEF Deliver
  <2>2. CASE MaterializeAux(h) \/ InsertAux(h) \/ UpdateStatusCache(h) \/ HandleTaskTransition(h)
    BY <2>2 DEF MaterializeAux, InsertAux, UpdateStatusCache, HandleTaskTransition, HookStands
  <2>3. CASE AbortHook(h) \/ DeadlockDetected(h)
    BY <2>3 DEF AbortHook, DeadlockDetected
  <2> QED
    BY <1>4, <2>1, <2>2, <2>3 DEF HookStep
<1>5. CASE ReconcileStart \/ ReconcileStep \/ ReconcileCrash
  BY <1>5, ReconcileTakes DEF dbVars, TablesStand
<1>6. UNCHANGED <<dbVars, cli>> => TablesStand /\ Pending' \subseteq Pending \cup outbox
  BY DEF dbVars, TablesStand, Pending
<1> QED
  BY <1>1, <1>2, <1>3, <1>4, <1>5, <1>6 DEF Next

LEMMA FromOutboxStep == IInv /\ FromOutbox /\ [Next]_vars => FromOutbox'
<1> SUFFICES ASSUME IInv, FromOutbox, [Next]_vars PROVE FromOutbox'
  OBVIOUS
<1>1. CASE TablesStand /\ Pending' \subseteq Pending \cup outbox
  BY <1>1 DEF FromOutbox, TablesStand
<1>2. CASE \E r \in Requests : CommitSignal(r)
  BY <1>2 DEF CommitSignal, FromOutbox, Pending
<1>3. CASE \E h \in Hooks : CommitHook(h)
  BY <1>3 DEF CommitHook, FromOutbox, Pending
<1>4. CASE ReconcileCommit
  BY <1>4 DEF ReconcileCommit, FromOutbox, Pending, IdleCli
<1>5. CASE UNCHANGED vars
  BY <1>5 DEF vars, dbVars, FromOutbox, Pending
<1> QED
  BY <1>1, <1>2, <1>3, <1>4, <1>5, TablesStep

\* The copies of the records of a set of decisions.
LEMMA FirstCopy ==
    ASSUME NEW w, NEW S, twice = {}
    PROVE  /\ Outbox!Copy(w, S, 1) = (S \X {w}) \X {1}
           /\ (S \X {w}) \cap aux = {} =>
                  Outbox!Copy(w, S, 1) \cap (aux \X {1} \cup twice \X {2}) = {}
  BY DEF Outbox!Copy

\* A writer that writes records it has not written.
LEMMA Writes ==
    ASSUME NEW w, NEW S, twice = {}, twice' = {}, (S \X {w}) \cap aux = {},
           aux' = aux \cup (S \X {w})
    PROVE  Outbox!Write(w, S)
<1>1. aux' \X {1} \cup twice' \X {2}
      = (aux \X {1} \cup twice \X {2}) \cup Outbox!Copy(w, S, 1)
  BY DEF Outbox!Copy
<1> QED
  BY <1>1, FirstCopy DEF Outbox!Write

\* Only the webhook of a pull request leaves the engine out, and what it
\* reports is a decision of which a record is kept.
InlineRecorded ==
    \A r \in Requests :
        InTransaction(r) /\ req[r].inline => req[r].call.sig \in AuxSignals

LEMMA RequestStep ==
    ASSUME IInv, [Next]_vars, NEW r \in Requests, InTransaction(r)'
    PROVE  \/ /\ InTransaction(r)
              /\ req'[r].call = req[r].call /\ req'[r].inline = req[r].inline
           \/ ReceiveSignal(r) \/ ReceiveGithubPr(r)
<1>1. req \in [Requests -> ReqRecord]
  BY TypeParts DEF IInv, ReqOK
<1>2. CASE UNCHANGED req
  BY <1>2 DEF InTransaction
<1>3. CASE \E q \in Requests : req' = [req EXCEPT ![q] = IdleReq]
  <2>1. PICK q \in Requests : req' = [req EXCEPT ![q] = IdleReq]
    BY <1>3
  <2>2. q # r
    BY <1>1, <2>1, IdleReqIsReq DEF InTransaction
  <2>3. req'[r] = req[r]
    BY <1>1, <2>1, <2>2
  <2> QED
    BY <2>3 DEF InTransaction
<1>4. CASE \E q \in Requests : LockRow(q) /\ ~Rollback(q)
  <2>1. PICK q \in Requests : LockRow(q) /\ ~Rollback(q)
    BY <1>4
  <2>2. InTransaction(q) /\ \E a, h : req' = [req EXCEPT ![q].at = a, ![q].hops = h]
    BY <2>1 DEF LockRow, InTransaction
  <2> QED
    BY <1>1, <2>2 DEF InTransaction, ReqRecord
<1>5. CASE \E q \in Requests : MirrorToEngine(q)
  <2>1. PICK q \in Requests : MirrorToEngine(q)
    BY <1>5
  <2>2. InTransaction(q) /\ \E a, h : req' = [req EXCEPT ![q].hops = h, ![q].at = a]
    BY <2>1 DEF MirrorToEngine, InTransaction
  <2> QED
    BY <1>1, <2>2 DEF InTransaction, ReqRecord
<1>6. CASE \E q \in Requests : LockItemForDerivation(q)
  <2>1. PICK q \in Requests : LockItemForDerivation(q)
    BY <1>6
  <2>2. InTransaction(q) /\ \E s : req' = [req EXCEPT ![q].at = "commit", ![q].sees = s]
    BY <2>1 DEF LockItemForDerivation, InTransaction
  <2> QED
    BY <1>1, <2>2 DEF InTransaction, ReqRecord
<1>7. CASE \E q \in Requests : ReceiveSignal(q) \/ ReceiveGithubPr(q)
  <2>1. PICK q \in Requests : ReceiveSignal(q) \/ ReceiveGithubPr(q)
    BY <1>7
  <2>2. q # r => req'[r] = req[r]
    BY <1>1, <2>1 DEF ReceiveSignal, ReceiveGithubPr, Receive
  <2> QED
    BY <2>1, <2>2 DEF InTransaction
<1>8. CASE \/ \E x \in Rows : EngineMoves(x)
           \/ RegisterWorkItem
           \/ \E t \in Tasks : ProposeTask(t)
  BY <1>2, <1>8 DEF EngineMoves, RegisterWorkItem, ProposeTask
<1>9. ASSUME NEW h \in Hooks,
             \/ \E i \in DOMAIN log : Deliver(h, i)
             \/ HookStep(h) \/ AbortHook(h) \/ DeadlockDetected(h)
      PROVE  UNCHANGED req
  <2>1. CASE \E i \in DOMAIN log : Deliver(h, i)
    BY <2>1 DEF Deliver
  <2>2. CASE MaterializeAux(h) \/ InsertAux(h) \/ UpdateStatusCache(h) \/ HandleTaskTransition(h)
    BY <2>2 DEF MaterializeAux, InsertAux, UpdateStatusCache, HandleTaskTransition, HookStands
  <2>3. CASE CommitHook(h) \/ AbortHook(h) \/ DeadlockDetected(h)
    BY <2>3 DEF CommitHook, AbortHook, DeadlockDetected
  <2> QED
    BY <1>9, <2>1, <2>2, <2>3 DEF HookStep
<1>10. CASE ReconcileStart \/ ReconcileStep \/ ReconcileCrash
  BY <1>2, <1>10
  DEF ReconcileStart, ReconcileStep, ReconcileCrash, ReconcileSkip, ReconcileInsert,
      ReconcileDelete, ReconcileCommit, ReconcileFails, CliStands
<1>11. CASE \E q \in Requests : SignalStep(q) \/ AbortSignal(q)
  BY <1>3, <1>4, <1>5, <1>6, <1>11
  DEF SignalStep, LockRow, CommitSignal, AbortSignal, Rollback
<1> QED
  BY <1>2, <1>7, <1>8, <1>9, <1>10, <1>11 DEF Next, vars

LEMMA InlineRecordedStep == IInv /\ InlineRecorded /\ [Next]_vars => InlineRecorded'
<1> SUFFICES ASSUME IInv, InlineRecorded, [Next]_vars, NEW r \in Requests,
                    InTransaction(r)', req'[r].inline
             PROVE  req'[r].call.sig \in AuxSignals
  BY DEF InlineRecorded
<1>1. req \in [Requests -> ReqRecord]
  BY TypeParts DEF IInv, ReqOK
<1>2. CASE ReceiveSignal(r)
  BY <1>1, <1>2 DEF ReceiveSignal, Receive, IdleReq
<1>3. CASE ReceiveGithubPr(r)
  BY <1>1, <1>3 DEF ReceiveGithubPr, Receive, IdleReq, Call, AuxSignals
<1> QED
  BY <1>2, <1>3, RequestStep DEF InlineRecorded

LEMMA CommitSignalAccepts ==
    ASSUME IInv, IInv', InlineRecorded, NEW r \in Requests, CommitSignal(r)
    PROVE  \E c \in Calls : Outbox!Accept(c)
<1> DEFINE c == req[r].call
<1>1. c \in Calls \ keys /\ twice = {} /\ twice' = {}
  BY DEF IInv, OwnKey, InTransaction, CommitSignal, HookWritesOnce
<1>2. keys' = keys \cup {c} /\ <<c, "inline">> \notin aux
  BY <1>1 DEF CommitSignal, IInv, OutboxConserved
<1>3. CASE req[r].inline
  <2>1. c.sig \in AuxSignals /\ outbox' = outbox /\ aux' = aux \cup {<<c, "inline">>}
    BY <1>3 DEF InlineRecorded, InTransaction, CommitSignal
  <2>2. ({c} \X {"inline"}) = {<<c, "inline">>}
    OBVIOUS
  <2>3. Outbox!Write("inline", {c})
    BY <1>1, <1>2, <2>1, <2>2, Writes
  <2> QED
    BY <1>1, <1>2, <2>1, <2>3 DEF Outbox!Accept
<1>4. CASE ~req[r].inline
  <2>1. aux' = aux /\ outbox' = IF c.sig \in AuxSignals THEN outbox \cup {c} ELSE outbox
    BY <1>4 DEF CommitSignal
  <2> QED
    BY <1>1, <1>2, <2>1 DEF Outbox!Accept
<1> QED
  BY <1>3, <1>4

LEMMA CommitHookMaterializes ==
    ASSUME IInv, IInv', NEW h \in Hooks, CommitHook(h)
    PROVE  (\E c \in Calls : Outbox!Materialize(c)) \/ UNCHANGED Outbox!vars
<1> DEFINE c == EventOf(h).corr
<1>1. twice = {} /\ twice' = {} /\ keys' = keys
  BY DEF IInv, HookWritesOnce, CommitHook
<1>2. CASE hook[h].claims
  <2>1. c \in outbox /\ c \in Calls
    BY <1>2, TypeParts DEF IInv, OwnClaim, TablesOK
  <2>2. <<c, "reactor">> \notin aux
    BY <2>1 DEF IInv, RecordLeft
  <2>3. outbox' = outbox \ {c} /\ aux' = aux \cup ({c} \X {"reactor"})
    BY <1>2 DEF CommitHook
  <2>4. Outbox!Write("reactor", {c})
    BY <1>1, <2>2, <2>3, Writes
  <2> QED
    BY <1>1, <2>1, <2>3, <2>4 DEF Outbox!Materialize
<1>3. CASE ~hook[h].claims
  <2>1. outbox' = outbox /\ aux' = aux
    BY <1>3 DEF CommitHook
  <2> QED
    BY <1>1, <2>1 DEF Outbox!vars
<1> QED
  BY <1>2, <1>3

LEMMA ReconcileCommitReconciles ==
    ASSUME IInv, IInv', FromOutbox, ReconcileCommit
    PROVE  Outbox!Reconcile(cli.done) /\ cli.done \in SUBSET Outbox!Drainable
<1>1. twice = {} /\ twice' = {} /\ keys' = keys /\ outbox' = outbox \ cli.done
      /\ aux' = aux \cup (cli.done \X {"cli"})
  BY DEF IInv, HookWritesOnce, ReconcileCommit, Drained
<1>2. cli.done \subseteq Calls /\ cli.done \subseteq Pending
  BY TypeParts, NoCallIsNone DEF IInv, CliOK, CliRecord, Pending
<1>3. (cli.done \X {"cli"}) \cap aux = {}
  <2>1. ASSUME NEW d \in cli.done, <<d, "cli">> \in aux
        PROVE  FALSE
    BY <1>2, <2>1 DEF IInv, RecordLeft
  <2> QED
    BY <2>1
<1>4. Outbox!Write("cli", cli.done)
  BY <1>1, <1>3, Writes
<1>5. cli.done \subseteq Outbox!Drainable
  BY <1>2 DEF FromOutbox, Outbox!Drainable
<1> QED
  BY <1>1, <1>4, <1>5 DEF Outbox!Reconcile

LEMMA InitOutbox == Init => Outbox!Init /\ FromOutbox /\ InlineRecorded
  BY DEF Init, Outbox!Init, FromOutbox, InlineRecorded, InTransaction, Pending, IdleCli,
         IdleReq

LEMMA StepOutbox ==
    IInv /\ IInv' /\ FromOutbox /\ InlineRecorded /\ [Next]_vars => [Outbox!Next]_(Outbox!vars)
<1> SUFFICES ASSUME IInv, IInv', FromOutbox, InlineRecorded, [Next]_vars
             PROVE  [Outbox!Next]_(Outbox!vars)
  OBVIOUS
<1>1. CASE TablesStand \/ UNCHANGED vars
  BY <1>1 DEF TablesStand, vars, dbVars, Outbox!vars
<1>2. CASE \E r \in Requests : CommitSignal(r)
  BY <1>2, CommitSignalAccepts DEF Outbox!Next
<1>3. CASE \E h \in Hooks : CommitHook(h)
  BY <1>3, CommitHookMaterializes DEF Outbox!Next
<1>4. CASE ReconcileCommit
  BY <1>4, ReconcileCommitReconciles DEF Outbox!Next
<1> QED
  BY <1>1, <1>2, <1>3, <1>4, TablesStep

\* Seen from the tables alone, the signals, the reactor and reconcile-aux do
\* what DecisionOutbox promises: a decision is accepted once, with its outbox
\* row or its record in the same commit; a row leaves the outbox only with
\* the record; and what the reactor and reconcile-aux write for the same
\* decision, they write once each (service.py _enqueue_aux, reactor.py
\* _materialize_aux, reconciliation.py _apply).
THEOREM TablesImplementOutbox == Spec => ImplementsOutbox
<1>1. Spec => [](IInv /\ FromOutbox /\ InlineRecorded)
  BY InitIInv, IInvStep, InitOutbox, FromOutboxStep, InlineRecordedStep, PTL DEF Spec
<1> QED
  BY <1>1, InitOutbox, StepOutbox, PTL DEF Spec, ImplementsOutbox, Outbox!Spec

=============================================================================
