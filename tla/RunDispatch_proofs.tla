------------------------ MODULE RunDispatch_proofs ------------------------
(***************************************************************************)
(* The runs table implements RunLifecycle for any requests, policies,      *)
(* faults and crashes, as long as no caller sends an id of the form the    *)
(* table generates.  Whoever looks a run up finds it, with its outcome,    *)
(* and whoever is called back is told it or can look it up:                *)
(* RunsTellsOutcome and CallbackTellsOutcome, as long as callers' ids are  *)
(* told apart from the service's.  AnswersHold: what the service tells of  *)
(* a run stays true for whoever waits for it.                              *)
(***************************************************************************)
EXTENDS RunAwait, TLAPS

(* No caller-supplied id, nor a step id made from one, is a row's id. *)
SuppliedApart == \A id \in Supplied : id[1] # "run"

Recording == {"mark", "spawn", "wait", "reap", "commit_result", "commit_error"}
Started   == {"spawn", "wait", "reap", "commit_result", "commit_error"}

(* Request ids never look like row ids. *)
RequestsApart ==
  \A r \in Requests : request[r] # NoRequest => request[r].id[1] # "run"

(* The table only has rows of steps already reached, and none yet of the   *)
(* step that is about to insert its own.                                   *)
RowReached(id) ==
  LET r == id[2]
      i == id[3]
  IN /\ id = RowId(r, i) /\ r \in Requests /\ i \in Nat /\ i <= step[r]
     /\ at[r] \in {"idle", "step", "insert"} => i < step[r]

RowsReached == \A id \in DOMAIN table : RowReached(id)

(* While an attempt is recorded, its id is either its own row's or no      *)
(* row's; its own row is pending before MarkRunning and running after.     *)
OwnRowOf(r) ==
  /\ at[r] \in Recording /\ runId[r][1] = "run" =>
       runId[r] = RowId(r, step[r])
  /\ at[r] = "insert" => runId[r][1] # "run"
  /\ at[r] = "mark" => RowStatusOf(RowId(r, step[r])) = "pending"
  /\ at[r] \in Started /\ runId[r][1] = "run" =>
       RowStatusOf(RowId(r, step[r])) = "running"

OwnRow == \A r \in Requests : OwnRowOf(r)

Shape ==
  /\ at \in [Requests -> Control]
  /\ step \in [Requests -> Nat \ {0}]
  /\ DOMAIN runId = Requests
  /\ DOMAIN request = Requests
  /\ \A r \in Requests : at[r] # "idle" => request[r] # NoRequest

IInv == Shape /\ RequestsApart /\ RowsReached /\ OwnRow

-----------------------------------------------------------------------------
(* What a write to a dictionary does to its domain and to a row's status. *)
LEMMA PutRow ==
  ASSUME NEW k, NEW row, table' = SetKey(table, k, row)
  PROVE  /\ DOMAIN table' = DOMAIN table \cup {k}
         /\ \A id : RowStatusOf(id)' =
                      IF id = k THEN row.status ELSE RowStatusOf(id)
BY DEF SetKey, RowStatusOf

LEMMA UpdateRow ==
  ASSUME NEW k, NEW row, SetRow(k, row)
  PROVE  /\ DOMAIN table' = DOMAIN table
         /\ \A id : RowStatusOf(id)' =
              IF id = k /\ k \in DOMAIN table THEN row.status ELSE RowStatusOf(id)
<1>1. CASE k \in DOMAIN table
  BY <1>1, PutRow DEF SetRow
<1>2. CASE k \notin DOMAIN table
  BY <1>2 DEF SetRow, RowStatusOf
<1>. QED BY <1>1, <1>2

-----------------------------------------------------------------------------
(* What the ends of an attempt do to the walk. *)
Resting == {"callback", "done", "error"}

Moves(r) ==
  \/ /\ \E c \in Resting : at' = [at EXCEPT ![r] = c]
     /\ step' = step
  \/ /\ at' = [at EXCEPT ![r] = "step"]
     /\ step' = [step EXCEPT ![r] = @ + 1]

LEMMA RaisedMoves ==
  ASSUME NEW r \in Requests, RunRaised(r) PROVE Moves(r)
BY DEF RunRaised, Moves, NextStep, Ended, Resting

LEMMA ReturnedMoves ==
  ASSUME NEW r \in Requests, NEW s, Returned(r, s) PROVE Moves(r)
BY DEF Returned, Moves, EndRun, NextStep, Ended, Resting


-----------------------------------------------------------------------------
(* The invariant holds initially and every step keeps it. *)
LEMMA InitInv == DispatchInit => IInv
BY DEF DispatchInit, IInv, Shape, RequestsApart, RowsReached, OwnRow, OwnRowOf,
       Recording, Started, Control, NoId

(* A step of r that leaves the table alone and either goes on with the     *)
(* attempt under the same id or leaves it.                                 *)
Goes(r) ==
  /\ step' = step /\ at[r] \in Started
  /\ \E c \in Started : at' = [at EXCEPT ![r] = c]

LEMMA QuietInv ==
  ASSUME NEW r \in Requests, IInv, at[r] # "idle",
         table' = table, request' = request, runId' = runId,
         Moves(r) \/ Goes(r)
  PROVE  IInv'
<1>1. Shape'
  BY DEF IInv, Shape, Moves, Goes, Resting, Started, Control
<1>2. RequestsApart'
  BY DEF IInv, RequestsApart
<1>3. RowsReached'
  BY DEF IInv, Shape, RowsReached, RowReached, Moves, Goes, Resting, Started
<1>4. OwnRow'
  BY DEF IInv, Shape, OwnRow, OwnRowOf, RowStatusOf, Moves, Goes, Resting,
         Started, Recording
<1>. QED BY <1>1, <1>2, <1>3, <1>4 DEF IInv

LEMMA PostInv ==
  ASSUME NEW r \in Requests, IInv, SuppliedApart, Post(r) PROVE IInv'
<1>. USE DEF IInv, Post, retrying
<1>1. /\ at' = [at EXCEPT ![r] = "step"] /\ at[r] = "idle"
      /\ UNCHANGED <<step, runId, table>>
  OBVIOUS
<1>2. request'[r] # NoRequest /\ request'[r].id[1] # "run"
      /\ DOMAIN request' = Requests
      /\ \A q \in Requests \ {r} : request'[q] = request[q]
  BY ConstantsAssumption DEF Shape, SuppliedApart, Request, BackgroundId, NoId,
                             NoRequest, Modes
<1>3. Shape'
  BY <1>1, <1>2 DEF Shape, Control
<1>4. RequestsApart'
  BY <1>1, <1>2 DEF RequestsApart
<1>5. RowsReached'
  BY <1>1 DEF Shape, RowsReached, RowReached
<1>6. OwnRow'
  BY <1>1 DEF Shape, OwnRow, OwnRowOf, RowStatusOf, Started, Recording
<1>. QED BY <1>3, <1>4, <1>5, <1>6

LEMMA StartInv ==
  ASSUME NEW r \in Requests, IInv, StartAttempt(r) PROVE IInv'
<1>. USE DEF IInv, StartAttempt, retrying
<1>1. /\ \E c \in {"insert", "spawn"} : at' = [at EXCEPT ![r] = c]
      /\ at[r] = "step"
      /\ UNCHANGED <<step, request, table>>
  BY DEF Walking
<1>2. /\ runId' = [runId EXCEPT ![r] = AttemptId(r)]
      /\ AttemptId(r)[1] # "run"
  BY <1>1 DEF AttemptId, StepOf, FreshStepId, RequestsApart, Shape
<1>3. Shape'
  BY <1>1, <1>2 DEF Shape, Control
<1>4. RequestsApart'
  BY <1>1 DEF RequestsApart
<1>5. RowsReached'
  BY <1>1 DEF Shape, RowsReached, RowReached
<1>6. OwnRow'
  BY <1>1, <1>2 DEF Shape, OwnRow, OwnRowOf, RowStatusOf, Started, Recording
<1>. QED BY <1>3, <1>4, <1>5, <1>6

LEMMA InsertInv ==
  ASSUME NEW r \in Requests, IInv, InsertRow(r) PROVE IInv'
<1>. USE DEF IInv, InsertRow, retrying
<1>. DEFINE x == RowId(r, step[r])
<1>1. /\ at' = [at EXCEPT ![r] = "mark"] /\ at[r] = "insert"
      /\ UNCHANGED <<step, request>>
      /\ runId' = [runId EXCEPT ![r] = IF @ # NoId THEN @ ELSE x]
      /\ step[r] \in Nat
  BY DEF Shape
<1>2. /\ DOMAIN table' = DOMAIN table \cup {x}
      /\ \A id : RowStatusOf(id)' = IF id = x THEN "pending" ELSE RowStatusOf(id)
  <2>1. table' = SetKey(table, x, [status |-> "pending", chain |-> <<>>])
    OBVIOUS
  <2>2. [status |-> "pending", chain |-> <<>>].status = "pending"
    OBVIOUS
  <2>. HIDE DEF x
  <2>. QED BY <2>1, <2>2 DEF SetKey, RowStatusOf
<1>3. Shape'
  BY <1>1 DEF Shape, Control
<1>4. RequestsApart'
  BY <1>1 DEF RequestsApart
<1>5. RowsReached'
  BY <1>1, <1>2 DEF Shape, RowsReached, RowReached, RowId
<1>6. OwnRow'
  <2>. SUFFICES ASSUME NEW q \in Requests PROVE OwnRowOf(q)'
    BY DEF OwnRow
  <2>1. CASE q = r
    BY <2>1, <1>1, <1>2 DEF Shape, OwnRow, OwnRowOf, Started, Recording, RowId
  <2>2. CASE q # r
    <3>1. RowId(q, step[q]) # x
      BY <2>2 DEF RowId
    <3>2. at'[q] = at[q] /\ runId'[q] = runId[q] /\ step'[q] = step[q]
          /\ RowStatusOf(RowId(q, step[q]))' = RowStatusOf(RowId(q, step[q]))
      BY <2>2, <1>1, <1>2, <3>1 DEF Shape
    <3>. QED BY <3>2 DEF OwnRow, OwnRowOf
  <2>. QED BY <2>1, <2>2
<1>. QED BY <1>3, <1>4, <1>5, <1>6

(* An UPDATE of the attempt's row: a completion, or MarkRunning. *)
LEMMA UpdateInv ==
  ASSUME NEW r \in Requests, IInv, at[r] \in Recording, NEW v,
         request' = request, runId' = runId,
         DOMAIN table' = DOMAIN table,
         \A id : RowStatusOf(id)' =
           IF id = runId[r] /\ id \in DOMAIN table THEN v ELSE RowStatusOf(id),
         \/ Moves(r)
         \/ /\ at[r] = "mark" /\ v = "running"
            /\ step' = step /\ at' = [at EXCEPT ![r] = "spawn"]
  PROVE  IInv'
<1>. USE DEF IInv
<1>1. Shape'
  BY DEF Shape, Moves, Resting, Recording, Control
<1>2. RequestsApart'
  BY DEF RequestsApart
<1>3. RowsReached'
  BY DEF Shape, RowsReached, RowReached, Moves, Resting, Recording
<1>4. OwnRow'
  <2>. SUFFICES ASSUME NEW q \in Requests PROVE OwnRowOf(q)'
    BY DEF OwnRow
  <2>1. CASE q = r
    <3>1. at[r] = "mark" => RowId(r, step[r]) \in DOMAIN table
      BY DEF OwnRow, OwnRowOf, RowStatusOf
    <3>. QED
      BY <2>1, <3>1 DEF Shape, OwnRow, OwnRowOf, Moves, Resting, Started, Recording
  <2>2. CASE q # r
    <3>1. runId[r] \in DOMAIN table => runId[r] = RowId(r, step[r])
      <4>1. \A q2, i2 : RowId(q2, i2)[1] = "run"
        BY DEF RowId
      <4>2. runId[r] \in DOMAIN table => runId[r][1] = "run"
        BY <4>1 DEF RowsReached, RowReached
      <4>. QED BY <4>2 DEF OwnRow, OwnRowOf
    <3>2. runId[r] \in DOMAIN table => RowId(q, step[q]) # runId[r]
      BY <2>2, <3>1 DEF RowId
    <3>3. at'[q] = at[q] /\ runId'[q] = runId[q] /\ step'[q] = step[q]
      BY <2>2 DEF Shape, Moves
    <3>4. RowStatusOf(RowId(q, step[q]))' = RowStatusOf(RowId(q, step[q]))
      BY <3>2, <3>3 DEF RowId
    <3>. QED BY <3>3, <3>4 DEF OwnRow, OwnRowOf
  <2>. QED BY <2>1, <2>2
<1>. QED BY <1>1, <1>2, <1>3, <1>4

(* The table's writers: an UPDATE writes the attempt's row or no row. *)
Updates(r, v) ==
  /\ DOMAIN table' = DOMAIN table
  /\ \A id : RowStatusOf(id)' =
       IF id = runId[r] /\ id \in DOMAIN table THEN v ELSE RowStatusOf(id)

LEMMA SetRowUpdates ==
  ASSUME NEW r \in Requests, NEW v, NEW c,
         SetRow(runId[r], [status |-> v, chain |-> c])
  PROVE  Updates(r, v)
<1>. DEFINE row == [status |-> v, chain |-> c]
<1>1. row.status = v OBVIOUS
<1>2. SetRow(runId[r], row) OBVIOUS
<1>. HIDE DEF row
<1>. QED BY <1>1, <1>2 DEF SetRow, SetKey, Updates, RowStatusOf

LEMMA MarkInv ==
  ASSUME NEW r \in Requests, IInv, MarkRunning(r)
  PROVE  IInv' /\ Updates(r, "running")
<1>1. SetRow(runId[r], [status |-> "running", chain |-> table[runId[r]].chain])
  BY DEF MarkRunning
<1>2. Updates(r, "running")
  BY <1>1, SetRowUpdates
<1>3. IInv'
  BY <1>2, UpdateInv DEF MarkRunning, retrying, Updates, Recording
<1>. QED BY <1>2, <1>3

LEMMA CommitErrorInv ==
  ASSUME NEW r \in Requests, IInv, CommitError(r)
  PROVE  IInv' /\ Updates(r, "failure")
<1>1. Updates(r, "failure")
  BY SetRowUpdates DEF CommitError
<1>2. Moves(r)
  BY RaisedMoves DEF CommitError
<1>3. IInv'
  BY <1>1, <1>2, UpdateInv DEF CommitError, Updates, Recording
<1>. QED BY <1>1, <1>3

LEMMA CommitResultInv ==
  ASSUME NEW r \in Requests, IInv, CommitResult(r)
  PROVE  IInv' /\ \E v \in Terminal : Updates(r, v)
<1>. DEFINE s == state[<<r, step[r]>>]
<1>1. Updates(r, RowOutcome(s)) /\ RowOutcome(s) \in Terminal
  BY SetRowUpdates DEF CommitResult, RowOutcome, Terminal
<1>2. Moves(r)
  BY ReturnedMoves DEF CommitResult
<1>3. IInv'
  BY <1>1, <1>2, UpdateInv DEF CommitResult, Updates, Recording
<1>. QED BY <1>1, <1>3

(* run_agent's start: the attempt keeps its id or gets one of its own. *)
LEMMA SpawnInv ==
  ASSUME NEW r \in Requests, IInv, SpawnAgent(r) PROVE IInv' /\ table' = table
<1>. USE DEF IInv
<1>. DEFINE id == IF runId[r] # NoId THEN runId[r] ELSE MemoryId(r, step[r])
<1>1. /\ at[r] = "spawn" /\ table' = table /\ request' = request
      /\ runId' = [runId EXCEPT ![r] = id]
  BY DEF SpawnAgent
<1>2. Moves(r) \/ (step' = step /\ \E c \in Started : at' = [at EXCEPT ![r] = c])
  <2>1. ASSUME NEW s, AgentReturns(r, s) PROVE <1>2!1 \/ <1>2!2
    BY <2>1, ReturnedMoves DEF AgentReturns, Started
  <2>2. ASSUME NEW s, AgentRaises(r, s) PROVE <1>2!1 \/ <1>2!2
    BY <2>2, RaisedMoves DEF AgentRaises, Started
  <2>. QED BY <2>1, <2>2 DEF SpawnAgent, Started
<1>3. Shape'
  BY <1>1, <1>2 DEF Shape, Moves, Resting, Started, Control
<1>4. RequestsApart'
  BY <1>1 DEF RequestsApart
<1>5. RowsReached'
  BY <1>1, <1>2 DEF Shape, RowsReached, RowReached, Moves, Resting, Started
<1>6. id[1] = "run" => runId[r] = id
  BY DEF MemoryId
<1>7. OwnRow'
  <2>. HIDE DEF id
  <2>. QED
    BY <1>1, <1>2, <1>6 DEF Shape, OwnRow, OwnRowOf, RowStatusOf, Moves, Resting,
                            Started, Recording
<1>. QED BY <1>1, <1>3, <1>4, <1>5, <1>7

LEMMA AgentEndsInv ==
  ASSUME NEW r \in Requests, IInv, AgentEnds(r) PROVE IInv' /\ table' = table
<1>1. ASSUME NEW s, AgentReturns(r, s), at[r] \in {"wait", "reap"} PROVE Moves(r) \/ Goes(r)
  BY <1>1, ReturnedMoves DEF AgentReturns, Goes, Started
<1>2. ASSUME NEW s, AgentRaises(r, s), at[r] \in {"wait", "reap"} PROVE Moves(r) \/ Goes(r)
  BY <1>2, RaisedMoves DEF AgentRaises, Goes, Started
<1>3. Moves(r) \/ Goes(r)
  BY <1>1, <1>2 DEF AgentEnds
<1>. QED BY <1>3, QuietInv DEF AgentEnds

(* The remaining steps of the walk. *)
LEMMA WalkInv ==
  ASSUME NEW r \in Requests, IInv,
         SkipStep(r) \/ Exhausted(r) \/ DatabaseFails(r) \/ TimeIsUp(r) \/ Callback(r)
  PROVE  IInv' /\ table' = table
<1>. USE DEF IInv
<1>1. CASE SkipStep(r)
  <2>1. at' = [at EXCEPT ![r] = "step"]
    BY <1>1 DEF SkipStep, Walking, Shape
  <2>. QED BY <1>1, <2>1, QuietInv DEF SkipStep, Walking, Moves
<1>2. CASE Exhausted(r)
  <2>1. \E c \in Resting : at' = [at EXCEPT ![r] = c]
    BY <1>2 DEF Exhausted, EndRun, Ended, Resting
  <2>. QED BY <1>2, <2>1, QuietInv DEF Exhausted, Moves
<1>3. CASE DatabaseFails(r)
  BY <1>3, RaisedMoves, QuietInv DEF DatabaseFails
<1>4. CASE Callback(r)
  <2>1. \E c \in Resting : at' = [at EXCEPT ![r] = c]
    BY <1>4 DEF Callback, Resting
  <2>. QED BY <1>4, <2>1, QuietInv DEF Callback, Moves
<1>5. CASE TimeIsUp(r)
  BY <1>5, QuietInv DEF TimeIsUp, retrying, Goes, Started
<1>. QED BY <1>1, <1>2, <1>3, <1>4, <1>5

LEMMA CrashInv ==
  ASSUME IInv, Crash PROVE IInv' /\ table' = table
<1>. USE DEF IInv
<1>1. \A r \in Requests : at'[r] = at[r] \/ at'[r] = "lost"
  BY DEF Crash
<1>2. \A r \in Requests : at'[r] # "lost" => at'[r] \in Settled /\ at'[r] = at[r]
  BY DEF Crash, Shape
<1>3. Shape'
  BY <1>1 DEF Crash, Shape, Control, Settled
<1>4. RequestsApart'
  BY DEF Crash, RequestsApart
<1>5. RowsReached'
  BY <1>1 DEF Crash, Shape, RowsReached, RowReached
<1>6. OwnRow'
  BY <1>2 DEF Crash, OwnRow, OwnRowOf, Recording, Started, Settled
<1>. QED BY <1>3, <1>4, <1>5, <1>6 DEF Crash

LEMMA NextInv == SuppliedApart /\ IInv /\ [DispatchNext]_dispatching => IInv'
<1>. SUFFICES ASSUME SuppliedApart, IInv, [DispatchNext]_dispatching PROVE IInv'
  OBVIOUS
<1>1. ASSUME NEW r \in Requests, Post(r) PROVE IInv'
  BY <1>1, PostInv
<1>2. ASSUME NEW r \in Requests, Advance(r) PROVE IInv'
  BY <1>2, StartInv, InsertInv, MarkInv, CommitResultInv, CommitErrorInv,
     SpawnInv, AgentEndsInv, WalkInv DEF Advance
<1>3. CASE Crash
  BY <1>3, CrashInv
<1>4. CASE UNCHANGED dispatching
  BY <1>4 DEF dispatching, IInv, Shape, RequestsApart, RowsReached, RowReached, OwnRow,
              OwnRowOf, RowStatusOf
<1>. QED BY <1>1, <1>2, <1>3, <1>4 DEF DispatchNext

-----------------------------------------------------------------------------
(* Every step of the service is a step of RunLifecycle or leaves the rows  *)
(* alone: an insert of a new row, a start of a pending one, or a           *)
(* completion of a running one.                                            *)
StatusMap == [id \in RowIds |-> RowStatusOf(id)]

LEMMA UpdateMoves ==
  ASSUME NEW r \in Requests, NEW v, NEW from, Updates(r, v),
         runId[r] \in DOMAIN table => RowStatusOf(runId[r]) = from
  PROVE  \/ UNCHANGED StatusMap
         \/ \E id \in RowIds : /\ StatusMap[id] = from
                               /\ StatusMap' = [StatusMap EXCEPT ![id] = v]
<1>1. CASE runId[r] \in RowIds /\ runId[r] \in DOMAIN table
  BY <1>1 DEF StatusMap, Updates
<1>2. CASE ~(runId[r] \in RowIds /\ runId[r] \in DOMAIN table)
  BY <1>2 DEF StatusMap, Updates
<1>. QED BY <1>1, <1>2

(* The status of the row an UPDATE is about to write. *)
LEMMA RowBefore ==
  ASSUME NEW r \in Requests, IInv, runId[r] \in DOMAIN table
  PROVE  /\ at[r] = "mark" => RowStatusOf(runId[r]) = "pending"
         /\ at[r] \in Started => RowStatusOf(runId[r]) = "running"
<1>1. \A q, i : RowId(q, i)[1] = "run"
  BY DEF RowId
<1>2. runId[r][1] = "run"
  BY <1>1 DEF IInv, RowsReached, RowReached
<1>. QED BY <1>2 DEF IInv, OwnRow, OwnRowOf, Recording, Started

LEMMA InsertMoves ==
  ASSUME NEW r \in Requests, IInv, InsertRow(r)
  PROVE  [Lifecycle!Next]_StatusMap
<1>. DEFINE x == RowId(r, step[r])
<1>1. table' = SetKey(table, x, [status |-> "pending", chain |-> <<>>])
  BY DEF InsertRow
<1>2. [status |-> "pending", chain |-> <<>>].status = "pending"
  OBVIOUS
<1>3. x \notin DOMAIN table
  BY DEF InsertRow, IInv, RowsReached, RowReached, RowId, Shape
<1>. HIDE DEF x
<1>4. \A id : RowStatusOf(id)' = IF id = x THEN "pending" ELSE RowStatusOf(id)
  BY <1>1, <1>2 DEF SetKey, RowStatusOf
<1>5. RowStatusOf(x) = "absent"
  BY <1>3 DEF RowStatusOf
<1>6. CASE x \in RowIds
  <2>1. StatusMap[x] = "absent" /\ StatusMap' = [StatusMap EXCEPT ![x] = "pending"]
    BY <1>4, <1>5, <1>6 DEF StatusMap
  <2>. QED
    BY <2>1, <1>6 DEF StatusMap, Lifecycle!Next, Lifecycle!Insert, Lifecycle!Move
<1>7. CASE x \notin RowIds
  BY <1>4, <1>7 DEF StatusMap
<1>. QED BY <1>6, <1>7

LEMMA StepRefines ==
  SuppliedApart /\ IInv /\ [DispatchNext]_dispatching => [Lifecycle!Next]_StatusMap
<1>. SUFFICES ASSUME SuppliedApart, IInv, [DispatchNext]_dispatching
              PROVE  [Lifecycle!Next]_StatusMap
  OBVIOUS
<1>1. ASSUME table' = table PROVE UNCHANGED StatusMap
  BY <1>1 DEF StatusMap, RowStatusOf
<1>2. ASSUME NEW r \in Requests, InsertRow(r) PROVE [Lifecycle!Next]_StatusMap
  BY <1>2, InsertMoves
<1>3. ASSUME NEW r \in Requests, MarkRunning(r) PROVE [Lifecycle!Next]_StatusMap
  <2>1. \/ UNCHANGED StatusMap
        \/ \E id \in RowIds : /\ StatusMap[id] = "pending"
                              /\ StatusMap' = [StatusMap EXCEPT ![id] = "running"]
    <3>1. Updates(r, "running")
      BY <1>3, MarkInv
    <3>2. runId[r] \in DOMAIN table => RowStatusOf(runId[r]) = "pending"
      BY <1>3, RowBefore DEF MarkRunning
    <3>. QED BY <3>1, <3>2, UpdateMoves
  <2>. QED
    BY <2>1 DEF StatusMap, Lifecycle!Next, Lifecycle!Start, Lifecycle!Move
<1>4. ASSUME NEW r \in Requests, CommitResult(r) \/ CommitError(r)
      PROVE  [Lifecycle!Next]_StatusMap
  <2>1. PICK v \in Terminal : Updates(r, v)
    BY <1>4, CommitResultInv, CommitErrorInv DEF Terminal
  <2>2. runId[r] \in DOMAIN table => RowStatusOf(runId[r]) = "running"
    BY <1>4, RowBefore DEF CommitResult, CommitError, Started
  <2>3. \/ UNCHANGED StatusMap
        \/ \E id \in RowIds : /\ StatusMap[id] = "running"
                              /\ StatusMap' = [StatusMap EXCEPT ![id] = v]
    BY <2>1, <2>2, UpdateMoves
  <2>. QED
    BY <2>3 DEF StatusMap, Lifecycle!Next, Lifecycle!Complete, Lifecycle!Move,
                Lifecycle!Outcome, Terminal
<1>5. ASSUME NEW r \in Requests, Post(r) \/ StartAttempt(r) PROVE table' = table
  BY <1>5 DEF Post, StartAttempt, retrying
<1>6. CASE UNCHANGED dispatching
  BY <1>6, <1>1 DEF dispatching
<1>. QED
  BY <1>1, <1>2, <1>3, <1>4, <1>5, <1>6, SpawnInv, AgentEndsInv, WalkInv, CrashInv
  DEF DispatchNext, Advance

(* For every set of requests, policies, faults and crashes: the invariant. *)
THEOREM DispatchInvariant ==
  ASSUME SuppliedApart PROVE DispatchSpec => []IInv
<1>1. IInv /\ [DispatchNext]_dispatching => IInv'
  BY NextInv
<1>. QED BY InitInv, <1>1, PTL DEF DispatchSpec

(* A row of the runs table only moves from pending to running to one       *)
(* outcome, whatever interleaves, fails or crashes.                        *)
THEOREM TableImplementsLifecycle ==
  ASSUME SuppliedApart PROVE DispatchSpec => RowLifecycle
<1>1. DispatchInit => Lifecycle!Init
  BY DEF DispatchInit, Lifecycle!Init, RowStatusOf
<1>2. IInv /\ [DispatchNext]_dispatching => [Lifecycle!Next]_StatusMap
  BY StepRefines
<1>. QED
  BY <1>1, <1>2, DispatchInvariant, PTL
  DEF DispatchSpec, RowLifecycle, Lifecycle!Spec, StatusMap

-----------------------------------------------------------------------------
(* What the dispatcher knows of the walk it makes: the chain, the results  *)
(* of the attempts behind it, the answer, and the row of a request of one  *)
(* attempt.  A second invariant, which the proofs about answers, callbacks *)
(* and the RUNS dict rest on.                                              *)

Underway == {"insert", "mark", "spawn", "wait", "reap", "commit_result", "commit_error"}

(* The variables are functions of the requests, and a request that has not *)
(* been posted has no walk behind it.                                      *)
Walks ==
  /\ chain \in [Requests -> Seq(RunStatus \cup {"skipped"})]
  /\ last \in [Requests -> Nat]
  /\ final = [r \in Requests |-> final[r]]
  /\ server \in [persist : Scaffolds, crashes : Nat]
  /\ \A r \in Requests :
       /\ at[r] = "idle" => chain[r] = <<>> /\ last[r] = 0 /\ step[r] = 1
       /\ at[r] # "idle" => request[r].steps \in Policies

(* The objects run_agent makes. *)
IsResult(s) ==
  /\ s = [run_id |-> s.run_id, status |-> s.status, error |-> s.error, chain |-> s.chain,
          lost |-> s.lost]
  /\ s.status \in RunStatus

(* A walk under way: one entry for each step behind it, none completed,    *)
(* the first not skipped; the last attempt with a result is the one its    *)
(* entry tells of.                                                         *)
GoingOn(r) ==
  /\ Len(chain[r]) = step[r] - 1 /\ step[r] <= Len(request[r].steps) + 1
  /\ at[r] # "step" => step[r] <= Len(request[r].steps)
  /\ \A i \in 1..Len(chain[r]) : chain[r][i] # "completed"
  /\ chain[r] # <<>> => chain[r][1] # "skipped"
  /\ last[r] <= Len(chain[r])
  /\ last[r] # 0 => /\ <<r, last[r]>> \in DOMAIN state
                    /\ state[<<r, last[r]>>].status = chain[r][last[r]]

(* ChainTellsWalk, of one request. *)
WalkTold(r) ==
  LET n == Len(chain[r]) IN
  /\ n > 0 /\ chain[r][1] # "skipped"
  /\ \A i \in 1..(n - 1) : chain[r][i] # "completed"
  /\ n = Len(request[r].steps) \/ chain[r][n] = "completed"
  /\ final[r].status = "completed" <=> chain[r][n] = "completed"
  /\ final[r].of # 0 => chain[r][final[r].of] = final[r].status

WalkHolds(r) ==
  /\ at[r] = "commit_result" => <<r, step[r]>> \in DOMAIN state
                                /\ IsResult(state[<<r, step[r]>>])
  /\ at[r] # "idle" /\ ~NoRetry(r) =>
       /\ at[r] \in Underway \cup {"step"} => GoingOn(r)
       /\ CallerTold(r) => WalkTold(r)

(* A synchronous request of one attempt: its row is its own, and tells     *)
(* what the caller was told.                                               *)
FirstRow(r) == RowStatusOf(RowId(r, 1))

PlainHolds(r) ==
  /\ at[r] # "idle" /\ NoRetry(r) => step[r] = 1
  /\ Persist /\ PlainRun(r) =>
       /\ at[r] = "insert" => runId[r] = NoId
       /\ at[r] \in Recording => runId[r] = RowId(r, 1)
       /\ at[r] = "done" => FirstRow(r) =
            IF final[r].status = "completed" THEN "success" ELSE "failure"
       /\ at[r] = "error" => FirstRow(r) # "success"
       /\ at[r] # "callback"

Told == Walks /\ \A r \in Requests : WalkHolds(r) /\ PlainHolds(r)

-----------------------------------------------------------------------------
(* A step of r that leaves the others what they know: their ids, their     *)
(* rows and their objects; and one that writes no object of r's but  *)
(* the current attempt's.                                                  *)
RowsSteady(r) ==
  \A q \in Requests \ {r} :
    /\ runId'[q] = runId[q]
    /\ \A i \in Nat : RowStatusOf(RowId(q, i))' = RowStatusOf(RowId(q, i))

Kept(k) == k \in DOMAIN state => k \in DOMAIN state' /\ state'[k] = state[k]

Steady(r) ==
  /\ request' = request /\ server' = server
  /\ RowsSteady(r)
  /\ \A q \in Requests \ {r}, i \in Nat : Kept(<<q, i>>)

StepOnly(r) ==
  /\ Steady(r)
  /\ \A i \in Nat \ {step[r]} : Kept(<<r, i>>)

Elsewhere(r) ==
  \A q \in Requests \ {r} :
    /\ at'[q] = at[q] /\ step'[q] = step[q] /\ chain'[q] = chain[q]
    /\ last'[q] = last[q] /\ final'[q] = final[q]

LEMMA OthersTold ==
  ASSUME NEW r \in Requests, IInv, Told, Steady(r), Elsewhere(r), Walks',
         WalkHolds(r)', PlainHolds(r)'
  PROVE  Told'
<1> SUFFICES ASSUME NEW q \in Requests, q # r PROVE WalkHolds(q)' /\ PlainHolds(q)'
  BY DEF Told
<1>1. /\ at'[q] = at[q] /\ step'[q] = step[q] /\ chain'[q] = chain[q] /\ last'[q] = last[q]
      /\ final'[q] = final[q] /\ request'[q] = request[q] /\ runId'[q] = runId[q]
      /\ FirstRow(q)' = FirstRow(q) /\ server' = server
  BY DEF Elsewhere, Steady, RowsSteady, FirstRow
<1>2. WalkHolds(q) /\ PlainHolds(q) /\ step[q] \in Nat /\ last[q] \in Nat
  BY DEF Told, Walks, IInv, Shape
<1>3. \A i \in Nat : <<q, i>> \in DOMAIN state =>
         <<q, i>> \in DOMAIN state' /\ state'[<<q, i>>] = state[<<q, i>>]
  BY DEF Steady, Kept
<1>4. WalkHolds(q)'
  <2>1. GoingOn(q) => GoingOn(q)'
    BY <1>1, <1>2, <1>3 DEF GoingOn
  <2>2. WalkTold(q) => WalkTold(q)'
    BY <1>1 DEF WalkTold
  <2>3. CallerTold(q)' <=> CallerTold(q)
    BY <1>1 DEF CallerTold
  <2> QED BY <1>1, <1>2, <1>3, <2>1, <2>2, <2>3 DEF WalkHolds, NoRetry
<1>5. PlainHolds(q)'
  BY <1>1, <1>2 DEF PlainHolds, PlainRun, NoRetry, Persist
<1> QED BY <1>4, <1>5

LEMMA Policy ==
  ASSUME NEW r \in Requests, Told, at[r] # "idle"
  PROVE  /\ request[r].steps \in Seq(Triggers) /\ Len(request[r].steps) \in Nat
         /\ ~NoRetry(r) => Len(request[r].steps) > 0
BY ConstantsAssumption DEF ConstantsAssumption, Told, Walks, NoRetry

(* A plain request's row is no outcome while the attempt is under way. *)
LEMMA PlainRow ==
  ASSUME NEW r \in Requests, IInv, Told, Persist, PlainRun(r), at[r] \in {"insert"} \cup Recording
  PROVE  FirstRow(r) \notin Terminal
<1>1. step[r] = 1 /\ at[r] # "idle"
  BY DEF Told, PlainHolds, PlainRun, Recording
<1>2. CASE at[r] = "insert"
  <2>1. RowId(r, 1) \notin DOMAIN table
    BY <1>1, <1>2 DEF IInv, RowsReached, RowReached, RowId
  <2> QED BY <2>1 DEF FirstRow, RowStatusOf, Terminal
<1>3. CASE at[r] \in Recording
  <2>1. runId[r] = RowId(r, 1) /\ RowId(r, 1)[1] = "run"
    BY <1>3 DEF Told, PlainHolds, RowId
  <2> QED BY <1>1, <1>3, <2>1 DEF IInv, OwnRow, OwnRowOf, Recording, Started, FirstRow, Terminal
<1> QED BY <1>2, <1>3

(* The attempt goes on. *)
LEMMA StaysTells ==
  ASSUME NEW r \in Requests, IInv, Told, StepOnly(r), at[r] \in Underway,
         UNCHANGED <<step, chain, last, final>>,
         NEW c \in Underway, at' = [at EXCEPT ![r] = c],
         c = "commit_result" => <<r, step[r]>> \in DOMAIN state'
                                /\ IsResult(state'[<<r, step[r]>>]),
         Persist /\ PlainRun(r) => c # "insert" /\ runId'[r] = RowId(r, 1)
  PROVE  Told'
<1>1. at'[r] = c /\ Elsewhere(r)
  BY DEF IInv, Shape, Elsewhere
<1>2. request' = request /\ server' = server
  BY DEF StepOnly, Steady
<1>3. Walks'
  BY <1>1, <1>2 DEF Told, Walks, Elsewhere, Underway
<1>4. WalkHolds(r)'
  <2>1. GoingOn(r) => GoingOn(r)'
    <3> SUFFICES ASSUME GoingOn(r) PROVE GoingOn(r)'
      OBVIOUS
    <3>1. at[r] # "step" /\ c # "step"
      BY DEF Underway
    <3>2. last[r] # 0 => <<r, last[r]>> # <<r, step[r]>>
      BY DEF GoingOn, IInv, Shape, Told, Walks
    <3>3. last[r] # 0 => <<r, last[r]>> \in DOMAIN state' /\ state'[<<r, last[r]>>] = state[<<r, last[r]>>]
      BY <3>2 DEF GoingOn, StepOnly, Kept, Told, Walks
    <3> QED BY <1>1, <1>2, <3>1, <3>3 DEF GoingOn
  <2>2. ~CallerTold(r)'
    BY <1>1 DEF CallerTold, Underway
  <2>3. at[r] # "idle" /\ WalkHolds(r)
    BY DEF Underway, Told
  <2> QED BY <1>1, <1>2, <2>1, <2>2, <2>3 DEF WalkHolds, NoRetry
<1>5. PlainHolds(r)'
  <2>1. at[r] # "idle" /\ PlainHolds(r)
    BY DEF Underway, Told
  <2>2. c \notin {"done", "error", "callback"}
    BY DEF Underway
  <2> QED BY <1>1, <1>2, <2>1, <2>2 DEF PlainHolds, PlainRun, NoRetry, Persist
<1> QED BY <1>1, <1>3, <1>4, <1>5, OthersTold DEF StepOnly

(* What the walk knew of its last attempt with a result is not touched. *)
LEMMA LastKept ==
  ASSUME NEW r \in Requests, IInv, Told, StepOnly(r), GoingOn(r), last[r] # 0
  PROVE  <<r, last[r]>> \in DOMAIN state' /\ state'[<<r, last[r]>>] = state[<<r, last[r]>>]
<1>1. <<r, last[r]>> # <<r, step[r]>> /\ last[r] \in Nat
  BY DEF GoingOn, IInv, Shape, Told, Walks
<1> QED BY <1>1 DEF GoingOn, StepOnly, Kept

(* The walk passes on: one more entry, which is not "completed". *)
LEMMA NextTells ==
  ASSUME NEW r \in Requests, IInv, Told, StepOnly(r), at[r] \in Underway \cup {"step"},
         ~NoRetry(r), step[r] <= Len(request[r].steps),
         NEW e \in RunStatus \cup {"skipped"}, e # "completed", step[r] = 1 => e # "skipped",
         chain' = [chain EXCEPT ![r] = Append(@, e)], step' = [step EXCEPT ![r] = @ + 1],
         at' = [at EXCEPT ![r] = "step"], final' = final,
         \/ last' = last
         \/ /\ last' = [last EXCEPT ![r] = step[r]]
            /\ <<r, step[r]>> \in DOMAIN state' /\ state'[<<r, step[r]>>].status = e
  PROVE  Told'
<1>1. /\ at'[r] = "step" /\ step'[r] = step[r] + 1 /\ chain'[r] = Append(chain[r], e)
      /\ Elsewhere(r) /\ request' = request /\ server' = server
  BY DEF IInv, Shape, Told, Walks, Elsewhere, StepOnly, Steady
<1>2. at[r] # "idle" /\ GoingOn(r) /\ Len(chain[r]) = step[r] - 1 /\ step[r] \in Nat \ {0}
  BY DEF Underway, Told, WalkHolds, GoingOn, IInv, Shape
<1>3. /\ chain[r] \in Seq(RunStatus \cup {"skipped"}) /\ chain'[r] \in Seq(RunStatus \cup {"skipped"})
      /\ Len(chain'[r]) = step[r] /\ chain'[r][step[r]] = e
      /\ \A i \in 1..Len(chain[r]) : chain'[r][i] = chain[r][i]
  BY <1>1, <1>2 DEF Told, Walks
<1>4. Walks'
  BY <1>1, <1>2, <1>3 DEF Told, Walks, Elsewhere, IInv, Shape
<1>5. GoingOn(r)'
  <2>1. Len(chain'[r]) = step'[r] - 1 /\ step'[r] <= Len(request'[r].steps) + 1
    BY <1>1, <1>2, <1>3, Policy
  <2>2. ASSUME NEW i \in 1..Len(chain'[r]) PROVE chain'[r][i] # "completed"
    BY <1>2, <1>3 DEF GoingOn
  <2>3. chain'[r][1] # "skipped"
    BY <1>2, <1>3 DEF GoingOn
  <2>4. last'[r] <= Len(chain'[r]) /\ (last'[r] # 0 => /\ <<r, last'[r]>> \in DOMAIN state'
                                        /\ state'[<<r, last'[r]>>].status = chain'[r][last'[r]])
    <3>1. CASE last' = last
      <4>1. last[r] \in Nat /\ last[r] <= Len(chain[r])
        BY <1>2 DEF Told, Walks, GoingOn
      <4>2. last[r] # 0 => state[<<r, last[r]>>].status = chain[r][last[r]] /\ last[r] \in 1..Len(chain[r])
        BY <1>2, <4>1 DEF GoingOn
      <4> QED BY <1>2, <1>3, <3>1, <4>1, <4>2, LastKept
    <3>2. CASE last' # last
      <4>1. last'[r] = step[r]
        BY <3>2 DEF Told, Walks
      <4> QED BY <1>3, <3>2, <4>1
    <3> QED BY <3>1, <3>2
  <2> QED BY <1>1, <2>1, <2>2, <2>3, <2>4 DEF GoingOn
<1>6. WalkHolds(r)'
  BY <1>1, <1>5 DEF WalkHolds, CallerTold
<1>7. PlainHolds(r)'
  BY <1>1 DEF PlainHolds, PlainRun, NoRetry, Recording
<1> QED BY <1>1, <1>4, <1>6, <1>7, OthersTold DEF StepOnly

-----------------------------------------------------------------------------
(* What the writers do to the objects and to the rows. *)
LEMMA PutSteady ==
  ASSUME NEW r \in Requests, NEW s, state' = SetKey(state, <<r, step[r]>>, s),
         request' = request, server' = server, RowsSteady(r)
  PROVE  StepOnly(r) /\ <<r, step[r]>> \in DOMAIN state' /\ state'[<<r, step[r]>>] = s
<1>1. \A q, i : <<q, i>> # <<r, step[r]>> => Kept(<<q, i>>)
  BY DEF SetKey, Kept
<1>2. \A q, i : q # r \/ i # step[r] => <<q, i>> # <<r, step[r]>>
  OBVIOUS
<1> QED BY <1>1, <1>2 DEF SetKey, StepOnly, Steady

LEMMA SameSteady ==
  ASSUME NEW r \in Requests, state' = state,
         request' = request, server' = server, RowsSteady(r)
  PROVE  StepOnly(r)
BY DEF StepOnly, Steady, Kept

LEMMA SameRows ==
  ASSUME NEW r \in Requests, table' = table, \A q \in Requests \ {r} : runId'[q] = runId[q]
  PROVE  RowsSteady(r) /\ FirstRow(r)' = FirstRow(r)
BY DEF RowsSteady, FirstRow, RowStatusOf

(* An attempt only ever updates its own row. *)
LEMMA OwnRowOnly ==
  ASSUME NEW r \in Requests, IInv, at[r] \in Recording, runId[r] \in DOMAIN table
  PROVE  runId[r] = RowId(r, step[r])
<1>1. \A q, i : RowId(q, i)[1] = "run"
  BY DEF RowId
<1>2. runId[r][1] = "run"
  BY <1>1 DEF IInv, RowsReached, RowReached
<1> QED BY <1>2 DEF IInv, OwnRow, OwnRowOf

LEMMA UpdateRows ==
  ASSUME NEW r \in Requests, IInv, Told, NEW v, Updates(r, v), runId' = runId,
         at[r] \in Recording
  PROVE  RowsSteady(r) /\ (Persist /\ PlainRun(r) => FirstRow(r)' = v)
<1>1. runId[r] \in DOMAIN table => runId[r] = RowId(r, step[r])
  BY OwnRowOnly
<1>2. RowsSteady(r)
  BY <1>1 DEF RowsSteady, Updates, FirstRow, RowId
<1>3. ASSUME Persist, PlainRun(r) PROVE FirstRow(r)' = v
  <2>1. runId[r] = RowId(r, 1) /\ step[r] = 1
    BY <1>3 DEF Told, PlainHolds, PlainRun, Recording
  <2>2. RowStatusOf(RowId(r, 1)) \in {"pending", "running"}
    BY <2>1 DEF IInv, OwnRow, OwnRowOf, Recording, Started, RowId
  <2>3. RowId(r, 1) \in DOMAIN table
    BY <2>2 DEF RowStatusOf
  <2> QED BY <2>1, <2>3 DEF Updates, FirstRow
<1> QED BY <1>2, <1>3

LEMMA InsertRows ==
  ASSUME NEW r \in Requests, IInv, InsertRow(r)
  PROVE  /\ RowsSteady(r) /\ DOMAIN table' = DOMAIN table \cup {RowId(r, step[r])}
         /\ \A id : RowStatusOf(id)' =
              IF id = RowId(r, step[r]) THEN "pending" ELSE RowStatusOf(id)
<1> DEFINE x == RowId(r, step[r])
<1>1. /\ table' = SetKey(table, x, [status |-> "pending", chain |-> <<>>])
      /\ \A q \in Requests \ {r} : runId'[q] = runId[q]
  BY DEF InsertRow, IInv, Shape
<1>2. [status |-> "pending", chain |-> <<>>].status = "pending"
  OBVIOUS
<1>3. \A q \in Requests \ {r}, i \in Nat : RowId(q, i) # x
  BY DEF RowId
<1> HIDE DEF x
<1>4. DOMAIN table' = DOMAIN table \cup {x}
      /\ \A id : RowStatusOf(id)' = IF id = x THEN "pending" ELSE RowStatusOf(id)
  BY <1>1, <1>2 DEF SetKey, RowStatusOf
<1>5. RowsSteady(r)
  BY <1>1, <1>3, <1>4 DEF RowsSteady
<1> QED BY <1>4, <1>5 DEF x

(* The ends of an attempt. *)
LEMMA RaisedTells ==
  ASSUME NEW r \in Requests, IInv, Told, StepOnly(r), at[r] \in Underway, RunRaised(r),
         Persist /\ PlainRun(r) => FirstRow(r)' # "success"
  PROVE  Told'
<1>1. CASE NoRetry(r)
  <2>1. \E c \in Resting : at' = [at EXCEPT ![r] = c]
                           /\ (request[r].mode = "sync" => c = "error")
    BY <1>1 DEF RunRaised, Ended, Resting
  <2>2. /\ at'[r] \in Resting /\ (request[r].mode = "sync" => at'[r] = "error")
        /\ UNCHANGED <<chain, last, step, request, server>>
        /\ \A q \in Requests \ {r} : at'[q] = at[q] /\ final'[q] = final[q]
        /\ final' = [q \in Requests |-> final'[q]]
    BY <1>1, <2>1 DEF IInv, Shape, RunRaised, Told, Walks, StepOnly, Steady
  <2>3. Walks' /\ Elsewhere(r)
    BY <2>2 DEF Told, Walks, Elsewhere, Resting, Underway
  <2>4. WalkHolds(r)'
    BY <1>1, <2>2 DEF WalkHolds, NoRetry, Resting
  <2>5. PlainHolds(r)'
    BY <1>1, <2>2 DEF PlainHolds, PlainRun, NoRetry, Persist, Recording, Resting,
                      Told, Underway
  <2> QED BY <2>3, <2>4, <2>5, OthersTold DEF StepOnly
<1>2. CASE ~NoRetry(r)
  <2>1. step[r] <= Len(request[r].steps)
    BY <1>2 DEF Told, WalkHolds, GoingOn, Underway
  <2> QED BY <1>2, <2>1, NextTells DEF RunRaised, NextStep, RunStatus
<1> QED BY <1>1, <1>2

LEMMA ReturnedTells ==
  ASSUME NEW r \in Requests, NEW s, IInv, Told, at[r] \in Underway,
         request' = request, server' = server, RowsSteady(r),
         Returned(r, s), IsResult(s),
         Persist /\ PlainRun(r) =>
           FirstRow(r)' = IF s.status = "completed" THEN "success" ELSE "failure"
  PROVE  Told'
<1>1. PICK o : state' = SetKey(state, <<r, step[r]>>, o) /\ o.status = s.status
  <2>1. [s EXCEPT !.chain = Append(chain[r], s.status)].status = s.status
    BY DEF IsResult
  <2> QED BY <2>1 DEF Returned
<1>2. StepOnly(r) /\ <<r, step[r]>> \in DOMAIN state'
      /\ state'[<<r, step[r]>>].status = s.status
  BY <1>1, PutSteady
<1>3. CASE NoRetry(r)
  <2>1. \E c \in Resting : at' = [at EXCEPT ![r] = c]
                           /\ (request[r].mode = "sync" => c = "done")
    BY <1>3 DEF Returned, EndRun, Ended, Resting
  <2>2. /\ at'[r] \in Resting /\ (request[r].mode = "sync" => at'[r] = "done")
        /\ UNCHANGED <<chain, last, step>>
        /\ final' = [final EXCEPT ![r] = FinalOf(step[r], s)]
        /\ \A q \in Requests \ {r} : at'[q] = at[q]
    BY <1>3, <2>1 DEF IInv, Shape, Returned, EndRun
  <2>3. /\ final'[r].status = s.status /\ \A q \in Requests \ {r} : final'[q] = final[q]
        /\ final' = [q \in Requests |-> final'[q]]
    BY <2>2 DEF FinalOf, Told, Walks
  <2>4. Walks' /\ Elsewhere(r)
    BY <2>2, <2>3 DEF Told, Walks, Elsewhere, Resting, Underway
  <2>5. WalkHolds(r)'
    BY <1>3, <2>2 DEF WalkHolds, NoRetry, Resting
  <2>6. PlainHolds(r)'
    BY <1>3, <2>2, <2>3 DEF PlainHolds, PlainRun, NoRetry, Persist, Recording, Resting,
                            Told, Underway
  <2> QED BY <1>2, <2>4, <2>5, <2>6, OthersTold DEF StepOnly
<1>4. CASE ~NoRetry(r) /\ s.status # "completed"
  <2>1. step[r] <= Len(request[r].steps)
    BY <1>4 DEF Told, WalkHolds, GoingOn, Underway
  <2>2. s.status \in RunStatus /\ s.status # "skipped"
    BY DEF IsResult, RunStatus
  <2>3. /\ chain' = [chain EXCEPT ![r] = Append(@, s.status)]
        /\ step' = [step EXCEPT ![r] = @ + 1] /\ at' = [at EXCEPT ![r] = "step"]
        /\ final' = final /\ last' = [last EXCEPT ![r] = step[r]]
    BY <1>4 DEF Returned, NextStep
  <2> QED BY <1>2, <1>4, <2>1, <2>2, <2>3, NextTells
<1>5. CASE ~NoRetry(r) /\ s.status = "completed"
  <2>1. \E c \in {"callback", "done"} : at' = [at EXCEPT ![r] = c]
    BY <1>5 DEF Returned, EndRun, Ended
  <2>0. /\ chain' = [chain EXCEPT ![r] = Append(@, "completed")]
        /\ last' = [last EXCEPT ![r] = step[r]]
        /\ step' = step /\ final' = [final EXCEPT ![r] = FinalOf(step[r], s)]
    BY <1>5 DEF Returned, EndRun
  <2>2. /\ at'[r] \in {"callback", "done"} /\ chain'[r] = Append(chain[r], "completed")
        /\ \A q \in Requests \ {r} : at'[q] = at[q]
    BY <2>0, <2>1 DEF IInv, Shape, Told, Walks
  <2>3. GoingOn(r) /\ Len(chain[r]) = step[r] - 1 /\ step[r] \in Nat \ {0}
    BY <1>5 DEF Told, WalkHolds, GoingOn, Underway, IInv, Shape
  <2>4. /\ chain[r] \in Seq(RunStatus \cup {"skipped"})
        /\ chain'[r] \in Seq(RunStatus \cup {"skipped"})
        /\ Len(chain'[r]) = step[r] /\ chain'[r][step[r]] = "completed"
        /\ \A i \in 1..Len(chain[r]) : chain'[r][i] = chain[r][i]
    BY <2>2, <2>3 DEF Told, Walks, RunStatus
  <2>5. /\ final'[r].status = "completed" /\ final'[r].of = step[r]
        /\ \A q \in Requests \ {r} : final'[q] = final[q]
        /\ final' = [q \in Requests |-> final'[q]]
    BY <1>5, <2>0 DEF FinalOf, Told, Walks
  <2>6. Walks'
    BY <2>0, <2>2, <2>4, <2>5 DEF Told, Walks, Underway, IInv, Shape
  <2>7. Elsewhere(r)
    BY <2>0, <2>2, <2>5 DEF Elsewhere, Told, Walks
  <2>8. WalkTold(r)'
    <3>1. chain'[r][1] # "skipped"
      BY <2>3, <2>4 DEF GoingOn
    <3>2. \A i \in 1..(step[r] - 1) : chain'[r][i] # "completed"
      BY <2>3, <2>4 DEF GoingOn
    <3> QED BY <2>3, <2>4, <2>5, <3>1, <3>2 DEF WalkTold
  <2>9. WalkHolds(r)'
    BY <2>2, <2>8 DEF WalkHolds, Underway
  <2>10. PlainHolds(r)'
    BY <1>5 DEF PlainHolds, PlainRun, NoRetry
  <2> QED BY <1>2, <2>6, <2>7, <2>9, <2>10, OthersTold DEF StepOnly
<1> QED BY <1>3, <1>4, <1>5

-----------------------------------------------------------------------------
(* Every step keeps the three parts. *)
LEMMA InitTold == DispatchInit => Told
<1> SUFFICES ASSUME DispatchInit PROVE Told
  OBVIOUS
<1>1. Walks
  BY ConstantsAssumption DEF DispatchInit, Walks
<1> QED BY <1>1 DEF DispatchInit, Told, WalkHolds, PlainHolds, PlainRun, Recording, Underway

LEMMA PostTells ==
  ASSUME NEW r \in Requests, IInv, Told, Post(r) PROVE Told'
<1>1. /\ at[r] = "idle" /\ at' = [at EXCEPT ![r] = "step"] /\ at'[r] = "step"
      /\ UNCHANGED <<step, runId, state, table, server, chain, last, final>>
      /\ \A q \in Requests \ {r} : at'[q] = at[q] /\ request'[q] = request[q]
  BY DEF Post, retrying, IInv, Shape
<1>2. request'[r].steps \in Policies
  BY ConstantsAssumption DEF Post, IInv, Shape, ConstantsAssumption, Request
<1>3. chain[r] = <<>> /\ last[r] = 0 /\ step[r] = 1
  BY <1>1 DEF Told, Walks
<1>4. Walks'
  BY <1>1, <1>2 DEF Told, Walks
<1>5. ASSUME NEW q \in Requests, q # r PROVE WalkHolds(q)' /\ PlainHolds(q)'
  <2>1. WalkHolds(q) /\ PlainHolds(q)
    BY DEF Told
  <2>2. (GoingOn(q) => GoingOn(q)') /\ (WalkTold(q) => WalkTold(q)')
    BY <1>1, <1>5 DEF GoingOn, WalkTold
  <2>3. WalkHolds(q)'
    BY <1>1, <1>5, <2>1, <2>2 DEF WalkHolds, NoRetry, CallerTold
  <2>4. FirstRow(q)' = FirstRow(q)
    BY <1>1 DEF FirstRow, RowStatusOf
  <2>5. PlainHolds(q)'
    BY <1>1, <1>5, <2>1, <2>4 DEF PlainHolds, PlainRun, NoRetry, Persist
  <2> QED BY <2>3, <2>5
<1>6. WalkHolds(r)'
  <2>1. Len(request'[r].steps) \in Nat
    BY <1>2, ConstantsAssumption DEF ConstantsAssumption
  <2>2. GoingOn(r)'
    BY <1>1, <1>3, <2>1 DEF GoingOn
  <2> QED BY <1>1, <2>2 DEF WalkHolds, CallerTold
<1>7. PlainHolds(r)'
  BY <1>1, <1>3 DEF PlainHolds, Recording
<1> QED BY <1>4, <1>5, <1>6, <1>7 DEF Told

LEMMA SkipTells ==
  ASSUME NEW r \in Requests, IInv, Told, SkipStep(r) PROVE Told'
<1>1. StepOnly(r)
  BY SameRows, SameSteady DEF SkipStep
<1>2. at' = [at EXCEPT ![r] = "step"]
  BY DEF SkipStep, Walking, IInv, Shape
<1>3. step[r] # 1
  BY DEF SkipStep, Applies, StepApplies
<1> QED BY <1>1, <1>2, <1>3, NextTells DEF SkipStep, Walking, RunStatus

LEMMA StartTells ==
  ASSUME NEW r \in Requests, IInv, Told, StartAttempt(r) PROVE Told'
<1>1. /\ at[r] = "step" /\ UNCHANGED <<step, chain, last, final, state, table, request, server>>
      /\ \A q \in Requests \ {r} : at'[q] = at[q] /\ runId'[q] = runId[q]
      /\ at'[r] = IF Persist THEN "insert" ELSE "spawn"
      /\ runId'[r] = AttemptId(r)
      /\ ~NoRetry(r) => step[r] <= Len(request[r].steps)
  BY DEF StartAttempt, retrying, Walking, IInv, Shape
<1>2. Steady(r) /\ Elsewhere(r)
  BY <1>1, SameRows, SameSteady DEF StepOnly, Elsewhere
<1>3. Walks'
  BY <1>1 DEF Told, Walks
<1>4. WalkHolds(r)'
  <2>1. ~NoRetry(r) => GoingOn(r)
    BY <1>1 DEF Told, WalkHolds
  <2>2. ~NoRetry(r) => GoingOn(r)'
    BY <1>1, <2>1 DEF GoingOn
  <2> QED BY <1>1, <2>2 DEF WalkHolds, NoRetry, CallerTold
<1>5. PlainHolds(r)'
  BY <1>1 DEF PlainHolds, PlainRun, NoRetry, Persist, AttemptId, Recording, Told
<1> QED BY <1>2, <1>3, <1>4, <1>5, OthersTold

LEMMA ExhaustedTells ==
  ASSUME NEW r \in Requests, IInv, Told, Exhausted(r) PROVE Told'
<1>1. /\ at[r] = "step" /\ ~NoRetry(r) /\ GoingOn(r) /\ step[r] > Len(request[r].steps)
      /\ UNCHANGED <<step, chain, last, table, request, server, runId>>
  BY DEF Exhausted, Told, WalkHolds, Underway
<1>2. Len(chain[r]) = Len(request[r].steps) /\ Len(chain[r]) \in Nat \ {0}
  <2>1. Len(request[r].steps) \in Nat \ {0}
    BY <1>1, Policy
  <2> QED BY <1>1, <2>1 DEF GoingOn, IInv, Shape
<1> DEFINE f == IF last[r] # 0 THEN FinalOf(last[r], state[<<r, last[r]>>])
                ELSE Fabricated("no_attempt")
<1>3. f.status # "completed" /\ (f.of # 0 => chain[r][f.of] = f.status)
  <2>1. CASE last[r] # 0
    <3>1. state[<<r, last[r]>>].status = chain[r][last[r]] /\ last[r] \in 1..Len(chain[r])
      BY <1>1, <1>2, <2>1 DEF GoingOn, Told, Walks
    <3>2. chain[r][last[r]] # "completed"
      BY <1>1, <3>1 DEF GoingOn
    <3>3. f.of = last[r] /\ f.status = state[<<r, last[r]>>].status
      BY <2>1 DEF FinalOf
    <3> QED BY <3>1, <3>2, <3>3
  <2>2. CASE last[r] = 0
    BY <2>2 DEF Fabricated
  <2> QED BY <2>1, <2>2
<1>4. at'[r] \in {"callback", "done"} /\ \A q \in Requests \ {r} : at'[q] = at[q]
  BY DEF Exhausted, EndRun, Ended, IInv, Shape
<1>5. /\ final'[r] = f /\ \A q \in Requests \ {r} : final'[q] = final[q]
      /\ final' = [q \in Requests |-> final'[q]]
  <2>1. final' = [final EXCEPT ![r] = f]
    BY DEF Exhausted, EndRun
  <2> HIDE DEF f
  <2> QED BY <2>1 DEF Told, Walks
<1> HIDE DEF f
<1>6. Steady(r) /\ Elsewhere(r)
  <2>1. \A q \in Requests \ {r}, i \in Nat : Kept(<<q, i>>)
    <3>1. \A k : k # <<r, last[r]>> => Kept(k)
      BY DEF Exhausted, Kept
    <3> QED BY <3>1
  <2>2. RowsSteady(r)
    BY <1>1, SameRows
  <2> QED BY <1>1, <1>4, <1>5, <2>1, <2>2 DEF Steady, Elsewhere
<1>7. Walks'
  BY <1>1, <1>4, <1>5 DEF Told, Walks
<1>8. WalkTold(r)'
  <2>1. \A i \in 1..Len(chain[r]) : chain[r][i] # "completed"
    BY <1>1 DEF GoingOn
  <2>2. chain[r][1] # "skipped"
    <3>1. chain[r] # <<>>
      BY <1>2
    <3> QED BY <1>1, <3>1 DEF GoingOn
  <2> QED BY <1>1, <1>2, <1>3, <1>5, <2>1, <2>2 DEF WalkTold
<1>9. WalkHolds(r)'
  BY <1>4, <1>8 DEF WalkHolds, Underway
<1>10. PlainHolds(r)'
  BY <1>1 DEF PlainHolds, PlainRun, NoRetry
<1> QED BY <1>6, <1>7, <1>9, <1>10, OthersTold

LEMMA InsertTells ==
  ASSUME NEW r \in Requests, IInv, Told, InsertRow(r) PROVE Told'
<1>1. /\ at[r] = "insert" /\ at' = [at EXCEPT ![r] = "mark"]
      /\ UNCHANGED <<step, chain, last, final, state, request, server>>
      /\ runId'[r] = IF runId[r] # NoId THEN runId[r] ELSE RowId(r, step[r])
  BY DEF InsertRow, retrying, IInv, Shape
<1>4. StepOnly(r)
  BY <1>1, InsertRows, SameSteady
<1>5. Persist /\ PlainRun(r) => runId'[r] = RowId(r, 1)
  BY <1>1 DEF Told, PlainHolds, PlainRun
<1> QED BY <1>1, <1>4, <1>5, StaysTells DEF Underway

LEMMA MarkTells ==
  ASSUME NEW r \in Requests, IInv, Told, MarkRunning(r) PROVE Told'
<1>1. Updates(r, "running")
  BY MarkInv
<1>2. /\ at[r] = "mark" /\ at' = [at EXCEPT ![r] = "spawn"]
      /\ UNCHANGED <<step, chain, last, final, state, request, server, runId>>
  BY DEF MarkRunning, retrying
<1>3. StepOnly(r)
  BY <1>1, <1>2, UpdateRows, SameSteady DEF Recording
<1>4. Persist /\ PlainRun(r) => runId'[r] = RowId(r, 1)
  BY <1>2 DEF Told, PlainHolds, Recording
<1> QED BY <1>2, <1>3, <1>4, StaysTells DEF Underway

LEMMA CommitResultTells ==
  ASSUME NEW r \in Requests, IInv, Told, CommitResult(r) PROVE Told'
<1> DEFINE s == state[<<r, step[r]>>]
<1>1. /\ at[r] = "commit_result" /\ UNCHANGED <<request, server, runId>>
      /\ Updates(r, RowOutcome(s)) /\ Returned(r, s)
  BY SetRowUpdates DEF CommitResult
<1>2. IsResult(s)
  BY <1>1 DEF Told, WalkHolds
<1> HIDE DEF s
<1>3. RowsSteady(r) /\ (Persist /\ PlainRun(r) => FirstRow(r)' = RowOutcome(s))
  BY <1>1, UpdateRows DEF Recording
<1> QED BY <1>1, <1>2, <1>3, ReturnedTells DEF Underway, RowOutcome

LEMMA CommitErrorTells ==
  ASSUME NEW r \in Requests, IInv, Told, CommitError(r) PROVE Told'
<1>1. /\ at[r] = "commit_error" /\ UNCHANGED <<request, server, runId, state>>
      /\ Updates(r, "failure") /\ RunRaised(r)
  BY CommitErrorInv DEF CommitError
<1>2. RowsSteady(r) /\ (Persist /\ PlainRun(r) => FirstRow(r)' = "failure")
  BY <1>1, UpdateRows DEF Recording
<1> QED BY <1>1, <1>2, SameSteady, RaisedTells DEF Underway

LEMMA DatabaseFailsTells ==
  ASSUME NEW r \in Requests, IInv, Told, DatabaseFails(r) PROVE Told'
<1>1. /\ at[r] \in {"insert", "mark", "commit_result", "commit_error"}
      /\ UNCHANGED <<request, server, runId, table>> /\ RunRaised(r)
  BY DEF DatabaseFails
<1>2. StepOnly(r) /\ FirstRow(r)' = FirstRow(r)
  <2>1. \A k : k # <<r, step[r]>> => Kept(k)
    BY DEF DatabaseFails, Kept
  <2> QED BY <1>1, <2>1, SameRows DEF StepOnly, Steady
<1>3. Persist /\ PlainRun(r) => FirstRow(r) # "success"
  BY <1>1, PlainRow DEF Recording, Terminal
<1> QED BY <1>1, <1>2, <1>3, RaisedTells DEF Underway

(* run_agent: the row is untouched until the last transaction. *)
LEMMA AgentReturnsTells ==
  ASSUME NEW r \in Requests, NEW s, IInv, Told, at[r] \in {"spawn", "wait", "reap"},
         request' = request, server' = server, RowsSteady(r), IsResult(s),
         Persist /\ PlainRun(r) => runId'[r] = RowId(r, 1),
         AgentReturns(r, s)
  PROVE  Told'
<1>1. CASE Persist
  <2>1. /\ state' = SetKey(state, <<r, step[r]>>, s)
        /\ UNCHANGED <<step, chain, last, final>>
        /\ at' = [at EXCEPT ![r] = "commit_result"]
    BY <1>1 DEF AgentReturns
  <2>2. /\ StepOnly(r) /\ <<r, step[r]>> \in DOMAIN state'
        /\ IsResult(state'[<<r, step[r]>>])
    BY <2>1, PutSteady
  <2> QED BY <2>1, <2>2, StaysTells DEF Underway
<1>2. CASE ~Persist
  BY <1>2, ReturnedTells DEF AgentReturns, Underway
<1> QED BY <1>1, <1>2

LEMMA AgentRaisesTells ==
  ASSUME NEW r \in Requests, NEW s, IInv, Told, at[r] \in {"spawn", "wait", "reap"},
         request' = request, server' = server, RowsSteady(r),
         Persist /\ PlainRun(r) => runId'[r] = RowId(r, 1),
         AgentRaises(r, s)
  PROVE  Told'
<1>1. StepOnly(r)
  BY PutSteady DEF AgentRaises
<1>2. CASE Persist
  <2>1. /\ UNCHANGED <<step, chain, last, final>>
        /\ at' = [at EXCEPT ![r] = "commit_error"]
    BY <1>2 DEF AgentRaises
  <2> QED BY <1>1, <2>1, StaysTells DEF Underway
<1>3. CASE ~Persist
  BY <1>1, <1>3, RaisedTells DEF AgentRaises, Underway
<1> QED BY <1>2, <1>3

LEMMA ObjectIsResult ==
  ASSUME NEW r, NEW id, NEW status \in RunStatus, NEW error
  PROVE  IsResult(Object(r, id, status, error))
BY DEF Object, IsResult

LEMMA SpawnTells ==
  ASSUME NEW r \in Requests, IInv, Told, SpawnAgent(r) PROVE Told'
<1> DEFINE id == IF runId[r] # NoId THEN runId[r] ELSE MemoryId(r, step[r])
<1>1. /\ at[r] = "spawn" /\ UNCHANGED <<request, table, server>>
      /\ \A q \in Requests \ {r} : runId'[q] = runId[q]
      /\ runId'[r] = id
  BY DEF SpawnAgent, IInv, Shape
<1>2. RowsSteady(r)
  BY <1>1, SameRows
<1>3. Persist /\ PlainRun(r) => runId'[r] = RowId(r, 1)
  BY <1>1 DEF Told, PlainHolds, Recording, RowId, NoId
<1> HIDE DEF id
<1>4. \A s \in RunStatus : \A e : IsResult(Object(r, id, s, e))
  BY ObjectIsResult
<1>5. ASSUME NEW s, IsResult(s), AgentReturns(r, s) PROVE Told'
  BY <1>1, <1>2, <1>3, <1>5, AgentReturnsTells
<1>6. ASSUME NEW s, AgentRaises(r, s) PROVE Told'
  BY <1>1, <1>2, <1>3, <1>6, AgentRaisesTells
<1>7. ASSUME NEW s, state' = SetKey(state, <<r, step[r]>>, s), at' = [at EXCEPT ![r] = "wait"],
             UNCHANGED <<step, chain, prev, last, final>>
      PROVE  Told'
  <2>1. StepOnly(r)
    BY <1>1, <1>2, <1>7, PutSteady
  <2> QED BY <1>1, <1>3, <1>7, <2>1, StaysTells DEF Underway
<1> QED BY <1>4, <1>5, <1>6, <1>7 DEF SpawnAgent, RunStatus, id

LEMMA AgentEndsTells ==
  ASSUME NEW r \in Requests, IInv, Told, AgentEnds(r) PROVE Told'
<1>1. at[r] \in {"wait", "reap"} /\ UNCHANGED <<request, table, server, runId>>
  BY DEF AgentEnds
<1>2. RowsSteady(r)
  BY <1>1, SameRows
<1>3. Persist /\ PlainRun(r) => runId'[r] = RowId(r, 1)
  BY <1>1 DEF Told, PlainHolds, Recording
<1>4. \A s \in RunStatus : \A e : IsResult(Object(r, runId[r], s, e))
  BY ObjectIsResult
<1>5. ASSUME NEW s, IsResult(s), AgentReturns(r, s) PROVE Told'
  BY <1>1, <1>2, <1>3, <1>5, AgentReturnsTells
<1>6. ASSUME NEW s, AgentRaises(r, s) PROVE Told'
  BY <1>1, <1>2, <1>3, <1>6, AgentRaisesTells
<1> QED BY <1>4, <1>5, <1>6 DEF AgentEnds, Exits, Unlogged, RunStatus

LEMMA TimeIsUpTells ==
  ASSUME NEW r \in Requests, IInv, Told, TimeIsUp(r) PROVE Told'
<1>1. /\ at[r] = "wait" /\ at' = [at EXCEPT ![r] = "reap"]
      /\ UNCHANGED <<step, chain, last, final, state, table, request, server, runId>>
  BY DEF TimeIsUp, retrying
<1>2. StepOnly(r)
  BY <1>1, SameRows, SameSteady
<1>3. Persist /\ PlainRun(r) => runId'[r] = RowId(r, 1)
  BY <1>1 DEF Told, PlainHolds, Recording
<1> QED BY <1>1, <1>2, <1>3, StaysTells DEF Underway

LEMMA CallbackTells ==
  ASSUME NEW r \in Requests, IInv, Told, Callback(r) PROVE Told'
<1>1. /\ at[r] = "callback" /\ UNCHANGED <<step, chain, last, final, state, table, request,
                                            server, runId>>
      /\ at'[r] = "done" /\ \A q \in Requests \ {r} : at'[q] = at[q]
  BY DEF Callback, retrying, IInv, Shape
<1>2. Steady(r) /\ Elsewhere(r)
  BY <1>1, SameRows, SameSteady DEF StepOnly, Elsewhere
<1>3. Walks'
  BY <1>1 DEF Told, Walks
<1>4. WalkHolds(r)'
  <2>1. WalkTold(r) => WalkTold(r)'
    BY <1>1 DEF WalkTold
  <2>2. ~NoRetry(r) => WalkTold(r)
    BY <1>1 DEF Told, WalkHolds, CallerTold
  <2> QED BY <1>1, <2>1, <2>2 DEF WalkHolds, NoRetry, Underway
<1>5. PlainHolds(r)'
  BY <1>1 DEF PlainHolds, PlainRun, NoRetry, Persist, Recording, Told
<1> QED BY <1>2, <1>3, <1>4, <1>5, OthersTold

LEMMA CrashTells ==
  ASSUME IInv, Told, Crash PROVE Told'
<1>1. /\ UNCHANGED <<step, chain, last, final, state, table, request, runId>>
      /\ \A r \in Requests : at'[r] = at[r] \/ (at'[r] = "lost" /\ at[r] # "idle")
  BY DEF Crash, retrying, Settled
<1>2. server' \in [persist : Scaffolds, crashes : Nat] /\ server'.persist = server.persist
  <2>1. server \in [persist : Scaffolds, crashes : Nat]
    BY DEF Told, Walks
  <2>2. server' = [server EXCEPT !.crashes = @ + 1]
    BY DEF Crash
  <2> QED BY <2>1, <2>2
<1>3. Walks'
  BY <1>1, <1>2 DEF Told, Walks
<1>4. ASSUME NEW r \in Requests PROVE WalkHolds(r)' /\ PlainHolds(r)'
  <2>1. WalkHolds(r) /\ PlainHolds(r)
    BY DEF Told
  <2>2. FirstRow(r)' = FirstRow(r) /\ (WalkTold(r) => WalkTold(r)')
    BY <1>1 DEF FirstRow, RowStatusOf, WalkTold
  <2>3. CASE at'[r] = at[r]
    <3>1. GoingOn(r) => GoingOn(r)'
      BY <1>1, <2>3 DEF GoingOn
    <3>2. WalkHolds(r)'
      BY <1>1, <2>1, <2>2, <2>3, <3>1 DEF WalkHolds, NoRetry, CallerTold
    <3>3. PlainHolds(r)'
      BY <1>1, <1>2, <2>1, <2>2, <2>3 DEF PlainHolds, PlainRun, NoRetry, Persist
    <3> QED BY <3>2, <3>3
  <2>4. CASE at'[r] = "lost" /\ at[r] # "idle"
    <3>1. WalkHolds(r)'
      BY <2>4 DEF WalkHolds, Underway, CallerTold
    <3>2. PlainHolds(r)'
      BY <1>1, <2>1, <2>4 DEF PlainHolds, NoRetry, Recording
    <3> QED BY <3>1, <3>2
  <2> QED BY <1>1, <2>3, <2>4
<1> QED BY <1>3, <1>4 DEF Told

LEMMA StutterTells ==
  ASSUME Told, UNCHANGED dispatching PROVE Told'
<1>1. UNCHANGED <<request, at, step, runId, chain, last, final, state, table, server>>
  BY DEF dispatching
<1>2. ASSUME NEW r \in Requests PROVE WalkHolds(r)' /\ PlainHolds(r)'
  <2>1. WalkHolds(r) /\ PlainHolds(r)
    BY DEF Told
  <2>2. FirstRow(r)' = FirstRow(r) /\ (WalkTold(r) => WalkTold(r)') /\ (GoingOn(r) => GoingOn(r)')
    BY <1>1 DEF FirstRow, RowStatusOf, WalkTold, GoingOn
  <2> QED BY <1>1, <2>1, <2>2 DEF WalkHolds, PlainHolds, PlainRun, NoRetry, Persist, CallerTold
<1>3. Walks'
  BY <1>1 DEF Told, Walks
<1> QED BY <1>2, <1>3 DEF Told

LEMMA NextTold ==
  ASSUME IInv, Told, [DispatchNext]_dispatching PROVE Told'
<1>1. ASSUME NEW r \in Requests, Advance(r) PROVE Told'
  BY <1>1, SkipTells, StartTells, ExhaustedTells, InsertTells, MarkTells, CommitResultTells,
     CommitErrorTells, DatabaseFailsTells, SpawnTells, TimeIsUpTells, AgentEndsTells, CallbackTells
  DEF Advance
<1> QED BY <1>1, PostTells, CrashTells, StutterTells DEF DispatchNext

-----------------------------------------------------------------------------
(* Types, for any ids of the callers.  A step counter stays within its     *)
(* policy and an object that is looked up is there: the types need both.   *)

Dictionaries ==
  /\ state \in [DOMAIN state -> Result] /\ DOMAIN state \subseteq Attempts
  /\ RUNS  \in [DOMAIN RUNS -> Attempts] /\ DOMAIN RUNS \subseteq RunIds
  /\ table \in [DOMAIN table -> RowRecord] /\ DOMAIN table \subseteq RowIds

Within(r) ==
  /\ at[r] = "idle" => step[r] = 1
  /\ at[r] # "idle" => request[r] \in Sent
  /\ at[r] \in Underway \cup {"step"} /\ NoRetry(r) => step[r] = 1
  /\ at[r] \in Underway /\ ~NoRetry(r) => step[r] <= Len(request[r].steps)
  /\ at[r] = "step" /\ ~NoRetry(r) => step[r] <= Len(request[r].steps) + 1
  /\ at[r] = "commit_result" => <<r, step[r]>> \in DOMAIN state
  /\ at[r] \in {"wait", "reap"} => runId[r] \in RunIds
  /\ last[r] # 0 => <<r, last[r]>> \in DOMAIN state

TypeInv == TypeOK /\ \A r \in Requests : Within(r)

LEMMA PutTyped ==
  ASSUME NEW d, NEW k, NEW v, NEW S, d \in [DOMAIN d -> S], v \in S
  PROVE  /\ DOMAIN SetKey(d, k, v) = DOMAIN d \cup {k}
         /\ SetKey(d, k, v) \in [DOMAIN SetKey(d, k, v) -> S]
BY DEF SetKey

(* An attempt is made of a step there is.                                  *)
LEMMA StepIsOne ==
  ASSUME TypeInv, NEW r \in Requests, at[r] \in Underway
  PROVE  step[r] \in Steps /\ request[r] \in Sent
<1>1. step[r] \in 1..(MaxSteps + 1) /\ MaxSteps \in Nat \ {0} /\ request[r] \in Sent
  BY ConstantsAssumption DEF TypeInv, TypeOK, Within, Underway
<1>2. request[r].steps \in Policies /\ Len(request[r].steps) \in Nat /\ Len(request[r].steps) <= MaxSteps
  BY <1>1, ConstantsAssumption DEF Sent
<1>3. step[r] = 1 \/ step[r] <= Len(request[r].steps)
  BY DEF TypeInv, Within
<1> QED BY <1>1, <1>2, <1>3 DEF Steps

(* What the end of an attempt does to the walk.                            *)
WalkTyped(r) ==
  /\ at' \in [Requests -> Control] /\ step' \in [Requests -> 1..(MaxSteps + 1)]
  /\ chain' \in [Requests -> Chains] /\ prev' \in [Requests -> RunStatus \cup {"pending"}]
  /\ last' \in [Requests -> 0..MaxSteps] /\ final' \in [Requests -> Final]
  /\ \A q \in Requests \ {r} : at'[q] = at[q] /\ step'[q] = step[q] /\ last'[q] = last[q]
  /\ at'[r] \in {"step", "callback", "done", "error"}
  /\ at'[r] = "step" => ~NoRetry(r) /\ step'[r] = step[r] + 1
  /\ last'[r] \in {last[r], step[r]}

LEMMA LastTyped ==
  ASSUME TypeInv, NEW r \in Requests,
         last' = last \/ (last' = [last EXCEPT ![r] = step[r]] /\ at[r] \in Underway)
  PROVE  /\ last' \in [Requests -> 0..MaxSteps] /\ last'[r] \in {last[r], step[r]}
         /\ \A q \in Requests \ {r} : last'[q] = last[q]
<1>1. last \in [Requests -> 0..MaxSteps]
  BY DEF TypeInv, TypeOK
<1>2. CASE last' = last
  BY <1>1, <1>2
<1>3. CASE last' = [last EXCEPT ![r] = step[r]] /\ at[r] \in Underway
  <2>1. step[r] \in 0..MaxSteps
    BY <1>3, StepIsOne, ConstantsAssumption DEF Steps
  <2> QED BY <1>1, <1>3, <2>1
<1> QED BY <1>2, <1>3

LEMMA NextStepTyped ==
  ASSUME TypeInv, NEW r \in Requests, at[r] \in Underway, ~NoRetry(r),
         NEW status \in RunStatus, NextStep(r, status), final' = final,
         last' = last \/ (last' = [last EXCEPT ![r] = step[r]] /\ at[r] \in Underway)
  PROVE  WalkTyped(r)
<1>1. step[r] \in 1..MaxSteps
  BY StepIsOne DEF Steps
<1>2. step' \in [Requests -> 1..(MaxSteps + 1)] /\ step'[r] = step[r] + 1
  BY <1>1, ConstantsAssumption DEF NextStep, TypeInv, TypeOK
<1>3. Append(chain[r], status) \in Chains
  BY DEF TypeInv, TypeOK, Chains
<1>4. chain' \in [Requests -> Chains]
  BY <1>3 DEF NextStep, TypeInv, TypeOK
<1>5. /\ prev' \in [Requests -> RunStatus \cup {"pending"}] /\ at' \in [Requests -> Control] /\ at'[r] = "step"
      /\ \A q \in Requests \ {r} : at'[q] = at[q] /\ step'[q] = step[q]
  BY DEF NextStep, TypeInv, TypeOK, Control
<1>6. /\ last' \in [Requests -> 0..MaxSteps] /\ last'[r] \in {last[r], step[r]}
      /\ \A q \in Requests \ {r} : last'[q] = last[q]
  BY LastTyped
<1>7. final' \in [Requests -> Final]
  BY DEF TypeInv, TypeOK
<1> QED BY <1>2, <1>4, <1>5, <1>6, <1>7 DEF WalkTyped

LEMMA FinishTyped ==
  ASSUME TypeInv, NEW r \in Requests, NEW f \in Final,
         \/ EndRun(r, f)
         \/ at' = [at EXCEPT ![r] = "error"] /\ final' = [final EXCEPT ![r] = f],
         chain' = chain \/ \E s \in RunStatus : chain' = [chain EXCEPT ![r] = Append(@, s)],
         UNCHANGED <<prev, step>>,
         last' = last \/ (last' = [last EXCEPT ![r] = step[r]] /\ at[r] \in Underway)
  PROVE  WalkTyped(r)
<1>1. chain' \in [Requests -> Chains]
  <2>1. \A s \in RunStatus : Append(chain[r], s) \in Chains
    BY DEF TypeInv, TypeOK, Chains
  <2>2. chain \in [Requests -> Chains]
    BY DEF TypeInv, TypeOK
  <2>3. ASSUME NEW t \in Chains, chain' = [chain EXCEPT ![r] = t]
        PROVE  chain' \in [Requests -> Chains]
    BY <2>2, <2>3
  <2> QED BY <2>1, <2>2, <2>3
<1>2. /\ final' \in [Requests -> Final] /\ at' \in [Requests -> Control]
      /\ at'[r] \in {"callback", "done", "error"} /\ \A q \in Requests \ {r} : at'[q] = at[q]
  <2>1. final' = [final EXCEPT ![r] = f] /\ final \in [Requests -> Final] /\ at \in [Requests -> Control]
    BY DEF EndRun, TypeInv, TypeOK
  <2>2. PICK end \in {"callback", "done", "error"} : at' = [at EXCEPT ![r] = end]
    BY DEF EndRun, Ended
  <2> QED BY <2>1, <2>2 DEF Control
<1>3. /\ last' \in [Requests -> 0..MaxSteps] /\ last'[r] \in {last[r], step[r]}
      /\ \A q \in Requests \ {r} : last'[q] = last[q]
  BY LastTyped
<1> QED BY <1>1, <1>2, <1>3 DEF WalkTyped, TypeInv, TypeOK

LEMMA RaisedTyped ==
  ASSUME TypeInv, NEW r \in Requests, at[r] \in Underway, RunRaised(r)
  PROVE  WalkTyped(r) /\ last' = last
<1>1. CASE NoRetry(r)
  <2>1. Fabricated("raised") \in Final /\ final[r] \in Final
    BY ConstantsAssumption DEF Fabricated, Final, RunStatus, Errors, TypeInv, TypeOK
  <2> DEFINE f == IF request[r].mode = "fire_and_forget" THEN Fabricated("raised") ELSE final[r]
  <2>2. f \in Final
    BY <2>1
  <2>3. /\ final' = [final EXCEPT ![r] = f]
        /\ at' = [at EXCEPT ![r] = IF request[r].mode = "sync" THEN "error" ELSE Ended(r)]
        /\ UNCHANGED <<chain, prev, last, step>>
    BY <1>1 DEF RunRaised
  <2> HIDE DEF f
  <2> QED BY <2>2, <2>3, FinishTyped DEF EndRun
<1>2. CASE ~NoRetry(r)
  <2>1. NextStep(r, "failed") /\ UNCHANGED <<last, final>> /\ "failed" \in RunStatus
    BY <1>2 DEF RunRaised, RunStatus
  <2> QED BY <1>2, <2>1, NextStepTyped
<1> QED BY <1>1, <1>2

LEMMA ReturnedTyped ==
  ASSUME TypeInv, NEW r \in Requests, at[r] \in Underway, NEW s \in Result, Returned(r, s)
  PROVE  /\ WalkTyped(r)
         /\ \E t \in Result : state' = SetKey(state, <<r, step[r]>>, t)
<1>1. s.status \in RunStatus /\ s.error \in Errors
  BY DEF Result
<1>2. Append(chain[r], s.status) \in Chains
  BY <1>1 DEF TypeInv, TypeOK, Chains
<1>3. \E t \in Result : state' = SetKey(state, <<r, step[r]>>, t)
  <2>1. [s EXCEPT !.chain = Append(chain[r], s.status)] \in Result
    BY <1>2 DEF Result
  <2> QED BY <2>1 DEF Returned
<1>4. FinalOf(step[r], s) \in Final
  BY <1>1, StepIsOne, ConstantsAssumption DEF FinalOf, Final, Steps
<1>5. WalkTyped(r)
  <2>1. CASE NoRetry(r)
    <3>1. EndRun(r, FinalOf(step[r], s)) /\ UNCHANGED <<chain, prev, last, step>>
      BY <2>1 DEF Returned
    <3> QED BY <1>4, <3>1, FinishTyped
  <2>2. CASE ~NoRetry(r) /\ s.status = "completed"
    <3>1. /\ EndRun(r, FinalOf(step[r], s)) /\ UNCHANGED <<prev, step>>
          /\ last' = [last EXCEPT ![r] = step[r]]
          /\ chain' = [chain EXCEPT ![r] = Append(@, s.status)]
      BY <2>2 DEF Returned
    <3> QED BY <1>1, <1>4, <3>1, FinishTyped
  <2>3. CASE ~NoRetry(r) /\ s.status # "completed"
    <3>1. NextStep(r, s.status) /\ UNCHANGED final /\ last' = [last EXCEPT ![r] = step[r]]
      BY <2>3 DEF Returned
    <3> QED BY <1>1, <2>3, <3>1, NextStepTyped
  <2> QED BY <2>1, <2>2, <2>3
<1> QED BY <1>3, <1>5

(* An attempt ends, or goes on.                                            *)
LEMMA AttemptLeft ==
  ASSUME TypeInv, NEW r \in Requests, at[r] \in Underway, WalkTyped(r),
         UNCHANGED <<request, posted, server>>, Dictionaries',
         runId' \in [Requests -> RunIds \cup {NoId}], \A q \in Requests \ {r} : runId'[q] = runId[q],
         DOMAIN state \subseteq DOMAIN state',
         last'[r] # last[r] => <<r, step[r]>> \in DOMAIN state'
  PROVE  TypeInv'
<1>1. TypeOK'
  BY DEF TypeInv, TypeOK, WalkTyped, Dictionaries
<1>2. \A q \in Requests \ {r} : Within(q)'
  BY DEF TypeInv, Within, WalkTyped, NoRetry
<1>3. Within(r)'
  <2>1. /\ Within(r) /\ request[r] \in Sent /\ step[r] \in Steps /\ last'[r] \in {last[r], step[r]}
        /\ at'[r] \in {"step", "callback", "done", "error"}
        /\ at'[r] = "step" => ~NoRetry(r) /\ step'[r] = step[r] + 1
    BY StepIsOne DEF TypeInv, WalkTyped
  <2>2. at'[r] = "step" /\ ~NoRetry(r) => step'[r] <= Len(request[r].steps) + 1
    <3>1. request[r].steps \in Policies /\ Len(request[r].steps) \in Nat
      BY <2>1, ConstantsAssumption DEF Sent
    <3> QED BY <2>1, <3>1 DEF Within, Steps
  <2> QED BY <2>1, <2>2 DEF Within, NoRetry, Underway
<1> QED BY <1>1, <1>2, <1>3 DEF TypeInv

LEMMA AttemptOn ==
  ASSUME TypeInv, NEW r \in Requests, at[r] \in Underway \cup {"step"},
         at[r] = "step" => NoRetry(r) \/ step[r] <= Len(request[r].steps),
         NEW p \in Underway, at' = [at EXCEPT ![r] = p],
         UNCHANGED <<request, posted, server, step, chain, prev, last, final>>, Dictionaries',
         runId' \in [Requests -> RunIds \cup {NoId}], \A q \in Requests \ {r} : runId'[q] = runId[q],
         DOMAIN state \subseteq DOMAIN state',
         p = "commit_result" => <<r, step[r]>> \in DOMAIN state',
         p \in {"wait", "reap"} => runId'[r] \in RunIds
  PROVE  TypeInv'
<1>1. at' \in [Requests -> Control] /\ at'[r] = p /\ \A q \in Requests \ {r} : at'[q] = at[q]
  BY DEF TypeInv, TypeOK, Control, Underway
<1>2. TypeOK'
  BY <1>1 DEF TypeInv, TypeOK, Dictionaries
<1>3. \A q \in Requests \ {r} : Within(q)'
  BY <1>1 DEF TypeInv, Within, NoRetry
<1>4. Within(r)'
  BY <1>1 DEF TypeInv, Within, NoRetry, Underway
<1> QED BY <1>2, <1>3, <1>4 DEF TypeInv

LEMMA RowTyped ==
  ASSUME TypeInv, NEW id, NEW row, SetRow(id, row), id \in DOMAIN table => row \in RowRecord
  PROVE  table' \in [DOMAIN table' -> RowRecord] /\ DOMAIN table' \subseteq RowIds
<1>1. CASE id \in DOMAIN table
  <2>1. table \in [DOMAIN table -> RowRecord] /\ DOMAIN table \subseteq RowIds /\ row \in RowRecord /\ table' = SetKey(table, id, row)
    BY <1>1 DEF SetRow, TypeInv, TypeOK
  <2>2. DOMAIN SetKey(table, id, row) = DOMAIN table \cup {id} /\ SetKey(table, id, row) \in [DOMAIN SetKey(table, id, row) -> RowRecord]
    BY <2>1, PutTyped
  <2> QED BY <1>1, <2>1, <2>2
<1>2. CASE id \notin DOMAIN table
  BY <1>2 DEF SetRow, TypeInv, TypeOK
<1> QED BY <1>1, <1>2

LEMMA StateTyped ==
  ASSUME TypeInv, NEW r \in Requests, step[r] \in Steps, NEW t \in Result, state' = SetKey(state, <<r, step[r]>>, t)
  PROVE  /\ state' \in [DOMAIN state' -> Result] /\ DOMAIN state' \subseteq Attempts
         /\ DOMAIN state' = DOMAIN state \cup {<<r, step[r]>>}
<1> DEFINE k == <<r, step[r]>>
<1>1. state \in [DOMAIN state -> Result] /\ DOMAIN state \subseteq Attempts /\ k \in Attempts
  BY DEF TypeInv, TypeOK, Attempts
<1> HIDE DEF k
<1>2. state' = SetKey(state, k, t)
  BY DEF k
<1>3. DOMAIN SetKey(state, k, t) = DOMAIN state \cup {k} /\ SetKey(state, k, t) \in [DOMAIN SetKey(state, k, t) -> Result]
  BY <1>1, PutTyped
<1>4. /\ state' \in [DOMAIN state' -> Result] /\ DOMAIN state' \subseteq Attempts
      /\ DOMAIN state' = DOMAIN state \cup {k}
  BY <1>1, <1>2, <1>3
<1> QED BY <1>4 DEF k

LEMMA PostTyped == ASSUME TypeInv, NEW r \in Requests, Post(r) PROVE TypeInv'
<1>1. PICK q \in Bodies :
        LET id == IF q.mode = "sync" \/ q.id # NoId THEN q.id ELSE BackgroundId(r)
        IN  request' = [request EXCEPT ![r] = [q EXCEPT !.id = id]]
  BY DEF Post
<1> DEFINE id == IF q.mode = "sync" \/ q.id # NoId THEN q.id ELSE BackgroundId(r)
           s  == [q EXCEPT !.id = id]
<1>2. q \in Request
  BY ConstantsAssumption
<1>3. id \in BaseIds \cup {NoId}
  BY <1>2 DEF Request, BaseIds
<1>4. s \in Sent
  <2> HIDE DEF id
  <2> QED BY <1>2, <1>3 DEF Request, Sent
<1>5. request' = [request EXCEPT ![r] = s]
  BY <1>1
<1> HIDE DEF s
<1>6. /\ request' \in [Requests -> Sent \cup {NoRequest}] /\ request'[r] \in Sent
      /\ \A x \in Requests \ {r} : request'[x] = request[x]
  BY <1>4, <1>5 DEF TypeInv, TypeOK
<1>7. /\ at' \in [Requests -> Control] /\ at'[r] = "step" /\ at[r] = "idle"
      /\ \A x \in Requests \ {r} : at'[x] = at[x]
      /\ UNCHANGED <<step, runId, state, RUNS, table, posted, server, chain, prev, last, final>>
  BY DEF Post, retrying, TypeInv, TypeOK, Control
<1>8. TypeOK'
  BY <1>6, <1>7 DEF TypeInv, TypeOK
<1>9. \A x \in Requests \ {r} : Within(x)'
  BY <1>6, <1>7 DEF TypeInv, Within, NoRetry
<1>10. Within(r)'
  <2>1. step[r] = 1 /\ Within(r)
    BY <1>7 DEF TypeInv, Within
  <2>2. Len(request'[r].steps) \in Nat
    BY <1>6, ConstantsAssumption DEF Sent
  <2> QED BY <1>6, <1>7, <2>1, <2>2 DEF Within, NoRetry, Underway
<1> QED BY <1>8, <1>9, <1>10 DEF TypeInv

LEMMA SkipTyped == ASSUME TypeInv, NEW r \in Requests, SkipStep(r) PROVE TypeInv'
<1>1. /\ at[r] = "step" /\ ~NoRetry(r) /\ step[r] <= Len(request[r].steps) /\ Within(r)
      /\ chain' = [chain EXCEPT ![r] = Append(@, "skipped")] /\ step' = [step EXCEPT ![r] = @ + 1]
      /\ UNCHANGED <<request, at, runId, prev, last, state, RUNS, table, final, posted, server>>
  BY DEF SkipStep, Walking, TypeInv
<1>2. request[r] \in Sent /\ Len(request[r].steps) \in Nat /\ Len(request[r].steps) <= MaxSteps
  BY <1>1, ConstantsAssumption DEF Within, Sent
<1>3. /\ step' \in [Requests -> 1..(MaxSteps + 1)] /\ step'[r] <= Len(request[r].steps) + 1
      /\ \A q \in Requests \ {r} : step'[q] = step[q]
  BY <1>1, <1>2, ConstantsAssumption DEF TypeInv, TypeOK
<1>4. chain' \in [Requests -> Chains]
  <2>1. Append(chain[r], "skipped") \in Chains
    BY DEF TypeInv, TypeOK, Chains
  <2> QED BY <1>1, <2>1 DEF TypeInv, TypeOK
<1>5. TypeOK'
  BY <1>1, <1>3, <1>4 DEF TypeInv, TypeOK
<1>6. \A q \in Requests \ {r} : Within(q)'
  BY <1>1, <1>3 DEF TypeInv, Within, NoRetry
<1>7. Within(r)'
  BY <1>1, <1>3 DEF Within, NoRetry, Underway
<1> QED BY <1>5, <1>6, <1>7 DEF TypeInv

LEMMA IdTyped ==
  ASSUME NEW id \in BaseIds \cup {NoId}, NEW r \in Requests, NEW i \in Steps
  PROVE  /\ id \in RunIds \cup {NoId} /\ (id # NoId => StepOf(id, i) \in RunIds)
         /\ FreshStepId(r, i) \in RunIds /\ MemoryId(r, i) \in RunIds /\ RowId(r, i) \in RunIds /\ RowId(r, i) \in RowIds
<1>1. id # NoId => (id \in RunIds /\ StepOf(id, i) \in RunIds)
  BY DEF RunIds
<1>2. FreshStepId(r, i) \in RunIds /\ MemoryId(r, i) \in RunIds /\ RowId(r, i) \in RowIds
  BY DEF RunIds, RowIds
<1>3. RowId(r, i) \in RunIds
  BY <1>2 DEF RunIds
<1> QED BY <1>1, <1>2, <1>3

LEMMA StartTyped == ASSUME TypeInv, NEW r \in Requests, StartAttempt(r) PROVE TypeInv'
<1>1. /\ at[r] = "step" /\ (NoRetry(r) \/ step[r] <= Len(request[r].steps)) /\ Within(r)
      /\ runId' = [runId EXCEPT ![r] = AttemptId(r)]
      /\ UNCHANGED <<request, step, state, RUNS, table, posted, server, chain, prev, last, final>>
  BY DEF StartAttempt, Walking, retrying, TypeInv
<1>2. step[r] \in Steps
  <2>1. request[r] \in Sent /\ step[r] \in 1..(MaxSteps + 1) /\ MaxSteps \in Nat
    BY <1>1, ConstantsAssumption DEF Within, TypeInv, TypeOK
  <2>2. Len(request[r].steps) \in Nat /\ Len(request[r].steps) <= MaxSteps
    BY <2>1, ConstantsAssumption DEF Sent
  <2>3. NoRetry(r) => step[r] = 1
    BY <1>1 DEF Within
  <2>4. MaxSteps >= 1
    BY ConstantsAssumption
  <2> QED BY <1>1, <2>1, <2>2, <2>3, <2>4 DEF Steps
<1>3. AttemptId(r) \in RunIds \cup {NoId}
  <2>1. request[r].id \in BaseIds \cup {NoId}
    BY <1>1 DEF Within, Sent
  <2> QED BY <1>2, <2>1, IdTyped DEF AttemptId
<1>4. /\ runId' \in [Requests -> RunIds \cup {NoId}] /\ \A q \in Requests \ {r} : runId'[q] = runId[q]
  BY <1>1, <1>3 DEF TypeInv, TypeOK
<1>5. PICK p \in {"insert", "spawn"} : at' = [at EXCEPT ![r] = p]
  BY DEF StartAttempt
<1>6. Dictionaries' /\ p \in Underway
  BY <1>1, <1>5 DEF TypeInv, TypeOK, Dictionaries, Underway
<1> QED BY <1>1, <1>4, <1>5, <1>6, AttemptOn

LEMMA InsertTyped == ASSUME TypeInv, NEW r \in Requests, InsertRow(r) PROVE TypeInv'
<1>1. /\ at[r] = "insert" /\ at' = [at EXCEPT ![r] = "mark"]
      /\ table' = SetKey(table, RowId(r, step[r]), [status |-> "pending", chain |-> <<>>])
      /\ runId' = [runId EXCEPT ![r] = IF @ # NoId THEN @ ELSE RowId(r, step[r])]
      /\ UNCHANGED <<request, step, state, RUNS, posted, server, chain, prev, last, final>>
  BY DEF InsertRow, retrying
<1>2. step[r] \in Steps /\ request[r] \in Sent
  BY <1>1, StepIsOne DEF Underway
<1>3. RowId(r, step[r]) \in RunIds /\ RowId(r, step[r]) \in RowIds
  BY <1>2, IdTyped
<1>4. [status |-> "pending", chain |-> <<>>] \in RowRecord
  BY DEF RowRecord, RowStatus, Chains
<1>5. Dictionaries'
  <2> DEFINE id  == RowId(r, step[r])
             row == [status |-> "pending", chain |-> <<>>]
  <2>1. table' = SetKey(table, id, row) /\ id \in RowIds /\ row \in RowRecord
    BY <1>1, <1>3, <1>4
  <2> HIDE DEF id, row
  <2>2. table \in [DOMAIN table -> RowRecord] /\ DOMAIN table \subseteq RowIds
    BY DEF TypeInv, TypeOK
  <2>3. DOMAIN SetKey(table, id, row) = DOMAIN table \cup {id} /\ SetKey(table, id, row) \in [DOMAIN SetKey(table, id, row) -> RowRecord]
    BY <2>1, <2>2, PutTyped
  <2>4. table' \in [DOMAIN table' -> RowRecord] /\ DOMAIN table' \subseteq RowIds
    BY <2>1, <2>2, <2>3
  <2> QED BY <1>1, <2>4 DEF TypeInv, TypeOK, Dictionaries
<1>6. /\ runId' \in [Requests -> RunIds \cup {NoId}] /\ \A q \in Requests \ {r} : runId'[q] = runId[q]
  BY <1>1, <1>3 DEF TypeInv, TypeOK
<1> QED BY <1>1, <1>5, <1>6, AttemptOn DEF Underway

LEMMA MarkTyped == ASSUME TypeInv, NEW r \in Requests, MarkRunning(r) PROVE TypeInv'
<1> DEFINE row == [status |-> "running", chain |-> table[runId[r]].chain]
<1>1. /\ at[r] = "mark" /\ at' = [at EXCEPT ![r] = "spawn"] /\ SetRow(runId[r], row)
      /\ UNCHANGED <<request, step, runId, state, RUNS, posted, server, chain, prev, last, final>>
  BY DEF MarkRunning, retrying
<1>2. runId[r] \in DOMAIN table => row \in RowRecord
  <2> SUFFICES ASSUME runId[r] \in DOMAIN table PROVE row \in RowRecord
    OBVIOUS
  <2>1. table[runId[r]] \in RowRecord
    BY DEF TypeInv, TypeOK
  <2> QED BY <2>1 DEF RowRecord, RowStatus
<1> HIDE DEF row
<1>3. Dictionaries'
  BY <1>1, <1>2, RowTyped DEF TypeInv, TypeOK, Dictionaries
<1>4. runId' \in [Requests -> RunIds \cup {NoId}] /\ \A q \in Requests \ {r} : runId'[q] = runId[q]
  BY <1>1 DEF TypeInv, TypeOK
<1> QED BY <1>1, <1>3, <1>4, AttemptOn DEF Underway

LEMMA CommitsTyped ==
  ASSUME TypeInv, NEW r \in Requests, CommitResult(r) \/ CommitError(r) \/ DatabaseFails(r)
  PROVE  TypeInv'
<1>1. /\ at[r] \in Underway /\ UNCHANGED <<request, runId, RUNS, posted, server>>
      /\ runId' \in [Requests -> RunIds \cup {NoId}]
  BY DEF CommitResult, CommitError, DatabaseFails, Underway, TypeInv, TypeOK
<1>2. step[r] \in Steps
  BY <1>1, StepIsOne
<1>3. CASE CommitResult(r)
  <2> DEFINE s == state[<<r, step[r]>>]
             row == [status |-> RowOutcome(s), chain |-> s.chain]
  <2>1. at[r] = "commit_result" /\ SetRow(runId[r], row) /\ Returned(r, s)
    BY <1>3 DEF CommitResult
  <2>2. s \in Result
    BY <2>1 DEF TypeInv, TypeOK, Within
  <2> HIDE DEF s
  <2>3. row \in RowRecord
    BY <2>2 DEF RowRecord, RowStatus, RowOutcome, Result
  <2> HIDE DEF row
  <2>4. table' \in [DOMAIN table' -> RowRecord] /\ DOMAIN table' \subseteq RowIds
    BY <2>1, <2>3, RowTyped
  <2>5. /\ WalkTyped(r) /\ state' \in [DOMAIN state' -> Result] /\ DOMAIN state' \subseteq Attempts
        /\ DOMAIN state' = DOMAIN state \cup {<<r, step[r]>>}
    BY <1>1, <1>2, <2>1, <2>2, ReturnedTyped, StateTyped
  <2>6. Dictionaries'
    BY <1>1, <2>4, <2>5 DEF TypeInv, TypeOK, Dictionaries
  <2> QED BY <1>1, <2>5, <2>6, AttemptLeft
<1>4. CASE CommitError(r)
  <2> DEFINE row == [status |-> "failure", chain |-> <<>>]
  <2>1. SetRow(runId[r], row) /\ RunRaised(r) /\ UNCHANGED state
    BY <1>4 DEF CommitError
  <2>2. row \in RowRecord
    BY DEF RowRecord, RowStatus, Chains
  <2> HIDE DEF row
  <2>3. Dictionaries'
    BY <1>1, <2>1, <2>2, RowTyped DEF TypeInv, TypeOK, Dictionaries
  <2> QED BY <1>1, <2>1, <2>3, RaisedTyped, AttemptLeft
<1>5. CASE DatabaseFails(r)
  <2>1. RunRaised(r) /\ table' = table
    BY <1>5 DEF DatabaseFails
  <2> DEFINE k == <<r, step[r]>>
  <2>2. state' = state \/ (k \in DOMAIN state /\ state' = [state EXCEPT ![k].lost = "row"])
    BY <1>5 DEF DatabaseFails, TypeInv, Within
  <2> HIDE DEF k
  <2>3. \A s \in Result : [s EXCEPT !.lost = "row"] \in Result
    BY DEF Result
  <2>4. /\ state' \in [DOMAIN state' -> Result] /\ DOMAIN state' = DOMAIN state
        /\ DOMAIN state' \subseteq Attempts
    BY <2>2, <2>3 DEF TypeInv, TypeOK
  <2>5. Dictionaries'
    BY <1>1, <2>1, <2>4 DEF TypeInv, TypeOK, Dictionaries
  <2> QED BY <1>1, <2>1, <2>4, <2>5, RaisedTyped, AttemptLeft
<1> QED BY <1>3, <1>4, <1>5

LEMMA ExhaustedTyped == ASSUME TypeInv, NEW r \in Requests, Exhausted(r) PROVE TypeInv'
<1>1. /\ at[r] = "step" /\ Within(r)
      /\ UNCHANGED <<request, step, runId, chain, prev, last, RUNS, table, posted, server>>
  BY DEF Exhausted, TypeInv
<1>2. PICK f \in Final : /\ EndRun(r, f)
                         /\ state' \in [DOMAIN state' -> Result] /\ DOMAIN state' = DOMAIN state
  <2>1. CASE last[r] # 0
    <3> DEFINE k == <<r, last[r]>>
    <3>1. k \in DOMAIN state /\ state[k] \in Result /\ chain[r] \in Chains
      BY <1>1, <2>1 DEF Within, TypeInv, TypeOK
    <3>2. [state[k] EXCEPT !.chain = chain[r]] \in Result
      BY <3>1 DEF Result
    <3>3. state' = [state EXCEPT ![k] = [state[k] EXCEPT !.chain = chain[r]]]
      BY <2>1 DEF Exhausted
    <3>4. state' \in [DOMAIN state' -> Result] /\ DOMAIN state' = DOMAIN state
      BY <3>2, <3>3 DEF TypeInv, TypeOK
    <3>5. FinalOf(last[r], state[k]) \in Final
      BY <3>1 DEF FinalOf, Final, Result, TypeInv, TypeOK
    <3>6. EndRun(r, FinalOf(last[r], state[k]))
      BY <2>1 DEF Exhausted
    <3> QED BY <3>4, <3>5, <3>6
  <2>2. CASE last[r] = 0
    <3>1. Fabricated("no_attempt") \in Final
      BY ConstantsAssumption DEF Fabricated, Final, RunStatus, Errors
    <3> QED BY <2>2, <3>1 DEF Exhausted, TypeInv, TypeOK
  <2> QED BY <2>1, <2>2
<1>3. WalkTyped(r) /\ at'[r] # "step"
  BY <1>1, <1>2, FinishTyped DEF EndRun, Ended, TypeInv, TypeOK
<1>4. TypeOK'
  BY <1>1, <1>2, <1>3 DEF TypeInv, TypeOK, WalkTyped
<1>5. \A q \in Requests \ {r} : Within(q)'
  BY <1>1, <1>2, <1>3 DEF TypeInv, Within, WalkTyped, NoRetry
<1>6. Within(r)'
  BY <1>1, <1>2, <1>3 DEF Within, WalkTyped, NoRetry, Underway
<1> QED BY <1>4, <1>5, <1>6 DEF TypeInv

(* run_agent answers or raises.                                            *)
LEMMA AgentTyped ==
  ASSUME TypeInv, NEW r \in Requests, at[r] \in Underway, NEW s \in Result,
         AgentReturns(r, s) \/ AgentRaises(r, s),
         UNCHANGED <<request, posted, server, table>>,
         RUNS' \in [DOMAIN RUNS' -> Attempts], DOMAIN RUNS' \subseteq RunIds,
         runId' \in [Requests -> RunIds \cup {NoId}], \A q \in Requests \ {r} : runId'[q] = runId[q]
  PROVE  TypeInv'
<1>1. step[r] \in Steps /\ [s EXCEPT !.lost = "log"] \in Result
  BY StepIsOne DEF Result
<1>2. CASE AgentReturns(r, s) /\ ~Persist
  <2>1. /\ WalkTyped(r) /\ \E t \in Result : state' = SetKey(state, <<r, step[r]>>, t)
    BY <1>2, ReturnedTyped DEF AgentReturns
  <2>2. /\ state' \in [DOMAIN state' -> Result] /\ DOMAIN state' \subseteq Attempts
        /\ DOMAIN state' = DOMAIN state \cup {<<r, step[r]>>}
    BY <1>1, <2>1, StateTyped
  <2>3. Dictionaries'
    BY <2>2 DEF Dictionaries, TypeInv, TypeOK
  <2> QED BY <2>1, <2>2, <2>3, AttemptLeft
<1>3. ASSUME NEW t \in Result, state' = SetKey(state, <<r, step[r]>>, t)
      PROVE  Dictionaries' /\ DOMAIN state' = DOMAIN state \cup {<<r, step[r]>>}
  <2>1. /\ state' \in [DOMAIN state' -> Result] /\ DOMAIN state' \subseteq Attempts
        /\ DOMAIN state' = DOMAIN state \cup {<<r, step[r]>>}
    BY <1>1, <1>3, StateTyped
  <2> QED BY <2>1 DEF Dictionaries, TypeInv, TypeOK
<1>4. CASE AgentRaises(r, s) /\ ~Persist
  BY <1>1, <1>3, <1>4, RaisedTyped, AttemptLeft DEF AgentRaises
<1>5. CASE Persist
  <2>1. PICK p \in {"commit_result", "commit_error"} : at' = [at EXCEPT ![r] = p]
    BY <1>5 DEF AgentReturns, AgentRaises
  <2>2. /\ \E t \in Result : state' = SetKey(state, <<r, step[r]>>, t)
        /\ UNCHANGED <<step, chain, prev, last, final>>
    BY <1>1, <1>5 DEF AgentReturns, AgentRaises
  <2> QED BY <1>3, <2>1, <2>2, AttemptOn DEF Underway
<1> QED BY <1>2, <1>4, <1>5

LEMMA ObjectTyped ==
  ASSUME NEW r, NEW id \in RunIds, NEW status \in RunStatus, NEW error \in Errors
  PROVE  Object(r, id, status, error) \in Result
BY DEF Object, Result, Chains

LEMMA SpawnTyped == ASSUME TypeInv, NEW r \in Requests, SpawnAgent(r) PROVE TypeInv'
<1> DEFINE id == IF runId[r] # NoId THEN runId[r] ELSE MemoryId(r, step[r])
<1>1. /\ at[r] = "spawn" /\ RUNS' = SetKey(RUNS, id, <<r, step[r]>>) /\ runId' = [runId EXCEPT ![r] = id]
      /\ UNCHANGED <<request, table, posted, server>>
      /\ \/ /\ state' = SetKey(state, <<r, step[r]>>, Object(r, id, "running", "none"))
            /\ at' = [at EXCEPT ![r] = "wait"]
            /\ UNCHANGED <<step, chain, prev, last, final>>
         \/ AgentReturns(r, Object(r, id, "failed", "not_started"))
         \/ AgentRaises(r, Object(r, id, "failed", "not_started"))
         \/ AgentRaises(r, Object(r, id, "running", "none"))
  BY DEF SpawnAgent
<1>2. step[r] \in Steps /\ request[r] \in Sent /\ at[r] \in Underway
  BY <1>1, StepIsOne DEF Underway
<1>3. id \in RunIds
  BY <1>2, IdTyped DEF TypeInv, TypeOK
<1> HIDE DEF id
<1>4. runId' \in [Requests -> RunIds \cup {NoId}] /\ runId'[r] = id /\ \A q \in Requests \ {r} : runId'[q] = runId[q]
  BY <1>1, <1>3 DEF TypeInv, TypeOK
<1>5. RUNS' \in [DOMAIN RUNS' -> Attempts] /\ DOMAIN RUNS' \subseteq RunIds
  <2>1. <<r, step[r]>> \in Attempts
    BY <1>2 DEF Attempts
  <2> DEFINE k == <<r, step[r]>>
  <2>2. RUNS \in [DOMAIN RUNS -> Attempts] /\ DOMAIN RUNS \subseteq RunIds /\ k \in Attempts /\ RUNS' = SetKey(RUNS, id, k)
    BY <1>1, <2>1 DEF TypeInv, TypeOK
  <2> HIDE DEF k
  <2>3. DOMAIN SetKey(RUNS, id, k) = DOMAIN RUNS \cup {id} /\ SetKey(RUNS, id, k) \in [DOMAIN SetKey(RUNS, id, k) -> Attempts]
    BY <2>2, PutTyped
  <2> QED BY <1>3, <2>2, <2>3
<1>6. Object(r, id, "running", "none") \in Result /\ Object(r, id, "failed", "not_started") \in Result
  BY <1>3, ObjectTyped DEF RunStatus, Errors
<1>7. CASE /\ state' = SetKey(state, <<r, step[r]>>, Object(r, id, "running", "none"))
           /\ at' = [at EXCEPT ![r] = "wait"]
           /\ UNCHANGED <<step, chain, prev, last, final>>
  <2>1. /\ state' \in [DOMAIN state' -> Result] /\ DOMAIN state' \subseteq Attempts
        /\ DOMAIN state \subseteq DOMAIN state'
    BY <1>2, <1>6, <1>7, StateTyped
  <2>2. Dictionaries'
    BY <1>1, <1>5, <2>1 DEF Dictionaries, TypeInv, TypeOK
  <2> QED BY <1>1, <1>2, <1>3, <1>4, <1>7, <2>1, <2>2, AttemptOn DEF Underway
<1> QED BY <1>1, <1>2, <1>4, <1>5, <1>6, <1>7, AgentTyped

LEMMA EndsTyped == ASSUME TypeInv, NEW r \in Requests, AgentEnds(r) PROVE TypeInv'
<1>1. at[r] \in {"wait", "reap"} /\ UNCHANGED <<request, runId, RUNS, table, posted, server>>
  BY DEF AgentEnds
<1>2. runId[r] \in RunIds /\ at[r] \in Underway
  BY <1>1 DEF TypeInv, Within, Underway
<1>3. \A status \in RunStatus, error \in Errors : Object(r, runId[r], status, error) \in Result
  BY <1>2, ObjectTyped
<1>4. PICK s : /\ \E status \in RunStatus, error \in Errors : s = Object(r, runId[r], status, error)
               /\ AgentReturns(r, s) \/ AgentRaises(r, s)
  BY DEF AgentEnds, Exits, Unlogged, RunStatus, Errors
<1>5. s \in Result
  BY <1>3, <1>4
<1>6. /\ RUNS' \in [DOMAIN RUNS' -> Attempts] /\ DOMAIN RUNS' \subseteq RunIds
      /\ runId' \in [Requests -> RunIds \cup {NoId}] /\ \A q \in Requests \ {r} : runId'[q] = runId[q]
  BY <1>1 DEF TypeInv, TypeOK
<1> QED BY <1>1, <1>2, <1>4, <1>5, <1>6, AgentTyped

LEMMA TimeIsUpTyped == ASSUME TypeInv, NEW r \in Requests, TimeIsUp(r) PROVE TypeInv'
<1>1. /\ at[r] = "wait" /\ at' = [at EXCEPT ![r] = "reap"]
      /\ UNCHANGED <<request, step, runId, state, RUNS, table, posted, server, chain, prev, last, final>>
  BY DEF TimeIsUp, retrying
<1>2. /\ runId[r] \in RunIds /\ Dictionaries'
      /\ runId' \in [Requests -> RunIds \cup {NoId}] /\ \A q \in Requests \ {r} : runId'[q] = runId[q]
  BY <1>1 DEF TypeInv, TypeOK, Within, Dictionaries
<1> QED BY <1>1, <1>2, AttemptOn DEF Underway

LEMMA RestTyped ==
  ASSUME TypeInv, Crash \/ UNCHANGED dispatching \/ \E r \in Requests : Callback(r)
  PROVE  TypeInv'
<1>1. CASE Crash
  <2>1. /\ at' \in [Requests -> Control] /\ \A r \in Requests : at'[r] \in {at[r], "lost"}
        /\ RUNS' = <<>> /\ UNCHANGED <<request, step, runId, state, table, posted, chain, prev, last, final>>
    BY <1>1 DEF Crash, retrying, TypeInv, TypeOK, Control
  <2>2. server' \in [persist : Scaffolds, crashes : 0..MaxCrashes]
    <3>1. /\ server \in [persist : Scaffolds, crashes : 0..MaxCrashes] /\ server.crashes < MaxCrashes
          /\ server' = [server EXCEPT !.crashes = @ + 1] /\ MaxCrashes \in Nat
      BY <1>1, ConstantsAssumption DEF Crash, TypeInv, TypeOK
    <3>2. server.crashes + 1 \in 0..MaxCrashes
      BY <3>1
    <3> QED BY <3>1, <3>2
  <2>3. RUNS' \in [DOMAIN RUNS' -> Attempts] /\ DOMAIN RUNS' \subseteq RunIds
    BY <2>1
  <2>4. TypeOK'
    BY <2>1, <2>2, <2>3 DEF TypeInv, TypeOK
  <2>5. \A r \in Requests : Within(r)'
    <3> SUFFICES ASSUME NEW r \in Requests PROVE Within(r)'
      OBVIOUS
    <3>1. Within(r) /\ at'[r] \in {at[r], "lost"}
      BY <2>1 DEF TypeInv
    <3>2. "lost" \notin Underway \cup {"step", "idle", "wait", "reap", "commit_result"} /\ (at'[r] = "lost" => request[r] \in Sent)
      BY <1>1, <2>1, <3>1 DEF Crash, Underway, Within, Settled
    <3> QED BY <2>1, <3>1, <3>2 DEF Within, NoRetry, Underway
  <2> QED BY <2>4, <2>5 DEF TypeInv
<1>2. CASE UNCHANGED dispatching
  BY <1>2 DEF dispatching, TypeInv, TypeOK, Within, NoRetry
<1>3. ASSUME NEW r \in Requests, Callback(r) PROVE TypeInv'
  <2>1. /\ at[r] = "callback" /\ at' = [at EXCEPT ![r] = "done"]
        /\ posted' \in {posted, [posted EXCEPT ![r] = final[r]]}
        /\ UNCHANGED <<request, step, runId, state, RUNS, table, server, chain, prev, last, final>>
    BY <1>3 DEF Callback, retrying
  <2>2. posted' \in [Requests -> Final]
    BY <2>1 DEF TypeInv, TypeOK
  <2>3. at' \in [Requests -> Control]
    BY <2>1 DEF TypeInv, TypeOK, Control
  <2>4. TypeOK'
    BY <2>1, <2>2, <2>3 DEF TypeInv, TypeOK
  <2>5. \A q \in Requests : Within(q)'
    BY <2>1 DEF TypeInv, TypeOK, Within, NoRetry, Underway
  <2> QED BY <2>4, <2>5 DEF TypeInv
<1> QED BY <1>1, <1>2, <1>3

(* TypeOK of every behaviour, whatever ids the callers send: no step is    *)
(* counted past its policy, no object is looked up that is not there, and  *)
(* the three dictionaries hold what run_agent, record_run and dispatch_run *)
(* put into them.                                                          *)
THEOREM TypesHold == DispatchSpec => []TypeOK
<1>1. DispatchInit => TypeInv
  <2> SUFFICES ASSUME DispatchInit PROVE TypeInv
    OBVIOUS
  <2>1. MaxSteps \in Nat \ {0} /\ MaxCrashes \in Nat
    BY ConstantsAssumption
  <2>2. state \in [DOMAIN state -> Result] /\ RUNS \in [DOMAIN RUNS -> Attempts] /\ table \in [DOMAIN table -> RowRecord]
        /\ DOMAIN state = {} /\ DOMAIN RUNS = {} /\ DOMAIN table = {}
    BY DEF DispatchInit
  <2>3. NoFinal \in Final
    BY <2>1 DEF NoFinal, Final, RunStatus, Errors
  <2>4. <<>> \in Chains
    BY DEF Chains
  <2>5. TypeOK
    BY <2>1, <2>2, <2>3, <2>4 DEF DispatchInit, TypeOK, Control
  <2>6. \A r \in Requests : Within(r)
    BY DEF DispatchInit, Within, Underway
  <2> QED BY <2>5, <2>6 DEF TypeInv
<1>2. TypeInv /\ [DispatchNext]_dispatching => TypeInv'
  BY PostTyped, SkipTyped, StartTyped, ExhaustedTyped, InsertTyped, MarkTyped, CommitsTyped,
     SpawnTyped, TimeIsUpTyped, EndsTyped, RestTyped DEF DispatchNext, Advance
<1>3. TypeInv => TypeOK
  BY DEF TypeInv
<1> QED BY <1>1, <1>2, <1>3, PTL DEF DispatchSpec

-----------------------------------------------------------------------------
(* What a run tells.                                                       *)

SuppliedCallers == \A id \in Supplied : id[1] = "caller"

Attempting == {"insert"} \cup Recording
InRUNS     == {"wait", "reap", "commit_result", "commit_error"}

(* The objects, and where the dict leads: under a row's id to the attempt  *)
(* of that row.                                                            *)
Objects ==
  /\ \A k \in DOMAIN state : IsResult(state[k])
  /\ \A id \in DOMAIN RUNS :
       /\ RUNS[id] \in DOMAIN state
       /\ id[1] = "run" => RUNS[id] = <<id[2], id[3]>>

(* The id of an attempt is its request's own or one a caller chose. *)
OwnId(r) == runId[r][1] # "caller" /\ runId[r][2] = r

IdKnown(r) ==
  \/ runId[r] = NoId \/ OwnId(r)
  \/ runId[r][1] = "caller" /\ request[r].id \in Supplied

SeenHolds(r) ==
  /\ request[r] # NoRequest => request[r].id \in {NoId, BackgroundId(r)} \cup Supplied
  /\ at[r] \in Attempting => IdKnown(r) /\ RowStatusOf(RowId(r, step[r])) \notin Terminal
  /\ at[r] \in InRUNS =>
       /\ <<r, step[r]>> \in DOMAIN state
       /\ request[r].id \notin Supplied =>
            OwnId(r) /\ runId[r] \in DOMAIN RUNS /\ RUNS[runId[r]] = <<r, step[r]>>
  /\ at[r] = "commit_error" => state[<<r, step[r]>>].lost = "log"
  /\ at[r] = "commit_result" => /\ state[<<r, step[r]>>].lost = "none"
                                /\ state[<<r, step[r]>>].status # "running"

(* Some attempt of the request completed; and did so with nothing lost,    *)
(* the attempt whose row is still to be written not counted.               *)
Completed(r) == \E i \in Ran(r) : state[<<r, i>>].status = "completed"
Pending(r)   == IF at[r] = "commit_result" THEN {step[r]} ELSE {}
Secured(r)   == \E i \in Ran(r) \ Pending(r) :
                  state[<<r, i>>].status = "completed" /\ state[<<r, i>>].lost = "none"

CallHolds(r) ==
  /\ at[r] = "callback" => request[r].mode = "fire_and_forget"
  /\ posted[r] # NoFinal =>
       posted[r] = final[r] /\ at[r] = "done" /\ request[r].mode = "fire_and_forget"
  /\ final[r].status = "completed" => Completed(r) /\ at[r] \in {"callback", "done", "lost"}
  /\ Secured(r) => final[r].status = "completed" \/ at[r] = "lost"

(* Until the server dies RUNS has every attempt of a background run under  *)
(* the id its caller was given, or that id's step.                         *)
Own(r)       == request[r] # NoRequest /\ request[r].id = BackgroundId(r)
IdOf(r, i)   == IF NoRetry(r) THEN request[r].id ELSE StepOf(request[r].id, i)
InDict(r, i) == IdOf(r, i) \in DOMAIN RUNS /\ RUNS[IdOf(r, i)] = <<r, i>>

HeldHolds(r) ==
  /\ request[r] # NoRequest /\ request[r].mode # "sync" => request[r].id # NoId
  /\ at[r] \in Attempting \cup {"step", "idle"} => final[r].of = 0
  /\ server.crashes = 0 /\ Own(r) =>
       /\ at[r] \in Attempting => runId[r] = IdOf(r, step[r])
       /\ at[r] \in Attempting \cup {"step"} /\ ~NoRetry(r) /\ last[r] # 0 => InDict(r, last[r])
       /\ at[r] \in {"callback", "done"} /\ final[r].of # 0 =>
            /\ final[r].of \in Nat /\ InDict(r, final[r].of)
            /\ <<r, final[r].of>> \in DOMAIN state
            /\ state[<<r, final[r].of>>].status = final[r].status

Seen ==
  /\ Objects /\ RunsAgreesWithTable
  /\ posted = [r \in Requests |-> posted[r]]
  /\ \A r \in Requests : SeenHolds(r) /\ CallHolds(r) /\ HeldHolds(r)

-----------------------------------------------------------------------------
(* Attempts are made for steps of the policy. *)
LEMMA AttemptSteps ==
  ASSUME NEW r \in Requests, IInv, Told, at[r] \in Underway
  PROVE  step[r] \in Steps /\ step[r] \in Nat \ {0}
<1>1. step[r] \in Nat \ {0} /\ at[r] # "idle"
  BY DEF IInv, Shape, Underway
<1>2. CASE NoRetry(r)
  BY <1>1, <1>2, ConstantsAssumption DEF Told, PlainHolds, ConstantsAssumption, Steps
<1>3. CASE ~NoRetry(r)
  <2>1. step[r] <= Len(request[r].steps) /\ request[r].steps \in Policies
    BY <1>1, <1>3 DEF Told, WalkHolds, GoingOn, Underway, Walks
  <2>2. Len(request[r].steps) <= MaxSteps /\ Len(request[r].steps) \in Nat /\ MaxSteps \in Nat
    BY <2>1, ConstantsAssumption DEF ConstantsAssumption
  <2> QED BY <1>1, <2>1, <2>2 DEF Steps
<1> QED BY <1>1, <1>2, <1>3

(* Dict and table go on agreeing: no row and no result is touched, or only *)
(* those of the current attempt.                                           *)
StatusKept(k) == k \in DOMAIN state' /\ state'[k].status = state[k].status
                 /\ state'[k].lost = state[k].lost

(* A row's status against an object.                                       *)
Agree(st, s) ==
  /\ st = "success" => s.status = "completed" /\ s.lost = "none"
  /\ st = "failure" => s.status = "failed" \/ s.lost = "log"

LEMMA SameAgree ==
  ASSUME Objects, RunsAgreesWithTable, RUNS' = RUNS, table' = table,
         \A k \in DOMAIN state : StatusKept(k)
  PROVE  RunsAgreesWithTable'
BY DEF Objects, RunsAgreesWithTable, StatusKept

LEMMA RowAgree ==
  ASSUME NEW r \in Requests, NEW x, x = RowId(r, step[r]), IInv', Objects, Objects', RunsAgreesWithTable,
         \A id \in DOMAIN RUNS' : \/ RUNS'[id] = <<r, step[r]>>
                                  \/ id \in DOMAIN RUNS /\ RUNS'[id] = RUNS[id],
         \A k \in DOMAIN state \ {<<r, step[r]>>} : StatusKept(k),
         \A id : id # x => RowStatusOf(id)' = RowStatusOf(id),
         Agree(RowStatusOf(x)', state'[<<r, step[r]>>])
  PROVE  RunsAgreesWithTable'
<1> SUFFICES ASSUME NEW id, id \in DOMAIN RUNS', id \in DOMAIN table',
                    table'[id].status \in Terminal
             PROVE  Agree(table'[id].status, state'[RUNS'[id]])
  BY DEF RunsAgreesWithTable, Agree, Terminal
<1>1. RowStatusOf(id)' = table'[id].status
  BY DEF RowStatusOf
<1>2. id = RowId(id[2], id[3]) /\ id[1] = "run"
  BY DEF IInv, RowsReached, RowReached, RowId
<1>3. RUNS'[id] = <<id[2], id[3]>>
  BY <1>2 DEF Objects
<1>4. CASE RUNS'[id] = <<r, step[r]>>
  <2>1. id = x
    BY <1>2, <1>3, <1>4
  <2> QED BY <1>1, <1>4, <2>1
<1>5. CASE RUNS'[id] # <<r, step[r]>>
  <2>1. id \in DOMAIN RUNS /\ RUNS'[id] = RUNS[id]
    BY <1>5
  <2>2. RUNS[id] \in DOMAIN state \ {<<r, step[r]>>}
    BY <1>5, <2>1 DEF Objects
  <2>3. state'[RUNS[id]].status = state[RUNS[id]].status /\ state'[RUNS[id]].lost = state[RUNS[id]].lost
    BY <2>2 DEF StatusKept
  <2>4. id # x
    BY <1>3, <1>5, <2>1 DEF RowId
  <2>5. CASE id # x
    <3>1. RowStatusOf(id) = table'[id].status
      BY <1>1, <2>5
    <3>2. id \in DOMAIN table /\ table[id].status = table'[id].status
      BY <3>1 DEF RowStatusOf, Terminal
    <3> QED BY <2>1, <2>3, <3>2 DEF RunsAgreesWithTable, Agree
  <2> QED BY <2>4, <2>5
<1> QED BY <1>4, <1>5

(* What a step of r leaves the others: besides Steady, their dict entries. *)
Others(r) ==
  /\ Elsewhere(r) /\ Steady(r)
  /\ \A q \in Requests \ {r} : posted'[q] = posted[q]
  /\ DOMAIN state' \subseteq DOMAIN state \cup {<<r, step[r]>>}
  /\ \A id \in DOMAIN RUNS : id[1] # "caller" /\ id[2] # r =>
       id \in DOMAIN RUNS' /\ RUNS'[id] = RUNS[id]

LEMMA OthersSeen ==
  ASSUME NEW r \in Requests, IInv, Told, Seen, Others(r), NEW q \in Requests, q # r
  PROVE  SeenHolds(q)' /\ CallHolds(q)' /\ HeldHolds(q)'
<1>1. /\ at'[q] = at[q] /\ step'[q] = step[q] /\ final'[q] = final[q] /\ request'[q] = request[q]
      /\ runId'[q] = runId[q] /\ server' = server /\ posted'[q] = posted[q] /\ last'[q] = last[q]
  BY DEF Others, Elsewhere, Steady, RowsSteady
<1>2. step[q] \in Nat /\ SeenHolds(q) /\ CallHolds(q) /\ HeldHolds(q)
  BY DEF IInv, Shape, Seen
<1>3. RowStatusOf(RowId(q, step[q]))' = RowStatusOf(RowId(q, step[q]))
  BY <1>1, <1>2 DEF Others, Steady, RowsSteady, RowId
<1>4. \A i \in Nat : <<q, i>> \in DOMAIN state =>
         <<q, i>> \in DOMAIN state' /\ state'[<<q, i>>] = state[<<q, i>>]
  BY DEF Others, Steady, Kept
<1>5. OwnId(q) /\ runId[q] \in DOMAIN RUNS =>
        runId[q] \in DOMAIN RUNS' /\ RUNS'[runId[q]] = RUNS[runId[q]]
  BY DEF Others, OwnId
<1>6. OwnId(q)' <=> OwnId(q)
  BY <1>1 DEF OwnId
<1>7. SeenHolds(q)'
  <2>1. IdKnown(q)' <=> IdKnown(q)
    BY <1>1, <1>6 DEF IdKnown
  <2>2. at[q] \in InRUNS /\ request[q].id \notin Supplied =>
          OwnId(q)' /\ runId'[q] \in DOMAIN RUNS' /\ RUNS'[runId'[q]] = <<q, step'[q]>>
    BY <1>1, <1>2, <1>5, <1>6 DEF SeenHolds
  <2>3. at[q] \in InRUNS => <<q, step[q]>> \in DOMAIN state' /\ state'[<<q, step[q]>>] = state[<<q, step[q]>>]
    BY <1>2, <1>4 DEF SeenHolds
  <2>4. /\ at[q] = "commit_error" => state'[<<q, step[q]>>].lost = "log"
        /\ at[q] = "commit_result" => /\ state'[<<q, step[q]>>].lost = "none"
                                      /\ state'[<<q, step[q]>>].status # "running"
    BY <1>2, <2>3 DEF SeenHolds, InRUNS
  <2>5. at[q] \in Attempting => RowStatusOf(RowId(q, step[q]))' \notin Terminal
    BY <1>2, <1>3 DEF SeenHolds, Terminal
  <2>6. at[q] \in Attempting => IdKnown(q)'
    BY <1>2, <2>1 DEF SeenHolds
  <2>7. request[q] # NoRequest => request[q].id \in {NoId, BackgroundId(q)} \cup Supplied
    BY <1>2 DEF SeenHolds
  <2> QED BY <1>1, <2>2, <2>3, <2>4, <2>5, <2>6, <2>7 DEF SeenHolds
<1>8. (Completed(q)' <=> Completed(q)) /\ (Secured(q)' <=> Secured(q))
  <2>1. \A i \in Steps : <<q, i>> \in DOMAIN state' <=> <<q, i>> \in DOMAIN state
    <3>1. \A i : <<q, i>> # <<r, step[r]>>
      OBVIOUS
    <3> QED BY <1>4, <3>1, ConstantsAssumption DEF Others, Steps, ConstantsAssumption
  <2>2. \A i \in Steps : i \in Nat
    BY ConstantsAssumption DEF Steps, ConstantsAssumption
  <2>3. Completed(q)' <=> Completed(q)
    BY <1>4, <2>1, <2>2 DEF Completed, Ran
  <2>4. Pending(q)' = Pending(q) /\ Ran(q)' = Ran(q)
    BY <1>1, <2>1 DEF Pending, Ran
  <2>5. Secured(q)' <=> Secured(q)
    BY <1>4, <2>2, <2>4 DEF Secured, Ran
  <2> QED BY <2>3, <2>5
<1>9. CallHolds(q)'
  BY <1>1, <1>2, <1>8 DEF CallHolds
<1>10. HeldHolds(q)'
  <2>1. (NoRetry(q)' <=> NoRetry(q)) /\ (Own(q)' <=> Own(q)) /\ \A i : IdOf(q, i)' = IdOf(q, i)
    BY <1>1 DEF NoRetry, Own, IdOf
  <2>2. \A i : Own(q) => IdOf(q, i)[1] = "bg" /\ IdOf(q, i)[2] = q
    BY DEF Own, IdOf, StepOf, BackgroundId
  <2>3. \A i : Own(q) /\ InDict(q, i) => InDict(q, i)'
    <3> SUFFICES ASSUME NEW i, Own(q), InDict(q, i) PROVE InDict(q, i)'
      OBVIOUS
    <3>1. IdOf(q, i) \in DOMAIN RUNS /\ RUNS[IdOf(q, i)] = <<q, i>> /\ IdOf(q, i)' = IdOf(q, i)
      BY <2>1 DEF InDict
    <3>2. IdOf(q, i) \in DOMAIN RUNS' /\ RUNS'[IdOf(q, i)] = RUNS[IdOf(q, i)]
      BY <2>2, <3>1 DEF Others
    <3> QED BY <3>1, <3>2 DEF InDict
  <2>4. last[q] \in Nat
    BY DEF Told, Walks
  <2>5. at[q] \in Attempting /\ runId[q] = IdOf(q, step[q]) => runId'[q] = IdOf(q, step[q])'
    BY <1>1, <2>1 DEF IdOf, StepOf, NoRetry
  <2>6. Own(q) /\ InDict(q, last[q]) => InDict(q, last[q])'
    <3>1. \A i : i = last[q] /\ InDict(q, i)' => InDict(q, last[q])'
      BY <1>1 DEF InDict, IdOf, StepOf, NoRetry
    <3> QED BY <2>3, <3>1
  <2>7. Own(q) /\ InDict(q, final[q].of) => InDict(q, final[q].of)'
    <3>1. \A i : i = final[q].of /\ InDict(q, i)' => InDict(q, final[q].of)'
      BY <1>1 DEF InDict, IdOf, StepOf, NoRetry
    <3> QED BY <2>3, <3>1
  <2> QED BY <1>1, <1>2, <1>4, <2>1, <2>5, <2>6, <2>7 DEF HeldHolds, InDict, IdOf
<1> QED BY <1>7, <1>9, <1>10

(* A step that leaves objects, dict and table alone. *)
LEMMA SameDict ==
  ASSUME Seen, UNCHANGED <<state, RUNS, table>> PROVE Objects' /\ RunsAgreesWithTable'
BY DEF Seen, Objects, RunsAgreesWithTable

LEMMA SameOthers ==
  ASSUME NEW r \in Requests, Elsewhere(r), RowsSteady(r),
         UNCHANGED <<state, RUNS, request, server>>,
         \A q \in Requests \ {r} : posted'[q] = posted[q]
  PROVE  Others(r)
<1>1. Steady(r)
  BY SameSteady DEF StepOnly
<1> QED BY <1>1 DEF Others

LEMMA SeenKept ==
  ASSUME NEW r \in Requests, IInv, Seen, Others(r), Objects', RunsAgreesWithTable',
         posted' = [q \in Requests |-> posted'[q]], SeenHolds(r)', CallHolds(r)', HeldHolds(r)', Told
  PROVE  Seen'
BY OthersSeen DEF Seen

(* An attempt that is over needs no id any more. *)
LEMMA OverSeen ==
  ASSUME NEW r \in Requests, Seen, request' = request, at'[r] \notin Attempting
  PROVE  SeenHolds(r)'
<1>1. request[r] # NoRequest => request[r].id \in {NoId, BackgroundId(r)} \cup Supplied
  BY DEF Seen, SeenHolds
<1> QED BY <1>1 DEF SeenHolds, Attempting, InRUNS, Recording

(* Before its end a request has no answer, and no attempt behind it has    *)
(* completed with nothing lost.                                            *)
LEMMA NoAnswerYet ==
  ASSUME NEW r \in Requests, Seen, at[r] \in Underway \cup {"step"}
  PROVE  posted[r] = NoFinal /\ final[r].status # "completed" /\ ~Secured(r)
BY DEF Seen, CallHolds, Underway

LEMMA SameCalls ==
  ASSUME NEW r \in Requests, Seen, at[r] \in Underway \cup {"step"},
         UNCHANGED <<final, posted>>, at'[r] # "callback", Secured(r)' => Secured(r)
  PROVE  CallHolds(r)'
BY NoAnswerYet DEF CallHolds

(* The ends of an attempt. *)
LEMMA RaisedElsewhere ==
  ASSUME NEW r \in Requests, IInv, Told, RunRaised(r)
  PROVE  Elsewhere(r) /\ at'[r] \notin Attempting
<1>1. CASE NoRetry(r)
  <2>1. /\ \E c \in Resting : at' = [at EXCEPT ![r] = c]
        /\ UNCHANGED <<chain, last, step>>
        /\ final' = [final EXCEPT ![r] = final'[r]]
    BY <1>1 DEF RunRaised, Ended, Resting, Told, Walks
  <2> QED BY <2>1 DEF Elsewhere, IInv, Shape, Told, Walks, Resting, Attempting, Recording
<1>2. CASE ~NoRetry(r)
  BY <1>2 DEF RunRaised, NextStep, Elsewhere, IInv, Shape, Told, Walks, Attempting, Recording
<1> QED BY <1>1, <1>2

LEMMA ReturnedElsewhere ==
  ASSUME NEW r \in Requests, NEW s, IInv, Told, Returned(r, s)
  PROVE  Elsewhere(r) /\ at'[r] \notin Attempting
<1>1. /\ \E c \in Resting \cup {"step"} : at' = [at EXCEPT ![r] = c]
      /\ step' = step \/ \E i : step' = [step EXCEPT ![r] = i]
      /\ chain' = chain \/ \E c : chain' = [chain EXCEPT ![r] = c]
      /\ last' = last \/ \E i : last' = [last EXCEPT ![r] = i]
      /\ final' = final \/ \E f : final' = [final EXCEPT ![r] = f]
  BY DEF Returned, EndRun, NextStep, Ended, Resting
<1> QED BY <1>1 DEF Elsewhere, IInv, Shape, Told, Walks, Resting, Attempting, Recording

LEMMA RaisedCalls ==
  ASSUME NEW r \in Requests, IInv, Told, Seen, RunRaised(r), at[r] \in Underway,
         UNCHANGED <<request, posted, server>>,
         Secured(r)' => Secured(r)
  PROVE  CallHolds(r)'
<1>1. posted[r] = NoFinal /\ final[r].status # "completed" /\ ~Secured(r)
  BY NoAnswerYet
<1>2. final'[r].status # "completed"
  <2>1. \/ final' = final
        \/ final' = [final EXCEPT ![r] = Fabricated("raised")]
        \/ final' = [final EXCEPT ![r] = final[r]]
    BY DEF RunRaised
  <2>2. Fabricated("raised").status = "failed"
    BY DEF Fabricated
  <2> QED BY <1>1, <2>1, <2>2 DEF Told, Walks
<1>3. at'[r] = "callback" => request[r].mode = "fire_and_forget"
  BY DEF RunRaised, NextStep, Ended, IInv, Shape
<1> QED BY <1>1, <1>2, <1>3 DEF CallHolds

(* A state that is left alone secures nothing new once the attempt is not  *)
(* the one whose row is still to be written.                               *)
LEMMA SameSecured ==
  ASSUME NEW r \in Requests, state' = state, at[r] # "commit_result"
  PROVE  Secured(r)' => Secured(r)
BY DEF Secured, Ran, Pending

LEMMA PutSecured ==
  ASSUME NEW r \in Requests, step[r] \in Steps, NEW o, state' = SetKey(state, <<r, step[r]>>, o)
  PROVE  \/ ~Secured(r)' \/ Secured(r)
         \/ /\ o.status = "completed" /\ o.lost = "none"
            /\ ~(at'[r] = "commit_result" /\ step'[r] = step[r])
<1>1. /\ <<r, step[r]>> \in DOMAIN state' /\ state'[<<r, step[r]>>] = o
      /\ \A i \in Steps \ {step[r]} :
           /\ <<r, i>> \in DOMAIN state' <=> <<r, i>> \in DOMAIN state
           /\ <<r, i>> \in DOMAIN state => state'[<<r, i>>] = state[<<r, i>>]
  BY DEF SetKey
<1>2. ASSUME NEW i \in Ran(r)', i \notin Pending(r)', state'[<<r, i>>].status = "completed",
             state'[<<r, i>>].lost = "none", i # step[r]
      PROVE  Secured(r)
  <2>1. i \in Steps \ {step[r]} /\ <<r, i>> \in DOMAIN state'
    BY <1>2 DEF Ran
  <2>2. <<r, i>> \in DOMAIN state /\ state'[<<r, i>>] = state[<<r, i>>]
    BY <1>1, <2>1
  <2>3. i \in Ran(r) \ Pending(r)
    BY <1>2, <2>1, <2>2 DEF Ran, Pending
  <2> QED BY <1>2, <2>2, <2>3 DEF Secured
<1>3. ASSUME NEW i \in Ran(r)', i \notin Pending(r)', state'[<<r, i>>].status = "completed",
             state'[<<r, i>>].lost = "none", i = step[r]
      PROVE  /\ o.status = "completed" /\ o.lost = "none"
             /\ ~(at'[r] = "commit_result" /\ step'[r] = step[r])
  BY <1>1, <1>3 DEF Pending
<1> QED BY <1>2, <1>3 DEF Secured

LEMMA PutCompleted ==
  ASSUME NEW r \in Requests, step[r] \in Steps, NEW o, state' = SetKey(state, <<r, step[r]>>, o)
  PROVE  /\ o.status = "completed" => Completed(r)'
         /\ Completed(r)' => Completed(r) \/ o.status = "completed"
<1>1. /\ <<r, step[r]>> \in DOMAIN state' /\ state'[<<r, step[r]>>].status = o.status
      /\ \A i \in Steps \ {step[r]} :
           /\ <<r, i>> \in DOMAIN state' <=> <<r, i>> \in DOMAIN state
           /\ <<r, i>> \in DOMAIN state => state'[<<r, i>>] = state[<<r, i>>]
  BY DEF SetKey
<1>2. o.status = "completed" => Completed(r)'
  BY <1>1 DEF Completed, Ran
<1>3. ASSUME NEW i \in Ran(r)', state'[<<r, i>>].status = "completed"
      PROVE  Completed(r) \/ o.status = "completed"
  <2>1. CASE i = step[r]
    BY <1>1, <1>3, <2>1
  <2>2. CASE i # step[r]
    <3>1. i \in Steps \ {step[r]} /\ <<r, i>> \in DOMAIN state'
      BY <2>2 DEF Ran
    <3>2. <<r, i>> \in DOMAIN state /\ state'[<<r, i>>] = state[<<r, i>>]
      BY <1>1, <3>1
    <3>3. i \in Ran(r)
      BY <3>1, <3>2 DEF Ran
    <3> QED BY <1>3, <3>2, <3>3 DEF Completed
  <2> QED BY <2>1, <2>2
<1> QED BY <1>2, <1>3 DEF Completed

LEMMA ReturnedCalls ==
  ASSUME NEW r \in Requests, NEW s, IInv, Told, Seen, Returned(r, s), IsResult(s),
         at[r] \in Underway, UNCHANGED <<request, posted, server>>
  PROVE  CallHolds(r)'
<1>1. posted[r] = NoFinal /\ final[r].status # "completed" /\ ~Secured(r)
  BY NoAnswerYet
<1>2. step[r] \in Steps
  BY AttemptSteps
<1>3. PICK o : state' = SetKey(state, <<r, step[r]>>, o) /\ o.status = s.status
  <2>1. [s EXCEPT !.chain = Append(chain[r], s.status)].status = s.status
    BY DEF IsResult
  <2> QED BY <2>1 DEF Returned
<1>4. /\ s.status = "completed" => Completed(r)'
      /\ Secured(r)' => s.status = "completed"
  BY <1>1, <1>2, <1>3, PutCompleted, PutSecured
<1>5. /\ final'[r].status = "completed" <=> s.status = "completed"
      /\ s.status = "completed" => at'[r] \in Resting \ {"error"}
      /\ at'[r] = "callback" => request[r].mode = "fire_and_forget"
  <2>1. FinalOf(step[r], s).status = s.status
    BY DEF FinalOf
  <2>2. CASE NoRetry(r)
    <3>1. final' = [final EXCEPT ![r] = FinalOf(step[r], s)] /\ at' = [at EXCEPT ![r] = Ended(r)]
      BY <2>2 DEF Returned, EndRun
    <3>2. final'[r] = FinalOf(step[r], s) /\ at'[r] = Ended(r)
      BY <3>1 DEF IInv, Shape, Told, Walks
    <3> QED BY <2>1, <3>2 DEF Ended, Resting
  <2>3. CASE ~NoRetry(r) /\ s.status = "completed"
    <3>1. final' = [final EXCEPT ![r] = FinalOf(step[r], s)] /\ at' = [at EXCEPT ![r] = Ended(r)]
      BY <2>3 DEF Returned, EndRun
    <3>2. final'[r] = FinalOf(step[r], s) /\ at'[r] = Ended(r)
      BY <3>1 DEF IInv, Shape, Told, Walks
    <3> QED BY <2>1, <3>2 DEF Ended, Resting
  <2>4. CASE ~NoRetry(r) /\ s.status # "completed"
    <3>1. final' = final /\ at' = [at EXCEPT ![r] = "step"]
      BY <2>4 DEF Returned, NextStep
    <3> QED BY <1>1, <2>4, <3>1 DEF IInv, Shape
  <2> QED BY <2>2, <2>3, <2>4
<1> QED BY <1>1, <1>4, <1>5 DEF CallHolds, Resting

-----------------------------------------------------------------------------
(* What RUNS holds of a background run. *)
LEMMA NotAnswered ==
  ASSUME NEW r \in Requests, Seen, at[r] \in Underway \cup {"step"}
  PROVE  final[r].of = 0
BY DEF Seen, HeldHolds, Attempting, Recording, Underway

(* The attempt goes on, or the next one starts. *)
KeepsLast(r) ==
  \A i : Own(r) /\ server.crashes = 0 /\ i = last[r] /\ ~NoRetry(r) /\ i # 0 /\ InDict(r, i)
         => InDict(r, i)'

LEMMA SameKeeps ==
  ASSUME NEW r \in Requests, UNCHANGED <<request, RUNS>> PROVE KeepsLast(r)
BY DEF KeepsLast, InDict, IdOf, NoRetry

LEMMA OnHeld ==
  ASSUME NEW r \in Requests, Seen, at[r] \in Underway \cup {"step"},
         at'[r] \in Underway \cup {"step"},
         UNCHANGED <<request, server, last, final>>,
         Own(r) /\ server.crashes = 0 /\ at'[r] # "step" => runId'[r] = IdOf(r, step'[r]),
         KeepsLast(r)
  PROVE  HeldHolds(r)'
<1>1. HeldHolds(r) /\ final[r].of = 0
  BY NotAnswered DEF Seen
<1>2. /\ (NoRetry(r)' <=> NoRetry(r)) /\ (Own(r)' <=> Own(r)) /\ IdOf(r, step[r])' = IdOf(r, step'[r])
      /\ \A i : i = last[r] /\ InDict(r, i)' => InDict(r, last[r])'
  BY DEF NoRetry, Own, IdOf, InDict
<1>3. server'.crashes = 0 /\ Own(r)' =>
        /\ at'[r] \in Attempting => runId'[r] = IdOf(r, step[r])'
        /\ at'[r] \in Attempting \cup {"step"} /\ ~NoRetry(r)' /\ last'[r] # 0 => InDict(r, last[r])'
  <2>1. at'[r] \in Attempting => at'[r] # "step"
    BY DEF Attempting, Recording
  <2>2. Own(r) /\ server.crashes = 0 /\ ~NoRetry(r) /\ last[r] # 0 => InDict(r, last[r])'
    BY <1>1, <1>2 DEF HeldHolds, Attempting, Recording, Underway, KeepsLast
  <2> QED BY <1>2, <2>1, <2>2
<1> QED BY <1>1, <1>3 DEF HeldHolds, Attempting, Recording, Underway

LEMMA RaisedHeld ==
  ASSUME NEW r \in Requests, IInv, Told, Seen, at[r] \in Underway, RunRaised(r),
         UNCHANGED <<request, server>>, KeepsLast(r)
  PROVE  HeldHolds(r)'
<1>1. HeldHolds(r) /\ final[r].of = 0
  BY NotAnswered DEF Seen
<1>2. CASE NoRetry(r)
  <2>1. /\ at'[r] \in Resting /\ final'[r].of = 0
    <3>1. Fabricated("raised").of = 0
      BY DEF Fabricated
    <3> QED BY <1>1, <1>2, <3>1 DEF RunRaised, Ended, Resting, IInv, Shape, Told, Walks
  <2> QED BY <1>1, <1>2, <2>1 DEF HeldHolds, Attempting, Recording, Resting
<1>3. CASE ~NoRetry(r)
  <2>1. at'[r] = "step" /\ UNCHANGED <<last, final>>
    BY <1>3 DEF RunRaised, NextStep, IInv, Shape
  <2> QED BY <2>1, OnHeld
<1> QED BY <1>2, <1>3

HasCurrent(r) == \A i : Own(r) /\ server.crashes = 0 /\ i = step[r] => InDict(r, i)'

LEMMA ReturnedHeld ==
  ASSUME NEW r \in Requests, NEW s, IInv, Told, Seen, at[r] \in Underway, Returned(r, s), IsResult(s),
         UNCHANGED <<request, server>>,
         HasCurrent(r),
         <<r, step[r]>> \in DOMAIN state', state'[<<r, step[r]>>].status = s.status
  PROVE  HeldHolds(r)'
<1>1. HeldHolds(r) /\ final[r].of = 0 /\ step[r] \in Nat \ {0}
  BY NotAnswered DEF Seen, IInv, Shape
<1>2. (NoRetry(r)' <=> NoRetry(r)) /\ (Own(r)' <=> Own(r))
  BY DEF NoRetry, Own
<1>3. CASE NoRetry(r) \/ s.status = "completed"
  <2>1. final' = [final EXCEPT ![r] = FinalOf(step[r], s)] /\ at' = [at EXCEPT ![r] = Ended(r)]
    BY <1>3 DEF Returned, EndRun
  <2>2. final'[r] = FinalOf(step[r], s) /\ at'[r] \in {"callback", "done"}
    BY <2>1 DEF IInv, Shape, Told, Walks, Ended
  <2>3. final'[r].of = step[r] /\ final'[r].status = s.status
    BY <2>2 DEF FinalOf
  <2>4. Own(r) /\ server.crashes = 0 => InDict(r, final[r].of)'
    <3>1. \A i : i = step[r] /\ InDict(r, i)' => InDict(r, final[r].of)'
      BY <2>3 DEF InDict, IdOf, StepOf, NoRetry
    <3> QED BY <3>1 DEF HasCurrent
  <2> QED BY <1>1, <1>2, <2>2, <2>3, <2>4 DEF HeldHolds, Attempting, Recording
<1>4. CASE ~NoRetry(r) /\ s.status # "completed"
  <2>1. at'[r] = "step" /\ final' = final /\ last'[r] = step[r]
    BY <1>4 DEF Returned, NextStep, IInv, Shape, Told, Walks
  <2>2. Own(r) /\ server.crashes = 0 => InDict(r, last[r])'
    <3>1. \A i : i = step[r] /\ InDict(r, i)' => InDict(r, last[r])'
      BY <2>1 DEF InDict, IdOf, StepOf, NoRetry
    <3> QED BY <3>1 DEF HasCurrent
  <2> QED BY <1>1, <1>2, <2>1, <2>2 DEF HeldHolds, Attempting, Recording
<1> QED BY <1>3, <1>4

-----------------------------------------------------------------------------
(* run_agent puts the attempt's object into the dict and goes on changing  *)
(* it; the rows are not touched.                                           *)
Registered(r) ==
  /\ UNCHANGED <<request, server, table, posted>>
  /\ IdKnown(r)'
  /\ request[r].id \notin Supplied =>
       OwnId(r)' /\ runId'[r] \in DOMAIN RUNS' /\ RUNS'[runId'[r]] = <<r, step[r]>>
  /\ \A id \in DOMAIN RUNS' :
       \/ RUNS'[id] = <<r, step[r]>> /\ (id[1] = "run" => id = RowId(r, step[r]))
       \/ id \in DOMAIN RUNS /\ RUNS'[id] = RUNS[id]
  /\ \A q \in Requests \ {r} : runId'[q] = runId[q]
  /\ \A id \in DOMAIN RUNS : id # runId'[r] \/ (id[1] # "caller" /\ id[2] # r) =>
       id \in DOMAIN RUNS' /\ RUNS'[id] = RUNS[id]
  /\ Own(r) /\ server.crashes = 0 => runId'[r] = IdOf(r, step[r]) /\ request[r].id \notin Supplied

LEMMA RegisteredKeeps ==
  ASSUME NEW r \in Requests, IInv, Told, at[r] \in Underway, Registered(r)
  PROVE  KeepsLast(r)
<1> SUFFICES ASSUME Own(r), server.crashes = 0, ~NoRetry(r), NEW i, i = last[r], i # 0, InDict(r, i)
             PROVE  InDict(r, i)'
  BY DEF KeepsLast
<1>1. i # step[r]
  <2>1. GoingOn(r) /\ last[r] \in Nat /\ step[r] \in Nat
    BY DEF Told, WalkHolds, IInv, Shape, Walks, Underway
  <2> QED BY <2>1 DEF GoingOn
<1>2. IdOf(r, i) # runId'[r] /\ IdOf(r, i)' = IdOf(r, i)
  BY <1>1 DEF Registered, IdOf, StepOf, NoRetry
<1> QED BY <1>2 DEF Registered, InDict

LEMMA RegisteredSees ==
  ASSUME NEW r \in Requests, IInv, IInv', Seen, at[r] \in {"spawn", "wait", "reap"}, Registered(r),
         NEW o, IsResult(o), state' = SetKey(state, <<r, step[r]>>, o), Elsewhere(r)
  PROVE  /\ Objects' /\ RunsAgreesWithTable' /\ Others(r)
         /\ <<r, step[r]>> \in DOMAIN state' /\ state'[<<r, step[r]>>] = o
<1>1. RowsSteady(r)
  BY SameRows DEF Registered
<1>2. StepOnly(r) /\ <<r, step[r]>> \in DOMAIN state' /\ state'[<<r, step[r]>>] = o
  BY <1>1, PutSteady DEF Registered
<1>3. /\ DOMAIN state' = DOMAIN state \cup {<<r, step[r]>>}
      /\ \A k \in DOMAIN state \ {<<r, step[r]>>} : state'[k] = state[k]
  BY DEF SetKey
<1>4. Objects'
  <2>1. \A k \in DOMAIN state' : IsResult(state'[k])
    BY <1>2, <1>3 DEF Seen, Objects
  <2>2. ASSUME NEW id \in DOMAIN RUNS'
        PROVE  RUNS'[id] \in DOMAIN state' /\ (id[1] = "run" => RUNS'[id] = <<id[2], id[3]>>)
    <3>1. CASE RUNS'[id] = <<r, step[r]>> /\ (id[1] = "run" => id = RowId(r, step[r]))
      BY <1>2, <3>1 DEF RowId
    <3>2. CASE id \in DOMAIN RUNS /\ RUNS'[id] = RUNS[id]
      BY <1>3, <3>2 DEF Seen, Objects
    <3> QED BY <3>1, <3>2 DEF Registered
  <2> QED BY <2>1, <2>2 DEF Objects
<1>5. Others(r)
  <2>1. \A id \in DOMAIN RUNS : id[1] # "caller" /\ id[2] # r => id \in DOMAIN RUNS' /\ RUNS'[id] = RUNS[id]
    BY DEF Registered
  <2> QED BY <1>2, <1>3, <2>1 DEF Others, StepOnly, Registered
<1>6. RunsAgreesWithTable'
  <2>1. PICK x : x = RowId(r, step[r])
    OBVIOUS
  <2>2. \A id : RowStatusOf(id)' = RowStatusOf(id)
    BY DEF Registered, RowStatusOf
  <2>3. RowStatusOf(x) \notin Terminal
    BY <2>1 DEF Seen, SeenHolds, Attempting, Recording
  <2>4. RowStatusOf(x)' \notin Terminal
    BY <2>2, <2>3 DEF Terminal
  <2>5. \A k \in DOMAIN state \ {<<r, step[r]>>} : StatusKept(k)
    BY <1>3 DEF StatusKept
  <2>6. Agree(RowStatusOf(x)', state'[<<r, step[r]>>])
    BY <2>4 DEF Agree, Terminal
  <2> QED BY <1>4, <2>1, <2>2, <2>5, <2>6, RowAgree DEF Seen, Registered
<1> QED BY <1>2, <1>4, <1>5, <1>6

LEMMA GoesOnSees ==
  ASSUME NEW r \in Requests, IInv, IInv', Told, Seen, at[r] \in {"spawn", "wait", "reap"}, Registered(r),
         NEW o, IsResult(o), state' = SetKey(state, <<r, step[r]>>, o),
         NEW c \in InRUNS, at' = [at EXCEPT ![r] = c],
         UNCHANGED <<step, chain, last, final>>,
         c = "commit_error" => o.lost = "log",
         c = "commit_result" => o.lost = "none" /\ o.status # "running",
         c # "commit_result" => o.status # "completed" \/ o.lost # "none"
  PROVE  Seen'
<1>1. at'[r] = c /\ Elsewhere(r)
  BY DEF IInv, Shape, Elsewhere
<1>2. /\ Objects' /\ RunsAgreesWithTable' /\ Others(r)
      /\ <<r, step[r]>> \in DOMAIN state' /\ state'[<<r, step[r]>>] = o
  BY <1>1, RegisteredSees
<1>3. SeenHolds(r)'
  <2>1. RowStatusOf(RowId(r, step[r])) \notin Terminal
        /\ (request[r] # NoRequest => request[r].id \in {NoId, BackgroundId(r)} \cup Supplied)
    BY DEF Seen, SeenHolds, Attempting, Recording
  <2>2. RowStatusOf(RowId(r, step[r]))' = RowStatusOf(RowId(r, step[r]))
    BY DEF Registered, RowStatusOf, RowId
  <2>3. (RowStatusOf(RowId(r, step[r])) \notin Terminal)'
    BY <2>1, <2>2 DEF Terminal
  <2> QED BY <1>1, <1>2, <2>1, <2>3 DEF SeenHolds, Registered
<1>4. CallHolds(r)'
  <2>1. step[r] \in Steps
    BY AttemptSteps DEF Underway
  <2>2. Secured(r)' => Secured(r)
    BY <1>1, <2>1, PutSecured
  <2> QED BY <1>1, <2>2, SameCalls DEF InRUNS, Underway, Registered
<1>5. HeldHolds(r)'
  <2>1. KeepsLast(r)
    BY RegisteredKeeps DEF Underway
  <2>2. Own(r) /\ server.crashes = 0 => runId'[r] = IdOf(r, step'[r])
    BY DEF Registered
  <2> QED BY <1>1, <2>1, <2>2, OnHeld DEF InRUNS, Underway, Registered
<1> QED BY <1>2, <1>3, <1>4, <1>5, SeenKept DEF Registered, Seen

LEMMA AgentReturnsSees ==
  ASSUME NEW r \in Requests, NEW s, IInv, IInv', Told, Seen, at[r] \in {"spawn", "wait", "reap"},
         Registered(r), IsResult(s), s.status # "running", s.lost = "none", AgentReturns(r, s)
  PROVE  Seen'
<1>1. CASE Persist
  BY <1>1, GoesOnSees DEF AgentReturns, InRUNS
<1>2. CASE ~Persist
  <2>1. Returned(r, s)
    BY <1>2 DEF AgentReturns
  <2>2. PICK o : state' = SetKey(state, <<r, step[r]>>, o) /\ IsResult(o) /\ o.status = s.status
    <3>1. IsResult([s EXCEPT !.chain = Append(chain[r], s.status)])
          /\ [s EXCEPT !.chain = Append(chain[r], s.status)].status = s.status
      BY DEF IsResult
    <3> QED BY <2>1, <3>1 DEF Returned
  <2>3. Elsewhere(r) /\ at'[r] \notin Attempting
    BY <2>1, ReturnedElsewhere
  <2>4. /\ Objects' /\ RunsAgreesWithTable' /\ Others(r)
        /\ <<r, step[r]>> \in DOMAIN state' /\ state'[<<r, step[r]>>] = o
    BY <2>2, <2>3, RegisteredSees
  <2>5. SeenHolds(r)' /\ CallHolds(r)'
    BY <2>1, <2>3, OverSeen, ReturnedCalls DEF Underway, Registered
  <2>6. HasCurrent(r)
    BY DEF HasCurrent, Registered, InDict, IdOf, NoRetry
  <2>7. HeldHolds(r)'
    BY <2>1, <2>2, <2>4, <2>6, ReturnedHeld DEF Underway, Registered
  <2> QED BY <2>4, <2>5, <2>7, SeenKept DEF Registered, Seen
<1> QED BY <1>1, <1>2

LEMMA AgentRaisesSees ==
  ASSUME NEW r \in Requests, NEW s, IInv, IInv', Told, Seen, at[r] \in {"spawn", "wait", "reap"},
         Registered(r), IsResult(s), AgentRaises(r, s)
  PROVE  Seen'
<1>1. PICK o : state' = SetKey(state, <<r, step[r]>>, o) /\ IsResult(o) /\ o.lost = "log"
  <2>1. IsResult([s EXCEPT !.lost = "log"]) /\ [s EXCEPT !.lost = "log"].lost = "log"
    BY DEF IsResult
  <2> QED BY <2>1 DEF AgentRaises
<1>2. CASE Persist
  BY <1>1, <1>2, GoesOnSees DEF AgentRaises, InRUNS
<1>3. CASE ~Persist
  <2>1. RunRaised(r)
    BY <1>3 DEF AgentRaises
  <2>2. Elsewhere(r) /\ at'[r] \notin Attempting
    BY <2>1, RaisedElsewhere
  <2>3. Objects' /\ RunsAgreesWithTable' /\ Others(r)
    BY <1>1, <2>2, RegisteredSees
  <2>4. step[r] \in Steps
    BY AttemptSteps DEF Underway
  <2>5. Secured(r)' => Secured(r)
    BY <1>1, <2>4, PutSecured
  <2>6. SeenHolds(r)' /\ CallHolds(r)'
    BY <2>1, <2>2, <2>5, OverSeen, RaisedCalls DEF Underway, Registered
  <2>7. HeldHolds(r)'
    BY <2>1, RaisedHeld, RegisteredKeeps DEF Underway, Registered
  <2> QED BY <2>3, <2>6, <2>7, SeenKept DEF Registered, Seen
<1> QED BY <1>2, <1>3

LEMMA SpawnSees ==
  ASSUME NEW r \in Requests, SuppliedCallers, IInv, IInv', Told, Seen, SpawnAgent(r)
  PROVE  Seen'
<1> DEFINE id == IF runId[r] # NoId THEN runId[r] ELSE MemoryId(r, step[r])
<1>1. /\ at[r] = "spawn" /\ UNCHANGED <<request, server, table, posted>>
      /\ RUNS' = SetKey(RUNS, id, <<r, step[r]>>) /\ runId'[r] = id
      /\ \A q \in Requests \ {r} : runId'[q] = runId[q]
  BY DEF SpawnAgent, IInv, Shape
<1>2. IdKnown(r)
  BY <1>1 DEF Seen, SeenHolds, Attempting, Recording
<1>3. \/ id[1] # "caller" /\ id[2] = r
      \/ id[1] = "caller" /\ request[r].id \in Supplied
  BY <1>2 DEF IdKnown, OwnId, MemoryId
<1>4. id[1] = "run" => id = RowId(r, step[r])
  BY <1>1 DEF MemoryId, IInv, OwnRow, OwnRowOf, Recording
<1>5. Registered(r)
  <2> HIDE DEF id
  <2>1. /\ id \in DOMAIN RUNS' /\ RUNS'[id] = <<r, step[r]>>
        /\ \A k : k # id => (k \in DOMAIN RUNS' <=> k \in DOMAIN RUNS)
        /\ \A k \in DOMAIN RUNS : k # id => RUNS'[k] = RUNS[k]
    BY <1>1 DEF SetKey
  <2>2. IdKnown(r)' /\ (request[r].id \notin Supplied => OwnId(r)')
    BY <1>1, <1>3 DEF IdKnown, OwnId
  <2>3. \A k : k[1] # "caller" /\ k[2] # r => k # id
    BY <1>3
  <2>4. Own(r) /\ server.crashes = 0 => runId'[r] = IdOf(r, step[r]) /\ request[r].id \notin Supplied
    <3>1. Own(r) /\ server.crashes = 0 => runId[r] = IdOf(r, step[r])
      BY <1>1 DEF Seen, HeldHolds, Attempting, Recording
    <3>2. Own(r) => IdOf(r, step[r])[1] = "bg" /\ NoId[1] = "none" /\ request[r].id \notin Supplied
      BY DEF Own, IdOf, StepOf, BackgroundId, NoId, SuppliedCallers
    <3> QED BY <1>1, <3>1, <3>2 DEF id
  <2> QED BY <1>1, <1>4, <2>1, <2>2, <2>3, <2>4 DEF Registered
<1> HIDE DEF id
<1>6. \A s \in RunStatus : \A e : /\ IsResult(Object(r, id, s, e)) /\ Object(r, id, s, e).status = s
                                  /\ Object(r, id, s, e).lost = "none"
  BY ObjectIsResult DEF Object
<1>7. ASSUME NEW s, IsResult(s), s.status # "running", s.lost = "none", AgentReturns(r, s) PROVE Seen'
  BY <1>1, <1>5, <1>7, AgentReturnsSees
<1>8. ASSUME NEW s, IsResult(s), AgentRaises(r, s) PROVE Seen'
  BY <1>1, <1>5, <1>8, AgentRaisesSees
<1>9. ASSUME NEW s, IsResult(s), s.status # "completed", state' = SetKey(state, <<r, step[r]>>, s),
             at' = [at EXCEPT ![r] = "wait"], UNCHANGED <<step, chain, prev, last, final>>
      PROVE  Seen'
  BY <1>1, <1>5, <1>9, GoesOnSees DEF InRUNS
<1> QED BY <1>6, <1>7, <1>8, <1>9 DEF SpawnAgent, RunStatus, id

LEMMA AgentEndsSees ==
  ASSUME NEW r \in Requests, SuppliedCallers, IInv, IInv', Told, Seen, AgentEnds(r)
  PROVE  Seen'
<1>1. at[r] \in {"wait", "reap"} /\ UNCHANGED <<request, server, table, posted, RUNS, runId>>
  BY DEF AgentEnds
<1>2. Registered(r)
  <2>1. /\ IdKnown(r)
        /\ request[r].id \notin Supplied =>
             OwnId(r) /\ runId[r] \in DOMAIN RUNS /\ RUNS[runId[r]] = <<r, step[r]>>
    BY <1>1 DEF Seen, SeenHolds, Attempting, Recording, InRUNS
  <2>2. Own(r) /\ server.crashes = 0 => runId[r] = IdOf(r, step[r]) /\ request[r].id \notin Supplied
    <3>1. Own(r) => request[r].id \notin Supplied
      BY DEF Own, BackgroundId, SuppliedCallers
    <3> QED BY <1>1, <3>1 DEF Seen, HeldHolds, Attempting, Recording
  <2> QED BY <1>1, <2>1, <2>2 DEF Registered, IdKnown, OwnId
<1>3. \A s \in RunStatus : \A e : /\ IsResult(Object(r, runId[r], s, e)) /\ Object(r, runId[r], s, e).status = s
                                  /\ Object(r, runId[r], s, e).lost = "none"
  BY ObjectIsResult DEF Object
<1>4. ASSUME NEW s, IsResult(s), s.status # "running", s.lost = "none", AgentReturns(r, s) PROVE Seen'
  BY <1>1, <1>2, <1>4, AgentReturnsSees
<1>5. ASSUME NEW s, IsResult(s), AgentRaises(r, s) PROVE Seen'
  BY <1>1, <1>2, <1>5, AgentRaisesSees
<1> QED BY <1>3, <1>4, <1>5 DEF AgentEnds, Exits, Unlogged, RunStatus

LEMMA TimeIsUpSees ==
  ASSUME NEW r \in Requests, IInv, Told, Seen, TimeIsUp(r) PROVE Seen'
<1>1. /\ at[r] = "wait" /\ at'[r] = "reap"
      /\ UNCHANGED <<request, step, chain, last, runId, state, RUNS, table, final, posted, server>>
      /\ \A q \in Requests \ {r} : at'[q] = at[q]
  BY DEF TimeIsUp, retrying, IInv, Shape
<1>2. Others(r)
  BY <1>1, SameRows, SameOthers DEF Elsewhere
<1>3. SeenHolds(r)'
  <2>1. RowStatusOf(RowId(r, step[r]))' = RowStatusOf(RowId(r, step[r]))
    BY <1>1 DEF RowStatusOf, RowId
  <2>2. (RowStatusOf(RowId(r, step[r])) \notin Terminal)' <=> RowStatusOf(RowId(r, step[r])) \notin Terminal
    BY <2>1 DEF Terminal
  <2>3. SeenHolds(r)
    BY DEF Seen
  <2> QED BY <1>1, <2>2, <2>3 DEF SeenHolds, Attempting, Recording, InRUNS, IdKnown, OwnId
<1>4. CallHolds(r)'
  BY <1>1, SameSecured, SameCalls DEF Underway
<1>5. HeldHolds(r)'
  <2>1. Own(r) /\ server.crashes = 0 => runId[r] = IdOf(r, step[r])
    BY <1>1 DEF Seen, HeldHolds, Attempting, Recording
  <2> QED BY <1>1, <2>1, OnHeld, SameKeeps DEF Underway
<1> QED BY <1>1, <1>2, <1>3, <1>4, <1>5, SameDict, SeenKept DEF Seen

-----------------------------------------------------------------------------
(* The steps of the walk and the callback leave the rows alone. *)
LEMMA SkipSees ==
  ASSUME NEW r \in Requests, IInv, Told, Seen, SkipStep(r) PROVE Seen'
<1>1. /\ at[r] = "step" /\ at'[r] = "step" /\ Elsewhere(r)
      /\ UNCHANGED <<request, runId, state, RUNS, table, final, posted, server>>
  BY DEF SkipStep, Walking, Elsewhere, IInv, Shape
<1>2. Others(r)
  BY <1>1, SameRows, SameOthers
<1>3. SeenHolds(r)' /\ CallHolds(r)'
  <2>1. Secured(r)' => Secured(r)
    BY <1>1, SameSecured
  <2> QED BY <1>1, <2>1, OverSeen, SameCalls DEF Attempting, Recording
<1>4. HeldHolds(r)'
  <2>1. last' = last
    BY DEF SkipStep
  <2> QED BY <1>1, <2>1, OnHeld, SameKeeps
<1> QED BY <1>1, <1>2, <1>3, <1>4, SameDict, SeenKept DEF Seen

LEMMA StartSees ==
  ASSUME NEW r \in Requests, SuppliedCallers, IInv, Told, Seen, StartAttempt(r) PROVE Seen'
<1>1. /\ at[r] = "step" /\ at'[r] \in {"insert", "spawn"} /\ runId'[r] = AttemptId(r)
      /\ UNCHANGED <<request, step, chain, last, state, RUNS, table, final, posted, server>>
      /\ \A q \in Requests \ {r} : at'[q] = at[q] /\ runId'[q] = runId[q]
      /\ request[r] # NoRequest /\ step[r] \in Nat
  BY DEF StartAttempt, retrying, Walking, IInv, Shape
<1>2. Others(r)
  BY <1>1, SameRows, SameOthers DEF Elsewhere
<1>3. SeenHolds(r)'
  <2>1. request[r].id \in {NoId, BackgroundId(r)} \cup Supplied
    BY <1>1 DEF Seen, SeenHolds
  <2>2. IdKnown(r)'
    <3>1. request[r].id \in Supplied => request[r].id[1] = "caller"
      BY DEF SuppliedCallers
    <3> QED BY <1>1, <2>1, <3>1 DEF IdKnown, OwnId, AttemptId, StepOf, FreshStepId, BackgroundId
  <2>3. RowId(r, step[r]) \notin DOMAIN table
    BY <1>1 DEF IInv, RowsReached, RowReached, RowId
  <2>4. (RowStatusOf(RowId(r, step[r])) \notin Terminal)'
    BY <1>1, <2>3 DEF RowStatusOf, Terminal, RowId
  <2> QED BY <1>1, <2>1, <2>2, <2>4 DEF SeenHolds, InRUNS
<1>4. CallHolds(r)'
  <2>1. Secured(r)' => Secured(r)
    BY <1>1, SameSecured
  <2> QED BY <1>1, <2>1, SameCalls
<1>5. HeldHolds(r)'
  <2>1. Own(r) => AttemptId(r) = IdOf(r, step'[r])
    BY <1>1 DEF Own, AttemptId, IdOf, BackgroundId, NoId
  <2> QED BY <1>1, <2>1, OnHeld, SameKeeps DEF Underway
<1> QED BY <1>1, <1>2, <1>3, <1>4, <1>5, SameDict, SeenKept DEF Seen

LEMMA ExhaustedSees ==
  ASSUME NEW r \in Requests, IInv, Told, Seen, Exhausted(r) PROVE Seen'
<1>1. /\ at[r] = "step" /\ GoingOn(r) /\ at'[r] = Ended(r)
      /\ UNCHANGED <<request, step, chain, last, runId, RUNS, table, posted, server>>
      /\ \A q \in Requests \ {r} : at'[q] = at[q]
  BY DEF Exhausted, EndRun, Told, WalkHolds, Underway, IInv, Shape
<1> DEFINE f == IF last[r] # 0 THEN FinalOf(last[r], state[<<r, last[r]>>])
                ELSE Fabricated("no_attempt")
<1>2. f.status # "completed"
  <2>1. CASE last[r] # 0
    <3>1. state[<<r, last[r]>>].status = chain[r][last[r]] /\ last[r] \in 1..Len(chain[r])
      BY <1>1, <2>1 DEF GoingOn, Told, Walks
    <3>2. chain[r][last[r]] # "completed"
      BY <1>1, <3>1 DEF GoingOn
    <3>3. f.status = state[<<r, last[r]>>].status
      BY <2>1 DEF FinalOf
    <3> QED BY <3>1, <3>2, <3>3
  <2>2. CASE last[r] = 0
    BY <2>2 DEF Fabricated
  <2> QED BY <2>1, <2>2
<1>3. final'[r] = f /\ \A q \in Requests \ {r} : final'[q] = final[q]
  <2>1. final' = [final EXCEPT ![r] = f]
    BY DEF Exhausted, EndRun
  <2> HIDE DEF f
  <2> QED BY <2>1 DEF Told, Walks
<1> HIDE DEF f
<1>4. /\ DOMAIN state' = DOMAIN state
      /\ \A k \in DOMAIN state : IsResult(state'[k]) /\ StatusKept(k)
      /\ \A k \in DOMAIN state : k # <<r, last[r]>> => state'[k] = state[k]
  <2>1. CASE state' = state
    BY <2>1 DEF Seen, Objects, StatusKept
  <2>2. CASE state' = [state EXCEPT ![<<r, last[r]>>].chain = chain[r]]
    <3>1. ASSUME NEW k \in DOMAIN state
          PROVE  IsResult(state'[k]) /\ state'[k].status = state[k].status /\ state'[k].lost = state[k].lost
      <4>1. IsResult(state[k])
        BY DEF Seen, Objects
      <4>2. ASSUME NEW o, IsResult(o), NEW c
            PROVE  /\ IsResult([o EXCEPT !.chain = c]) /\ [o EXCEPT !.chain = c].status = o.status
                   /\ [o EXCEPT !.chain = c].lost = o.lost
        BY <4>2 DEF IsResult
      <4>3. state'[k] = state[k] \/ state'[k] = [state[k] EXCEPT !.chain = chain[r]]
        BY <2>2
      <4>4. PICK o, c : o = state[k] /\ c = chain[r]
        OBVIOUS
      <4>5. state'[k] = o \/ state'[k] = [o EXCEPT !.chain = c]
        BY <4>3, <4>4
      <4>6. CASE state'[k] = o
        BY <4>1, <4>4, <4>6
      <4>7. CASE state'[k] = [o EXCEPT !.chain = c]
        <5>1. IsResult(o)
          BY <4>1, <4>4
        <5>2. /\ IsResult([o EXCEPT !.chain = c]) /\ [o EXCEPT !.chain = c].status = o.status
              /\ [o EXCEPT !.chain = c].lost = o.lost
          BY <4>2, <5>1
        <5> QED BY <4>4, <4>7, <5>2
      <4> QED BY <4>5, <4>6, <4>7
    <3>2. DOMAIN state' = DOMAIN state /\ \A k \in DOMAIN state : k # <<r, last[r]>> => state'[k] = state[k]
      BY <2>2
    <3> QED BY <3>1, <3>2 DEF StatusKept
  <2> QED BY <2>1, <2>2 DEF Exhausted
<1>5. Objects' /\ RunsAgreesWithTable'
  BY <1>1, <1>4, SameAgree DEF Seen, Objects
<1>6. Others(r)
  <2>1. RowsSteady(r)
    BY <1>1, SameRows
  <2>2. \A q \in Requests \ {r}, i \in Nat : Kept(<<q, i>>)
    <3>1. \A q \in Requests \ {r} : \A i : <<q, i>> # <<r, last[r]>>
      OBVIOUS
    <3> QED BY <1>4, <3>1 DEF Kept
  <2> QED BY <1>1, <1>3, <1>4, <2>1, <2>2 DEF Others, Steady, Elsewhere
<1>7. SeenHolds(r)'
  BY <1>1, OverSeen DEF Ended, Attempting, Recording
<1>8. CallHolds(r)'
  <2>1. Secured(r)' => Secured(r)
    <3>1. Pending(r) = {}
      BY <1>1 DEF Pending
    <3> QED BY <1>4, <3>1 DEF Secured, Ran, StatusKept
  <2>2. posted[r] = NoFinal /\ ~Secured(r)
    BY <1>1, NoAnswerYet
  <2> QED BY <1>1, <1>2, <1>3, <2>1, <2>2 DEF CallHolds, Ended
<1>9. HeldHolds(r)'
  <2>1. f.of = last[r] /\ (last[r] # 0 => f.status = state[<<r, last[r]>>].status)
    BY DEF f, FinalOf, Fabricated
  <2>2. (NoRetry(r)' <=> NoRetry(r)) /\ (Own(r)' <=> Own(r)) /\ ~NoRetry(r) /\ HeldHolds(r)
    BY <1>1 DEF NoRetry, Own, Exhausted, Seen
  <2>3. last[r] # 0 => /\ last[r] \in Nat /\ <<r, last[r]>> \in DOMAIN state'
                       /\ state'[<<r, last[r]>>].status = state[<<r, last[r]>>].status
    BY <1>1, <1>4 DEF GoingOn, StatusKept, Told, Walks
  <2>4. \A i : i = last[r] /\ InDict(r, i) => InDict(r, final[r].of)'
    BY <1>1, <1>3, <2>1 DEF InDict, IdOf, NoRetry
  <2>5. Own(r) /\ server.crashes = 0 /\ last[r] # 0 => InDict(r, final[r].of)'
    BY <1>1, <2>2, <2>4 DEF HeldHolds
  <2>6. at'[r] \in {"callback", "done"}
    BY <1>1 DEF Ended
  <2> QED BY <1>1, <1>3, <2>1, <2>2, <2>3, <2>5, <2>6 DEF HeldHolds, Attempting, Recording
<1> QED BY <1>1, <1>5, <1>6, <1>7, <1>8, <1>9, SeenKept DEF Seen

LEMMA CallbackSees ==
  ASSUME NEW r \in Requests, IInv, Told, Seen, Callback(r) PROVE Seen'
<1>1. /\ at[r] = "callback" /\ at'[r] = "done"
      /\ UNCHANGED <<request, step, chain, last, runId, state, RUNS, table, final, server>>
      /\ \A q \in Requests \ {r} : at'[q] = at[q]
  BY DEF Callback, retrying, IInv, Shape
<1>2. /\ posted' = [q \in Requests |-> posted'[q]] /\ posted'[r] \in {posted[r], final[r]}
      /\ \A q \in Requests \ {r} : posted'[q] = posted[q]
  <2>1. posted' = posted \/ posted' = [posted EXCEPT ![r] = final[r]]
    BY DEF Callback
  <2> QED BY <2>1 DEF Seen
<1>3. Others(r)
  BY <1>1, <1>2, SameRows, SameOthers DEF Elsewhere
<1>4. SeenHolds(r)'
  BY <1>1, OverSeen DEF Attempting, Recording
<1>5. CallHolds(r)'
  <2>1. (Completed(r)' <=> Completed(r)) /\ (Secured(r)' => Secured(r))
    BY <1>1, SameSecured DEF Completed, Ran
  <2>2. CallHolds(r)
    BY DEF Seen
  <2> QED BY <1>1, <1>2, <2>1, <2>2 DEF CallHolds
<1>6. HeldHolds(r)'
  <2>1. \A i : InDict(r, i) => InDict(r, i)'
    BY <1>1 DEF InDict, IdOf, NoRetry
  <2>2. (Own(r)' <=> Own(r)) /\ HeldHolds(r)
    BY <1>1 DEF Own, Seen
  <2>3. \A i : i = final[r].of /\ InDict(r, i)' => InDict(r, final[r].of)'
    BY <1>1 DEF InDict, IdOf, NoRetry
  <2>4. InDict(r, final[r].of) => InDict(r, final[r].of)'
    BY <2>1, <2>3
  <2> QED BY <1>1, <2>2, <2>4 DEF HeldHolds, Attempting, Recording
<1> QED BY <1>1, <1>2, <1>3, <1>4, <1>5, <1>6, SameDict, SeenKept DEF Seen

-----------------------------------------------------------------------------
(* record_run's transactions write the row of the current attempt. *)
LEMMA InsertSees ==
  ASSUME NEW r \in Requests, IInv, IInv', Told, Seen, InsertRow(r) PROVE Seen'
<1>1. /\ at[r] = "insert" /\ at'[r] = "mark"
      /\ UNCHANGED <<request, step, chain, last, state, RUNS, final, posted, server>>
      /\ \A q \in Requests \ {r} : at'[q] = at[q]
      /\ runId'[r] = IF runId[r] # NoId THEN runId[r] ELSE RowId(r, step[r])
  BY DEF InsertRow, retrying, IInv, Shape
<1>2. PICK x : x = RowId(r, step[r])
  OBVIOUS
<1>3. RowsSteady(r) /\ \A id : RowStatusOf(id)' = IF id = x THEN "pending" ELSE RowStatusOf(id)
  BY <1>2, InsertRows
<1>4. Others(r)
  BY <1>1, <1>3, SameOthers DEF Elsewhere
<1>5. Objects'
  BY <1>1 DEF Seen, Objects
<1>6. RunsAgreesWithTable'
  <2>1. \A k \in DOMAIN state : StatusKept(k)
    BY <1>1 DEF StatusKept
  <2>2. \A id \in DOMAIN RUNS' : id \in DOMAIN RUNS /\ RUNS'[id] = RUNS[id]
    BY <1>1
  <2>3. Agree(RowStatusOf(x)', state'[<<r, step[r]>>])
    BY <1>3 DEF Agree
  <2> QED BY <1>2, <1>3, <1>5, <2>1, <2>2, <2>3, RowAgree DEF Seen
<1>7. SeenHolds(r)'
  <2>1. IdKnown(r) /\ (request[r] # NoRequest => request[r].id \in {NoId, BackgroundId(r)} \cup Supplied)
    BY <1>1 DEF Seen, SeenHolds, Attempting
  <2>2. IdKnown(r)'
    BY <1>1, <2>1 DEF IdKnown, OwnId, RowId
  <2>3. (RowStatusOf(RowId(r, step[r])) \notin Terminal)'
    <3>1. x = RowId(r, step'[r])
      BY <1>1, <1>2
    <3>2. RowStatusOf(x)' \notin Terminal
      BY <1>3 DEF Terminal
    <3> QED BY <3>1, <3>2 DEF RowId, Terminal
  <2> QED BY <1>1, <2>1, <2>2, <2>3 DEF SeenHolds, InRUNS
<1>8. CallHolds(r)'
  BY <1>1, SameSecured, SameCalls DEF Underway
<1>9. HeldHolds(r)'
  <2>1. Own(r) /\ server.crashes = 0 => runId'[r] = IdOf(r, step[r])
    <3>1. Own(r) /\ server.crashes = 0 => runId[r] = IdOf(r, step[r])
      BY <1>1 DEF Seen, HeldHolds, Attempting, Recording
    <3>2. Own(r) => IdOf(r, step[r])[1] = "bg" /\ NoId[1] = "none"
      BY DEF Own, IdOf, StepOf, BackgroundId, NoId
    <3> QED BY <1>1, <3>1, <3>2
  <2> QED BY <1>1, <2>1, OnHeld, SameKeeps DEF Underway
<1> QED BY <1>1, <1>4, <1>5, <1>6, <1>7, <1>8, <1>9, SeenKept DEF Seen

(* An UPDATE: the row of the attempt, or none. *)
LEMMA UpdateSees ==
  ASSUME NEW r \in Requests, IInv, IInv', Told, Seen, at[r] \in Recording,
         NEW v, Updates(r, v), UNCHANGED <<request, runId, RUNS, posted, server>>,
         Elsewhere(r), Steady(r), Objects',
         DOMAIN state' \subseteq DOMAIN state \cup {<<r, step[r]>>},
         \A k \in DOMAIN state \ {<<r, step[r]>>} : StatusKept(k),
         Agree(v, state'[<<r, step[r]>>])
  PROVE  RunsAgreesWithTable' /\ Others(r)
<1>1. PICK x : x = RowId(r, step[r])
  OBVIOUS
<1>2. runId[r] \in DOMAIN table => runId[r] = x
  BY <1>1, OwnRowOnly
<1>3. \A id : id # x => RowStatusOf(id)' = RowStatusOf(id)
  BY <1>2 DEF Updates
<1>4. RowStatusOf(x) \notin Terminal
  BY <1>1 DEF Seen, SeenHolds, Attempting
<1>5. RowStatusOf(x)' = v \/ RowStatusOf(x)' = RowStatusOf(x)
  BY DEF Updates
<1>6. Agree(RowStatusOf(x)', state'[<<r, step[r]>>])
  BY <1>4, <1>5 DEF Agree, Terminal
<1> QED BY <1>1, <1>3, <1>6, RowAgree DEF Seen, Others

LEMMA MarkSees ==
  ASSUME NEW r \in Requests, IInv, IInv', Told, Seen, MarkRunning(r) PROVE Seen'
<1>1. /\ at[r] = "mark" /\ at'[r] = "spawn" /\ Elsewhere(r)
      /\ UNCHANGED <<request, step, runId, state, RUNS, final, posted, server>>
  BY DEF MarkRunning, retrying, IInv, Shape, Elsewhere
<1>2. Updates(r, "running")
  BY MarkInv
<1>3. Steady(r)
  BY <1>1, <1>2, UpdateRows, SameSteady DEF Recording, StepOnly
<1>4. Objects'
  BY <1>1 DEF Seen, Objects
<1>5. RunsAgreesWithTable' /\ Others(r)
  BY <1>1, <1>2, <1>3, <1>4, UpdateSees DEF Recording, Agree, StatusKept
<1>6. SeenHolds(r)'
  <2>1. /\ IdKnown(r) /\ RowStatusOf(RowId(r, step[r])) \notin Terminal
        /\ request[r] # NoRequest => request[r].id \in {NoId, BackgroundId(r)} \cup Supplied
    BY <1>1 DEF Seen, SeenHolds, Attempting, Recording
  <2>2. IdKnown(r)'
    BY <1>1, <2>1 DEF IdKnown, OwnId
  <2>3. (RowStatusOf(RowId(r, step[r])) \notin Terminal)'
    <3>1. PICK x : x = RowId(r, step[r])
      OBVIOUS
    <3>2. RowStatusOf(x)' \notin Terminal
      BY <1>2, <2>1, <3>1 DEF Updates, Terminal
    <3>3. x = RowId(r, step'[r])
      BY <1>1, <3>1
    <3> QED BY <3>2, <3>3 DEF RowId, Terminal
  <2> QED BY <1>1, <2>1, <2>2, <2>3 DEF SeenHolds, InRUNS
<1>7. CallHolds(r)'
  BY <1>1, SameSecured, SameCalls DEF Underway
<1>8. HeldHolds(r)'
  <2>1. Own(r) /\ server.crashes = 0 => runId[r] = IdOf(r, step[r])
    BY <1>1 DEF Seen, HeldHolds, Attempting, Recording
  <2>2. last' = last
    BY DEF MarkRunning, retrying
  <2> QED BY <1>1, <2>1, <2>2, OnHeld, SameKeeps DEF Underway
<1> QED BY <1>1, <1>4, <1>5, <1>6, <1>7, <1>8, SeenKept DEF Seen

LEMMA CommitResultSees ==
  ASSUME NEW r \in Requests, SuppliedCallers, IInv, IInv', Told, Seen, CommitResult(r) PROVE Seen'
<1> DEFINE s == state[<<r, step[r]>>]
<1>1. /\ at[r] = "commit_result" /\ UNCHANGED <<request, runId, RUNS, posted, server>>
      /\ Updates(r, RowOutcome(s)) /\ Returned(r, s)
  BY SetRowUpdates DEF CommitResult
<1>2. IsResult(s) /\ s.status \in {"completed", "failed"} /\ s.lost = "none"
  <2>1. IsResult(s) /\ s.status # "running" /\ s.lost = "none"
    BY <1>1 DEF Told, WalkHolds, Seen, SeenHolds
  <2> QED BY <2>1 DEF IsResult, RunStatus
<1> HIDE DEF s
<1>3. PICK o : /\ state' = SetKey(state, <<r, step[r]>>, o) /\ IsResult(o)
               /\ o.status = s.status /\ o.lost = s.lost
  <2>1. IsResult([s EXCEPT !.chain = Append(chain[r], s.status)])
        /\ [s EXCEPT !.chain = Append(chain[r], s.status)].status = s.status
        /\ [s EXCEPT !.chain = Append(chain[r], s.status)].lost = s.lost
    BY SMTT(30), <1>2 DEF IsResult
  <2> QED BY <1>1, <1>2, <2>1 DEF Returned
<1>4. Elsewhere(r) /\ at'[r] \notin Attempting
  BY <1>1, ReturnedElsewhere
<1>5. /\ StepOnly(r) /\ DOMAIN state' = DOMAIN state \cup {<<r, step[r]>>}
      /\ state'[<<r, step[r]>>] = o
      /\ \A k \in DOMAIN state \ {<<r, step[r]>>} : state'[k] = state[k]
  <2>1. RowsSteady(r)
    BY <1>1, UpdateRows DEF Recording
  <2> QED BY <1>1, <1>3, <2>1, PutSteady DEF SetKey
<1>6. Objects'
  BY <1>1, <1>3, <1>5 DEF Seen, Objects
<1>7. RunsAgreesWithTable' /\ Others(r)
  <2>1. Agree(RowOutcome(s), state'[<<r, step[r]>>])
    BY <1>2, <1>3, <1>5 DEF RowOutcome, Agree
  <2>2. Steady(r) /\ \A k \in DOMAIN state \ {<<r, step[r]>>} : StatusKept(k)
    BY <1>5 DEF StepOnly, StatusKept
  <2> QED BY <1>1, <1>4, <1>5, <1>6, <2>1, <2>2, UpdateSees DEF Recording
<1>8. SeenHolds(r)' /\ CallHolds(r)'
  BY <1>1, <1>2, <1>4, OverSeen, ReturnedCalls DEF Underway
<1>9. HeldHolds(r)'
  <2>1. Own(r) /\ server.crashes = 0 =>
          runId[r] = IdOf(r, step[r]) /\ runId[r] \in DOMAIN RUNS /\ RUNS[runId[r]] = <<r, step[r]>>
    <3>1. Own(r) => request[r].id \notin Supplied
      BY DEF Own, BackgroundId, SuppliedCallers
    <3> QED BY <1>1, <3>1 DEF Seen, HeldHolds, SeenHolds, Attempting, Recording, InRUNS
  <2>2. HasCurrent(r)
    BY <1>1, <2>1 DEF HasCurrent, InDict, IdOf, NoRetry
  <2> QED BY <1>1, <1>2, <1>3, <1>5, <2>2, ReturnedHeld DEF Underway
<1> QED BY <1>1, <1>6, <1>7, <1>8, <1>9, SeenKept DEF Seen

LEMMA CommitErrorSees ==
  ASSUME NEW r \in Requests, IInv, IInv', Told, Seen, CommitError(r) PROVE Seen'
<1>1. /\ at[r] = "commit_error" /\ UNCHANGED <<request, runId, state, RUNS, posted, server>>
      /\ Updates(r, "failure") /\ RunRaised(r)
  BY CommitErrorInv DEF CommitError
<1>2. Elsewhere(r) /\ at'[r] \notin Attempting
  BY <1>1, RaisedElsewhere
<1>3. Steady(r)
  BY <1>1, UpdateRows, SameSteady DEF Recording, StepOnly
<1>4. Objects'
  BY <1>1 DEF Seen, Objects
<1>5. Agree("failure", state'[<<r, step[r]>>])
  BY <1>1 DEF Seen, SeenHolds, Agree
<1>6. RunsAgreesWithTable' /\ Others(r)
  BY <1>1, <1>2, <1>3, <1>4, <1>5, UpdateSees DEF Recording, StatusKept
<1>7. (Secured(r)' => Secured(r)) /\ HeldHolds(r)'
  BY <1>1, SameSecured, SameKeeps, RaisedHeld DEF Underway
<1>8. SeenHolds(r)' /\ CallHolds(r)'
  BY <1>1, <1>2, <1>7, OverSeen, RaisedCalls DEF Underway
<1> QED BY <1>1, <1>4, <1>6, <1>7, <1>8, SeenKept DEF Seen

LEMMA DatabaseFailsSees ==
  ASSUME NEW r \in Requests, IInv, IInv', Told, Seen, DatabaseFails(r) PROVE Seen'
<1>1. /\ at[r] \in Underway /\ RunRaised(r)
      /\ at[r] \in {"insert", "mark", "commit_result", "commit_error"}
      /\ UNCHANGED <<request, runId, RUNS, table, posted, server>>
  BY DEF DatabaseFails, Underway
<1>2. Elsewhere(r) /\ at'[r] \notin Attempting
  BY <1>1, RaisedElsewhere
<1>3. CASE state' = state /\ at[r] # "commit_result"
  <2>1. Others(r)
    BY <1>1, <1>2, <1>3, SameRows, SameOthers
  <2>2. Secured(r)' => Secured(r)
    BY <1>3, SameSecured
  <2>3. SeenHolds(r)' /\ CallHolds(r)' /\ HeldHolds(r)'
    BY <1>1, <1>2, <2>2, OverSeen, RaisedCalls, SameKeeps, RaisedHeld
  <2> QED BY <1>1, <1>3, <2>1, <2>3, SameDict, SeenKept DEF Seen
<1>4. CASE at[r] = "commit_result"
  <2> DEFINE k == <<r, step[r]>>
  <2>1. state' = [state EXCEPT ![k].lost = "row"] /\ k \in DOMAIN state /\ step[r] \in Steps
    BY <1>4, AttemptSteps DEF DatabaseFails, Told, WalkHolds, Underway
  <2>2. PICK o : state' = SetKey(state, k, o) /\ IsResult(o) /\ o.lost = "row"
    <3>1. \A s : IsResult(s) => IsResult([s EXCEPT !.lost = "row"]) /\ [s EXCEPT !.lost = "row"].lost = "row"
      BY DEF IsResult
    <3>2. IsResult(state[k])
      BY <2>1 DEF Seen, Objects
    <3>3. state' = SetKey(state, k, [state[k] EXCEPT !.lost = "row"])
      <4> HIDE DEF k
      <4>1. DOMAIN state' = DOMAIN state \cup {k} /\ state' = [j \in DOMAIN state |-> state'[j]]
            /\ \A j \in DOMAIN state : state'[j] = IF j = k THEN [state[k] EXCEPT !.lost = "row"] ELSE state[j]
        BY <2>1
      <4> QED BY <4>1 DEF SetKey
    <3> QED BY <3>1, <3>2, <3>3
  <2>3. /\ StepOnly(r) /\ state'[k] = o /\ DOMAIN state' = DOMAIN state
        /\ \A j \in DOMAIN state \ {k} : state'[j] = state[j]
    <3>1. RowsSteady(r)
      BY <1>1, SameRows
    <3>2. DOMAIN state' = DOMAIN state
      BY <2>1
    <3> QED BY <1>1, <2>2, <3>1, <3>2, PutSteady DEF SetKey
  <2>4. Objects'
    BY <1>1, <2>2, <2>3 DEF Seen, Objects
  <2>5. RunsAgreesWithTable'
    <3>1. PICK x : x = RowId(r, step[r])
      OBVIOUS
    <3>2. RowStatusOf(x) \notin Terminal
      BY <1>1, <3>1 DEF Seen, SeenHolds, Attempting, Recording
    <3>3. RowStatusOf(x)' = RowStatusOf(x) /\ \A id : RowStatusOf(id)' = RowStatusOf(id)
      BY <1>1 DEF RowStatusOf
    <3>4. Agree(RowStatusOf(x)', state'[<<r, step[r]>>])
      BY <3>2, <3>3 DEF Agree, Terminal
    <3>5. \A j \in DOMAIN state \ {<<r, step[r]>>} : StatusKept(j)
      BY <2>3 DEF StatusKept
    <3> QED BY <1>1, <2>4, <3>1, <3>3, <3>4, <3>5, RowAgree DEF Seen
  <2>6. Others(r)
    BY <1>1, <1>2, <2>3 DEF Others, StepOnly
  <2>7. Secured(r)' => Secured(r)
    BY <2>1, <2>2, PutSecured
  <2>8. SeenHolds(r)' /\ CallHolds(r)' /\ HeldHolds(r)'
    BY <1>1, <1>2, <2>7, OverSeen, RaisedCalls, SameKeeps, RaisedHeld
  <2> QED BY <1>1, <2>4, <2>5, <2>6, <2>8, SeenKept DEF Seen
<1> QED BY <1>3, <1>4 DEF DatabaseFails

-----------------------------------------------------------------------------
(* A request comes in; the server dies; nothing happens. *)
LEMMA SameHeld ==
  ASSUME NEW q \in Requests, HeldHolds(q), UNCHANGED <<step, runId, state, RUNS, last, final, server>>,
         at'[q] = at[q], request'[q] = request[q]
  PROVE  HeldHolds(q)'
<1>1. (NoRetry(q)' <=> NoRetry(q)) /\ (Own(q)' <=> Own(q)) /\ IdOf(q, step[q])' = IdOf(q, step[q])
      /\ (InDict(q, last[q])' <=> InDict(q, last[q])) /\ (InDict(q, final[q].of)' <=> InDict(q, final[q].of))
  BY DEF NoRetry, Own, IdOf, InDict
<1> QED BY <1>1 DEF HeldHolds

LEMMA PostSees ==
  ASSUME NEW r \in Requests, IInv, Told, Seen, Post(r) PROVE Seen'
<1>1. /\ at[r] = "idle" /\ at'[r] = "step"
      /\ UNCHANGED <<step, runId, state, RUNS, table, final, posted, server>>
      /\ \A q \in Requests \ {r} : at'[q] = at[q] /\ request'[q] = request[q]
  BY DEF Post, retrying, IInv, Shape
<1>2. request'[r].id \in {NoId, BackgroundId(r)} \cup Supplied
  <2>1. PICK q \in Bodies : request' = [request EXCEPT ![r] = [q EXCEPT !.id =
              IF q.mode = "sync" \/ q.id # NoId THEN q.id ELSE BackgroundId(r)]]
    BY DEF Post
  <2>2. q \in [mode : Modes, id : Supplied \cup {NoId}, steps : Policies, callback : BOOLEAN]
    BY ConstantsAssumption DEF ConstantsAssumption, Request
  <2>3. PICK i : i = IF q.mode = "sync" \/ q.id # NoId THEN q.id ELSE BackgroundId(r)
    OBVIOUS
  <2>4. request'[r] = [q EXCEPT !.id = i]
    BY <2>1, <2>3 DEF IInv, Shape
  <2>5. request'[r].id = i
    BY <2>2, <2>4
  <2> QED BY <2>2, <2>3, <2>5
<1>3. ASSUME NEW q \in Requests, q # r PROVE SeenHolds(q)' /\ CallHolds(q)' /\ HeldHolds(q)'
  <2>1. SeenHolds(q) /\ CallHolds(q) /\ HeldHolds(q)
    BY DEF Seen
  <2>2. (Completed(q)' <=> Completed(q)) /\ (Secured(q)' <=> Secured(q))
    BY <1>1, <1>3 DEF Completed, Secured, Ran, Pending
  <2>3. RowStatusOf(RowId(q, step[q]))' = RowStatusOf(RowId(q, step[q]))
    BY <1>1 DEF RowStatusOf, RowId
  <2>4. (RowStatusOf(RowId(q, step[q])) \notin Terminal)' <=> RowStatusOf(RowId(q, step[q])) \notin Terminal
    BY <2>3 DEF Terminal
  <2>5. SeenHolds(q)'
    BY <1>1, <1>3, <2>1, <2>4 DEF SeenHolds, IdKnown, OwnId
  <2>6. CallHolds(q)'
    BY <1>1, <1>3, <2>1, <2>2 DEF CallHolds
  <2>7. HeldHolds(q)'
    BY <1>1, <1>3, <2>1, SameHeld DEF Post, retrying
  <2> QED BY <2>5, <2>6, <2>7
<1>4. SeenHolds(r)'
  BY <1>1, <1>2 DEF SeenHolds, Attempting, Recording, InRUNS
<1>5. CallHolds(r)'
  <2>1. CallHolds(r) /\ (Completed(r)' <=> Completed(r)) /\ (Secured(r)' => Secured(r))
    BY <1>1, SameSecured DEF Seen, Completed, Ran
  <2> QED BY <1>1, <2>1 DEF CallHolds
<1>6. HeldHolds(r)'
  <2>1. final[r].of = 0 /\ last'[r] = 0
    BY <1>1 DEF Seen, HeldHolds, Post, retrying, Told, Walks
  <2>2. request'[r].mode # "sync" => request'[r].id # NoId
    <3>1. PICK q \in Bodies : request' = [request EXCEPT ![r] = [q EXCEPT !.id =
                IF q.mode = "sync" \/ q.id # NoId THEN q.id ELSE BackgroundId(r)]]
      BY DEF Post
    <3>2. q \in [mode : Modes, id : Supplied \cup {NoId}, steps : Policies, callback : BOOLEAN]
      BY ConstantsAssumption DEF ConstantsAssumption, Request
    <3>3. PICK i : i = IF q.mode = "sync" \/ q.id # NoId THEN q.id ELSE BackgroundId(r)
      OBVIOUS
    <3>4. request'[r] = [q EXCEPT !.id = i]
      BY <3>1, <3>3 DEF IInv, Shape
    <3>5. request'[r].id = i /\ request'[r].mode = q.mode
      BY <3>2, <3>4
    <3>6. BackgroundId(r) # NoId
      <4>1. BackgroundId(r)[1] = "bg" /\ NoId[1] = "none"
        BY DEF BackgroundId, NoId
      <4> QED BY <4>1
    <3> QED BY <3>3, <3>5, <3>6
  <2> QED BY <1>1, <2>1, <2>2 DEF HeldHolds, Attempting, Recording
<1> QED BY <1>1, <1>3, <1>4, <1>5, <1>6, SameDict DEF Seen

LEMMA CrashSees ==
  ASSUME IInv, Told, Seen, Crash PROVE Seen'
<1>1. /\ UNCHANGED <<request, step, runId, state, table, final, posted>> /\ RUNS' = <<>>
      /\ \A r \in Requests :
           \/ at'[r] = at[r] /\ at[r] \in Settled
           \/ at'[r] = "lost" /\ at[r] \notin Settled
  BY DEF Crash, retrying
<1>5. server'.crashes # 0
  <2>1. server \in [persist : Scaffolds, crashes : Nat]
    BY DEF Told, Walks
  <2>2. server' = [server EXCEPT !.crashes = @ + 1]
    BY DEF Crash
  <2> QED BY <2>1, <2>2
<1>3. Objects' /\ RunsAgreesWithTable'
  <2>1. DOMAIN RUNS' = {}
    BY <1>1
  <2> QED BY <1>1, <2>1 DEF Seen, Objects, RunsAgreesWithTable
<1>4. ASSUME NEW r \in Requests PROVE SeenHolds(r)' /\ CallHolds(r)' /\ HeldHolds(r)'
  <2>1. SeenHolds(r) /\ CallHolds(r) /\ HeldHolds(r) /\ (Completed(r)' <=> Completed(r))
    BY <1>1 DEF Seen, Completed, Ran
  <2>2. SeenHolds(r)'
    BY <1>1, <2>1 DEF SeenHolds, Attempting, Recording, InRUNS, Settled
  <2>3. CallHolds(r)'
    <3>1. at'[r] # "lost" => (Secured(r)' => Secured(r))
      BY <1>1, SameSecured DEF Settled
    <3> QED BY <1>1, <2>1, <3>1 DEF CallHolds, Settled
  <2>4. HeldHolds(r)'
    BY <1>1, <1>5, <2>1 DEF HeldHolds, Attempting, Recording, Settled
  <2> QED BY <2>2, <2>3, <2>4
<1> QED BY <1>1, <1>3, <1>4 DEF Seen

LEMMA StutterSees ==
  ASSUME Seen, UNCHANGED dispatching PROVE Seen'
<1>1. UNCHANGED <<request, at, step, runId, state, RUNS, table, last, final, posted, server>>
  BY DEF dispatching
<1>2. ASSUME NEW r \in Requests PROVE SeenHolds(r)' /\ CallHolds(r)' /\ HeldHolds(r)'
  <2>1. /\ SeenHolds(r) /\ CallHolds(r) /\ (Completed(r)' <=> Completed(r))
        /\ (Secured(r)' <=> Secured(r)) /\ HeldHolds(r)'
    BY <1>1, SameHeld DEF Seen, Completed, Secured, Ran, Pending
  <2>2. (RowStatusOf(RowId(r, step[r])) \notin Terminal)' <=> RowStatusOf(RowId(r, step[r])) \notin Terminal
    BY <1>1 DEF RowStatusOf, RowId, Terminal
  <2> QED BY <1>1, <2>1, <2>2 DEF SeenHolds, CallHolds, IdKnown, OwnId, Persist
<1> QED BY <1>1, <1>2, SameDict DEF Seen

LEMMA InitSeen == DispatchInit => Seen
<1> SUFFICES ASSUME DispatchInit PROVE Seen
  OBVIOUS
<1>1. \A r \in Requests : ~Completed(r) /\ ~Secured(r)
  BY DEF DispatchInit, Completed, Secured, Ran
<1>2. Objects /\ RunsAgreesWithTable
  BY DEF DispatchInit, Objects, RunsAgreesWithTable
<1>3. \A r \in Requests : SeenHolds(r) /\ CallHolds(r) /\ HeldHolds(r)
  BY <1>1 DEF DispatchInit, SeenHolds, CallHolds, HeldHolds, Own, Attempting, Recording, InRUNS, NoFinal, NoRequest
<1> QED BY <1>2, <1>3 DEF DispatchInit, Seen

LEMMA NextSeen ==
  ASSUME SuppliedCallers, IInv, IInv', Told, Seen, [DispatchNext]_dispatching PROVE Seen'
<1>1. ASSUME NEW r \in Requests, Advance(r) PROVE Seen'
  BY <1>1, SkipSees, StartSees, ExhaustedSees, InsertSees, MarkSees, CommitResultSees,
     CommitErrorSees, DatabaseFailsSees, SpawnSees, TimeIsUpSees, AgentEndsSees, CallbackSees
  DEF Advance
<1> QED BY <1>1, PostSees, CrashSees, StutterSees DEF DispatchNext

LEMMA SeenAlways ==
  ASSUME SuppliedCallers PROVE DispatchSpec => [](IInv /\ Told /\ Seen)
<1>1. SuppliedApart
  BY DEF SuppliedCallers, SuppliedApart
<1>2. DispatchInit => IInv /\ Told /\ Seen
  BY InitInv, InitTold, InitSeen
<1>3. (IInv /\ Told /\ Seen) /\ [DispatchNext]_dispatching => (IInv /\ Told /\ Seen)'
  BY <1>1, NextInv, NextTold, NextSeen
<1> QED BY <1>2, <1>3, PTL DEF DispatchSpec

(* For any requests, policies, faults and crashes: whoever looks a run up  *)
(* in RUNS finds that run, and no other outcome than the runs table has,   *)
(* except that of a run whose log could not be written.                    *)
THEOREM RunsAreFound ==
  ASSUME SuppliedCallers PROVE DispatchSpec => []RunsTellsOutcome
<1>1. IInv /\ Told /\ Seen => RunsTellsOutcome
  <2> SUFFICES ASSUME Seen PROVE OwnRunVisible
    BY DEF RunsTellsOutcome, Seen
  <2> QED BY DEF Seen, SeenHolds, OwnRunVisible, InRUNS
<1> QED BY <1>1, SeenAlways, PTL

(* What reaches a callback URL is the outcome of the run, with the         *)
(* database or without: completed only if an attempt completed, and always *)
(* if one did whose log and row were written.  When the POST is lost, RUNS *)
(* still has that outcome under the id the caller was given, until the     *)
(* server dies.                                                            *)
THEOREM CallersAreTold ==
  ASSUME SuppliedCallers PROVE DispatchSpec => []CallbackTellsOutcome
<1>1. Seen => PostTellsOutcome
  <2> SUFFICES ASSUME Seen, NEW r \in Requests, posted[r] # NoFinal
               PROVE  /\ posted[r] = final[r] /\ request[r].mode = "fire_and_forget"
                      /\ posted[r].status = "completed" => Completed(r)
                      /\ (\E i \in Ran(r) : state[<<r, i>>].status = "completed" /\ state[<<r, i>>].lost = "none")
                           => posted[r].status = "completed"
    BY DEF PostTellsOutcome, Completed
  <2>1. CallHolds(r) /\ at[r] = "done" /\ Pending(r) = {}
    BY DEF Seen, CallHolds, Pending
  <2> QED BY <2>1 DEF CallHolds, Secured
<1>2. Seen => LostPostInRUNS
  <2> SUFFICES ASSUME Seen, NEW r \in Requests, request[r] # NoRequest,
                      request[r].mode = "fire_and_forget", request[r].id \notin Supplied,
                      server.crashes = 0, at[r] = "done", final[r].of # 0
               PROVE  InDict(r, final[r].of) /\ state[<<r, final[r].of>>].status = final[r].status
    BY DEF LostPostInRUNS, InDict, IdOf
  <2>1. Own(r)
    BY DEF Seen, SeenHolds, HeldHolds, Own
  <2> QED BY <2>1 DEF Seen, HeldHolds
<1>3. IInv /\ Told /\ Seen => CallbackTellsOutcome
  BY <1>1, <1>2 DEF CallbackTellsOutcome
<1> QED BY <1>3, SeenAlways, PTL

-----------------------------------------------------------------------------
(* Waiters: an invariant about what each has been told, next to the others.*)

(* An awaited status is the outcome its row has. *)
WaitersHold ==
  /\ waiter = [w \in Waiters |-> waiter[w]]
  /\ \A w \in Waiters :
       /\ DOMAIN waiter[w] = {"phase", "id", "polls", "status"}
       /\ waiter[w].phase = "awaited" =>
            waiter[w].status \in Terminal /\ RowStatusOf(waiter[w].id) = waiter[w].status

-----------------------------------------------------------------------------
(* A row's outcome is final, so an awaited status stays true. *)
LEMMA OutcomeStays ==
  ASSUME SuppliedApart, IInv, [DispatchNext]_dispatching, NEW id, RowStatusOf(id) \in Terminal
  PROVE  RowStatusOf(id)' = RowStatusOf(id)
<1>1. ASSUME table' = table PROVE RowStatusOf(id)' = RowStatusOf(id)
  BY <1>1 DEF RowStatusOf
<1>2. ASSUME NEW r \in Requests, InsertRow(r) PROVE RowStatusOf(id)' = RowStatusOf(id)
  <2> DEFINE x == RowId(r, step[r])
  <2>1. table' = SetKey(table, x, [status |-> "pending", chain |-> <<>>])
    BY <1>2 DEF InsertRow
  <2>2. x \notin DOMAIN table
    BY <1>2 DEF InsertRow, IInv, RowsReached, RowReached, RowId, Shape
  <2> HIDE DEF x
  <2>3. id # x
    BY <2>2 DEF RowStatusOf, Terminal
  <2> QED BY <2>1, <2>3, PutRow
<1>3. ASSUME NEW r \in Requests, NEW v, Updates(r, v), at[r] \in Recording
      PROVE  RowStatusOf(id)' = RowStatusOf(id)
  <2>1. ~(id = runId[r] /\ id \in DOMAIN table)
    BY <1>3, RowBefore DEF Recording, Started, Terminal
  <2> QED BY <1>3, <2>1 DEF Updates
<1>4. ASSUME NEW r \in Requests, MarkRunning(r) PROVE RowStatusOf(id)' = RowStatusOf(id)
  BY <1>3, <1>4, MarkInv DEF MarkRunning, Recording
<1>5. ASSUME NEW r \in Requests, CommitResult(r) PROVE RowStatusOf(id)' = RowStatusOf(id)
  BY <1>3, <1>5, CommitResultInv DEF CommitResult, Recording
<1>6. ASSUME NEW r \in Requests, CommitError(r) PROVE RowStatusOf(id)' = RowStatusOf(id)
  BY <1>3, <1>6, CommitErrorInv DEF CommitError, Recording
<1>7. ASSUME NEW r \in Requests, Post(r) \/ StartAttempt(r) PROVE table' = table
  BY <1>7 DEF Post, StartAttempt, retrying
<1>8. ASSUME UNCHANGED dispatching PROVE table' = table
  BY <1>8 DEF dispatching
<1> QED BY <1>1, <1>2, <1>4, <1>5, <1>6, <1>7, <1>8, SpawnInv, AgentEndsInv, WalkInv, CrashInv
        DEF DispatchNext, Advance

LEMMA WaitersKept ==
  ASSUME SuppliedApart, IInv, [DispatchNext]_dispatching, WaitersHold, waiter' = waiter
  PROVE  WaitersHold'
<1> SUFFICES ASSUME NEW w \in Waiters, waiter[w].phase = "awaited"
             PROVE  RowStatusOf(waiter[w].id)' = waiter[w].status
  BY DEF WaitersHold
<1>1. RowStatusOf(waiter[w].id) \in Terminal /\ RowStatusOf(waiter[w].id) = waiter[w].status
  BY DEF WaitersHold
<1>2. RowStatusOf(waiter[w].id)' = RowStatusOf(waiter[w].id)
  BY <1>1, OutcomeStays
<1> QED BY <1>1, <1>2

LEMMA WaiterSteps ==
  ASSUME WaitersHold, dispatching' = dispatching, NEW w \in Waiters, Await(w) \/ Poll(w)
  PROVE  WaitersHold'
<1>1. \A id : RowStatusOf(id)' = RowStatusOf(id)
  BY DEF dispatching, RowStatusOf
<1>2. PICK me : /\ waiter' = [waiter EXCEPT ![w] = me]
                /\ DOMAIN me = {"phase", "id", "polls", "status"}
                /\ me.phase = "awaited" =>
                     me.status \in Terminal /\ RowStatusOf(me.id) = me.status
  <2>1. CASE Await(w)
    <3>1. PICK id : waiter' = [waiter EXCEPT ![w] = [Idle EXCEPT !.phase = "polling", !.id = id]]
      BY <2>1 DEF Await
    <3> DEFINE me == [Idle EXCEPT !.phase = "polling", !.id = id]
    <3>2. DOMAIN me = {"phase", "id", "polls", "status"} /\ me.phase = "polling"
      BY DEF Idle
    <3> QED BY <3>1, <3>2
  <2>2. CASE Poll(w)
    <3> DEFINE old == waiter[w]
    <3>1. DOMAIN old = {"phase", "id", "polls", "status"} /\ old.phase = "polling"
      BY <2>2 DEF Poll, WaitersHold
    <3>2. CASE old.id \notin DOMAIN table
      <4> DEFINE me == [old EXCEPT !.phase = "not_found"]
      <4>1. waiter' = [waiter EXCEPT ![w] = me]
        BY <2>2, <3>2 DEF Poll
      <4>2. DOMAIN me = {"phase", "id", "polls", "status"} /\ me.phase = "not_found"
        BY <3>1
      <4> QED BY <4>1, <4>2
    <3>3. CASE old.id \in DOMAIN table /\ table[old.id].status \in Terminal
      <4> DEFINE me == [old EXCEPT !.phase = "awaited", !.status = table[old.id].status]
      <4>1. waiter' = [waiter EXCEPT ![w] = me]
        BY <2>2, <3>3 DEF Poll
      <4>2. /\ DOMAIN me = {"phase", "id", "polls", "status"}
            /\ me.id = old.id /\ me.status = table[old.id].status
        BY <3>1
      <4>3. RowStatusOf(me.id) = me.status /\ me.status \in Terminal
        BY <3>3, <4>2 DEF RowStatusOf
      <4> QED BY <4>1, <4>2, <4>3
    <3>4. CASE old.id \in DOMAIN table /\ table[old.id].status \notin Terminal
      <4> DEFINE p  == IF old.polls + 1 = MaxPolls THEN "timed_out" ELSE "polling"
                 me == [old EXCEPT !.polls = @ + 1, !.status = table[old.id].status, !.phase = p]
      <4>1. waiter' = [waiter EXCEPT ![w] = me]
        BY <2>2, <3>4 DEF Poll
      <4>2. p # "awaited"
        OBVIOUS
      <4> HIDE DEF p
      <4>3. DOMAIN me = {"phase", "id", "polls", "status"} /\ me.phase = p
        BY <3>1
      <4> QED BY <4>1, <4>2, <4>3
    <3> QED BY <3>2, <3>3, <3>4
  <2> QED BY <2>1, <2>2
<1>3. /\ waiter' = [v \in Waiters |-> waiter'[v]] /\ waiter'[w] = me
      /\ \A v \in Waiters \ {w} : waiter'[v] = waiter[v]
  BY <1>2 DEF WaitersHold
<1> QED BY <1>1, <1>2, <1>3 DEF WaitersHold

LEMMA WaitersDropped ==
  ASSUME SuppliedApart, IInv, Crash, DropWaiters, WaitersHold PROVE WaitersHold'
<1>1. table' = table
  BY DEF Crash
<1>2. \A id : RowStatusOf(id)' = RowStatusOf(id)
  BY <1>1 DEF RowStatusOf
<1>3. ASSUME NEW w \in Waiters, waiter[w].phase = "polling"
      PROVE  DOMAIN waiter'[w] = {"phase", "id", "polls", "status"} /\ waiter'[w].phase = "dropped"
  BY <1>3 DEF DropWaiters, WaitersHold
<1>4. ASSUME NEW w \in Waiters, waiter[w].phase # "polling" PROVE waiter'[w] = waiter[w]
  BY <1>4 DEF DropWaiters
<1>5. waiter' = [w \in Waiters |-> waiter'[w]]
  BY DEF DropWaiters
<1> QED BY <1>2, <1>3, <1>4, <1>5 DEF WaitersHold

AInv == IInv /\ Told /\ WaitersHold

LEMMA AwaitInitInv == AwaitInit => AInv
BY InitInv, InitTold DEF AwaitInit, AInv, WaitersHold, Idle

LEMMA AwaitNextInv == SuppliedApart /\ AInv /\ [AwaitNext]_service => AInv'
<1> SUFFICES ASSUME SuppliedApart, AInv, [AwaitNext]_service PROVE AInv'
  OBVIOUS
<1>1. [DispatchNext]_dispatching
  BY DEF AwaitNext, service, DispatchNext, Await, Poll
<1>2. IInv' /\ Told'
  BY <1>1, NextInv, NextTold DEF AInv
<1>3. WaitersHold'
  <2>1. ASSUME waiter' = waiter PROVE WaitersHold'
    BY <1>1, <2>1, WaitersKept DEF AInv
  <2>2. ASSUME NEW w \in Waiters, Await(w) \/ Poll(w) PROVE WaitersHold'
    BY <2>2, WaiterSteps DEF AInv, Await, Poll
  <2> QED BY <2>1, <2>2, WaitersDropped DEF AwaitNext, service, AInv
<1> QED BY <1>2, <1>3 DEF AInv

LEMMA InvAnswers == AInv => AnswersHold
<1> SUFFICES ASSUME AInv PROVE AnswersHold
  OBVIOUS
<1>1. ChainTellsWalk
  BY DEF AInv, Told, WalkHolds, WalkTold, ChainTellsWalk, CallerTold, NoRetry
<1>2. ResultPersisted
  <2> SUFFICES ASSUME NEW r \in Requests, Persist, PlainRun(r)
               PROVE  /\ at[r] = "done"  => /\ RowId(r, 1) \in DOMAIN table
                                            /\ table[RowId(r, 1)].status =
                                                 IF final[r].status = "completed"
                                                 THEN "success" ELSE "failure"
                      /\ at[r] = "error" /\ RowId(r, 1) \in DOMAIN table
                           => table[RowId(r, 1)].status # "success"
    BY DEF ResultPersisted
  <2>1. /\ at[r] = "done" => FirstRow(r) = IF final[r].status = "completed"
                                           THEN "success" ELSE "failure"
        /\ at[r] = "error" => FirstRow(r) # "success"
    BY DEF AInv, Told, PlainHolds
  <2> QED BY <2>1 DEF FirstRow, RowStatusOf
<1>3. AwaitedIsFinal
  BY DEF AInv, WaitersHold, AwaitedIsFinal, RowStatusOf, Terminal
<1> QED BY <1>1, <1>2, <1>3 DEF AnswersHold

(* For any requests, policies, faults, crashes and waiters, what anyone    *)
(* was told of a run stays true: the fallback chain tells the walk that    *)
(* was made, the row of a plain request has the outcome its caller was     *)
(* answered, and a status answered to a waiter is the row's from then on.  *)
THEOREM AnswersStayTrue ==
  ASSUME SuppliedApart PROVE AwaitSpec => []AnswersHold
<1>1. AInv /\ [AwaitNext]_service => AInv'
  BY AwaitNextInv
<1> QED BY AwaitInitInv, <1>1, InvAnswers, PTL DEF AwaitSpec
=============================================================================
