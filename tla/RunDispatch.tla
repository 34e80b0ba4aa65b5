---------------------------- MODULE RunDispatch ----------------------------
(***************************************************************************)
(* The run service of a scaffolded project: one POST /agents/{name}/run is *)
(* one dispatcher coroutine (app/dispatch.py) that walks the request's     *)
(* retry policy; each attempt is bracketed by the database transactions of *)
(* record_run (app/persistence.py over db/repositories.py) and executed by *)
(* run_agent (app/agent_runner.py), which keeps the in-memory RUNS dict.   *)
(*                                                                         *)
(* Coroutines interleave only where the code awaits: at a transaction, at  *)
(* the agent subprocess and at the callback POST.  Everything between two  *)
(* awaits is one action, except that the walk over skipped retry steps,    *)
(* which touches nothing shared, takes one action per step.                *)
(***************************************************************************)
EXTENDS Integers, Sequences, FiniteSets

CONSTANTS
  Requests,    \* the POSTs made to the service
  Supplied,    \* run ids callers may put into a request
  Policies,    \* retry policies: sequences of triggers, <<>> for none
  Bodies,      \* the request bodies callers send
  MaxSteps,    \* length of the longest policy (at least 1)
  Scaffolds,   \* kinds of project: TRUE stands for one with the database
  Faults,      \* which infrastructure faults may happen
  MaxCrashes   \* how often the server process may die

Triggers   == {"always", "on_failure", "on_timeout"}
Modes      == {"sync", "async", "fire_and_forget"}
FaultKinds == {"db", "logdir", "logfile"}
Steps      == 1..MaxSteps

NoId    == <<"none", "none", 0>>
Request == [mode : Modes, id : Supplied \cup {NoId},
            steps : Policies, callback : BOOLEAN]

ASSUME ConstantsAssumption ==
  /\ MaxSteps \in Nat \ {0}
  /\ \A p \in Policies : p \in Seq(Triggers) /\ Len(p) <= MaxSteps
  /\ Bodies \subseteq Request
  /\ Scaffolds \subseteq BOOLEAN
  /\ Faults \subseteq FaultKinds
  /\ MaxCrashes \in Nat

-----------------------------------------------------------------------------
(* Run ids.  A generated id is the triple of the place that generates it,  *)
(* the request it is generated for and a step; a caller's id is the triple *)
(* <<"caller", name, 0>>.  The id of retry step i is its base with i put   *)
(* in the third place (the code appends "_step{i}").                       *)

BackgroundId_Shared(r) == <<"bg", "bg", 0>>   \* mutant: no uuid in the id
BackgroundId(r)   == <<"bg", r, 0>>
RowId(r, i)       == <<"run", r, i>>
FreshStepId(r, i) == <<"step", r, i>>
MemoryId(r, i)    == <<"mem", r, i>>
StepOf(id, i)     == <<id[1], id[2], i>>

Attempts == Requests \X Steps
RowIds     == {RowId(r, i) : r \in Requests, i \in Steps}
BaseIds  == Supplied \cup {BackgroundId(r) : r \in Requests}
RunIds      == UNION { BaseIds, RowIds,
                    {StepOf(id, i) : id \in BaseIds, i \in Steps},
                    {FreshStepId(r, i) : r \in Requests, i \in Steps},
                    {MemoryId(r, i) : r \in Requests, i \in Steps} }

RunStatus == {"running", "completed", "failed"}
RowStatus == {"pending", "running", "success", "failure"}
Terminal  == {"success", "failure"}

SetKey(d, k, v) == [x \in DOMAIN d \cup {k} |-> IF x = k THEN v ELSE d[x]]

VARIABLES
  request,   \* [Requests -> AgentRunRequest or NoRequest]
  at,        \* where each dispatcher coroutine is suspended
  step,      \* the retry step (or, without a policy, the only attempt)
  runId,     \* the run id of the attempt under way
  chain,     \* fallback_chain under construction: statuses, oldest first
  prev,      \* last_status of the retry walk
  last,      \* the attempt last_result came from, 0 if none
  state,     \* the AgentRunResult objects, by attempt
  RUNS,      \* run id -> the attempt whose object the dict holds
  table,     \* the runs table: run_id -> row
  final,     \* what the dispatcher returned: attempt, fabricated or nothing
  posted,    \* what reached the callback URL
  server     \* how the project was scaffolded, and how often it has died

dispatching == <<request, at, step, runId, chain, prev, last, state, RUNS,
                 table, final, posted, server>>
retrying == <<chain, prev, last, final>>

NoRequest == [mode |-> "none"]
NoFinal           == [of |-> 0, status |-> "none", error |-> "none"]
FinalOf(i, s)     == [of |-> i, status |-> s.status, error |-> s.error]
Fabricated(err)   == [of |-> 0, status |-> "failed", error |-> err]

NoRetry(r) == request[r].steps = <<>>
Persist    == server.persist

DispatchInit ==
  /\ request = [r \in Requests |-> NoRequest]
  /\ at      = [r \in Requests |-> "idle"]
  /\ step    = [r \in Requests |-> 1]
  /\ runId   = [r \in Requests |-> NoId]
  /\ chain   = [r \in Requests |-> <<>>]
  /\ prev    = [r \in Requests |-> "pending"]
  /\ last    = [r \in Requests |-> 0]
  /\ state   = <<>>
  /\ RUNS    = <<>>
  /\ table   = <<>>
  /\ final   = [r \in Requests |-> NoFinal]
  /\ posted  = [r \in Requests |-> NoFinal]
  /\ server \in [persist : Scaffolds, crashes : {0}]

-----------------------------------------------------------------------------
(* dispatch_run: a background run gets its id before it is scheduled, and  *)
(* the scheduled coroutine carries it in the request.  A caller that puts  *)
(* a row's id into its request has read it from the service before.        *)
Post(r) ==
  /\ at[r] = "idle"
  /\ \E q \in Bodies :
       /\ q.id \in RowIds => q.id \in DOMAIN table
       /\ LET id == IF q.mode = "sync" \/ q.id # NoId THEN q.id
                    ELSE BackgroundId(r)
          IN request' = [request EXCEPT ![r] = [q EXCEPT !.id = id]]
  /\ at' = [at EXCEPT ![r] = "step"]
  /\ UNCHANGED <<step, runId, state, RUNS, table, posted, server>>
  /\ UNCHANGED retrying

(* _step_applies; the code counts steps from 0. *)
StepApplies(trigger, i, status) ==
  \/ i = 1
  \/ trigger = "always"
  \/ trigger = "on_failure" /\ status \in {"failed", "timeout", "unreachable"}
  \/ trigger = "on_timeout" /\ status = "timeout"

(* The run id the attempt is made under; NoId leaves it to record_run or   *)
(* to run_agent.                                                           *)
AttemptId(r) ==
  LET id == request[r].id IN
  IF NoRetry(r) THEN id
  ELSE IF id # NoId THEN StepOf(id, step[r]) ELSE FreshStepId(r, step[r])

Walking(r) == at[r] = "step" /\ ~NoRetry(r) /\ step[r] <= Len(request[r].steps)

Applies(r) == StepApplies(request[r].steps[step[r]], step[r], prev[r])

SkipStep(r) ==
  /\ Walking(r) /\ ~Applies(r)
  /\ chain' = [chain EXCEPT ![r] = Append(@, "skipped")]
  /\ step'  = [step EXCEPT ![r] = @ + 1]
  /\ UNCHANGED <<request, at, runId, prev, last, state, RUNS, table, final,
                 posted, server>>

StartAttempt(r) ==
  /\ \/ at[r] = "step" /\ NoRetry(r)
     \/ Walking(r) /\ Applies(r)
  /\ runId' = [runId EXCEPT ![r] = AttemptId(r)]
  /\ at' = [at EXCEPT ![r] = IF Persist THEN "insert" ELSE "spawn"]
  /\ UNCHANGED <<request, step, state, RUNS, table, posted, server>>
  /\ UNCHANGED retrying

-----------------------------------------------------------------------------
(* The ends of a dispatcher.  A synchronous request answers its caller; a  *)
(* background one has nobody to answer; fire_and_forget goes on to the     *)
(* callback when it was given a URL.                                       *)
Ended(r) ==
  IF request[r].mode = "fire_and_forget" /\ request[r].callback
  THEN "callback" ELSE "done"

EndRun(r, f) ==
  /\ final' = [final EXCEPT ![r] = f]
  /\ at' = [at EXCEPT ![r] = Ended(r)]

NextStep(r, status) ==
  /\ chain' = [chain EXCEPT ![r] = Append(@, status)]
  /\ prev'  = [prev EXCEPT ![r] = status]
  /\ step'  = [step EXCEPT ![r] = @ + 1]
  /\ at'    = [at EXCEPT ![r] = "step"]

(* Mutant: the walk goes on after a completed attempt. *)
Returned_GoesOn(r, s) ==
  /\ state' = SetKey(state, <<r, step[r]>>, s)
  /\ IF NoRetry(r)
     THEN EndRun(r, FinalOf(step[r], s)) /\ UNCHANGED <<chain, prev, last, step>>
     ELSE /\ last' = [last EXCEPT ![r] = step[r]]
          /\ NextStep(r, s.status) /\ UNCHANGED final

(* run_fn returned s, the object of attempt <<r, step[r]>>.  The chain is  *)
(* put on that object when it ends the walk.                               *)
Returned(r, s) ==
  /\ state' = SetKey(state, <<r, step[r]>>,
        IF ~NoRetry(r) /\ s.status = "completed"
        THEN [s EXCEPT !.chain = Append(chain[r], s.status)] ELSE s)
  /\ IF NoRetry(r)
     THEN EndRun(r, FinalOf(step[r], s)) /\ UNCHANGED <<chain, prev, last, step>>
     ELSE /\ last' = [last EXCEPT ![r] = step[r]]
          /\ IF s.status = "completed"
             THEN /\ chain' = [chain EXCEPT ![r] = Append(@, s.status)]
                  /\ EndRun(r, FinalOf(step[r], s))
                  /\ UNCHANGED <<prev, step>>
             ELSE NextStep(r, s.status) /\ UNCHANGED final

(* Mutant: an attempt that raised is not recorded in the chain. *)
Raised_Unrecorded(r) ==
  /\ step' = [step EXCEPT ![r] = @ + 1]
  /\ at' = [at EXCEPT ![r] = IF NoRetry(r) THEN "error" ELSE "step"]
  /\ UNCHANGED <<chain, prev, last, final>>

(* run_fn raised: inside a retry walk it counts as a failed attempt that   *)
(* left no result; outside, the caller gets a 500, a drained run is only   *)
(* logged and a callback is told of a failure.                             *)
RunRaised(r) ==
  IF NoRetry(r)
  THEN /\ final' = [final EXCEPT ![r] = IF request[r].mode = "fire_and_forget"
                                        THEN Fabricated("raised") ELSE @]
       /\ at' = [at EXCEPT ![r] =
                   IF request[r].mode = "sync" THEN "error" ELSE Ended(r)]
       /\ UNCHANGED <<chain, prev, last, step>>
  ELSE NextStep(r, "failed") /\ UNCHANGED <<last, final>>

(* Mutant: the walk only ends when some attempt left a result. *)
Exhausted_NeedsResult(r) ==
  /\ at[r] = "step" /\ ~NoRetry(r) /\ step[r] > Len(request[r].steps)
  /\ last[r] # 0
  /\ EndRun(r, FinalOf(last[r], state[<<r, last[r]>>]))
  /\ UNCHANGED <<request, step, runId, chain, prev, last, state, RUNS, table,
                 posted, server>>

(* The walk is over and no attempt completed. *)
Exhausted(r) ==
  /\ at[r] = "step" /\ ~NoRetry(r) /\ step[r] > Len(request[r].steps)
  /\ IF last[r] # 0
     THEN /\ state' = [state EXCEPT ![<<r, last[r]>>].chain = chain[r]]
          /\ EndRun(r, FinalOf(last[r], state[<<r, last[r]>>]))
     ELSE EndRun(r, Fabricated("no_attempt")) /\ UNCHANGED state
  /\ UNCHANGED <<request, step, runId, chain, prev, last, RUNS, table, posted,
                 server>>

-----------------------------------------------------------------------------
(* record_run: three transactions around the attempt.                      *)
SetRow(id, row) ==
  table' = IF id \in DOMAIN table THEN SetKey(table, id, row) ELSE table

(* A transaction raises and is rolled back. *)
DatabaseFails(r) ==
  /\ "db" \in Faults
  /\ at[r] \in {"insert", "mark", "commit_result", "commit_error"}
  /\ state' = IF at[r] = "commit_result"
              THEN [state EXCEPT ![<<r, step[r]>>].lost = "row"] ELSE state
  /\ RunRaised(r)
  /\ UNCHANGED <<request, runId, RUNS, table, posted, server>>

InsertRow(r) ==
  /\ at[r] = "insert"
  /\ table' = SetKey(table, RowId(r, step[r]), [status |-> "pending", chain |-> <<>>])
  /\ runId' = [runId EXCEPT ![r] = IF @ # NoId THEN @ ELSE RowId(r, step[r])]
  /\ at' = [at EXCEPT ![r] = "mark"]
  /\ UNCHANGED <<request, step, state, RUNS, posted, server>>
  /\ UNCHANGED retrying

(* Mutant: the row is never marked running. *)
MarkRunning_Skipped(r) ==
  /\ at[r] = "mark"
  /\ at' = [at EXCEPT ![r] = "spawn"]
  /\ UNCHANGED <<request, step, runId, state, RUNS, table, posted, server>>
  /\ UNCHANGED retrying

(* UPDATE ... WHERE run_id: no row is updated when none has that id. *)
MarkRunning(r) ==
  /\ at[r] = "mark"
  /\ LET id == runId[r] IN
     SetRow(id, [status |-> "running", chain |-> table[id].chain])
  /\ at' = [at EXCEPT ![r] = "spawn"]
  /\ UNCHANGED <<request, step, runId, state, RUNS, posted, server>>
  /\ UNCHANGED retrying

(* Mutants: the result's status goes into the row unmapped; everything but  *)
(* a timeout counts as a success.                                          *)
RowOutcome_Unmapped(s)   == s.status
RowOutcome_Optimistic(s) == IF s.error # "timed_out" THEN "success" ELSE "failure"

RowOutcome(s) == IF s.status = "completed" THEN "success" ELSE "failure"

CommitResult(r) ==
  /\ at[r] = "commit_result"
  /\ LET s == state[<<r, step[r]>>] IN
     /\ SetRow(runId[r], [status |-> RowOutcome(s), chain |-> s.chain])
     /\ Returned(r, s)
  /\ UNCHANGED <<request, runId, RUNS, posted, server>>

(* Mutant: one completion for both paths, always a success. *)
CommitError_Success(r) ==
  /\ at[r] = "commit_error"
  /\ SetRow(runId[r], [status |-> "success", chain |-> <<>>])
  /\ RunRaised(r)
  /\ UNCHANGED <<request, runId, state, RUNS, posted, server>>

CommitError(r) ==
  /\ at[r] = "commit_error"
  /\ SetRow(runId[r], [status |-> "failure", chain |-> <<>>])
  /\ RunRaised(r)
  /\ UNCHANGED <<request, runId, state, RUNS, posted, server>>

-----------------------------------------------------------------------------
(* run_agent: the attempt's object goes into RUNS first and is mutated     *)
(* from then on.  With persistence its return and its exceptions meet      *)
(* record_run's last transaction, without it they meet the dispatcher.     *)
(* lost is history: what raised after the status was set, the "log" file   *)
(* or the transaction for the "row".                                       *)
Object(r, id, status, error) ==
  [run_id |-> id, status |-> status, error |-> error, chain |-> <<>>, lost |-> "none"]

AgentReturns(r, s) ==
  IF Persist
  THEN /\ state' = SetKey(state, <<r, step[r]>>, s)
       /\ at' = [at EXCEPT ![r] = "commit_result"]
       /\ UNCHANGED <<step, chain, prev, last, final>>
  ELSE Returned(r, s)

AgentRaises(r, s) ==
  /\ state' = SetKey(state, <<r, step[r]>>, [s EXCEPT !.lost = "log"])
  /\ IF Persist
     THEN /\ at' = [at EXCEPT ![r] = "commit_error"]
          /\ UNCHANGED <<step, chain, prev, last, final>>
     ELSE RunRaised(r)

SpawnAgent(r) ==
  /\ at[r] = "spawn"
  /\ LET id == IF runId[r] # NoId THEN runId[r] ELSE MemoryId(r, step[r]) IN
     /\ RUNS'  = SetKey(RUNS, id, <<r, step[r]>>)
     /\ runId' = [runId EXCEPT ![r] = id]
     /\ \/ /\ state' = SetKey(state, <<r, step[r]>>, Object(r, id, "running", "none"))
           /\ at' = [at EXCEPT ![r] = "wait"]
           /\ UNCHANGED <<step, chain, prev, last, final>>
        \* no compiled variant, or no opencode binary
        \/ AgentReturns(r, Object(r, id, "failed", "not_started"))
        \/ /\ "logfile" \in Faults
           /\ AgentRaises(r, Object(r, id, "failed", "not_started"))
        \* run_logs/ cannot be created: outside every try block
        \/ /\ "logdir" \in Faults
           /\ AgentRaises(r, Object(r, id, "running", "none"))
  /\ UNCHANGED <<request, table, posted, server>>

(* timeout_s is over: the subprocess is killed, and the second wait for its *)
(* output has no limit; whoever inherited its pipes can hold them open.    *)
TimeIsUp(r) ==
  /\ at[r] = "wait"
  /\ at' = [at EXCEPT ![r] = "reap"]
  /\ UNCHANGED <<request, step, runId, state, RUNS, table, posted, server>>
  /\ UNCHANGED retrying

(* The subprocess exits, or is gone after it was killed; writing the log   *)
(* file comes after the status is set, and an error of that write escapes. *)
Exits(r) ==
  IF at[r] = "reap" THEN { Object(r, runId[r], "failed", "timed_out") }
  ELSE { Object(r, runId[r], "completed", "none"), Object(r, runId[r], "failed", "exit_code") }

Unlogged(r) == IF at[r] = "reap" THEN { Object(r, runId[r], "failed", "log_error") } ELSE Exits(r)

AgentEnds(r) ==
  /\ at[r] \in {"wait", "reap"}
  /\ \/ \E s \in Exits(r) : AgentReturns(r, s)
     \/ "logfile" \in Faults /\ \E s \in Unlogged(r) : AgentRaises(r, s)
  /\ UNCHANGED <<request, runId, RUNS, table, posted, server>>

(* The POST reaches the receiver or is lost; either way it is not retried. *)
Callback(r) ==
  /\ at[r] = "callback"
  /\ posted' \in { posted, [posted EXCEPT ![r] = final[r]] }
  /\ at' = [at EXCEPT ![r] = "done"]
  /\ UNCHANGED <<request, step, runId, state, RUNS, table, server>>
  /\ UNCHANGED retrying

(* The server dies and comes up again: coroutines and RUNS are gone, the   *)
(* table stays, and nothing at start-up looks at it.                       *)
Settled == {"idle", "done", "error", "lost"}

Crash ==
  /\ server.crashes < MaxCrashes
  /\ server' = [server EXCEPT !.crashes = @ + 1]
  /\ at' = [r \in Requests |-> IF at[r] \in Settled THEN at[r] ELSE "lost"]
  /\ RUNS' = <<>>
  /\ UNCHANGED <<request, step, runId, state, table, posted>>
  /\ UNCHANGED retrying

-----------------------------------------------------------------------------
Advance(r) ==
  \/ SkipStep(r)  \/ StartAttempt(r) \/ Exhausted(r)
  \/ InsertRow(r) \/ MarkRunning(r)  \/ CommitResult(r) \/ CommitError(r)
  \/ DatabaseFails(r)
  \/ SpawnAgent(r) \/ TimeIsUp(r) \/ AgentEnds(r)
  \/ Callback(r)

DispatchNext ==
  \/ \E r \in Requests : Post(r) \/ Advance(r)
  \/ Crash

DispatchSpec == DispatchInit /\ [][DispatchNext]_dispatching

(* The waits without a limit of their own: for the database, to which no    *)
(* command timeout is given, and for the output of an agent that was killed. *)
Unbounded(r) == at[r] \in {"insert", "mark", "commit_result", "commit_error", "reap"}

-----------------------------------------------------------------------------
(* Properties.                                                             *)

Control == {"idle", "step", "insert", "mark", "spawn", "wait", "reap", "commit_result",
            "commit_error", "callback", "done", "error", "lost"}
Errors  == {"none", "not_started", "exit_code", "timed_out", "log_error",
            "raised", "no_attempt"}
Chains   == Seq(RunStatus \cup {"skipped"})
Final   == [of : 0..MaxSteps, status : RunStatus \cup {"none"}, error : Errors]
RowRecord     == [status : RowStatus, chain : Chains]
Sent    == [mode : Modes, id : BaseIds \cup {NoId}, steps : Policies,
            callback : BOOLEAN]
Result  == [run_id : RunIds, status : RunStatus, error : Errors, chain : Chains,
            lost : {"none", "log", "row"}]

(* Every variable has its type; the three dictionaries are functions on    *)
(* the keys written so far.                                                *)
TypeOK ==
  /\ request \in [Requests -> Sent \cup {NoRequest}]
  /\ at      \in [Requests -> Control]
  /\ step    \in [Requests -> 1..(MaxSteps + 1)]
  /\ runId   \in [Requests -> RunIds \cup {NoId}]
  /\ chain   \in [Requests -> Chains]
  /\ prev    \in [Requests -> RunStatus \cup {"pending"}]
  /\ last    \in [Requests -> 0..MaxSteps]
  /\ state   \in [DOMAIN state -> Result] /\ DOMAIN state \subseteq Attempts
  /\ RUNS    \in [DOMAIN RUNS -> Attempts] /\ DOMAIN RUNS \subseteq RunIds
  /\ table   \in [DOMAIN table -> RowRecord] /\ DOMAIN table \subseteq RowIds
  /\ final   \in [Requests -> Final]
  /\ posted  \in [Requests -> Final]
  /\ server \in [persist : Scaffolds, crashes : 0..MaxCrashes]

Ran(r)      == {i \in Steps : <<r, i>> \in DOMAIN state}
CallerTold(r) == at[r] \in {"callback", "done"}

(* record_run's contract for the request it was written for: synchronous,  *)
(* one attempt, no id of the caller's.  When the caller has its result the *)
(* row says the same, and a caller answered with an error never has a row  *)
(* that says success.                                                      *)
PlainRun(r) == request[r] # NoRequest /\ request[r].mode = "sync"
               /\ request[r].id = NoId /\ NoRetry(r)

ResultPersisted ==
  \A r \in Requests : Persist /\ PlainRun(r) =>
    /\ at[r] = "done"  => /\ RowId(r, 1) \in DOMAIN table
                          /\ table[RowId(r, 1)].status =
                               IF final[r].status = "completed"
                               THEN "success" ELSE "failure"
    /\ at[r] = "error" /\ RowId(r, 1) \in DOMAIN table
         => table[RowId(r, 1)].status # "success"

(* GET /runs/{id} (the RUNS dict) and GET /runs/{id}/detail (the table)    *)
(* give a run the table calls finished the same outcome, except that RUNS  *)
(* keeps the status a run had when its log directory or file could not be  *)
(* written ("running" for ever, or "completed"), while its row says failure. *)
RunsAgreesWithTable ==
  \A id \in DOMAIN RUNS \cap DOMAIN table :
    LET s == state[RUNS[id]] IN
    /\ table[id].status = "success" => s.status = "completed" /\ s.lost = "none"
    /\ table[id].status = "failure" => s.status = "failed" \/ s.lost = "log"

(* A run that asked for no id of its own is never hidden in RUNS behind    *)
(* another run that uses the same id.                                      *)
OwnRunVisible ==
  \A r \in Requests :
    /\ at[r] \in {"wait", "reap", "commit_result", "commit_error"}
    /\ request[r].id \notin Supplied
    => runId[r] \in DOMAIN RUNS /\ RUNS[runId[r]] = <<r, step[r]>>

(* Both: whoever looks a run up in RUNS finds that run, and an outcome that *)
(* is the table's whenever its log could be written.                       *)
RunsTellsOutcome == RunsAgreesWithTable /\ OwnRunVisible

(* The fallback chain of an answered retry request tells the whole walk:   *)
(* one entry per step up to the first completed attempt or to the end, the *)
(* first step never skipped, and "completed" is what the caller was told.  *)
ChainTellsWalk ==
  \A r \in Requests : CallerTold(r) /\ request[r].steps # <<>> =>
    LET n == Len(chain[r]) IN
    /\ n > 0 /\ chain[r][1] # "skipped"
    /\ \A i \in 1..(n - 1) : chain[r][i] # "completed"
    /\ n = Len(request[r].steps) \/ chain[r][n] = "completed"
    /\ final[r].status = "completed" <=> chain[r][n] = "completed"
    /\ final[r].of # 0 => chain[r][final[r].of] = final[r].status

(* What reaches the callback URL is the outcome of the run: completed only *)
(* when some attempt completed, and whenever one did whose log and row     *)
(* could be written.                                                       *)
PostTellsOutcome ==
  \A r \in Requests : posted[r] # NoFinal =>
    /\ posted[r] = final[r] /\ request[r].mode = "fire_and_forget"
    /\ posted[r].status = "completed" => \E i \in Ran(r) : state[<<r, i>>].status = "completed"
    /\ (\E i \in Ran(r) : state[<<r, i>>].status = "completed" /\ state[<<r, i>>].lost = "none")
         => posted[r].status = "completed"

(* The POST is not repeated when it is lost.  Until the server dies the     *)
(* outcome it carried can still be had: RUNS has it under the id the caller *)
(* was given, or that id's step.                                           *)
LostPostInRUNS ==
  \A r \in Requests :
    /\ request[r] # NoRequest /\ request[r].mode = "fire_and_forget"
    /\ request[r].id \notin Supplied /\ server.crashes = 0
    /\ at[r] = "done" /\ final[r].of # 0
    => LET i  == final[r].of
           id == IF NoRetry(r) THEN request[r].id ELSE StepOf(request[r].id, i)
       IN  id \in DOMAIN RUNS /\ RUNS[id] = <<r, i>> /\ state[<<r, i>>].status = final[r].status

(* A caller that left a callback URL is told the outcome once, or can look  *)
(* it up.                                                                  *)
CallbackTellsOutcome == PostTellsOutcome /\ LostPostInRUNS

(* The runs table implements RunLifecycle: whatever requests interleave,   *)
(* fail or are lost in a crash, a row only moves forward and its outcome   *)
(* is final.                                                               *)
RowStatusOf(id) == IF id \in DOMAIN table THEN table[id].status ELSE "absent"
Lifecycle == INSTANCE RunLifecycle
               WITH Rows <- RowIds, status <- [id \in RowIds |-> RowStatusOf(id)]
RowLifecycle == Lifecycle!Spec

(* Every accepted run comes to an end, answered, failed or lost, unless it *)
(* stays for ever in one of the waits that have no limit.                  *)
RunsEnd == \A r \in Requests : at[r] = "step" ~> (at[r] \in Settled \/ []Unbounded(r))

-----------------------------------------------------------------------------
(* What the code's comments say of runs that do not hold of the code; each *)
(* is checked by a run that expects a violation.                           *)

(* "the result lands in the `runs` table exactly once, regardless of which *)
(* path called it": an attempt the dispatcher is done with has its row in  *)
(* a terminal status.                                                      *)
RunLandsInTable ==
  \A r \in Requests : Persist /\ at[r] = "done" =>
    \A i \in Ran(r) : RowStatusOf(RowId(r, i)) \in Terminal
=============================================================================
