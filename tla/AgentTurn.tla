----------------------------- MODULE AgentTurn -----------------------------
(***************************************************************************)
(* run_interactive (interactive/runner.py): one user turn of an in-process *)
(* agent.  The model is asked with the transcript so far; while it asks    *)
(* for tools they are run one by one and their results appended, up to a   *)
(* number of rounds.  A tool's failure is recorded and given back to the   *)
(* model; a failure of the client or of the event sink ends the turn.      *)
(***************************************************************************)
EXTENDS EventStream, SequencesExt

CONSTANTS
  Asked,         \* the tool calls a response may hold: sequences of call ids
  MaxToolRounds  \* max_tool_rounds

ASSUME TurnAssumption == MaxToolRounds \in Nat /\ \A calls \in Asked : calls \in Seq(Range(calls))

VARIABLE turn  \* the turn that runs, or ran last

(* Messages of the transcript by role; a "calls" message names the calls   *)
(* it asks for, a "tool" message the call it answers and how that went.    *)
Message(role, of, ok) == [role |-> role, of |-> of, ok |-> ok]

NoTurn == [pc |-> "none", transcript |-> <<>>, records |-> <<>>, calls |-> <<>>,
           rounds |-> 0, toolRounds |-> 0, error |-> "none", structured |-> FALSE,
           served |-> FALSE, schema |-> FALSE]

Opening == <<Message("system", <<>>, TRUE), Message("user", <<>>, TRUE)>>

(* A turn is called with or without a tool_runner and an output_schema. *)
StartTurn ==
  /\ \E served, schema \in BOOLEAN :
       turn' = [NoTurn EXCEPT !.pc = "complete", !.transcript = Opening,
                              !.served = served, !.schema = schema]
  /\ NewEmitter("agent")

At(at)  == turn.pc = at
Goes(t, at) == turn' = [t EXCEPT !.pc = at]

(* Mutant: an event the queue has no room for is dropped. *)
Emitting_Dropped(kind, t, at) == (Put("agent", kind) \/ Full("agent")) /\ Goes(t, at)

(* An event is put and the turn goes on, or the sink raises and ends it. *)
Emitting(kind, t, at) ==
  \/ Put("agent", kind) /\ Goes(t, at)
  \/ Full("agent") /\ Goes(t, "raised")

(* client.complete: text, tool calls, both or neither; or it raises. *)
Complete ==
  /\ At("complete")
  /\ \/ \E calls \in Asked :
          LET t == [turn EXCEPT !.rounds = @ + 1, !.calls = calls] IN
          \/ Goes(t, "decide") /\ UNCHANGED stream
          \/ Emitting("message", t, "decide")
     \/ Goes(turn, "raised") /\ UNCHANGED stream

(* Mutant: the cap is compared before this round is counted. *)
Capped_Late == turn.toolRounds > MaxToolRounds

Capped == turn.toolRounds >= MaxToolRounds

(* The answer is final, cannot be served, or its tools are run. *)
Decide ==
  /\ At("decide") /\ UNCHANGED stream
  /\ CASE turn.calls = <<>> -> Goes(turn, "finish")
       [] turn.calls # <<>> /\ ~turn.served -> Goes([turn EXCEPT !.error = "no runner"], "finish")
       [] turn.calls # <<>> /\ turn.served /\ Capped ->
            Goes([turn EXCEPT !.error = "max rounds"], "finish")
       [] OTHER ->
            Goes([turn EXCEPT !.toolRounds = @ + 1,
                              !.transcript = Append(@, Message("calls", turn.calls, TRUE))],
                 "start")

ToolStarts == At("start") /\ Emitting("tool.start", turn, "tool")

(* Mutant: a failing tool leaves no message for the model. *)
Answered_IfOk(t, ok) ==
  IF ok THEN [t EXCEPT !.transcript = Append(@, Message("tool", <<Head(t.calls)>>, ok))] ELSE t

Answered(t, ok) ==
  [t EXCEPT !.transcript = Append(@, Message("tool", <<Head(t.calls)>>, ok))]

(* The tool's runner may emit progress of its own (bound: once a call);    *)
(* what a full queue raises there it may catch, or fail of.                 *)
ToolProgress ==
  /\ At("tool")
  /\ Put("agent", "progress") \/ Full("agent")
  /\ Goes(turn, "working")

ToolReturns ==
  /\ At("tool") \/ At("working")
  /\ UNCHANGED stream
  /\ \E ok \in BOOLEAN :
       Goes([turn EXCEPT !.records = Append(@, ok)], IF ok THEN "succeeded" ELSE "failed")

ToolEnds == \E ok \in BOOLEAN :
  /\ At(IF ok THEN "succeeded" ELSE "failed")
  /\ LET t == [Answered(turn, ok) EXCEPT !.calls = Tail(@)] IN
     Emitting(IF ok THEN "tool.end" ELSE "tool.error", t,
              IF t.calls = <<>> THEN "complete" ELSE "start")

(* The last text closes the transcript; a structured answer is parsed. *)
Finish ==
  /\ At("finish") /\ UNCHANGED stream
  /\ LET t == [turn EXCEPT !.transcript = Append(@, Message("assistant", <<>>, TRUE))] IN
     IF turn.schema /\ turn.error = "none"
     THEN \/ Goes([t EXCEPT !.structured = TRUE], "done")
          \/ Goes([t EXCEPT !.error = "parse"], "done")
     ELSE Goes(t, "done")

-----------------------------------------------------------------------------
(* Strict chat templates accept a transcript only if every call of an      *)
(* assistant message is answered, in order, before anything else: so it is *)
(* whenever the model is asked, and in the result of the turn.             *)
CallsAnswered ==
  At("complete") \/ At("done") =>
    \A i \in DOMAIN turn.transcript :
      /\ turn.transcript[i].role = "system" <=> i = 1
      /\ turn.transcript[i].role = "calls" =>
           LET ids == turn.transcript[i].of IN
           /\ i + Len(ids) <= Len(turn.transcript)
           /\ \A k \in 1..Len(ids) : /\ turn.transcript[i + k].role = "tool"
                                     /\ turn.transcript[i + k].of = <<ids[k]>>

(* The places of the answers among the first n messages.                   *)
AnswersIn(n) == {i \in 1..n : turn.transcript[i].role = "tool"}

(* Every call is answered; the records the evaluators score are the tool   *)
(* results the model saw, one by one; and the cap holds: a turn that asked *)
(* for no more than it may has none of its tools left out, one that ends   *)
(* at the cap ran exactly that many rounds.                                *)
RecordsTellTurn ==
  /\ CallsAnswered
  /\ At("done") =>
       /\ Len(turn.records) = Cardinality(AnswersIn(Len(turn.transcript)))
       /\ \A i \in AnswersIn(Len(turn.transcript)) :
            turn.records[Cardinality(AnswersIn(i))] = turn.transcript[i].ok
       /\ turn.toolRounds <= MaxToolRounds
       /\ turn.rounds = turn.toolRounds + 1
       /\ turn.error = "max rounds" => turn.toolRounds = MaxToolRounds
       /\ turn.structured => turn.error = "none"
=============================================================================
