------------------------------ MODULE Session ------------------------------
(***************************************************************************)
(* A workflow whose steps may be agent turns, telling one events what they  *)
(* do: run_workflow calls a runner that calls run_interactive, and a       *)
(* consumer takes the events at its own pace.                              *)
(***************************************************************************)
EXTENDS WorkflowRun, AgentTurn

session == <<stream, walk, turn>>

SessionInit ==
  /\ StreamInit
  /\ turn = NoTurn
  /\ \E spec \in Specs : walk = StartWalk(spec)

(* A runner that answers with an agent's turn. *)
CallAgent ==
  /\ WalkAt("attempt") /\ Current.runner = "agent"
  /\ StartTurn /\ Walks(walk, "turn")

Answering == WalkAt("turn")

(* The turn's exception is the step's; a turn that ends with an error is   *)
(* an answer, which the runner may give or raise.                          *)
TurnFails ==
  /\ Answering
  /\ \/ At("raised")
     \/ At("done") /\ turn.error # "none"
  /\ Errs(walk.state) /\ UNCHANGED turn

TurnAnswers ==
  /\ Answering /\ At("done")
  /\ \E v \in Values : Returns(v)
  /\ UNCHANGED turn

WalkStep ==
  /\ Stop \/ Enter \/ Skip \/ Begin \/ RunnerErrs \/ RunnerReturns \/ Succeed \/ GiveUp
  /\ UNCHANGED turn

TurnStep ==
  /\ Answering
  /\ Complete \/ Decide \/ ToolStarts \/ ToolProgress \/ ToolReturns \/ ToolEnds \/ Finish
  /\ UNCHANGED walk

(* The thread the workflow runs on, which the turn blocks. *)
ThreadStep == WalkStep \/ CallAgent \/ TurnFails \/ TurnAnswers \/ TurnStep

Consume == Drain /\ UNCHANGED <<walk, turn>>

SessionNext == ThreadStep \/ Consume

SessionSpec == SessionInit /\ [][SessionNext]_session

(* The runners, the client and the tools return; the consumer need never   *)
(* take an event.                                                          *)
FairSession == SessionSpec /\ WF_session(ThreadStep)

-----------------------------------------------------------------------------
(* What is left of a workflow retells it: the records of the steps the walk *)
(* over the spec, the transcript of a turn what its tools did.             *)
SessionTold == Audit /\ RecordsTellTurn

(* Whatever the model asks, the tools do or the consumer leaves untaken,   *)
(* the workflow ends: a cycle in the spec, a model that never stops asking *)
(* for tools and a full queue are all cut off.                             *)
SessionEnds == <>WalkAt("end")
=============================================================================
