--------------------------- MODULE MCOperations ---------------------------
(***************************************************************************)
(* The promotion slots of a project, the fleets that fill them, a workflow *)
(* that runs agents, and the run service with its readers.  One of the     *)
(* four goes on in a behaviour.                                            *)
(***************************************************************************)
EXTENDS Fleet, Session, MCRunDispatch, RunAwait

CONSTANTS p1, p2, v1, v2, v3, old, w1

---------------------------------------------------------------------------
(* Promotion: an agent and its branch, with a slot of a client's.          *)

PlaceOf(id, client, slot) == [id |-> id, client |-> client, slot |-> slot]
BaseDefault  == PlaceOf("own", None, None)
ClientTarget == PlaceOf("own", "c", "t")
BranchPlace  == PlaceOf("branch", None, None)

Scored == [v \in Versions |-> CASE v = v1 -> 0 [] v = v3 -> 2 [] OTHER -> 1]

SomeTargets ==
  {<<BaseDefault, v1>>, <<BaseDefault, v2>>, <<BaseDefault, old>>, <<ClientTarget, old>>, <<BranchPlace, old>>}

Queried == {[client |-> "c", target |-> "t", class |-> "m"]}

OneSlotTargets == {BaseDefault} \X {v1, v2, v3}

---------------------------------------------------------------------------
(* Fleet: v3 scores best but fails a hard criterion; v1 is below the bar.  *)

Passing == [v \in Versions |-> v # v3]
Loops   == {<<v2>>, <<v2, v1>>, <<v3, v2>>, <<v1>>}
AgentAndBranch == <<"own", "branch">>

---------------------------------------------------------------------------
(* Session: two workflows over a model that asks for up to two tools a     *)
(* time.                                                                   *)

Bool == [type |-> "bool", text |-> "True"]
Text == [type |-> "str", text |-> "True"]

Open == [logic |-> "all", checks |-> {}]
Gated == [logic |-> "any", checks |-> {[variable |-> "v", value |-> "True"],
                                       [variable |-> "a.output", value |-> "True"]}]
AfterA == [logic |-> "all", checks |-> {[variable |-> "a.output", value |-> "True"]}]

Step(runner, gate, routes, next, retries, onError) ==
  [runner |-> runner, gate |-> gate, routes |-> routes, next |-> next,
   retries |-> retries, onError |-> onError]

(* a feeds c past or through b; c may go back to a. *)
Cyclic ==
  [start |-> "a", maxSteps |-> 4,
   steps |-> [a |-> Step("plain", Open, <<[when |-> "a.output", equals |-> Bool, goto |-> "c"]>>,
                         "b", 1, "b"),
              b |-> Step("missing", AfterA, <<[when |-> "v", equals |-> Text, goto |-> "a"]>>,
                         "c", 0, "c"),
              c |-> Step("plain", Gated, <<[when |-> "v", equals |-> Bool, goto |-> "a"]>>,
                         "Nowhere", 0, "Nowhere")]]

(* An agent that is asked again, up to max_steps. *)
Chat ==
  [start |-> "a", maxSteps |-> 2,
   steps |-> [a |-> Step("agent", Open, <<[when |-> "a.output", equals |-> Text, goto |-> "a"]>>,
                         "Nowhere", 0, "Nowhere")]]

MCSpecs == {Cyclic, Chat}
MCVars == {"v"}
MCValues == {Bool, Text}
MCAsked == {<<>>, <<"t1">>, <<"t1", "t2">>}

---------------------------------------------------------------------------
VARIABLE part

operations == <<part, allvars, session, service>>

OperationsInit ==
  /\ part \in {"promotion", "fleet", "session", "service"}
  /\ FleetInit /\ SessionInit /\ AwaitInit
  /\ part # "session" => walk.spec = Chat
  /\ part \in {"session", "service"} => \A l \in Place : files[l] = Absent
  /\ part = "fleet" => \A l \in Place : files[l] # Absent => l.slot = None

Slotting == part = "promotion" /\ Next /\ UNCHANGED <<fleetvars, session, service>>
Healing  == part = "promotion" /\ Resolve /\ UNCHANGED <<fleetvars, session, service>>
Working(p) == part = "fleet" /\ Thread(p) /\ UNCHANGED <<session, service>>
Pooling  == part = "fleet" /\ (Collect \/ Return) /\ UNCHANGED <<session, service>>
Thinking == part = "session" /\ ThreadStep /\ UNCHANGED <<allvars, service>>
Taking   == part = "session" /\ Consume /\ UNCHANGED <<allvars, service>>
Serving  == part = "service" /\ AwaitNext /\ UNCHANGED <<allvars, session>>
Going(r) == part = "service" /\ Owed(r) /\ UNCHANGED <<allvars, session>>

OperationsNext ==
  /\ UNCHANGED part
  /\ Slotting \/ (\E p \in Procs : Working(p)) \/ Pooling \/ Thinking \/ Taking \/ Serving

OperationsSpec == OperationsInit /\ [][OperationsNext]_operations

FairOperations ==
  /\ OperationsSpec
  /\ WF_operations(Healing /\ UNCHANGED part)
  /\ \A p \in Procs : WF_operations(Working(p) /\ UNCHANGED part)
  /\ WF_operations(Pooling /\ UNCHANGED part)
  /\ WF_operations(Thinking /\ UNCHANGED part)
  /\ \A r \in Requests : WF_operations(Going(r) /\ UNCHANGED part)

(* Rollbacks alone. *)
RollbackSpec == OperationsInit /\ part = "promotion" /\ [][OperationsNext]_operations

---------------------------------------------------------------------------
(* What has begun ends: a compile that meets a corrupt promotion resolves  *)
(* its ids; a fleet whose loops raise gives the other units their outcome, *)
(* and ends well unless an export or a promotion raised; a workflow is cut *)
(* off in a cycle, at a model that never stops asking and at a full queue. *)
WhatBeginsEnds ==
  /\ ResolveEnds
  /\ part = "fleet" => FleetEnds
  /\ part = "session" => SessionEnds
=============================================================================
