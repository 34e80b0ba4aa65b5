---------------------------- MODULE WorkflowRun ----------------------------
(***************************************************************************)
(* run_workflow (workflow/executor.py): one cursor walks a WorkflowSpec.   *)
(* A step is skipped by its gate, or attempted up to retries + 1 times;    *)
(* what it returns goes into the shared state, which gates and routes      *)
(* read.  Every attempt leaves a record, every phase an event.             *)
(***************************************************************************)
EXTENDS EventStream, FiniteSets, SequencesExt

CONSTANTS
  Specs,    \* the calls of run_workflow: [start, steps, maxSteps]
  Vars,     \* the state variables beside the steps' outputs
  Values    \* the values they take: [type, text], text is what str() gives

VARIABLE walk  \* the run: its spec, state, records, cursor and where it is

Nowhere    == "Nowhere"
Missing == [type |-> "missing", text |-> ""]

Output(id) == id \o ".output"

Outputs(spec) == {Output(id) : id \in DOMAIN spec.steps}

(* Every edge ends at a step (_graph_is_consistent); two steps' outputs     *)
(* have two names, and no state variable has one of them.                  *)
Edges(step) == {step.next, step.onError} \cup {step.routes[i].goto : i \in DOMAIN step.routes}

ASSUME WalkAssumption ==
  /\ \A spec \in Specs :
       /\ spec.maxSteps \in Nat \ {0}
       /\ spec.start \in DOMAIN spec.steps /\ Nowhere \notin DOMAIN spec.steps
       /\ \A id \in DOMAIN spec.steps :
            /\ spec.steps[id].retries \in Nat /\ DOMAIN spec.steps[id].routes \subseteq Nat
            /\ Edges(spec.steps[id]) \subseteq DOMAIN spec.steps \cup {Nowhere}
            /\ Output(id) \notin Vars
            /\ \A other \in DOMAIN spec.steps : Output(other) = Output(id) => other = id
  /\ \A v \in Values : v.type \notin {"dict", "missing"}

StartWalk(spec) ==
  [spec |-> spec, pc |-> "next", cursor |-> spec.start, visited |-> 0, attempt |-> 0,
   state |-> [k \in Vars \cup Outputs(spec) |-> Missing],
   records |-> <<>>, result |-> Missing, status |-> "running"]

Current == walk.spec.steps[walk.cursor]

RecordOf(attempt, status, output) ==
  [step |-> walk.cursor, attempt |-> attempt, status |-> status, output |-> output]

(* A gate compares texts and a missing variable equals nothing. *)
GatePasses(gate, state) ==
  LET holds(c) == state[c.variable] # Missing /\ state[c.variable].text = c.value IN
  IF gate.logic = "all" THEN \A c \in gate.checks : holds(c)
                        ELSE \E c \in gate.checks : holds(c)

(* A route compares values. *)
Taken(route, state) == state[route.when] # Missing /\ state[route.when] = route.equals

(* The first matching route, or the default. *)
Successor(step, state) ==
  LET taken == {i \in DOMAIN step.routes : Taken(step.routes[i], state)} IN
  IF taken = {} THEN step.next
  ELSE step.routes[CHOOSE i \in taken : \A j \in taken : i <= j].goto

WalkAt(at) == walk.pc = at
Walks(w, at) == walk' = [w EXCEPT !.pc = at]

(* Nothing catches what the sink raises on the workflow's own events. *)
Telling(kind, w, at) ==
  \/ Put("workflow", kind) /\ Walks(w, at)
  \/ Full("workflow") /\ Walks([w EXCEPT !.status = "raised"], "end")

-----------------------------------------------------------------------------
Spent == walk.visited >= walk.spec.maxSteps

Stop ==
  /\ WalkAt("next") /\ UNCHANGED stream
  /\ \/ walk.cursor = Nowhere /\ Walks([walk EXCEPT !.status = "completed"], "end")
     \/ walk.cursor # Nowhere /\ Spent /\ Walks([walk EXCEPT !.status = "halted"], "end")

Enter ==
  /\ WalkAt("next") /\ walk.cursor # Nowhere /\ ~Spent
  /\ Telling("progress", [walk EXCEPT !.visited = @ + 1], "gate")

(* Mutant: a skipped step is followed as a successful one is. *)
AfterSkip_Routes(step) == Successor(step, walk.state)

AfterSkip(step) == step.next

Skip ==
  /\ WalkAt("gate") /\ ~GatePasses(Current.gate, walk.state)
  /\ Telling("progress",
             [walk EXCEPT !.records = Append(@, RecordOf(0, "gate_skipped", Missing)),
                          !.cursor = AfterSkip(Current)],
             "next")

Begin ==
  /\ WalkAt("gate") /\ GatePasses(Current.gate, walk.state)
  /\ Walks([walk EXCEPT !.attempt = 1], "attempt")
  /\ UNCHANGED stream

(* Mutant: retries counts the attempts. *)
Retries_Short(step) == walk.attempt < step.retries

Retries(step) == walk.attempt <= step.retries

(* The runner raised, or there is none of that name. *)
Errs(state) ==
  LET w == [walk EXCEPT !.records = Append(@, RecordOf(walk.attempt, "error", Missing)),
                        !.state = state] IN
  IF Retries(Current)
  THEN Telling("tool.error", [w EXCEPT !.attempt = @ + 1], "attempt")
  ELSE Telling("tool.error", w, "exhausted")

(* The runner returned: nothing, a value, or a dict. *)
Returns(output) ==
  /\ Walks([walk EXCEPT !.records = Append(@, RecordOf(walk.attempt, "ok", output)),
                        !.result = output], "returned")
  /\ UNCHANGED stream

(* A runner holds the context and may change the state before it raises;   *)
(* one that returns has its changes in the dict it returns.                *)
Mutated == {walk.state} \cup {[walk.state EXCEPT ![k] = v] : k \in Vars, v \in Values}

Dict(k, v) == [type |-> "dict", text |-> "{...}", key |-> k, value |-> v]

Answers == Values \cup {Missing} \cup {Dict(k, v) : k \in Vars, v \in Values}

RunnerErrs ==
  /\ WalkAt("attempt")
  /\ \/ Current.runner = "missing" /\ Errs(walk.state)
     \/ Current.runner = "plain" /\ \E s \in Mutated : Errs(s)

RunnerReturns ==
  WalkAt("attempt") /\ Current.runner = "plain" /\ \E v \in Answers : Returns(v)

(* Mutant: a silent step clears what an earlier visit left. *)
Coerced_Clears(w) == [w.state EXCEPT ![Output(w.cursor)] = w.result]

(* Nowhere is silent, a dict is merged, and both kinds of value are kept.     *)
Coerced(w) ==
  LET merged == IF w.result.type = "dict" THEN [w.state EXCEPT ![w.result.key] = w.result.value]
                                          ELSE w.state IN
  IF w.result = Missing THEN merged ELSE [merged EXCEPT ![Output(w.cursor)] = w.result]

Succeed ==
  /\ WalkAt("returned")
  /\ LET state == Coerced(walk) IN
     Telling("progress", [walk EXCEPT !.state = state, !.result = Missing, !.attempt = 0,
                                      !.cursor = Successor(Current, state)], "next")

GiveUp ==
  /\ WalkAt("exhausted")
  /\ \/ /\ Current.onError # Nowhere
        /\ Telling("progress", [walk EXCEPT !.cursor = Current.onError, !.attempt = 0], "next")
     \/ /\ Current.onError = Nowhere
        /\ Walks([walk EXCEPT !.status = "failed"], "end") /\ UNCHANGED stream

-----------------------------------------------------------------------------
(* What gates and routes read under "<step>.output" is what the step last  *)
(* returned: no failed, skipped or silent visit changes it.                *)
OutputsTellRecords ==
  ~WalkAt("returned") => \A id \in DOMAIN walk.spec.steps :
    LET said == {i \in DOMAIN walk.records : /\ walk.records[i].step = id
                                             /\ walk.records[i].output # Missing} IN
    walk.state[Output(id)] =
      IF said = {} THEN Missing
      ELSE walk.records[CHOOSE i \in said : \A j \in said : j <= i].output

(* The records are a full audit trail: read one by one they retell the     *)
(* walk.  Each is the first of a visit or the retry of a failed attempt;   *)
(* a visit ends in a skip, a success or its last permitted failure, and    *)
(* the next one is at the step that outcome leads to; there is one visit   *)
(* per counted step; and the result's status is what the last one says.    *)
LeadsTo(step, r, to) ==
  CASE r.status = "gate_skipped" -> to = step.next
    [] r.status = "error" -> r.attempt = step.retries + 1 /\ to = step.onError
    [] r.status = "ok" -> to \in {step.next} \cup {step.routes[i].goto : i \in DOMAIN step.routes}

Audit ==
  LET rs == walk.records  steps == walk.spec.steps
      opens(r) == r.attempt = IF r.status = "gate_skipped" THEN 0 ELSE 1
      visits == {i \in DOMAIN rs : opens(rs[i])} IN
  /\ \A i \in DOMAIN rs :
       IF i \in visits
       THEN IF i = 1 THEN rs[1].step = walk.spec.start
                     ELSE LeadsTo(steps[rs[i - 1].step], rs[i - 1], rs[i].step)
       ELSE /\ rs[i - 1].step = rs[i].step /\ rs[i - 1].status = "error"
            /\ rs[i].attempt = rs[i - 1].attempt + 1
            /\ rs[i].attempt <= steps[rs[i].step].retries + 1
  /\ OutputsTellRecords
  /\ Cardinality(visits) \in {walk.visited, walk.visited - 1}
  /\ walk.status = "completed" => LeadsTo(steps[Last(rs).step], Last(rs), Nowhere)
  /\ walk.status = "failed" =>
       Last(rs).status = "error" /\ LeadsTo(steps[Last(rs).step], Last(rs), Nowhere)
  /\ walk.status = "halted" => walk.visited = Cardinality(visits) /\ walk.visited = walk.spec.maxSteps
=============================================================================
