---------------------------- MODULE TestHarness ----------------------------
(***************************************************************************)
(* `oac test` (testing/orchestrate.py): discover the tests embedded in the *)
(* tree a configuration resolves to, run them, and append the results to a *)
(* JSONL file whose green lines let the next run report a test as skipped. *)
(* Runs are processes of their own; between them a developer edits the     *)
(* definitions and the scripts behind the tools.                           *)
(*                                                                         *)
(* An agent of the tree is [definition, model, mode], its definition       *)
(* [name, permissions, todos, declared, caps, agentTests, extras,          *)
(* skillTools], a tool [name, mock, tests].  What a hash is taken of is    *)
(* kept as <<revision, position in Discover, variant>>: two hashes are     *)
(* equal when the composites of what they were taken of are.               *)
(***************************************************************************)
EXTENDS Evaluators, Arrangement

CONSTANTS
  Procs,      \* the runs' processes
  Revisions,  \* states of the definitions: name -> [tree, profiles]
  Scripts,    \* states of the tools' scripts: name -> [tool -> handler]
  Options,    \* [force, kind, variant] of a run
  Branches,   \* branch tests
  Steps,      \* what an orchestrator may dispatch
  MaxRuns, MaxRevisions, MaxRunDeaths, MaxCalls

IsList(s) == s \in Seq(ToSet(s))

(* The names of a definition's tests are its own; nobody checks that.      *)
NamesOnce(tests) == \A i, j \in DOMAIN tests : tests[i].name = tests[j].name => i = j

AgentsIn == UNION {ToSet(Revisions[r].tree) : r \in DOMAIN Revisions}
Defined  == {a.definition : a \in AgentsIn}
ToolsIn  == UNION {ToSet(d.extras \o d.skillTools) : d \in Defined}

ASSUME HarnessAssumption ==
  /\ {MaxRuns, MaxRevisions, MaxRunDeaths, MaxCalls} \subseteq Nat
  /\ \A b \in Branches : WellFormed(b) /\ IsList(b.path)
  /\ \A r \in DOMAIN Revisions : IsList(Revisions[r].tree)
  /\ \A d \in Defined : /\ IsList(d.caps) /\ IsList(d.agentTests) /\ IsList(d.extras) /\ IsList(d.skillTools)
                        /\ NamesOnce(d.caps)
  /\ \A t \in ToolsIn : Shaped(t.mock) /\ IsList(t.tests) /\ NamesOnce(t.tests)
  /\ Defined \cap ToolsIn = {}
  /\ Unset \notin [revision : DOMAIN Revisions, scripts : DOMAIN Scripts, options : Options]

VARIABLES
  revision, scripts,  \* what is checked out
  file,               \* the artifacts, as the chunks that were written
  run,                \* process -> its TestRun; index, skips: what passed, what was skipped
  count,              \* runs, edits and deaths so far
  calm,               \* history: no two runs overlapped and none died
  earned,             \* history: the tests that passed, with what they were run on
  before,             \* history: what the last complete run saw
  calls               \* the dispatches of a branch an invoker drives

harness == <<revision, scripts, file, run, count, calm, earned, before>>
vars    == <<harness, calls>>

---------------------------------------------------------------------------
(* discover(). *)

(* The first tool of a name counts. *)
GatherTools(agent) ==
  LET all == agent.definition.extras \o agent.definition.skillTools
  IN  Sublist(all, {i \in DOMAIN all : \A j \in 1..i - 1 : all[j].name # all[i].name})

Capability(agent, i) ==
  LET test == agent.definition.caps[i] IN [kind |-> "capability", name |-> test.name, target |-> agent, test |-> test]
OfTool(tool, i) ==
  [kind |-> "tool", name |-> tool.tests[i].name, target |-> tool, test |-> tool.tests[i]]

(* One run per (tool name, test name), however many agents share the tool. *)
Distinct(candidates) ==
  LET Same(c, d) == c.target.name = d.target.name /\ c.name = d.name
  IN  Sublist(candidates, {i \in DOMAIN candidates : \A j \in 1..i - 1 : ~Same(candidates[j], candidates[i])})

Discover(tree) ==
  LET caps(a)  == [i \in DOMAIN a.definition.caps |-> Capability(a, i)]
      tests(t) == [i \in DOMAIN t.tests |-> OfTool(t, i)]
      tools(a) == LET all == GatherTools(a) IN FlattenSeq([i \in DOMAIN all |-> tests(all[i])])
  IN  [capability |-> FlattenSeq([i \in DOMAIN tree |-> caps(tree[i])]),
       tool       |-> Distinct(FlattenSeq([i \in DOMAIN tree |-> tools(tree[i])])),
       agent      |-> FlattenSeq([i \in DOMAIN tree |-> tree[i].definition.agentTests])]

Discovered == [r \in DOMAIN Revisions |-> Discover(Revisions[r].tree)]
Candidates == [r \in DOMAIN Revisions |-> Discovered[r].capability \o Discovered[r].tool]

(* The positions a run's filters leave. *)
Wanted(options, r) ==
  LET I == {i \in DOMAIN Candidates[r] : options.kind \in {Unset, Candidates[r][i].kind}}
  IN  Arranged(I, Ascending(I))

Agents(options, r) ==
  IF options.kind \in {Unset, "agent"} THEN Len(Discovered[r].agent) ELSE 0

---------------------------------------------------------------------------
(* One test. *)

Mocks(c, profiles) ==
  IF c.kind = "tool" /\ c.test.profile \in DOMAIN profiles THEN profiles[c.test.profile] ELSE <<>>

(* Of an agent the definition and the model are hashed; the mode the slot   *)
(* gave it is not.                                                         *)
State(c) == IF c.kind = "tool" THEN c.target ELSE c.target.definition
Model(c) == IF c.kind = "tool" THEN Unset ELSE c.target.model

(* Mutant: the hash leaves the mocks out. *)
Composite_NoMocks(c, profiles, variant) ==
  [state |-> State(c), model |-> Model(c), variant |-> variant]

Composite(c, profiles, variant) ==
  [state |-> State(c), model |-> Model(c), mocks |-> Mocks(c, profiles), variant |-> variant]

Ref(r, i, variant) == <<r, i, variant>>
Key(ref) ==
  LET c == Candidates[ref[1]][ref[2]] IN <<c.name, Composite(c, Revisions[ref[1]].profiles, ref[3])>>

(* What generate_permissions opens: of what is not the definition's it      *)
(* reads the mode alone.                                                   *)
Opened(agent) ==
  IF agent.mode = "primary" /\ agent.definition.todos
  THEN [todoread |-> "allow", todowrite |-> "allow"] @@ agent.definition.permissions
  ELSE agent.definition.permissions

(* The test is run before it is decided whether its result counts. *)
Passes(c, profiles, handlers) ==
  IF c.kind = "capability" THEN RunCapability(c.test, Opened(c.target), c.target.definition.declared)
  ELSE RunTool(c.test, c.target, profiles, handlers[c.target.name])

Outcome ==
  [s \in DOMAIN Scripts |-> [r \in DOMAIN Revisions |->
    [i \in DOMAIN Candidates[r] |-> Passes(Candidates[r][i], Revisions[r].profiles, Scripts[s])]]]

---------------------------------------------------------------------------
(* The file.  A buffer that fills up is written where it happens to end,   *)
(* so a line can come in two chunks.                                       *)

Line(p, ref, ok, part) == [by |-> p, ref |-> ref, passed |-> ok, part |-> part]

Joins(head, rest) == head.part = "head" /\ rest.part = "rest" /\ head.by = rest.by /\ head.ref = rest.ref

(* read_artifacts raises on a line that does not parse. *)
Readable(chunks) ==
  \A i \in DOMAIN chunks :
    CASE chunks[i].part = "whole" -> i = 1 \/ chunks[i - 1].part # "head"
      [] chunks[i].part = "head"  -> i < Len(chunks) /\ Joins(chunks[i], chunks[i + 1])
      [] OTHER                    -> i > 1 /\ Joins(chunks[i - 1], chunks[i])

(* Mutant: any recorded result makes the test green. *)
GreenIndex_Any(chunks) == {line.ref : line \in ToSet(chunks)}

GreenIndex(chunks) == {line.ref : line \in {l \in ToSet(chunks) : l.passed}}

Green(p, ref) == ~run[p].options.force /\ \E g \in run[p].index : Key(g) = Key(ref)

Init ==
  /\ revision \in DOMAIN Revisions /\ scripts \in DOMAIN Scripts
  /\ file = <<>> /\ run = [p \in Procs |-> [pc |-> "idle"]]
  /\ count = [runs |-> 0, edits |-> 0, deaths |-> 0]
  /\ calm = TRUE /\ earned = {} /\ before = Unset /\ calls = <<>>

UnderTest(p) == run[p].pc \in {"index", "tests"}
World(p)   == [revision |-> run[p].rev, scripts |-> scripts, options |-> run[p].options]

Edit ==
  /\ count.edits < MaxRevisions /\ count' = [count EXCEPT !.edits = @ + 1]
  /\ \/ revision' \in DOMAIN Revisions \ {revision} /\ UNCHANGED scripts
     \/ scripts' \in DOMAIN Scripts \ {scripts} /\ UNCHANGED revision
  /\ run' = [p \in Procs |-> IF UnderTest(p) THEN [run[p] EXCEPT !.steady = FALSE] ELSE run[p]]
  /\ before' = Unset
  /\ UNCHANGED <<file, calm, earned, calls>>

(* The factory is called, the configuration resolved, the tests discovered *)
(* and filtered.                                                           *)
Begin(p) ==
  /\ ~UnderTest(p) /\ count.runs < MaxRuns /\ calls = <<>>
  /\ \E options \in Options :
       LET todo   == Wanted(options, revision)
           agents == Agents(options, revision)
       IN  run' = [run EXCEPT ![p] =
             [pc |-> "index", options |-> options, rev |-> revision, todo |-> todo, agents |-> agents,
              index |-> {}, buffer |-> <<>>, skips |-> {}, steady |-> TRUE,
              again |-> before = [revision |-> revision, scripts |-> scripts, options |-> options],
              summary |-> [discovered |-> Len(todo) + agents, skipped |-> 0, passed |-> 0, failed |-> 0, notRunnable |-> 0]]]
  /\ count' = [count EXCEPT !.runs = @ + 1]
  /\ calm' = (calm /\ \A q \in Procs : ~UnderTest(q))
  /\ UNCHANGED <<revision, scripts, file, earned, before, calls>>

ReadIndex(p) ==
  /\ run[p].pc = "index"
  /\ run' = IF Readable(file) THEN [run EXCEPT ![p].pc = "tests", ![p].index = GreenIndex(file)]
            ELSE [run EXCEPT ![p] = [pc |-> "raised"]]
  /\ UNCHANGED <<revision, scripts, file, count, calm, earned, before, calls>>

(* Every candidate is run; decide() then says whether it is recorded. *)
RunTest(p) ==
  /\ run[p].pc = "tests" /\ run[p].todo # <<>>
  /\ LET i    == Head(run[p].todo)
         ref  == Ref(run[p].rev, i, run[p].options.variant)
         ok   == Outcome[scripts][run[p].rev][i]
         rest == [run EXCEPT ![p].todo = Tail(@)]
         Count(field) == [rest EXCEPT ![p].summary[field] = @ + 1,
                                      ![p].buffer = Append(@, Line(p, ref, ok, "whole"))]
     IN  IF Green(p, ref)
         THEN /\ run' = [rest EXCEPT ![p].summary.skipped = @ + 1, ![p].skips = @ \cup {ref}]
              /\ UNCHANGED earned
         ELSE /\ run' = Count(IF ok THEN "passed" ELSE "failed")
              /\ earned' = IF ok THEN earned \cup {ref} ELSE earned
  /\ UNCHANGED <<revision, scripts, file, count, calm, before, calls>>

(* The buffer is full somewhere in its last line. *)
Spill(p) ==
  /\ run[p].pc = "tests" /\ run[p].buffer # <<>> /\ Last(run[p].buffer).part = "whole"
  /\ LET line == Last(run[p].buffer)
     IN  /\ file' = file \o Front(run[p].buffer) \o <<[line EXCEPT !.part = "head"]>>
         /\ run' = [run EXCEPT ![p].buffer = <<[line EXCEPT !.part = "rest"]>>]
  /\ UNCHANGED <<revision, scripts, count, calm, earned, before, calls>>

(* Mutant: the writer is not closed. *)
Closed_Lost(p) == file

Closed(p) == file \o run[p].buffer

(* Agent tests are only counted; the writer's exit flushes. *)
Finish(p) ==
  /\ run[p].pc = "tests" /\ run[p].todo = <<>>
  /\ file' = Closed(p)
  /\ run' = [run EXCEPT ![p] = [pc |-> "done", options |-> @.options, again |-> @.steady /\ @.again, skips |-> @.skips,
                                    summary |-> [@.summary EXCEPT !.notRunnable = run[p].agents]]]
  /\ before' = IF run[p].steady THEN World(p) ELSE Unset
  /\ UNCHANGED <<revision, scripts, count, calm, earned, calls>>

Die(p) ==
  /\ UnderTest(p) /\ count.deaths < MaxRunDeaths
  /\ run' = [run EXCEPT ![p] = [pc |-> "idle"]]
  /\ count' = [count EXCEPT !.deaths = @ + 1]
  /\ calm' = FALSE
  /\ UNCHANGED <<revision, scripts, file, earned, before, calls>>

(* A live invoker records what the orchestrator dispatches. *)
Dispatch ==
  /\ count.runs = 0 /\ count.edits = 0 /\ Len(calls) < MaxCalls
  /\ \E step \in Steps : calls' = Append(calls, [name |-> step, args |-> Nothing, output |-> Nothing])
  /\ UNCHANGED harness

Next ==
  \/ Edit \/ Dispatch
  \/ \E p \in Procs : Begin(p) \/ ReadIndex(p) \/ RunTest(p) \/ Spill(p) \/ Finish(p) \/ Die(p)

Spec == Init /\ [][Next]_vars

---------------------------------------------------------------------------
(* Properties. *)

(* A run reports a test as skipped only if it passed once on the very same  *)
(* definition, model, mocks and variant, in whatever run and however the    *)
(* file was written; a capability test that is skipped would pass again,    *)
(* unless the passes were all of the agent in another mode.  Two things are *)
(* in no hash and not part of the promise: the mode, so a test of an agent  *)
(* moved from the primary slot to another is skipped although the agent is  *)
(* compiled with other permissions, and the script behind a tool, so a test *)
(* of an edited script that fails is reported as skipped.                   *)
Grounds(ref) ==
  LET c == Candidates[ref[1]][ref[2]]
  IN  [kind |-> c.kind, test |-> c.test, state |-> State(c), model |-> Model(c),
       mocks |-> Mocks(c, Revisions[ref[1]].profiles), variant |-> ref[3]]

HoldsAgain(ref) ==
  LET c == Candidates[ref[1]][ref[2]]
  IN  RunCapability(c.test, Opened(c.target), c.target.definition.declared)

Vouches(e, s) ==
  LET c == Candidates[s[1]][s[2]]
  IN  /\ Grounds(s) = Grounds(e)
      /\ c.kind = "capability" /\ c.target.mode = Candidates[e[1]][e[2]].target.mode => HoldsAgain(s)

SkipIsEarned ==
  \A p \in Procs : run[p].pc \in {"tests", "done"} =>
    \A s \in run[p].skips : \E e \in earned : Vouches(e, s)

(* Unless runs overlapped or one died, the file can always be read between  *)
(* runs, it has a line for every result counted, and a run of what the last *)
(* one ran records no pass again.                                           *)
FileTellsRuns ==
  calm =>
    /\ (\A p \in Procs : ~UnderTest(p)) => Readable(file)
    /\ \A p \in Procs : run[p].pc # "raised"
    /\ \A p \in Procs : run[p].pc = "done" =>
         LET s == run[p].summary
         IN  /\ s.discovered = s.skipped + s.passed + s.failed + s.notRunnable
             /\ (run[p].again /\ ~run[p].options.force) => s.passed = 0

(* The chain of a branch passes exactly when its path is a subsequence of   *)
(* the dispatches, scores the longest prefix that is, and a strict pipeline *)
(* is held to no less; a required step that is not dispatched fails, and    *)
(* the declared chain passes.                                               *)
Embeds(steps, chain) ==
  \E f \in [DOMAIN steps -> DOMAIN chain] :
    /\ \A i \in DOMAIN steps : steps[i] = chain[f[i]]
    /\ \A i, j \in DOMAIN steps : i < j => f[i] < f[j]

Graded(test, contiguous, t) ==
  PathOrder([kind |-> "path_order", steps |-> test.path, contiguous |-> contiguous], Context(t.output, t.calls, Unset))

DeclaredChainPasses == \A test \in Branches : Graded(test, TRUE, MockChain(test)).passed

PathMeansOrder ==
  /\ DeclaredChainPasses
  /\ count.runs = 0 => \A test \in Branches :
       LET trajectory == [calls |-> calls, output |-> Nothing]
           chain      == Names(calls)
           free       == Graded(test, FALSE, trajectory)
           strict     == Graded(test, TRUE, trajectory)
       IN  /\ free.passed <=> Embeds(test.path, chain)
           /\ test.path # <<>> =>
                \E n \in 0..Len(test.path) :
                  /\ free.score = <<n, Len(test.path)>>
                  /\ Embeds(SubSeq(test.path, 1, n), chain)
                  /\ n < Len(test.path) => ~Embeds(SubSeq(test.path, 1, n + 1), chain)
           /\ strict.passed => free.passed
           /\ (\E c \in ToSet(test.contracts) : c.required /\ c.step \notin ToSet(chain))
                => ~BranchPasses(test, trajectory, Unset)

(* What `oac test` promises: a skip is earned by an earlier pass on the     *)
(* same definition, model and mocks, the file tells the runs, and the path of a   *)
(* branch test means the order of the dispatches.                          *)
TestsKeepWord == SkipIsEarned /\ FileTellsRuns /\ PathMeansOrder
=============================================================================
