----------------------------- MODULE Evaluators -----------------------------
(***************************************************************************)
(* The evaluators of the test harness (testing/evaluators, testing/runner, *)
(* testing/branch.py): what each makes of a run's context, and how the     *)
(* results of a test's evaluators make up its verdict.                     *)
(*                                                                         *)
(* A context is [output, calls, permissions, judge], each Unset where the   *)
(* runner has none.  An output is                                          *)
(*   [kind, exact, folded, at]   a value or "raises"; the needles its text *)
(*                         contains as written and with case folded, and   *)
(*                         the value at each dotted path that resolves.    *)
(* A call is [name, args, output], its args an output.  A score is a fraction <<n, d>>. *)
(***************************************************************************)
EXTENDS Integers, SequencesExt, FiniteSetsExt, Functions

CONSTANT Unset

Zero == <<0, 1>>
One  == <<1, 1>>
Leq(a, b) == a[1] * b[2] <= b[1] * a[2]

(* EvaluationResult: skip() passes with score 0.                           *)
Skip          == [passed |-> TRUE, score |-> Zero, skipped |-> TRUE]
Result(ok, s) == [passed |-> ok, score |-> s, skipped |-> FALSE]
Verdict(ok)   == Result(ok, IF ok THEN One ELSE Zero)

Context(output, calls, judge) == [output |-> output, calls |-> calls, permissions |-> Unset, judge |-> judge]

---------------------------------------------------------------------------
(* Outputs. *)

Found(output, path)          == output # Unset /\ path \in DOMAIN output.at
Says(output, needle, as) == output # Unset /\ needle \in output[as]

(* equals compares the whole output, <<>>, when it names no field.         *)
ValueIs(ev, ctx) == Verdict(Found(ctx.output, ev.path) /\ ctx.output.at[ev.path] = ev.expected)
TextOf(ev, ctx)    == Verdict(Says(ctx.output, ev.needle, ev.as))

(* One forbidden text fails the check whatever was recalled.               *)
FactRecall(ev, ctx) ==
  LET recalled == {f \in ev.facts : \E a \in f.anyOf : Says(ctx.output, a, f.as)}
      score    == <<Cardinality(recalled), Cardinality(ev.facts)>>
  IN  IF \E bad \in ev.forbidden : Says(ctx.output, bad, ev.as) THEN Result(FALSE, Zero)
      ELSE IF ev.facts = {} THEN Result(TRUE, One)
      ELSE Result(Leq(ev.threshold, score), score)

(* A judge raises, answers with something else than a verdict, or with a   *)
(* score and perhaps an explicit pass.                                     *)
Judged(ev, ctx) ==
  IF ctx.judge = Unset THEN Skip
  ELSE LET said == ctx.judge[ev.criteria]
       IN  IF said.kind # "verdict" THEN Result(FALSE, Zero)
           ELSE Result(IF said.pass = Unset THEN Leq(ev.threshold, said.score) ELSE said.pass, said.score)

---------------------------------------------------------------------------
(* Recorded calls. *)

Names(calls) == [i \in DOMAIN calls |-> calls[i].name]
Within(args, expected) == \A k \in DOMAIN expected : k \in DOMAIN args /\ args[k] = expected[k]

CallsOf(ctx, ev) == SelectSeq(ctx.calls, LAMBDA c : c.name = ev.tool /\ Within(c.args.at, ev.args))

ToolCalled(ev, ctx)    == Verdict(Len(CallsOf(ctx, ev)) >= ev.atLeast)
ToolNotCalled(ev, ctx) == Verdict(~\E c \in ToSet(ctx.calls) : c.name = ev.tool)

(* Mutant: a step may match any later call, consumed or not. *)
Matched_Unordered(chain, steps) ==
  Len(SelectSeq(steps, LAMBDA s : s \in ToSet(chain)))

(* The leading steps the chain matches, greedily from left to right.       *)
Matched(chain, steps) ==
  LET matched[n \in 0..Len(chain)] ==
        IF n = 0 THEN 0
        ELSE LET m == matched[n - 1] IN IF m < Len(steps) /\ chain[n] = steps[m + 1] THEN m + 1 ELSE m
  IN matched[Len(chain)]

Contiguous(chain, steps) ==
  \E start \in 0..(Len(chain) - Len(steps)) : SubSeq(chain, start + 1, start + Len(steps)) = steps

PathOrder(ev, ctx) ==
  LET chain == Names(ctx.calls)
      n     == Matched(chain, ev.steps)
  IN  IF ev.steps = <<>> THEN Verdict(TRUE)
      ELSE IF ev.contiguous THEN Verdict(Contiguous(chain, ev.steps))
      ELSE Result(n = Len(ev.steps), <<n, Len(ev.steps)>>)

---------------------------------------------------------------------------
(* Compiled permissions: key -> "allow", "deny", or a mapping of patterns  *)
(* (bash) or names (skill).                                                *)

Mappings == {"bash", "skill"}

Rule(permissions, key, name) ==
  IF key \in DOMAIN permissions /\ name \in DOMAIN permissions[key] THEN permissions[key][name] ELSE Unset

(* A mapping counts as present whatever it holds. *)
Allowed(permissions, ev) ==
  IF ev.name # Unset THEN Rule(permissions, ev.key, ev.name) = "allow"
  ELSE ev.key \in DOMAIN permissions /\ (ev.key \in Mappings \/ permissions[ev.key] = "allow")

Permitted(ev, ctx) ==
  IF ctx.permissions = Unset THEN Skip ELSE Verdict(Allowed(ctx.permissions, ev) = ev.present)

(* run_capability_test: a declared tool counts as allowed; its name is no   *)
(* key of the compiled permissions otherwise.                               *)
Assertion(key, name, present) == [kind |-> "permission", key |-> key, name |-> name, present |-> present]

Assertions(test) ==
  {Assertion(t, Unset, TRUE) : t \in test.tools} \cup {Assertion(t, Unset, FALSE) : t \in test.notTools}
    \cup {Assertion("skill", Unset, TRUE) : s \in test.skills}
    \cup {Assertion("skill", s, TRUE) : s \in test.skills} \cup {Assertion("skill", s, FALSE) : s \in test.notSkills}
    \cup {Assertion("bash", b, TRUE) : b \in test.bash} \cup {Assertion("bash", b, FALSE) : b \in test.notBash}

Overlaid(permissions, declared) ==
  [k \in DOMAIN permissions \cup declared |-> IF k \in declared THEN "allow" ELSE permissions[k]]

---------------------------------------------------------------------------
(* The dispatcher; an evaluator of no registered kind is skipped.          *)
Evaluate(ev, ctx) ==
  CASE ev.kind \in {"equals", "json_path"}  -> ValueIs(ev, ctx)
    [] ev.kind \in {"substring", "regex"}   -> TextOf(ev, ctx)
    [] ev.kind = "fact_recall"              -> FactRecall(ev, ctx)
    [] ev.kind = "llm_judge"                -> Judged(ev, ctx)
    [] ev.kind = "tool_called"              -> ToolCalled(ev, ctx)
    [] ev.kind = "tool_not_called"          -> ToolNotCalled(ev, ctx)
    [] ev.kind = "path_order"               -> PathOrder(ev, ctx)
    [] ev.kind = "permission"               -> Permitted(ev, ctx)
    [] OTHER                                -> Skip

Results(evaluators, ctx) == [i \in DOMAIN evaluators |-> Evaluate(evaluators[i], ctx)]
AllPass(results)         == \A i \in DOMAIN results : results[i].passed

RunCapability(test, permissions, declared) ==
  LET ctx == [Context(Unset, <<>>, Unset) EXCEPT !.permissions = Overlaid(permissions, declared)]
  IN  \A ev \in Assertions(test) \cup ToSet(test.evaluators) : Evaluate(ev, ctx).passed

---------------------------------------------------------------------------
(* A tool test answers with the profile's response, else the tool's own    *)
(* mock, else the handler's; a handler is Unset when no class of it loads.  *)

ResolveMock(test, tool, profiles) ==
  IF test.profile \in DOMAIN profiles /\ tool.name \in DOMAIN profiles[test.profile]
  THEN profiles[test.profile][tool.name] ELSE tool.mock

Shaped(mock) ==
  mock # Unset => /\ mock.kind = "fixed" => mock.output.kind = "value"
                  /\ mock.kind = "sequence" => mock.outputs # <<>>

(* The n-th call, from 0; a sequence that is exhausted repeats its last.   *)
MockOutput(mock, input, n) ==
  IF mock.kind = "sequence" THEN mock.outputs[Min({n + 1, Len(mock.outputs)})]
  ELSE IF mock.kind = "echo" THEN input ELSE mock.output

(* A mock of a tool whose handler loads sees validated input.  The runner  *)
(* keeps no state, so every call of a sequence is its first.               *)
RunTool(test, tool, profiles, handler) ==
  LET mock   == ResolveMock(test, tool, profiles)
      valid  == handler = Unset \/ handler.accepts
      output == IF mock # Unset THEN MockOutput(mock, test.input, 0) ELSE handler.output
  IN  /\ valid
      /\ mock = Unset => handler # Unset
      /\ output.kind # "raises"
      /\ AllPass(Results(test.evaluators, Context(output, <<>>, Unset)))

---------------------------------------------------------------------------
(* A branch test over the trajectory its invoker returns. *)

EvaluatorsFor(test) ==
  (IF test.path = <<>> THEN <<>>
   ELSE <<[kind |-> "path_order", steps |-> test.path, contiguous |-> test.contiguous]>>) \o test.evaluators

(* Every dispatch of a contract's step is held to it. *)
StepContract(contract, trajectory, judge) ==
  LET held == {c \in ToSet(trajectory.calls) : c.name = contract.step}
  IN  IF held = {} THEN {IF contract.required THEN Result(FALSE, Zero) ELSE Skip}
      ELSE UNION {ToSet(Results(contract.inputs, Context(c.args, <<>>, judge))
                        \o Results(contract.outputs, Context(c.output, <<>>, judge))) : c \in held}

StepContracts(test, trajectory, judge) ==
  UNION {StepContract(c, trajectory, judge) : c \in ToSet(test.contracts)}

(* Of the results only counts whether there are any, and which failed. *)
BranchResults(test, trajectory, judge) ==
  ToSet(Results(EvaluatorsFor(test), Context(trajectory.output, trajectory.calls, judge)))
    \cup StepContracts(test, trajectory, judge)

(* A branch without evaluators is no pass. *)
BranchPasses(test, trajectory, judge) ==
  LET results == BranchResults(test, trajectory, judge) IN results # {} /\ \A r \in results : r.passed

(* A contract that asserts nothing is refused. *)
WellFormed(test) ==
  \A c \in ToSet(test.contracts) : c.required \/ c.inputs # <<>> \/ c.outputs # <<>>

Nothing == [kind |-> "value", exact |-> {}, folded |-> {}, at |-> <<>>]

(* mock_chain_invoker: the declared path, as if it had been dispatched. *)
MockChain(test) ==
  LET Mocked(step) == IF step \in DOMAIN test.mocks THEN test.mocks[step] ELSE Unset
  IN  [calls  |-> [i \in DOMAIN test.path |->
                    [name |-> test.path[i], args |-> Nothing, output |-> Mocked(test.path[i])]],
       output |-> IF test.path = <<>> THEN Unset ELSE Mocked(test.path[Len(test.path)])]
=============================================================================
