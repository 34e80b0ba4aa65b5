----------------------------- MODULE Evaluation ----------------------------
(***************************************************************************)
(* How a loop grades a candidate (improvement/compiled_eval, autoresearch, *)
(* harness_eval, opencode_eval, compile_helpers, eval_compile,             *)
(* interactive_eval, contract_gate): install it where a harness finds it,  *)
(* run every probe with one retry, score the answers, and gate the scores  *)
(* on a contract.  Several loops share agent directories.                  *)
(*                                                                         *)
(* A harness reads the agent's file when its run begins, so an attempt is  *)
(* one step: what it answers is answered by whoever is in the file then.   *)
(***************************************************************************)
EXTENDS Naturals, Integers, Sequences, FiniteSets, FiniteSetsExt, SequencesExt

CONSTANTS
  Graders,     \* the loops
  Teams,       \* which of them may run side by side
  HarnessOf,   \* opencode, pi (which stands for claude and codex) or interactive
  InstallOf,   \* tree (compiled into a build directory), flat, variant, or none
  DirectoryOf, \* their agent directories
  ProbesOf,    \* their probes: judged, or existence (without evaluators)
  OutcomesOf,  \* what one run of an agent may end in, by harness
  Contract,    \* what a delivered run did: [kind, names]
  MaxGraded,   \* candidates each loop grades
  MaxWarmups

(* Loops that compile trees side by side have a build directory each, as   *)
(* compiled_eval asks of its callers.  The runner behind pi reads no error  *)
(* events; an interactive walk has no exit code and needs no file.          *)
ASSUME EvaluationAssumption ==
  /\ {MaxGraded, MaxWarmups} \subseteq Nat \ {0}
  /\ HarnessOf \in [Graders -> {"opencode", "pi", "interactive"}]
  /\ \A g \in Graders :
       /\ InstallOf[g] \in {"flat", "variant"} => HarnessOf[g] = "opencode"
       /\ InstallOf[g] = "none" => HarnessOf[g] = "interactive"
       /\ InstallOf[g] \in {"tree", "flat", "variant", "none"}
       /\ ProbesOf[g] \in Seq({"judged", "existence"})
  /\ \A team \in Teams : team \subseteq Graders /\ \A g, h \in team :
       InstallOf[g] = "tree" /\ InstallOf[h] = "tree" /\ DirectoryOf[g] = DirectoryOf[h] => g = h
  /\ \A o \in OutcomesOf["pi"] : ~o.errors
  /\ \A o \in OutcomesOf["interactive"] : o.rc = 0

VARIABLES
  agents,    \* agent files: [directory, name, by]
  grading    \* what each loop is at

evaluation == <<agents, grading>>

Candidate(g)  == <<g, grading[g].candidate>>
AgentFile(d, n, b) == [directory |-> d, name |-> n, by |-> b]
Warmup        == <<"cand", "warmup">>
Teacher(d)    == AgentFile(d, <<"teacher", "model">>, <<"teacher", 0>>)

EvaluationInit ==
  /\ agents = {Teacher(DirectoryOf[g]) : g \in Graders}
  /\ \E team \in Teams : grading =
       [g \in Graders |-> [at |-> IF g \in team THEN "fresh" ELSE "absent", candidate |-> 0, name |-> <<>>,
                           attempt |-> 1, answers |-> <<>>]]

At(g, step)     == grading[g].at = step
Move(g, step)   == grading' = [grading EXCEPT ![g].at = step]
Moved(g, r)     == grading' = [grading EXCEPT ![g] = r]
Directory(g)       == DirectoryOf[g]
Replace(g, n, b) == {f \in agents : f.directory # Directory(g) \/ f.name # n} \cup {AgentFile(Directory(g), n, b)}

---------------------------------------------------------------------------
(* clear_candidates: every cand_* of the directory, whoever runs it.       *)
Leftover(g, f) == f.directory = Directory(g) /\ f.name[1] = "cand"

ClearCandidates(g) ==
  /\ At(g, "fresh") /\ InstallOf[g] = "flat" /\ Move(g, "cleared")
  /\ agents' = {f \in agents : ~Leftover(g, f)}

BeginWarmup(g) ==
  /\ At(g, "cleared")
  /\ agents' = Replace(g, Warmup, <<"warmup", 0>>)
  /\ Move(g, "warming")

(* Tries until the server finds the agent, which it cannot once the loop   *)
(* beside it has unlinked it.                                              *)
TryWarmup(g) ==
  /\ At(g, "warming") /\ grading[g].attempt < MaxWarmups
  /\ grading' = [grading EXCEPT ![g].attempt = @ + 1]
  /\ UNCHANGED agents

(* Mutant: the file is removed only if the agent was found. *)
Unlinked_Found(g, found) ==
  IF found THEN {f \in agents : f.directory # Directory(g) \/ f.name # Warmup} ELSE agents

Unlinked(g, found) == {f \in agents : f.directory # Directory(g) \/ f.name # Warmup}

EndWarmup(g) ==
  /\ At(g, "warming")
  /\ \E found \in BOOLEAN :
       /\ found => \E f \in agents : f.directory = Directory(g) /\ f.name = Warmup
       /\ ~found => grading[g].attempt = MaxWarmups
       /\ agents' = Unlinked(g, found)
  /\ Moved(g, [grading[g] EXCEPT !.at = "next", !.attempt = 1])

NoWarmup(g) ==
  /\ \/ At(g, "fresh") /\ InstallOf[g] # "flat"
     \/ At(g, "cleared")
  /\ Move(g, "next") /\ UNCHANGED agents

---------------------------------------------------------------------------
(* Install.  A build directory holds one tree, whose agent has one name; a *)
(* flat candidate and a test variant get a name of their own.              *)

(* Mutant: the name is the prefix alone. *)
FlatName_Plain(g) == <<"cand", "x">>

FlatName(g)    == <<"cand", g, grading[g].candidate + 1>>
VariantName(g) == <<"eval_variant", g, grading[g].candidate + 1>>

NameFor(g) == IF InstallOf[g] = "flat" THEN FlatName(g)
              ELSE IF InstallOf[g] = "variant" THEN VariantName(g) ELSE <<"agent">>

Install(g) ==
  /\ At(g, "next") /\ grading[g].candidate < MaxGraded
  /\ LET n == NameFor(g) IN
     /\ agents' = IF InstallOf[g] = "none" THEN agents ELSE Replace(g, n, <<g, grading[g].candidate + 1>>)
     /\ Moved(g, [grading[g] EXCEPT !.at = "probe", !.candidate = @ + 1, !.name = n, !.attempt = 1, !.answers = <<>>])

---------------------------------------------------------------------------
(* One run of the agent: [rc, text, errors, did].                          *)

Found(g) == {f \in agents : f.directory = Directory(g) /\ f.name = grading[g].name}

NotFound == [rc |-> 0, text |-> "", errors |-> TRUE, did |-> {}]

(* opencode says "Agent not found" in an event and exits with 0.           *)
Attempts(g) ==
  IF HarnessOf[g] = "interactive" THEN {[o |-> o, by |-> Candidate(g)] : o \in OutcomesOf[HarnessOf[g]]}
  ELSE {[o |-> o, by |-> f.by] : o \in OutcomesOf[HarnessOf[g]], f \in Found(g)}
       \cup {[o |-> NotFound, by |-> <<"nobody", 0>>] : x \in IF Found(g) = {} THEN {1} ELSE {}}

(* Mutant: an event is not an error. *)
Failed_ByExit(h, o) == o.rc # 0

Failed(h, o) ==
  CASE h = "opencode" -> o.errors \/ (o.rc # 0 /\ o.text = "")
    [] h = "pi"       -> o.rc # 0
    [] OTHER          -> o.errors

Retried(h, o) ==
  CASE h = "opencode" -> o.rc = 0 /\ (o.text = "" \/ o.errors)
    [] h = "pi"       -> o.rc = 0 /\ o.text = ""
    [] OTHER          -> FALSE

(* Ask the agent once; the first answer that calls for it is asked again.  *)
Ask(g, then) ==
  \E a \in Attempts(g) :
    Moved(g, IF grading[g].attempt = 1 /\ Retried(HarnessOf[g], a.o)
             THEN [grading[g] EXCEPT !.attempt = 2]
             ELSE [grading[g] EXCEPT !.attempt = 1, !.at = then,
                     !.answers = Append(@, [o |-> a.o, by |-> a.by, attempt |-> grading[g].attempt])])

Asked(g) == Len(grading[g].answers)

AskProbe(g) ==
  /\ At(g, "probe") /\ Asked(g) < Len(ProbesOf[g])
  /\ Ask(g, "probe")
  /\ UNCHANGED agents

(* The gate's own run: outcome_for of the same version.                    *)
AskGate(g) ==
  /\ At(g, "probe") /\ Asked(g) = Len(ProbesOf[g])
  /\ Ask(g, "return")
  /\ UNCHANGED agents

---------------------------------------------------------------------------
(* Scores, twice their value: a passing answer is 2 and a fair one is 1.   *)

Graded(text)    == IF text = "good" THEN 2 ELSE IF text = "fair" THEN 1 ELSE 0

ProbeScore(g, i) ==
  LET o == grading[g].answers[i].o IN
  IF Failed(HarnessOf[g], o) THEN 0 ELSE IF ProbesOf[g][i] = "existence" THEN 2 ELSE Graded(o.text)

Scores(g) == [i \in DOMAIN ProbesOf[g] |-> ProbeScore(g, i)]

Metrics(g) ==
  [pass_rate   |-> Cardinality({i \in DOMAIN Scores(g) : Scores(g)[i] = 2}),
   score_floor |-> Min(Range(Scores(g))),
   score_mean  |-> FoldSeq(LAMBDA x, y : x + y, 0, Scores(g))]

GatedKeys == {"score_floor", "score_mean", "pass_rate", "by_judge"}

(* A requirement names tools, artifacts or subagents of which one will do. *)
Honoured(run, c)    == \E n \in c.names : <<c.kind, n>> \in run.did
Satisfied(run)      == \A c \in Contract : Honoured(run, c)

(* Mutant: a gated metric the evaluator did not emit stays absent. *)
Zeroed_Present(m) == [k \in DOMAIN m |-> IF k \in GatedKeys THEN 0 ELSE m[k]]

Zeroed(m) == [k \in DOMAIN m \cup GatedKeys |-> IF k \in GatedKeys THEN 0 ELSE m[k]]

(* What the evaluator returns, once the gate's run is in.                  *)
Returned(g) ==
  IF Satisfied(Last(grading[g].answers).o) THEN Metrics(g) ELSE Zeroed(Metrics(g))

(* A test variant's file is deleted by whoever asked for it.               *)
ReturnMetrics(g) ==
  /\ At(g, "return")
  /\ agents' = IF InstallOf[g] = "variant" THEN agents \ Found(g) ELSE agents
  /\ Moved(g, [grading[g] EXCEPT !.at = "next", !.answers = <<>>])

Evaluating(g) ==
  \/ ClearCandidates(g) \/ BeginWarmup(g) \/ TryWarmup(g) \/ EndWarmup(g) \/ NoWarmup(g)
  \/ Install(g) \/ AskProbe(g) \/ AskGate(g) \/ ReturnMetrics(g)

EvaluationNext == \E g \in Graders : Evaluating(g)

EvaluationSpec == EvaluationInit /\ [][EvaluationNext]_evaluation

---------------------------------------------------------------------------
(* Properties. *)

(* Whatever the loops beside it install, overwrite, clear or warm up: what  *)
(* scores anything was answered by the candidate itself, in a run without   *)
(* an error (on pi also one that exited with 0), and not blank unless it    *)
(* was asked twice; and a candidate whose run broke the contract has every  *)
(* gated metric, also those its evaluator never emits, and all are 0.       *)
ScoresEarned ==
  \A g \in {h \in Graders : At(h, "return")} :
    LET answers == grading[g].answers  scores == Scores(g)  metrics == Returned(g) IN
    /\ \A i \in DOMAIN scores : scores[i] > 0 =>
         LET a == answers[i] IN
         /\ a.by = Candidate(g) /\ ~a.o.errors
         /\ a.o.rc # 0 => HarnessOf[g] # "pi" /\ a.o.text # ""
         /\ a.o.text = "" => a.attempt = 2 \/ HarnessOf[g] = "interactive"
    /\ LET did == Last(answers).o.did IN
       (\E c \in Contract : \A n \in c.names : <<c.kind, n>> \notin did) =>
          \A k \in GatedKeys : k \in DOMAIN metrics /\ metrics[k] = 0

(* Whichever of them ended first: loops that are through leave neither a   *)
(* warm-up agent nor a test variant in a directory, nor a teacher out of   *)
(* one, and of a loop in a directory of its own its last candidate.        *)
DirectoriesTidy ==
  (\A g \in Graders : At(g, "absent") \/ (At(g, "next") /\ grading[g].candidate = MaxGraded)) =>
     /\ \A f \in agents : f.name # Warmup /\ f.name[1] # "eval_variant"
     /\ \A g \in Graders : Teacher(DirectoryOf[g]) \in agents
     /\ \A g \in {h \in Graders : ~At(h, "absent") /\ InstallOf[h] \in {"flat", "tree"}} :
          (\A h \in Graders \ {g} : At(h, "absent") \/ DirectoryOf[h] # DirectoryOf[g]) =>
             \E f \in agents : f.directory = DirectoryOf[g] /\ f.by = Candidate(g)

(* Both: what a candidate is graded on, and what its grading leaves behind. *)
EvaluationSound == ScoresEarned /\ DirectoriesTidy
=============================================================================
