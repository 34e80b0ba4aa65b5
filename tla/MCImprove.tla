----------------------------- MODULE MCImprove ------------------------------
(***************************************************************************)
(* Small instances of what an improvement is made of, for TLC: the probe   *)
(* cache, the loop, its mutators, its evaluators, the loops derived from   *)
(* it and the rewriting of a source.  A behaviour is one of one part.      *)
(***************************************************************************)
EXTENDS ProbeCache, IterativeLoop, Mutations, Evaluation, DerivedLoops, SourceApply, TLC

CONSTANTS k1, k2, c1, c2, b, h1, h2

VARIABLE part

(* Probe cache. *)
OneKey      == {k1}
TwoKeys     == {k1, k2}
TwoPrewarms == {TwoKeys}
TwoCallers  == {c1, c2}

(* Loop. *)
FewHashes == {b, h1, h2}
TwoScores == {0, 1}

(* Mutators: a prompt in sections, one whose law differs and is not in the *)
(* prompt, and a flat one.                                                 *)
Definition(sections, prompt) ==
  [prompt |-> prompt, sections |-> sections,
   steps |-> <<[id |-> 1, name |-> "plan", uses |-> <<"t", "u">>, goto |-> 2],
               [id |-> 2, name |-> "act", uses |-> <<>>, goto |-> 1]>>,
   enabled |-> {"t"}, extra |-> {"u"}, format |-> "bash", temperature |-> 1, subagents |-> {}]

Laws(law) == <<Section("intro", "hello", FALSE), Section("rules", law, TRUE)>>

MCSources ==
  {Definition(Laws("law1"), <<"hello", "law1">>), Definition(Laws("law2"), <<"hello">>), Definition(<<>>, <<"flat">>)}
MCStep    == [id |-> 0, name |-> "verify", uses |-> <<>>, goto |-> 0]

(* Evaluators: two flat loops in one root, a tree and a variant, a spec.   *)
MCHarness   == [x |-> "opencode", y |-> "opencode", z |-> "pi", v |-> "opencode", i |-> "interactive"]
MCInstall   == [x |-> "flat", y |-> "flat", z |-> "tree", v |-> "variant", i |-> "none"]
MCDirectory == [x |-> "root", y |-> "root", z |-> "build", v |-> "build2", i |-> "none"]
MCTeams     == {{"x", "y"}, {"z", "v"}, {"i"}, {}}
MCProbes    == [g \in Graders |-> IF g = "x" THEN <<"judged", "existence">>
                                  ELSE IF g = "y" THEN <<"existence">> ELSE <<"judged">>]

Outcome(rc, text, errors, did) == [rc |-> rc, text |-> text, errors |-> errors, did |-> did]
Outcomes == {Outcome(0, "good", FALSE, {<<"tool", "emit">>}), Outcome(0, "", FALSE, {}),
             Outcome(0, "good", TRUE, {}), Outcome(-1, "fair", FALSE, {})}
MCOutcomes ==
  [h \in Range(MCHarness) |-> {o \in Outcomes : (h = "pi" => ~o.errors) /\ (h = "interactive" => o.rc = 0)}]
MCContract == {[kind |-> "tool", names |-> {"emit", "send"}]}

(* Derived loops. *)
Job(k, t, s) == [kind |-> k, component |-> "a", targets |-> t, store |-> s]
MCJobs == {Job("split", <<"fast", "deep">>, FALSE), Job("target", <<"pi", "deep">>, TRUE),
           Job("starter", <<"pi">>, TRUE), Job("single", <<"only">>, TRUE), Job("branch", <<"only">>, FALSE)}

(* Sources: calls whose header and other arguments hold literals too, with *)
(* wide characters and a form feed before and inside the prompt's literal.  *)
(* A text parses if its literals are closed and its calls are.              *)
MCHeader == <<"(", "h", "=", "(", Quote, "x", Quote, ")", ",">>

MCHeads    == {MCHeader \o <<"p", "=">>, <<Wide, Newline>> \o MCHeader \o <<Newline, "p", "=">>,
               <<"(", "h", "=", "(", Quote, Wide, Quote, ")", ",", "p", "=">>,
               <<Separator, Newline>> \o MCHeader \o <<"p", "=">>}
MCLiterals == {<<Quote>> \o p \o <<Quote>> :
                 p \in {<<"p">>, <<"p", Newline, Wide, Wide>>, <<Wide, Wide, Newline, "p">>}}
MCRests    == {<<",", Newline, ")">>, <<",", "k", "=", "(", ")", ")">>,
               <<",", "k", "=", Quote, "d", Quote, ",", ")">>}
MCPrompt   == <<Quote, "v", Newline, "v", Quote>>

Number(text, c)  == Cardinality({i \in DOMAIN text : text[i] = c})
MCParsable(text) ==
  /\ Number(text, Quote) % 2 = 0 /\ Number(text, "(") = Number(text, ")")
  /\ text # <<>> /\ Last(text) = ")"

---------------------------------------------------------------------------
Parts == {"probes", "loop", "mutators", "evaluators", "derived", "source"}

ImproveInit ==
  /\ part \in Parts
  /\ Init /\ LoopInit /\ MutationsInit /\ EvaluationInit /\ DerivedInit /\ SourceInit
  /\ part # "mutators" => declared = CHOOSE d \in Sources : TRUE
  /\ part # "evaluators" => \A g \in Graders : At(g, "absent")
  /\ part # "source" => source = Written(CHOOSE h \in Heads : TRUE, CHOOSE l \in Literals : TRUE,
                                         CHOOSE r \in Rests : TRUE, CHOOSE e \in Endings : TRUE)

ImproveNext ==
  /\ UNCHANGED part
  /\ \/ part = "probes"     /\ Next          /\ UNCHANGED <<improving, mutations, evaluation, derived, sources>>
     \/ part = "loop"       /\ LoopNext      /\ UNCHANGED <<vars, mutations, evaluation, derived, sources>>
     \/ part = "mutators"   /\ MutationsNext /\ UNCHANGED <<vars, improving, evaluation, derived, sources>>
     \/ part = "evaluators" /\ EvaluationNext /\ UNCHANGED <<vars, improving, mutations, derived, sources>>
     \/ part = "derived"    /\ DerivedNext   /\ UNCHANGED <<vars, improving, mutations, evaluation, sources>>
     \/ part = "source"     /\ SourceNext    /\ UNCHANGED <<vars, improving, mutations, evaluation, derived>>

(* The threads of the probe cache run. *)
ImproveSpec ==
  /\ ImproveInit /\ [][ImproveNext]_<<part, vars, improving, mutations, evaluation, derived, sources>>
  /\ \A c \in Callers : WF_vars(part = "probes" /\ Step(c))

(* A part by itself. *)
ExportSpec == (ImproveInit /\ part = "derived") /\ [][ImproveNext]_<<part, vars, improving, mutations, evaluation, derived, sources>>
SpliceSpec == (ImproveInit /\ part = "source") /\ [][ImproveNext]_<<part, vars, improving, mutations, evaluation, derived, sources>>
=============================================================================
