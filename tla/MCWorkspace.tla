---------------------------- MODULE MCWorkspace ----------------------------
(***************************************************************************)
(* `oac test` and the tools around a scaffolded project, each with state   *)
(* of its own that no other touches: one of them runs in a behaviour.      *)
(***************************************************************************)
EXTENDS TestHarness, Scaffold, TodoList, ServerManager, StreamedRun, Drivers, Evolve, TLC

CONSTANTS mine, a1, a2, b1

MCText == <<[file |-> 11, fleet |-> 12], [file |-> 21, fleet |-> 22]>>
MCConfigs == {[template |-> "barebones", switches |-> {}], [template |-> "saas-personalized", switches |-> {}]}

MCAgent == (a1 :> "a") @@ (a2 :> "a") @@ (b1 :> "b")
MCSafe == [a |-> "a", b |-> "b"]
MCCallers == {<<a1, 1>>, <<a1, 2>>, <<b1, 1>>}

MCEvents == <<"e1", "e2">>
MCDue == [e1 |-> 0..9, e2 |-> {1, 2}]

(* Two agents sharing a tool, an edit of a definition, of a mock profile,   *)
(* of the slots and of the script behind a tool, and two runs that may      *)
(* overlap.                                                                 *)
Says1(text) == [kind |-> "value", exact |-> {text}, folded |-> {text}, at |-> (<<>> :> text)]
Raises      == [kind |-> "raises"]
Wants(text) == [kind |-> "substring", needle |-> text, as |-> "exact"]
Fixed(output) == [kind |-> "fixed", output |-> output]

ToolTest(name, profile) == [name |-> name, profile |-> profile, input |-> Nothing, evaluators |-> <<Wants("good")>>]
Mailer == [name |-> "mailer", mock |-> Unset, tests |-> <<ToolTest("sends", "stubbed"), ToolTest("live", Unset)>>]
Cycle  == [kind |-> "sequence", outputs |-> <<Says1("good"), Says1("bad")>>]

CapTest(bash) ==
  [name |-> "caps", tools |-> {"mailer", "read", "todoread"}, notTools |-> {"write"}, skills |-> {"plan"}, notSkills |-> {},
   bash |-> {bash}, notBash |-> {"rm"}, evaluators |-> <<>>]
Permissions == [read |-> "allow", write |-> "deny", bash |-> [ls |-> "allow", rm |-> "deny"], skill |-> [plan |-> "allow"]]

Lead(bash) ==
  [name |-> "lead", permissions |-> Permissions, todos |-> TRUE, declared |-> {"mailer"}, caps |-> <<CapTest(bash)>>,
   agentTests |-> <<"end to end">>, extras |-> <<Mailer>>, skillTools |-> <<Mailer>>]
Aide == [Lead("ls") EXCEPT !.name = "aide", !.todos = FALSE, !.caps = <<>>, !.agentTests = <<>>]

(* The agent in the slot "primary" is first in the tree. *)
Slots(lead, other) ==
  <<[definition |-> lead, model |-> "m", mode |-> "primary"], [definition |-> other, model |-> "m", mode |-> "subagent"]>>
Revision(tree, mock) == [tree |-> tree, profiles |-> [stubbed |-> [mailer |-> mock]]]
MCRevisions ==
  [first    |-> Revision(Slots(Lead("ls"), Aide), Cycle), edited |-> Revision(Slots(Lead("cp"), Aide), Cycle),
   remocked |-> Revision(Slots(Lead("ls"), Aide), Fixed(Says1("bad"))),
   moved    |-> Revision(Slots(Aide, Lead("ls")), Cycle)]

Handler(output) == [accepts |-> TRUE, output |-> output]
MCScripts ==
  [works |-> [mailer |-> Handler(Says1("good"))], broken |-> [mailer |-> Handler(Raises)]]

MCOptions == {[force |-> FALSE, kind |-> Unset, variant |-> Unset], [force |-> TRUE, kind |-> "tool", variant |-> Unset]}

Branch(path, contracts) ==
  [path |-> path, contiguous |-> FALSE, evaluators |-> <<>>, mocks |-> <<>>, contracts |-> contracts]
MCBranches ==
  {Branch(<<"plan", "act">>, <<[step |-> "act", required |-> TRUE, inputs |-> <<>>, outputs |-> <<>>]>>),
   Branch(<<"plan", "plan", "act">>, <<>>), Branch(<<>>, <<[step |-> "plan", required |-> FALSE, inputs |-> <<Wants("x")>>, outputs |-> <<>>]>>)}

ProcSymmetry == Permutations(Procs)

(* Evolve: one repository with a CLAUDE.md and no scripts/, and one that   *)
(* adds a script in a commit of its own; the first has a nested file of    *)
(* such a name since its last commit.                                      *)

RepoTree(code, new, tool, claude, nested) ==
  [code |-> code, new |-> new, scripts |-> tool, claude |-> claude, agents |-> NoFile, improved |-> NoFile,
   nested |-> nested]
V1 == <<"1">>
V2 == <<"2">>
Repositories ==
  {<<RepoTree(V1, NoFile, NoFile, V1, NoFile), RepoTree(V2, NoFile, NoFile, V1, NoFile),
     RepoTree(V2, V1, NoFile, V1, V1)>>,
   <<RepoTree(V1, NoFile, NoFile, NoFile, NoFile), RepoTree(V2, V1, V1, NoFile, NoFile)>>}

Synthesized == <<"prompt", "workflow", "no tools">>
Longer      == <<"prompt", "one step more", "no tools">>
Stronger    == <<"teacher", "workflow", "no tools">>
Tried       == {Longer}
Examples    == <<"example-1">>

---------------------------------------------------------------------------
VARIABLE active

workspace == <<active, harness, calls, scaffold, todos, server, stream, cronVars, botVars, evolution>>

(* Beside another machine no test run is left to begin. *)
NoTests ==
  /\ revision = "first" /\ scripts = "works" /\ file = <<>> /\ before = Unset
  /\ run = [p \in Procs |-> [pc |-> "idle"]] /\ count = [runs |-> MaxRuns, edits |-> 0, deaths |-> 0]
  /\ calm = TRUE /\ earned = {} /\ calls = <<>>

WorkspaceInit ==
  /\ active \in {"scaffold", "todos", "server", "stream", "cron", "bot", "tests", "evolve"}
  /\ IF active = "tests" THEN Init /\ revision = "first" ELSE NoTests
  /\ ScaffoldInit /\ TodoInit /\ ManagerInit /\ StreamInit /\ DriversInit /\ EvolveInit

WorkspaceNext ==
  /\ UNCHANGED active
  /\ \/ active = "scaffold" /\ ScaffoldNext /\ UNCHANGED <<harness, calls, todos, server, stream, cronVars, botVars, evolution>>
     \/ active = "todos"    /\ TodoNext     /\ UNCHANGED <<harness, calls, scaffold, server, stream, cronVars, botVars, evolution>>
     \/ active = "server"   /\ ManagerNext  /\ UNCHANGED <<harness, calls, scaffold, todos, stream, cronVars, botVars, evolution>>
     \/ active = "stream"   /\ StreamNext   /\ UNCHANGED <<harness, calls, scaffold, todos, server, cronVars, botVars, evolution>>
     \/ active = "cron"     /\ CronNext     /\ UNCHANGED <<harness, calls, scaffold, todos, server, stream, botVars, evolution>>
     \/ active = "tests"    /\ Next         /\ UNCHANGED <<scaffold, todos, server, stream, cronVars, botVars, evolution>>
     \/ active = "bot"      /\ BotNext      /\ UNCHANGED <<harness, calls, scaffold, todos, server, stream, cronVars, evolution>>
     \/ active = "evolve"   /\ EvolveNext   /\ UNCHANGED <<harness, calls, scaffold, todos, server, stream, cronVars, botVars>>

WSpec == WorkspaceInit /\ [][WorkspaceNext]_workspace

(* Inits alone. *)
InitsSpec == WorkspaceInit /\ active = "scaffold" /\ [][WorkspaceNext]_workspace
=============================================================================
