------------------------------ MODULE Compile ------------------------------
(***************************************************************************)
(* One target directory and the runs of CompileScript over it: the clean   *)
(* strategies, one pass per variant over the registry the factory builds   *)
(* for it, and what the four dialects write in which order.  Between two   *)
(* runs the project is edited; a run may raise or be killed at any step.   *)
(*                                                                         *)
(* Texts are abstracted to what they were rendered from.  A file name is   *)
(* the sequence of its hyphenated parts, so that str.endswith is IsSuffix. *)
(***************************************************************************)
EXTENDS Integers, Sequences, SequencesExt, FiniteSets, Functions, Arrangement

CONSTANTS
  Alphabet,  \* all slot names, in alphabetical order
  Nested,    \* the slots named like persona/quick
  Projects,  \* what the factory returns: a tree per compilation context
  Commands,  \* the CompileScripts that are run
  MaxRuns    \* how often one is run

Slots    == ToSet(Alphabet)
Dialects == {"opencode", "claude", "codex", "pi"}

DistinctPostfixes(c) == \A i, j \in 1..Len(c.variants) :
                          c.variants[i].postfix = c.variants[j].postfix => i = j

ASSUME CompileAssumption ==
  /\ Alphabet \in Seq(Slots) /\ IsInjective(Alphabet) /\ Nested \subseteq Slots /\ MaxRuns \in Nat
  /\ \A c \in Commands : /\ c.dialect \in Dialects
                         /\ c.strategy \in {"full", "per_variant", "none"}
                         /\ Len(c.variants) \in Nat /\ DistinctPostfixes(c)
                         /\ \A i \in 1..Len(c.variants) : c.variants[i].postfix \in Seq(STRING)
                         /\ \A p \in Projects : {"default"} \cup {c.variants[i].name : i \in 1..Len(c.variants)} \subseteq DOMAIN p
  /\ \A p \in Projects : \A context \in DOMAIN p :
       /\ ToSet(p[context].slots) = DOMAIN p[context].agents /\ DOMAIN p[context].agents \subseteq Slots
       /\ p[context].postfix \in Seq(STRING)
  /\ {"tool/tools", "extensions/tools", "settings"} \cap Slots = {}  \* files of directories no agent is in

VARIABLES
  tree,     \* the files under the target, and what they hold
  cmd,      \* the CompileScript of the current or last run
  project,  \* the project it found
  pc,       \* what it is doing
  pass,     \* the variant it is at
  scripts,  \* the scripts it has yet to copy in this pass
  agents,   \* the agent files it has yet to write in this pass, in order
  before,   \* the tree it found (script.py takes the snapshot of its names)
  outcome,  \* how the last run ended
  runs

vars == <<tree, cmd, project, pc, pass, scripts, agents, before, outcome, runs>>

None == [x \in {} |-> x]

Init == /\ tree = None /\ before = None
        /\ cmd = CHOOSE c \in Commands : TRUE
        /\ project = CHOOSE p \in Projects : TRUE
        /\ pc = "idle" /\ pass = 1 /\ scripts = {} /\ agents = <<>>
        /\ outcome = "none" /\ runs = 0

-----------------------------------------------------------------------------
(* A variant over the registry's slots.                                    *)

Single    == cmd.variants = <<>>
Passes    == IF Single THEN 1 ELSE Len(cmd.variants)
Variant(i)  == cmd.variants[i]
Context(i) == IF Single THEN "default" ELSE Variant(i).name
Registry(i) == project[Context(i)]

AppliesTo(spec, agent) == agent.class \notin spec.passthrough

PresetFor(spec, agent) ==
  CASE agent.class \in DOMAIN spec.classes -> spec.classes[agent.class]
    [] agent.class \notin DOMAIN spec.classes /\ spec.default \in DOMAIN spec.classes
         -> spec.classes[spec.default]
    [] OTHER -> spec.preset

Unsplit(i, slot) == Single \/ ~AppliesTo(Variant(i), Registry(i).agents[slot])

Postfix(i, slot) ==
  IF Unsplit(i, slot) THEN Registry(i).postfix ELSE Variant(i).postfix

Model(i, slot) ==
  LET agent == Registry(i).agents[slot]
  IN  IF Unsplit(i, slot) THEN agent.own ELSE PresetFor(Variant(i), agent)

SlotsOf(i) == DOMAIN Registry(i).agents

-----------------------------------------------------------------------------
(* The order of the agents: parents before children.                       *)

Sorted(S) == Sublist(Alphabet, {n \in DOMAIN Alphabet : Alphabet[n] \in S})

(* Two slots may hold one agent; a reference then means the later slot.    *)
LastOfItsId(i, n) ==
  LET Id(m) == Registry(i).agents[Registry(i).slots[m]].id
  IN  \A m \in n + 1..Len(Registry(i).slots) : Id(m) # Id(n)

Edges(i, slot) ==
  {Registry(i).slots[n] : n \in {n \in DOMAIN Registry(i).slots :
      /\ Registry(i).agents[Registry(i).slots[n]].id \in Registry(i).agents[slot].subagents
      /\ LastOfItsId(i, n)}} \ {slot}

Graph(i) == [slot \in SlotsOf(i) |-> Edges(i, slot)]

Cyclic(i) == \E S \in SUBSET SlotsOf(i) \ {{}} :
                \A s \in S : Edges(i, s) \cap S # {}

(* A mutant: a child is ready as soon as one of its parents is taken.      *)
Ready_Early(children, left) == children
(* The children all of whose parents have been taken.                      *)
Ready(children, left) == {s \in children : left[s] = 0}

(* Kahn's algorithm over the children E of each slot: what is taken, how   *)
(* many of its parents each slot waits for, and which wait for none.       *)
Begun(E) ==
  LET parents == [s \in DOMAIN E |-> Cardinality({p \in DOMAIN E : s \in E[p]})]
  IN  [order |-> <<>>, incoming |-> parents, queue |-> Sorted({s \in DOMAIN E : parents[s] = 0})]

Taken(E, k) ==
  LET node == Head(k.queue)
      left == [s \in DOMAIN E |-> IF s \in E[node] THEN k.incoming[s] - 1 ELSE k.incoming[s]]
  IN  IF k.queue = <<>> THEN k
      ELSE [order    |-> Append(k.order, node), incoming |-> left,
            queue    |-> Tail(k.queue) \o Sorted(Ready(E[node], left))]

(* The loop's states, after as many rounds as there are slots.             *)
Kahn(E) ==
  LET round[n \in 0..Cardinality(DOMAIN E)] == IF n = 0 THEN Begun(E) ELSE Taken(E, round[n - 1])
  IN  round

TopologicalOrder(E) == Kahn(E)[Cardinality(DOMAIN E)].order

-----------------------------------------------------------------------------
(* What is written where.  A text keeps the run that rendered it, and the  *)
(* model and postfix of the variant it was rendered for.                   *)

File(dir, stem) == [dir |-> dir, stem |-> stem]

(* Claude's files are first written in OpenCode's shape.                   *)
AgentDir == CASE cmd.dialect \in {"opencode", "claude"} -> ".opencode"
              [] cmd.dialect = "codex"                  -> ".codex"
              [] cmd.dialect = "pi"                     -> ".pi"

AgentFile(dir, i, w) ==
  File(dir, <<w.slot>> \o Postfix(i, w.slot)
              \o (IF w.twin THEN <<"primary">> ELSE <<>>))

AgentText(i, w) ==
  [of    |-> w.slot, run |-> runs, postfix |-> Postfix(i, w.slot),
   model |-> Model(i, w.slot), served |-> FALSE,
   mode  |-> IF w.twin \/ w.slot = "primary" THEN "primary" ELSE "subagent"]

SharedText(name, i) ==
  [of    |-> name, run |-> runs, postfix |-> <<>>,
   model |-> "none", served |-> FALSE, mode |-> "none"]

HasTwin(i, slot) == Registry(i).agents[slot].dual /\ slot # "primary"

(* Every slot in order, each followed by its twin if it has one.           *)
AgentWrites(i) ==
  LET order == TopologicalOrder(Graph(i))
      all   == [n \in 1..2 * Len(order) |-> [slot |-> order[(n + 1) \div 2], twin |-> n % 2 = 0]]
  IN  Sublist(all, {n \in DOMAIN all : all[n].twin => HasTwin(i, all[n].slot)})

ToolScripts(i) == UNION {Registry(i).agents[s].scripts : s \in SlotsOf(i)}
Bundled(i)     == IF cmd.dialect \in {"opencode", "claude"}
                  THEN UNION {Registry(i).agents[s].needs : s \in SlotsOf(i)} ELSE {}

Put(t, f, text) == [g \in DOMAIN t \cup {f} |-> IF g = f THEN text ELSE t[g]]
Del(t, F)       == [g \in DOMAIN t \ F |-> t[g]]
Under(t, dir)   == {f \in DOMAIN t : f.dir = dir}

-----------------------------------------------------------------------------
(* One run.                                                                *)

Ends(how) == /\ pc' = "idle" /\ outcome' = how
             /\ pass' = 1 /\ scripts' = {} /\ agents' = <<>>

Strategy == cmd.strategy

(* The factory is called once under the default context before anything is *)
(* touched; a dry run ends there.                                          *)
Run ==
  /\ pc = "idle" /\ runs < MaxRuns
  /\ cmd' \in Commands /\ project' \in Projects
  /\ before' = tree /\ runs' = runs + 1
  /\ \/ ~project'["default"].ok /\ Ends("raised")
     \/ project'["default"].ok /\ cmd'.dry /\ Ends("dry")
     \/ /\ project'["default"].ok /\ ~cmd'.dry
        /\ pc' = IF cmd'.strategy = "full" THEN "wipe" ELSE "pass"
        /\ outcome' = "running" /\ UNCHANGED <<pass, scripts, agents>>
  /\ UNCHANGED tree

(* A mutant: only the dialect's own directory is wiped.                    *)
PrepareTarget_OwnDialect ==
  /\ pc = "wipe" /\ tree' = Del(tree, Under(tree, AgentDir)) /\ pc' = "pass"
  /\ UNCHANGED <<cmd, project, pass, scripts, agents, before, outcome, runs>>
PrepareTarget ==
  /\ pc = "wipe" /\ tree' = None /\ pc' = "pass"
  /\ UNCHANGED <<cmd, project, pass, scripts, agents, before, outcome, runs>>

(* Mutants: every stem ends with the empty postfix; every file the dialect *)
(* wrote goes.                                                             *)
VariantArtifacts_Unguarded(postfix) == {f \in DOMAIN tree : IsSuffix(postfix, f.stem)}
VariantArtifacts_OwnDialect(postfix) == Under(tree, AgentDir)
(* All files in the target, of whatever dialect, whose stem ends with the  *)
(* variant's postfix: the stems of its primary twins end with -primary.     *)
VariantArtifacts(postfix) ==
  {f \in DOMAIN tree : postfix # <<>> /\ IsSuffix(postfix, f.stem)}

Cleaned == IF Strategy = "per_variant" /\ ~Single
           THEN Del(tree, VariantArtifacts(Variant(pass).postfix)) ELSE tree

StartPass ==
  /\ pc = "pass" /\ pass <= Passes /\ tree' = Cleaned
  /\ \/ ~Registry(pass).ok /\ Ends("raised")
     \/ /\ Registry(pass).ok /\ pc' = "scripts"
        /\ scripts' = ToolScripts(pass) \cup Bundled(pass)
        /\ UNCHANGED <<pass, agents, outcome>>
  /\ UNCHANGED <<cmd, project, before, runs>>

CopyScript ==
  /\ pc = "scripts"
  /\ \E s \in scripts :
       \/ s \in Registry(pass).lost /\ Ends("raised") /\ UNCHANGED tree
       \/ /\ s \notin Registry(pass).lost
          /\ tree' = Put(tree, File("scripts", <<s>>), SharedText(s, pass))
          /\ scripts' = scripts \ {s}
          /\ UNCHANGED <<pc, pass, agents, outcome>>
  /\ UNCHANGED <<cmd, project, before, runs>>

(* What native_tools adds for the tools that have a script.                *)
Native   == cmd.native /\ ToolScripts(pass) # {}
ToolFile == CASE cmd.dialect = "opencode" -> File(".opencode", <<"tool/tools">>)
              [] cmd.dialect = "pi"       -> File(".pi", <<"extensions/tools">>)
              [] OTHER                    -> File("scripts", <<"mcp_tools_server">>)
Tooled(t) == IF Native THEN Put(t, ToolFile, SharedText("tools", pass)) ELSE t

(* Pi's extension is written before the order is known, the others after   *)
(* the agents.                                                             *)
Order ==
  /\ pc = "scripts" /\ scripts = {}
  /\ tree' = IF cmd.dialect = "pi" THEN Tooled(tree) ELSE tree
  /\ \/ Cyclic(pass) /\ Ends("raised")
     \/ /\ ~Cyclic(pass) /\ agents' = AgentWrites(pass) /\ pc' = "agents"
        /\ UNCHANGED <<pass, scripts, outcome>>
  /\ UNCHANGED <<cmd, project, before, runs>>

(* Codex writes into .codex/agents without creating a slot's directory.    *)
Unwritable(w) == cmd.dialect = "codex" /\ w.slot \in Nested

WriteAgent ==
  /\ pc = "agents" /\ agents # <<>>
  /\ LET w == Head(agents)
     IN  \/ Unwritable(w) /\ Ends("raised") /\ UNCHANGED tree
         \/ /\ ~Unwritable(w)
            /\ tree' = Put(tree, AgentFile(AgentDir, pass, w), AgentText(pass, w))
            /\ agents' = Tail(agents)
            /\ UNCHANGED <<pc, pass, scripts, outcome>>
  /\ UNCHANGED <<cmd, project, before, runs>>

AgentsWritten ==
  /\ pc = "agents" /\ agents = <<>>
  /\ pc' = IF cmd.dialect = "claude" /\ Under(tree, ".opencode") # {}
           THEN "discard" ELSE "index"
  /\ UNCHANGED <<tree, cmd, project, pass, scripts, agents, before, outcome, runs>>

(* Claude: the old .claude goes, then .opencode becomes .claude.           *)
Discard ==
  /\ pc = "discard" /\ tree' = Del(tree, Under(tree, ".claude")) /\ pc' = "move"
  /\ UNCHANGED <<cmd, project, pass, scripts, agents, before, outcome, runs>>

Renamed(f) == IF f.dir = ".opencode" THEN [f EXCEPT !.dir = ".claude"] ELSE f

Move ==
  /\ pc = "move" /\ pc' = "index"
  /\ tree' = [f \in {Renamed(g) : g \in DOMAIN tree} |->
                tree[IF f.dir = ".claude" THEN [f EXCEPT !.dir = ".opencode"] ELSE f]]
  /\ UNCHANGED <<cmd, project, pass, scripts, agents, before, outcome, runs>>

(* settings.json, AGENTS.md and the registrations of the tools: one file   *)
(* each for the whole target.  Codex's block goes to every agent file it   *)
(* finds and that has none.                                                *)
Indexed(t) ==
  IF SlotsOf(pass) = {} THEN t
  ELSE CASE cmd.dialect = "claude" -> Put(t, File(".claude", <<"settings">>),
                                          SharedText("settings", pass))
         [] cmd.dialect = "codex"  -> Put(t, File(".", <<"AGENTS">>),
                                          SharedText("AGENTS", pass))
         [] OTHER                  -> t

Served(t) ==
  IF cmd.dialect = "codex" /\ Native
  THEN [f \in DOMAIN t |-> IF f.dir = ".codex" THEN [t[f] EXCEPT !.served = TRUE] ELSE t[f]]
  ELSE t

WriteIndex ==
  /\ pc = "index"
  /\ tree' = Served(IF cmd.dialect = "pi" THEN tree ELSE Tooled(Indexed(tree)))
  /\ pc' = "pass" /\ pass' = pass + 1
  /\ UNCHANGED <<cmd, project, scripts, agents, before, outcome, runs>>

Finish ==
  /\ pc = "pass" /\ pass > Passes /\ Ends("done")
  /\ UNCHANGED <<tree, cmd, project, before, runs>>

(* The process is killed; an rmtree may then have removed any part.        *)
Die ==
  /\ pc # "idle" /\ Ends("died")
  /\ LET victims == CASE pc = "wipe"    -> DOMAIN tree
                      [] pc = "discard" -> Under(tree, ".claude")
                      [] OTHER          -> {}
     IN  \E gone \in SUBSET victims : tree' = Del(tree, gone)
  /\ UNCHANGED <<cmd, project, before, runs>>

Next == Run \/ PrepareTarget \/ StartPass \/ CopyScript \/ Order \/ WriteAgent
          \/ AgentsWritten \/ Discard \/ Move \/ WriteIndex \/ Finish \/ Die

Spec == Init /\ [][Next]_vars

-----------------------------------------------------------------------------
(* Properties.                                                             *)

Done == pc = "idle" /\ outcome = "done"

(* What a pass calls its files, and what it looks for when it cleans.      *)
Postfixes(i) == {Postfix(i, s) : s \in SlotsOf(i)}
                  \cup (IF Single THEN {} ELSE {Variant(i).postfix})

(* A postfix has no slot's name and no mark of a twin in it.               *)
PlainName(postfix) == \A n \in DOMAIN postfix : postfix[n] \notin Slots \cup {"primary"}

(* Files named with p are safe from a pass that uses q.                    *)
Apart(p, q) == /\ PlainName(p) /\ PlainName(q) /\ p # q
               /\ Strategy = "per_variant" /\ q # <<>> => ~IsSuffix(q, p)

(* No pass removes or overwrites what an earlier one wrote.  The validator *)
(* of CompileScript asks for distinct postfixes; that is enough unless an  *)
(* agent opts out of its variant or, under per_variant, one postfix ends   *)
(* with another.                                                           *)
NamesApart == \A i, j \in 1..Passes : \A s \in SlotsOf(i), q \in Postfixes(j) :
                 i < j => Apart(Postfix(i, s), q)

FinalDir == IF cmd.dialect = "claude" THEN ".claude" ELSE AgentDir

Beside ==
  \A i \in 1..Passes : \A slot \in SlotsOf(i) :
    \A twin \in {FALSE} \cup (IF HasTwin(i, slot) THEN {TRUE} ELSE {}) :
      LET w == [slot |-> slot, twin |-> twin]
          f == AgentFile(FinalDir, i, w)
          registered == /\ cmd.native /\ cmd.dialect = "codex"
                        /\ \E j \in i..Passes : ToolScripts(j) # {}
      IN  /\ f \in DOMAIN tree
          /\ tree[f] = [AgentText(i, w) EXCEPT !.served = registered]

(* When a run is done, every slot of every variant has its file and, where *)
(* asked for, its primary twin, as that variant's pass rendered it:        *)
(* whatever the tree held before, in whatever order the passes ran         *)
(* (variant_spec.py, script.py).  Claude's tree holds a single pass.       *)
SideBySide ==
  Done /\ NamesApart /\ (cmd.dialect = "claude" => Passes = 1) => Beside

(* The same of every dialect, as variant_spec.py says.                     *)
EverySpecSideBySide == Done /\ NamesApart => Beside

(* A primary twin is named for its slot, its postfix and its mode.         *)
IsTwin(f, text) == f.stem = <<text.of>> \o text.postfix \o <<"primary">>

(* After a full clean the tree holds what this run wrote and nothing else. *)
(* After a per_variant one, of the agents that an earlier run rendered for *)
(* one of its variants (whatever the dialect, and however that run ended)  *)
(* only primary twins are left, which the cleaning passes over: a twin     *)
(* whose slot is gone, or is no longer dual, stays for good.               *)
NothingStale ==
  Done => \A f \in DOMAIN tree : tree[f].run # runs =>
    /\ Strategy # "full"
    /\ Strategy = "per_variant" /\ ~Single =>
         \A i \in 1..Passes :
           /\ Variant(i).postfix # <<>>
           /\ tree[f].mode # "none" /\ tree[f].postfix = Variant(i).postfix
           => IsTwin(f, tree[f])

(* Rebuilding some variants without a full clean leaves the agents of the  *)
(* others alone, at every moment of the run and however it ends, when the  *)
(* names are apart.                                                        *)
OtherVariantsKept ==
  Strategy # "full" /\ cmd.dialect # "claude" =>
    \A f \in DOMAIN before :
      /\ before[f].mode # "none"
      /\ \A i \in 1..Passes : \A q \in Postfixes(i) : Apart(before[f].postfix, q)
      => f \in DOMAIN tree /\ [tree[f] EXCEPT !.served = FALSE]
                               = [before[f] EXCEPT !.served = FALSE]

(* Both: the passes of a run, and runs after one another, live together. *)
PassesCoexist == SideBySide /\ OtherVariantsKept

(* An agent's file is written only after those of all agents that refer to *)
(* it: "parents before children" (build_graph.py).                         *)
ParentsFirst ==
  pc = "agents" =>
    \A parent \in SlotsOf(pass) : \A child \in Edges(pass, parent) :
      [slot |-> parent, twin |-> FALSE] \in ToSet(agents)
        => [slot |-> child, twin |-> FALSE] \in ToSet(agents)
=============================================================================
