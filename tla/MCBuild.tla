------------------------------ MODULE MCBuild ------------------------------
(***************************************************************************)
(* Building agents: the compiler over a registry that is edited and breaks, *)
(* the permissions of what it writes, the fleet of one client, what is     *)
(* registered for all of them, and the prompts assembled from blocks.  They *)
(* share no state: one of them runs in a behaviour.                        *)
(***************************************************************************)
EXTENDS Compile, Permissions, Personalize, Registry, PromptContext

---------------------------------------------------------------------------
(* The compiler: a registry before and after an edit, one that fails in a  *)
(* variant's pass or in all, and the scripts run over them.                *)

Agent(id, class, subagents, dual, scripts_) ==
  [id |-> id, class |-> class, own |-> "own", subagents |-> subagents,
   dual |-> dual, scripts |-> scripts_, needs |-> {}]

Tree(slots, agents_) ==
  [ok |-> TRUE, slots |-> slots, postfix |-> <<>>, lost |-> {}, agents |-> agents_]

Raising == [Tree(<<>>, None) EXCEPT !.ok = FALSE]

Always(t) == [c \in {"default", "base", "v2", "fast-v2", "split"} |-> t]

(* primary dispatches to b and a, b to a; a image agent next to them.      *)
Whole == Tree(<<"primary", "a", "b">>,
  ("primary" :> [Agent("top", "text", {"helper", "scout"}, TRUE, {}) EXCEPT !.needs = {"todo"}])
  @@ ("a" :> Agent("scout", "vision", {}, FALSE, {"search"}))
  @@ ("b" :> Agent("helper", "text", {"scout", "top2"}, TRUE, {})))

(* After an edit: b is gone.                                               *)
Edited == Tree(<<"primary", "a">>,
  ("primary" :> Agent("top", "text", {"scout"}, FALSE, {}))
  @@ ("a" :> Agent("scout", "vision", {}, FALSE, {"search"})))

(* After another edit a refers to its parent; or a script's source is lost. *)
Looped == [Whole EXCEPT !.agents["a"].subagents = {"helper"}]
Broken == [Edited EXCEPT !.lost = {"search"}]

Names == <<"a", "b", "primary">>

SomeProjects == {Always(Whole), Always(Edited), Always(Looped), Always(Broken),
                 Always(Raising), [Always(Whole) EXCEPT !["v2"] = Raising]}

Plain(name, postfix) ==
  [name |-> name, postfix |-> postfix, preset |-> name, classes |-> None,
   default |-> "default", passthrough |-> {}]

Base   == Plain("base", <<>>)
V2     == Plain("v2", <<"v2">>)
FastV2 == Plain("fast-v2", <<"fast", "v2">>)
Split  == [Plain("split", <<"split">>) EXCEPT
             !.classes = "default" :> "large", !.passthrough = {"vision"}]

Script(d, strategy, native, variants) ==
  [dialect |-> d, strategy |-> strategy, native |-> native,
   variants |-> variants, dry |-> FALSE]

SomeCommands ==
  {Script("opencode", "full", TRUE, <<V2, Base>>),
   Script("opencode", "per_variant", FALSE, <<V2, Base>>),
   Script("opencode", "per_variant", FALSE, <<FastV2, V2>>),
   Script("opencode", "none", FALSE, <<Base, Split>>),
   Script("codex", "per_variant", TRUE, <<Split, V2>>),
   Script("pi", "full", TRUE, <<FastV2, V2>>),
   Script("claude", "none", TRUE, <<>>),
   [Script("claude", "per_variant", FALSE, <<V2, FastV2>>) EXCEPT !.dry = TRUE],
   Script("claude", "full", FALSE, <<FastV2, V2>>)}

ClaudeCommands == {Script("claude", "full", FALSE, <<Base, V2>>)}
OneProject     == {Always(Whole), Always(Edited)}

---------------------------------------------------------------------------
(* Permissions: trees of an orchestrator and a helper, every combination   *)
(* of toggles, todo mode, kids and tools of the one, next to some of the   *)
(* other.                                                                  *)

Tool(name, commands, examples, bash, json) ==
  [name |-> name, commands |-> commands, examples |-> examples, bash |-> bash, json |-> json]

Search == Tool("search", {<<"search">>}, {<<"search", "q">>}, "allow", "allow")
Banned == Tool("banned", {}, {<<"rm">>}, "deny", Absent)
Write  == Tool("write", {}, {}, Absent, "allow")
Edit   == Tool("edit", {}, {}, Absent, "deny")
Todos  == Tool("todoread", {}, {<<"search">>}, "ask", "allow")

Ordinary ==
  [mode |-> "subagent", dual |-> FALSE, workflow |-> FALSE, todo |-> "strict",
   workspace |-> FALSE, perms |-> Unset, servers |-> NoPermission, kids |-> NoPermission,
   steps |-> {}, skills |-> <<>>, inline |-> FALSE, tools |-> <<>>,
   format |-> "bash", overrides |-> NoPermission]

Find == <<[name |-> "find", tools |-> <<Search, Banned>>]>>

Given == {Unset} \cup SUBSET Toggles

Orchestrators ==
  {[Ordinary EXCEPT !.mode = "primary", !.workflow = w, !.todo = t, !.perms = p,
                 !.kids = k, !.steps = DOMAIN k, !.tools = x, !.skills = Find]
   : w \in BOOLEAN, t \in {"strict", "none"}, p \in Given,
     k \in {NoPermission, "helper" :> "unset",
            ("helper" :> "subagent") @@ ("big" :> "primary")},
     x \in {<<>>, <<Write, Edit>>, <<Todos, Banned>>}}

Helpers ==
  {[Ordinary EXCEPT !.dual = d, !.workflow = TRUE, !.todo = "lazy", !.workspace = d, !.perms = p,
                 !.kids = "scout" :> "primary", !.skills = Find, !.inline = i,
                 !.servers = s, !.format = f, !.overrides = "write" :> "json",
                 !.tools = <<Write>>]
   : d \in BOOLEAN, i \in BOOLEAN, f \in {"bash", "json", "both"},
     p \in {Unset, {}, {"read", "mcp"}, {"edit", "mcp"}},
     s \in {NoPermission, ("db" :> {"query"}) @@ ("web" :> {})}}

Lead == [Ordinary EXCEPT !.mode = "primary", !.perms = {"read"}, !.kids = "helper" :> "unset"]

SomeTrees == {("primary" :> o) @@ ("helper" :> [Ordinary EXCEPT !.perms = p])
              : o \in Orchestrators, p \in {Unset, {"write"}}}
             \cup {("primary" :> Lead) @@ ("helper" :> h) : h \in Helpers}

---------------------------------------------------------------------------
(* A client's fleet: tools that collide with the platform's and with one   *)
(* another, and a source the profiler finds two conventions in.            *)

CONSTANTS t1, t2, goal, criterion

MCRoles    == <<"planner", "worker">>
MCBuiltins == {<<"web", "search">>, <<"read">>}
MCConnections ==
  {[servers |-> {}, sources |-> <<[slug |-> "drive", adapter |-> TRUE]>>],
   [servers |-> {[name |-> "drive", enabled |-> TRUE, tools |-> {<<"read">>, <<"list">>}],
                 [name |-> "mail", enabled |-> FALSE, tools |-> {<<"send">>}]},
    sources |-> <<[slug |-> "web", adapter |-> FALSE]>>]}
Item(path, container, style) == [path |-> path, container |-> container, type |-> Nothing, ext |-> "md", style |-> style]
MCStructures ==
  {[root |-> <<"r">>, truncated |-> FALSE,
    items |-> <<Item(<<"r", "a">>, TRUE, Nothing), Item(<<"r", "a", "x">>, FALSE, "dated"),
                Item(<<"r", "a", "y">>, FALSE, "dated"), Item(<<"r", "z">>, FALSE, Nothing)>>]}
Reply(object, g, tasks) == [object |-> object, goal |-> g, tasks |-> tasks, criteria |-> {criterion}]
MCReplies ==
  {Reply(TRUE, goal, <<t1, "blank", t2>>), Reply(TRUE, goal, <<"blank">>), Reply(FALSE, goal, <<>>)}

---------------------------------------------------------------------------
(* Registries: two presets on one model, one offered again with another    *)
(* temperature, two names that make one id, and an agent that is improved  *)
(* in five places, one tool in two of them.                                *)

CONSTANT plain, tuned, better, flow, fixed

MCWords(name) == IF name = "glm/air" THEN <<"glm_air">> ELSE <<name>>

Offered(name, temperature) == [name |-> name, model |-> "glm", temperature |-> temperature]
Piece(kind, component) == [kind |-> kind, component |-> component, text |-> plain, structure |-> flow]

Enrolled ==
  [name |-> <<"chat">>, preset |-> NoName, params |-> [model |-> "glm", temperature |-> "0.2"],
   parts |-> <<>>, improved |-> FALSE]

MCEnrolments ==
  {Enrolled,
   [Enrolled EXCEPT !.preset = Offered("glm/air", "0.2")],
   [Enrolled EXCEPT !.preset = Offered("glm/air", "0.7")],
   [Enrolled EXCEPT !.preset = Offered("glm_air", "0.2")],
   [Enrolled EXCEPT !.name = <<"desk">>, !.improved = TRUE,
      !.parts = <<Piece("agent", "desk"), Piece("skill", "find"), Piece("step", "search"),
                  Piece("example", "search"), Piece("extra", "note")>>]}

MCSnapshots ==
  {<<"search", [text |-> tuned, structure |-> fixed]>>,
   <<"search", [text |-> better, structure |-> fixed]>>}

MCTemplates == {[name |-> "chats", slots |-> "primary" :> [wild |-> TRUE, of |-> <<"chat">>]
                                             @@ "desk" :> [wild |-> FALSE, of |-> <<"desk", "glm", "0.2">>]]}
Setup(name, overrides, strict) == [name |-> name, template |-> "chats", overrides |-> overrides, strict |-> strict]
MCSetups ==
  {Setup("any", "desk" :> [wild |-> TRUE, of |-> <<"chat", "glm">>], TRUE), Setup("late", <<>>, FALSE)}

Binds(mockOnly) == [mockOnly |-> mockOnly]
MCProfiles ==
  {[name |-> "prod", extends |-> NoName, bindings |-> ("db" :> Binds(FALSE)) @@ ("bot" :> Binds(FALSE))],
   [name |-> "prod", extends |-> NoName, bindings |-> "db" :> Binds(FALSE)],
   [name |-> "test", extends |-> "prod", bindings |-> "db" :> Binds(TRUE)],
   [name |-> "mine", extends |-> "test", bindings |-> "bot" :> Binds(TRUE)],
   [name |-> "prod", extends |-> "test", bindings |-> <<>>]}
MCNeeds ==
  {[tools |-> ("query" :> {"db"}) @@ ("send" :> {"bot", "db"}), covered |-> c] : c \in {{}, {"query", "send"}}}

---------------------------------------------------------------------------
(* Prompts: a block of every tier, one pinned to the front, one that ends  *)
(* what is cacheable, and one added under a name that is taken.            *)

Block(name, tier, position, breakpoint) ==
  [name |-> name, tier |-> tier, position |-> position, breakpoint |-> breakpoint]
Persona == Block("persona", "immutable", Unpinned, FALSE)
Rules   == Block("rules", "stable", Unpinned, FALSE)
Person  == Block("person", "fluid", Unpinned, FALSE)
Live    == Block("live", "volatile", Unpinned, FALSE)

MCBlocks == {Rules, Block("person", "stable", Unpinned, FALSE)}
MCAssemblies == {<<Live, Rules>>, <<Person, [Persona EXCEPT !.breakpoint = TRUE]>>, <<Live, [Person EXCEPT !.position = 2]>>,
                 <<Rules, Rules>>}
MCBuilt == {"person", "live"}

ProcSymmetry == Permutations(Procs)

---------------------------------------------------------------------------
VARIABLE part

build == <<part, vars, permissions, personalize, book, context>>

BuildInit ==
  /\ part \in {"compile", "permissions", "personalize", "registry", "access", "context"}
  /\ Init /\ PersonalizeInit /\ RegistryInit /\ ContextInit
  /\ part # "context" => assembler = <<Live, Rules>>
  /\ part # "personalize" => user = {}
  /\ IF part = "permissions" THEN PermissionsInit
     ELSE /\ harness = "opencode" /\ rendered = NoPermission
          /\ unwritten = {} /\ written = NoPermission /\ settings = NoPermission

BuildNext ==
  /\ UNCHANGED part
  /\ \/ part = "compile"     /\ Next            /\ UNCHANGED <<permissions, personalize, book, context>>
     \/ part = "permissions" /\ PermissionsNext /\ UNCHANGED <<vars, personalize, book, context>>
     \/ part = "personalize" /\ PersonalizeNext /\ UNCHANGED <<vars, permissions, book, context>>
     \/ part = "registry"    /\ RegistryNext    /\ UNCHANGED <<vars, permissions, personalize, context>>
     \/ part = "access"      /\ AccessNext      /\ UNCHANGED <<vars, permissions, personalize, context>>
     \/ part = "context"     /\ ContextNext     /\ UNCHANGED <<vars, permissions, personalize, book>>

BuildSpec == BuildInit /\ [][BuildNext]_build

(* The compiler alone, and the fleet of a client alone. *)
CompileSpec     == BuildInit /\ part = "compile" /\ [][BuildNext]_build
PersonalizeSpec == BuildInit /\ part = "personalize" /\ [][BuildNext]_build
=============================================================================
