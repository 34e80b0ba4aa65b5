---------------------------- MODULE Permissions ----------------------------
(***************************************************************************)
(* What a compiled agent is told to do, and what its files let it do.  One   *)
(* pass of a dialect over a tree of agents: the permission and tool blocks *)
(* of OpenCode, Claude's settings for all agents together, Pi's tool lists *)
(* and Codex's sandbox, next to the orders and promises of the prompts.    *)
(*                                                                         *)
(* A call is a path such as <<"task", kid>> or <<"bash", command, args>>;  *)
(* a rule is such a path too and covers the calls it is a prefix of.       *)
(***************************************************************************)
EXTENDS Integers, Sequences, SequencesExt, FiniteSets, FiniteSetsExt, TLC

CONSTANT Trees  \* the resolved variants: slot -> agent

Harnesses == {"opencode", "claude", "codex", "pi"}
Toggles  == {"read", "write", "edit", "mcp"}
Unset    == {"unset"}  \* tool_permissions is None

(* A kid's mode as its reference states it.                                *)
Modes == {"subagent", "primary", "unset"}

Fields == {"mode", "dual", "workflow", "todo", "workspace", "perms", "servers", "kids",
           "steps", "skills", "inline", "tools", "format", "overrides"}

-----------------------------------------------------------------------------
(* The tools of an agent, and the contract it has opted into for each.     *)

(* Where an agent has tools: <<0, i>> is an extra tool, <<k, i>> one of    *)
(* its k-th skill's steps; and the order they are looked through.          *)
Places(a) == {<<0, i>> : i \in DOMAIN a.tools}
             \cup UNION {{<<k, i>> : i \in DOMAIN a.skills[k].tools} : k \in DOMAIN a.skills}

ToolAt(a, p) == IF p[1] = 0 THEN a.tools[p[2]] ELSE a.skills[p[1]].tools[p[2]]

Earlier(p, q) == p[1] < q[1] \/ (p[1] = q[1] /\ p[2] < q[2])

ASSUME PermissionsAssumption ==
  \A t \in Trees : \A s \in DOMAIN t :
    LET a == t[s]
    IN  /\ DOMAIN a = Fields
        /\ a.perms = Unset \/ a.perms \subseteq Toggles
        /\ a.mode \in {"primary", "subagent"} /\ a.dual \in BOOLEAN
        /\ a.todo \in {"strict", "lazy", "none"}
        /\ a.format \in {"bash", "json", "both"}
        /\ \A k \in DOMAIN a.kids : a.kids[k] \in Modes
        /\ Len(a.tools) \in Nat /\ DOMAIN a.tools = 1..Len(a.tools)
        /\ Len(a.skills) \in Nat /\ DOMAIN a.skills = 1..Len(a.skills)
        /\ \A k \in DOMAIN a.skills : LET of == a.skills[k].tools
                                     IN  Len(of) \in Nat /\ DOMAIN of = 1..Len(of)
        /\ \A p \in Places(a) :
             LET tool == ToolAt(a, p)
             IN  /\ tool.name \notin {"bash", "skill", "mcp"}
                 /\ \A c \in tool.commands \cup tool.examples :
                      Len(c) \in Nat \ {0} /\ c[1] # "opencode_manager"

VARIABLES
  harness,
  rendered,   \* the variants of the pass
  unwritten,  \* the slots it has yet to write
  written,    \* file -> the variant rendered into it and what it enforces
  settings   \* Claude's settings.json, or NoPermission

permissions == <<harness, rendered, unwritten, written, settings>>

NoPermission  == [x \in {} |-> x]
Absent   == "absent"  \* a tool without a bash, or without a JSON contract
Allow(P) == [p \in P |-> "allow"]

Explicit(a) == a.perms # Unset
On(a)       == a.perms \cap Toggles

(* Of the tools with one name the first counts.                            *)
GatheredAt(a) ==
  {p \in Places(a) : \A q \in Places(a) : Earlier(q, p) => ToolAt(a, q).name # ToolAt(a, p).name}

Gathered(a) == {ToolAt(a, p) : p \in GatheredAt(a)}

SkillNames(a) == {a.skills[i].name : i \in DOMAIN a.skills}

(* The preferred contract if the tool carries it, else the one it has.     *)
Chosen(a, t) ==
  LET has == {f \in {"bash", "json"} : t[f] # Absent}
      preferred == IF t.name \in DOMAIN a.overrides THEN a.overrides[t.name] ELSE a.format
  IN  IF preferred = "both" THEN has
      ELSE IF preferred \in has THEN {preferred} ELSE has

(* The allowed commands; without any, each positive example.               *)
Patterns(t) == IF t.commands # {} THEN t.commands ELSE t.examples

ToolRules(a, t) ==
  LET bash == {r \in {<<"bash">> \o c : c \in Patterns(t)} : "bash" \in Chosen(a, t)}
      json == {r \in {<<t.name>>} : "json" \in Chosen(a, t)}
  IN  [r \in bash \cup json |-> IF r \in bash THEN t.bash ELSE t.json]

-----------------------------------------------------------------------------
(* OpenCode: the permission block, default deny, and the tool block.       *)

(* A reference that does not say its mode means a Task child.              *)
TaskTargets(a)      == {k \in DOMAIN a.kids : a.kids[k] # "primary"}
PrimarySubagents(a) == {k \in DOMAIN a.kids : a.kids[k] = "primary"}

Tracks(a) == a.workflow /\ a.todo # "none"

(* Subagents have subagent_todo.py for this.                               *)
TodoTools(a) == IF a.mode = "primary" /\ Tracks(a) THEN {"todoread", "todowrite"} ELSE {}

(* The servers an agent declares replace the mcp toggle.                   *)
ServerRules(a) ==
  UNION {IF a.servers[s] = {} THEN {<<"mcp", s>>} ELSE {<<"mcp", s, t>> : t \in a.servers[s]}
         : s \in DOMAIN a.servers}

ToggleKeys(a) == On(a) \ (IF a.servers = NoPermission THEN {} ELSE {"mcp"})

OwnRules(a) ==
  Allow({<<"skill", s>> : s \in SkillNames(a)}
        \cup {<<"task">> : k \in TaskTargets(a)}
        \cup {<<"bash", "opencode_manager">> : k \in PrimarySubagents(a)}
        \cup {<<k>> : k \in TodoTools(a) \cup ToggleKeys(a)}
        \cup ServerRules(a))

(* Later tools override earlier ones, and any of them the agent's own.     *)
RuledBy(a, r) == {p \in GatheredAt(a) : r \in DOMAIN ToolRules(a, ToolAt(a, p))}
LastOf(P)     == CHOOSE p \in P : \A q \in P : q = p \/ Earlier(q, p)

PermissionBlock(a) ==
  [r \in DOMAIN OwnRules(a) \cup UNION {DOMAIN ToolRules(a, t) : t \in Gathered(a)} |->
     IF RuledBy(a, r) = {} THEN OwnRules(a)[r]
     ELSE ToolRules(a, ToolAt(a, LastOf(RuledBy(a, r))))[r]]

(* The switches that are not False: a block with entries is switched on.   *)
Switches(a) == {p[1] : p \in DOMAIN PermissionBlock(a)}

(* What the runtime makes of the rules: the longest that covers the call.  *)
Rule(rules, call) ==
  LET covering == {i \in 1..Len(call) : SubSeq(call, 1, i) \in DOMAIN rules}
  IN  IF covering = {} THEN "deny" ELSE rules[SubSeq(call, 1, Max(covering))]

OpenCodeLets(f, call) == call[1] \in f.switches /\ Rule(f.rules, call) = "allow"

-----------------------------------------------------------------------------
(* Claude: one settings file for all agents.                               *)

FileToggles == {"read", "write", "edit"}

Capable(t, k) == \E s \in DOMAIN t : Explicit(t[s]) /\ k \in On(t[s])

(* A mutant: the settings deny what any explicit agent lacks.              *)
Denials_Any(t) ==
  {<<k>> : k \in {k \in FileToggles : \E s \in DOMAIN t : Explicit(t[s]) /\ k \notin On(t[s])}}
Denials(t) ==
  {<<k>> : k \in {k \in FileToggles : ~Capable(t, k) /\ \E s \in DOMAIN t : Explicit(t[s])}}

(* Commands are allowed whatever value and contract their tool states.     *)
Allowances(t) ==
  LET tools == UNION {Gathered(t[s]) : s \in DOMAIN t}
  IN  {<<"bash">> \o c : c \in UNION {Patterns(x) : x \in {x \in tools : x.bash # Absent}}}
      \cup {<<"skill", k>> : k \in UNION {SkillNames(t[s]) : s \in DOMAIN t}}
      \cup {<<k>> : k \in {k \in FileToggles : Capable(t, k)}}

-----------------------------------------------------------------------------
(* Pi: a list of tools and one of disallowed tools.  Codex: a sandbox.     *)

PiTool == [n \in {"read", "write", "edit", "bash", "grep", "find", "ls", "task"} |-> n]
          @@ ("todoread" :> "read") @@ ("todowrite" :> "write")

Disallowed(a) == IF Explicit(a) THEN FileToggles \ On(a) ELSE {}

(* A mutant: a tool may re-add what was denied.                            *)
PiTools_Readded(a) ==
  (IF Explicit(a) THEN {"bash"} \cup (On(a) \cap FileToggles) ELSE {"read", "bash"})
  \cup {PiTool[n] : n \in {t.name : t \in Gathered(a)} \cap DOMAIN PiTool}
  \cup {"task" : k \in DOMAIN a.kids}
PiTools(a) ==
  ((IF Explicit(a) THEN {"bash"} \cup (On(a) \cap FileToggles) ELSE {"read", "bash"})
   \cup {PiTool[n] : n \in {t.name : t \in Gathered(a)} \cap DOMAIN PiTool}
   \cup {"task" : k \in DOMAIN a.kids}) \ Disallowed(a)

Sandbox(a) ==
  IF Explicit(a) /\ On(a) \cap {"write", "edit"} = {} THEN "read-only" ELSE "workspace-write"

-----------------------------------------------------------------------------
(* What the prompts order, and what the security policy lists as allowed.  *)

(* Available Subagents: each with the tool to invoke it by.                *)
Delegations(a) ==
  {IF a.kids[k] = "primary" THEN <<"bash", "opencode_manager", k>> ELSE <<"task", k>>
   : k \in DOMAIN a.kids}

(* STEP 0, the marks of the steps and the final verification.              *)
Tracking(a) ==
  IF ~Tracks(a) THEN {}
  ELSE IF a.mode = "subagent" THEN {<<"bash", "subagent_todo">>}
  ELSE {<<"todowrite">>, <<"todoread">>}

(* A step names its subagents and always says: via the Task tool.          *)
StepOrders(a) == IF a.workflow THEN {<<"task", k>> : k \in a.steps} ELSE {}

WorkspaceOrders(a) ==
  IF a.workflow /\ a.workspace THEN {<<"bash", "workspace_io">>} ELSE {}

(* The commands of inline skills are printed whatever contract was chosen. *)
InlineOrders(a) ==
  IF ~(a.workflow /\ a.inline) THEN {}
  ELSE UNION {{<<"bash">> \o e : e \in t.examples}
              : t \in {t \in UNION {ToSet(a.skills[i].tools) : i \in DOMAIN a.skills}
                       : t.bash # Absent}}

Orders(a) == Delegations(a) \cup Tracking(a) \cup StepOrders(a)
             \cup WorkspaceOrders(a) \cup InlineOrders(a)

(* The ALLOWED list of the security policy.                                *)
Promises(a) ==
  IF ~(a.workflow \/ DOMAIN a.kids # {} \/ Explicit(a)) THEN {}
  ELSE (IF a.workspace THEN {<<"bash", "workspace_io">>} ELSE {<<k>> : k \in On(a) \cap {"write"}})
       \cup {<<k>> : k \in On(a) \cap {"read"}}
       \cup Delegations(a)
       \cup (IF a.inline THEN {} ELSE {<<"skill", s>> : s \in SkillNames(a)})

-----------------------------------------------------------------------------
(* One pass.                                                               *)

(* What one file enforces.                                                 *)
Rendered(a) ==
  CASE harness \in {"opencode", "claude"} ->
         [agent |-> a, rules |-> PermissionBlock(a), switches |-> Switches(a)]
    [] harness = "pi" ->
         [agent |-> a, tools |-> PiTools(a), disallowed |-> Disallowed(a)]
    [] harness = "codex" -> [agent |-> a, sandbox |-> Sandbox(a)]

(* The twin is the agent in primary mode.                                  *)
Primary(a) == [a EXCEPT !.mode = "primary"]

(* A mutant: the twin gets the permissions made for the subagent.          *)
Twin_Shared(a) == [Rendered(a) EXCEPT !.agent = Primary(a)]
Twin(a) == Rendered(Primary(a))

Twinned(a) == a.dual /\ a.mode # "primary"

PermissionsInit == /\ harness \in Harnesses /\ rendered \in Trees
        /\ unwritten = DOMAIN rendered /\ written = NoPermission /\ settings = NoPermission

RenderAgent(slot) ==
  /\ slot \in unwritten /\ unwritten' = unwritten \ {slot}
  /\ LET a   == rendered[slot]
         new == {<<slot, "own">>} \cup {w \in {<<slot, "twin">>} : Twinned(a)}
     IN  written' = [w \in DOMAIN written \cup new |->
                       CASE w = <<slot, "own">>  -> Rendered(a)
                         [] w = <<slot, "twin">> -> Twin(a)
                         [] OTHER                -> written[w]]
  /\ UNCHANGED <<harness, rendered, settings>>

WriteSettings ==
  /\ harness = "claude" /\ unwritten = {} /\ settings = NoPermission
  /\ settings' = [allow |-> Allowances(rendered), deny |-> Denials(rendered)]
  /\ UNCHANGED <<harness, rendered, unwritten, written>>

PermissionsNext == (\E slot \in unwritten : RenderAgent(slot)) \/ WriteSettings

PermissionsSpec == PermissionsInit /\ [][PermissionsNext]_permissions

-----------------------------------------------------------------------------
(* Properties.                                                             *)

(* What a runtime lets the agent of a file do.  Claude asks about what its *)
(* settings leave open.                                                    *)
Lets(f, call) ==
  CASE harness = "opencode" -> OpenCodeLets(f, call)
    [] harness = "claude" -> settings # NoPermission => <<call[1]>> \notin settings.deny
    [] harness = "pi" -> call[1] \in f.tools /\ call[1] \notin f.disallowed
    [] harness = "codex" -> call[1] \in {"write", "edit"} => f.sandbox = "workspace-write"

(* A tool that bears the name of a built-in one asks for it as well.       *)
Asks(a, k) == \/ k \in On(a)
              \/ \E t \in Gathered(a) : t.name = k /\ t.json # Absent

(* A tool that bears the name of a built-in one and is not allowed itself  *)
(* takes the built-in one away: the author's own word.                     *)
Withheld(a, k) == \E t \in Gathered(a) : t.name = k /\ t.json \notin {Absent, "allow"}

(* The bundled scripts the prompts call and no rule is made for.           *)
Unruled == {<<"bash", "subagent_todo">>, <<"bash", "workspace_io">>}

(* What the prompt of an OpenCode file tells its agent to call is let      *)
(* through by the blocks above it, unless a tool of its own withholds it:  *)
(* every delegation it lists, everything its policy allows, and the todo   *)
(* tools of a primary agent, twins included.  generate_permissions,        *)
(* render_subagent_section, render_security_policy and render_todo_step_0  *)
(* decide this independently of each other.                                *)
PromptIsDeliverable ==
  harness = "opencode" =>
    \A w \in DOMAIN written :
      LET a == written[w].agent
      IN  \A c \in (Delegations(a) \cup Tracking(a) \cup Promises(a)) \ Unruled :
            Lets(written[w], c) \/ Withheld(a, c[1])

(* A toggle an agent explicitly leaves off is opened in OpenCode only by a *)
(* tool that bears its name, in Claude's shared settings only when another *)
(* agent of the tree has it on, in Pi by nothing, not even by a tool that  *)
(* would add it again.  Codex has one sandbox for writing and editing, and *)
(* every sandbox reads: there an agent with neither on may not write.      *)
LeastPrivilege ==
  \A w \in DOMAIN written : \A k \in FileToggles :
    LET f == written[w]
        a == f.agent
    IN  Explicit(a) /\ k \notin On(a) =>
          CASE harness = "opencode" -> Lets(f, <<k>>) => Asks(a, k)
            [] harness = "claude" -> settings # NoPermission /\ <<k>> \in settings.allow =>
                                       \E s \in DOMAIN rendered : k \in On(rendered[s])
            [] harness = "pi" -> k \notin f.tools
            [] harness = "codex" ->
                 k = "read" \/ On(a) \cap {"write", "edit"} # {} \/ ~Lets(f, <<k>>)

(* What an agent was given it keeps, whatever its siblings were not given: *)
(* no dialect denies a toggle that is on, unless a tool of the agent's own *)
(* withholds it, and Claude's settings allow each command allowed by the   *)
(* frontmatter, which Claude does not read, but opencode_manager.          *)
NobodyLockedOut ==
  \A w \in DOMAIN written :
    LET f == written[w]
    IN  /\ \A k \in On(f.agent) \cap FileToggles : Lets(f, <<k>>) \/ Withheld(f.agent, k)
        /\ harness = "claude" /\ settings # NoPermission =>
             \A p \in DOMAIN f.rules :
               f.rules[p] = "allow" /\ p[1] = "bash" /\ p[2] # "opencode_manager" =>
                 p \in settings.allow
=============================================================================
