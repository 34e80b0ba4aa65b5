------------------------------ MODULE Registry ------------------------------
(***************************************************************************)
(* What a compile starts from: agents registered under ids made of their   *)
(* name and model, templates and configurations that refer to those ids,   *)
(* access profiles that inherit bindings, and agents whose parts take over *)
(* what has been promoted - read part by part, while another process may   *)
(* be promoting.                                                           *)
(***************************************************************************)
EXTENDS Naturals, Sequences, SequencesExt, FiniteSets, FiniteSetsExt

CONSTANTS
  Enrolments,  \* [name, preset, params, parts, improved]: what may be registered
  Templates,   \* [name, slots]: slots from names to references
  Setups,      \* [name, template, overrides, strict]: configurations
  Profiles,    \* [name, extends, bindings]: access profiles
  Needs,       \* [tools, covered]: tools to the resources they need, tools a mock covers
  Snapshots,   \* <<component, [text, structure]>>: what may be promoted
  Words(_),    \* a model or preset name as the words of an id: other characters become "_"
  NoName,
  MaxPromoted

ASSUME RegistryAssumption ==
  /\ MaxPromoted \in Nat
  /\ \A e \in Enrolments :
       /\ e.parts \in Seq({e.parts[k] : k \in DOMAIN e.parts})
       /\ \A k \in DOMAIN e.parts : DOMAIN e.parts[k] = {"kind", "component", "text", "structure"}

VARIABLES
  registry,    \* [agents, presets, templates, configs, promised]
  access,      \* registered profiles by name
  passed,      \* <<profile, needs>> that have been validated
  promotions,  \* component -> snapshot
  walk         \* the registration that is reading promotions

(* A dictionary with one entry set.                                        *)
Entry(dict, k, v) == [x \in DOMAIN dict \cup {k} |-> IF x = k THEN v ELSE dict[x]]

book == <<registry, access, passed, promotions, walk>>

Empty  == [agents |-> <<>>, presets |-> <<>>, templates |-> <<>>, configs |-> <<>>, promised |-> <<>>]
NoWalk == [at |-> 0, enrolment |-> NoName, parts |-> <<>>, start |-> <<>>, used |-> 0]

RegistryInit == registry = Empty /\ access = <<>> /\ passed = {} /\ promotions = <<>> /\ walk = NoWalk

---------------------------------------------------------------------------
(* Agents and presets.                                                     *)

ToParams(preset) == [model |-> preset.model, temperature |-> preset.temperature]
Params(e) == IF e.preset = NoName THEN e.params ELSE ToParams(e.preset)

(* name_model_ttemperature, the preset's name in place of the model.       *)
AgentId(e) ==
  e.name \o Words(IF e.preset = NoName THEN e.params.model ELSE e.preset.name) \o <<Params(e).temperature>>

Ids == {registry.agents[i].id : i \in DOMAIN registry.agents}
Of(id) == registry.agents[CHOOSE i \in DOMAIN registry.agents : registry.agents[i].id = id]

PresetTaken(preset) == preset.name \in DOMAIN registry.presets /\ registry.presets[preset.name] # preset

(* The preset is kept even if the id turns out to be taken.                *)
WithPreset(preset) ==
  IF preset = NoName \/ preset.name \in DOMAIN registry.presets THEN registry
  ELSE [registry EXCEPT !.presets = Entry(@, preset.name, preset)]

(* Mutant: a name that is taken with another configuration is not refused. *)
Refused_Never(e) == FALSE

Refused(e) == e.preset # NoName /\ PresetTaken(e.preset)

Entered(e, parts, start) ==
  IF Refused(e) THEN registry
  ELSE LET book_ == WithPreset(e.preset) IN
       IF AgentId(e) \in Ids THEN book_
       ELSE [book_ EXCEPT !.agents = Append(@, [
               id |-> AgentId(e), preset |-> IF e.preset = NoName THEN NoName ELSE e.preset.name,
               params |-> Params(e), parts |-> parts, enrolled |-> e,
               steady |-> {c \in DOMAIN start : promotions[c] = start[c]}])]

RegisterAgent ==
  /\ walk.at = 0
  /\ \E e \in Enrolments : ~e.improved /\ registry' = Entered(e, e.parts, <<>>)
  /\ UNCHANGED <<access, passed, promotions, walk>>

---------------------------------------------------------------------------
(* register_with_improvements: agent, skills and their tools, extra tools, *)
(* one promotion read at a time.                                           *)

BeginImproved ==
  /\ walk.at = 0
  /\ \E e \in Enrolments :
       e.improved /\ walk' = [walk EXCEPT !.at = 1, !.enrolment = e, !.parts = e.parts, !.start = promotions]
  /\ UNCHANGED <<registry, access, passed, promotions>>

(* Mutant: a promoted definition replaces the part. *)
MergedText_Whole(piece, snapshot) == [piece EXCEPT !.text = snapshot.text, !.structure = snapshot.structure]

(* Mutant: tools in a skill's examples are passed over. *)
MergedText_Steps(piece, snapshot) ==
  IF piece.kind = "example" THEN piece ELSE [piece EXCEPT !.text = snapshot.text]

(* Of a promotion only the text is taken; the structure stays.             *)
MergedText(piece, snapshot) == [piece EXCEPT !.text = snapshot.text]

HasPromotion(component) == component \in DOMAIN promotions

ApplyPromoted ==
  /\ walk.at \in DOMAIN walk.parts
  /\ LET piece == walk.parts[walk.at] IN
     walk' = [walk EXCEPT !.at = @ + 1,
                !.parts = IF ~HasPromotion(piece.component) THEN @
                          ELSE [@ EXCEPT ![walk.at] = MergedText(piece, promotions[piece.component])]]
  /\ UNCHANGED <<registry, access, passed, promotions>>

EndImproved ==
  /\ walk.at > 0 /\ walk.at = Len(walk.parts) + 1
  /\ registry' = Entered(walk.enrolment, walk.parts, walk.start)
  /\ walk' = [NoWalk EXCEPT !.used = walk.used]
  /\ UNCHANGED <<access, passed, promotions>>

PromoteSnapshot ==
  /\ walk.used < MaxPromoted
  /\ \E s \in Snapshots : promotions' = Entry(promotions, s[1], s[2])
  /\ walk' = [walk EXCEPT !.used = @ + 1]
  /\ UNCHANGED <<registry, access, passed>>

---------------------------------------------------------------------------
(* Templates and configurations.                                           *)

Matching(prefix) == {i \in DOMAIN registry.agents : IsPrefix(prefix, registry.agents[i].id)}

(* Mutant: the last agent that matches. *)
Match_Last(matching) == Max(matching)

(* A wildcard takes the first agent that was registered.                   *)
Match(matching) == Min(matching)

Reference(setup, s) ==
  IF s \in DOMAIN setup.overrides THEN setup.overrides[s] ELSE registry.templates[setup.template][s]

(* A reference [wild, of] is an id or a pattern of ids.                    *)
Finds(ref) == IF ref.wild THEN Matching(ref.of) # {} ELSE ref.of \in Ids
Found(ref) == IF ref.wild THEN registry.agents[Match(Matching(ref.of))].id ELSE ref.of

Mode(slot) == IF slot = "primary" THEN "primary" ELSE "subagent"

(* What is validated of a strict configuration.                            *)
Resolves(setup) ==
  /\ setup.template \in DOMAIN registry.templates
  /\ \A s \in DOMAIN registry.templates[setup.template] : Finds(Reference(setup, s))

(* Every slot with its agent.                                              *)
Resolution(setup) ==
  [s \in DOMAIN registry.templates[setup.template] |->
     [agent |-> Of(Found(Reference(setup, s))), mode |-> Mode(s)]]

RegisterTemplate ==
  /\ \E t \in Templates :
       /\ t.name \notin DOMAIN registry.templates
       /\ registry' = [registry EXCEPT !.templates = Entry(@, t.name, t.slots)]
  /\ UNCHANGED <<access, passed, promotions, walk>>

CreateConfig ==
  /\ \E c \in Setups :
       /\ c.name \notin DOMAIN registry.configs
       /\ c.strict => Resolves(c)
       /\ registry' = [registry EXCEPT !.configs = Entry(@, c.name, c),
                        !.promised = Entry(@, c.name, IF c.strict THEN Resolution(c) ELSE <<>>)]
  /\ UNCHANGED <<access, passed, promotions, walk>>

---------------------------------------------------------------------------
(* Access profiles.                                                        *)

(* Mutant: a profile is replaced. *)
Enters_Again(p) == p.extends = NoName \/ p.extends \in DOMAIN access

Enters(p) == p.name \notin DOMAIN access /\ (p.extends = NoName \/ p.extends \in DOMAIN access)

RegisterProfile ==
  /\ \E p \in Profiles : Enters(p) /\ access' = Entry(access, p.name, p)
  /\ UNCHANGED <<registry, passed, promotions, walk>>

(* A profile and those it extends, directly or not.                        *)
Chain(n) ==
  {m \in DOMAIN access : \A S \in SUBSET DOMAIN access :
     n \in S /\ (\A x \in S : access[x].extends \in S \cup {NoName}) => m \in S}

(* Of those that bind a resource the nearest: the one that extends the     *)
(* others.  NoName for none.                                               *)
Binding(n, resource) ==
  LET binding == {m \in Chain(n) : resource \in DOMAIN access[m].bindings}
      nearest == CHOOSE m \in {x \in binding : binding \subseteq Chain(x)} : TRUE
  IN  IF binding = {} THEN NoName ELSE access[nearest].bindings[resource]

Validated(n, needs) ==
  \A tool \in DOMAIN needs.tools : \A resource \in needs.tools[tool] :
    LET b == Binding(n, resource) IN b # NoName /\ (b.mockOnly => tool \in needs.covered)

ValidateAccess ==
  /\ \E n \in DOMAIN access, needs \in Needs :
       Validated(n, needs) /\ passed' = passed \cup {<<n, needs>>}
  /\ UNCHANGED <<registry, access, promotions, walk>>

RegistryNext ==
  \/ RegisterAgent \/ BeginImproved \/ ApplyPromoted \/ EndImproved \/ PromoteSnapshot
  \/ RegisterTemplate \/ CreateConfig

AccessNext == RegisterProfile \/ ValidateAccess

RegistrySpec == RegistryInit /\ [][RegistryNext \/ AccessNext]_book

---------------------------------------------------------------------------
(* Properties. *)

(* What was checked when it was created goes on to mean the same, whatever  *)
(* is registered after it: a strict configuration resolves to the agents it *)
(* resolved to, wildcards included, and a profile satisfies the tools it    *)
(* was validated for.                                                       *)
CheckedOnce ==
  /\ \A n \in DOMAIN registry.configs :
       registry.configs[n].strict =>
         Resolves(registry.configs[n]) /\ Resolution(registry.configs[n]) = registry.promised[n]
  /\ \A v \in passed : Validated(v[1], v[2])

(* An agent runs on the model its preset names, also when two presets share *)
(* a model, a preset is offered twice, or an earlier registration failed.   *)
PresetsKept ==
  \A i \in DOMAIN registry.agents :
    LET a == registry.agents[i] IN
    /\ \A j \in DOMAIN registry.agents : registry.agents[j].id = a.id => j = i
    /\ a.preset # NoName => ToParams(registry.presets[a.preset]) = a.params

(* An improved agent keeps its structure, and a promotion that stood while  *)
(* the agent was registered is in every place that refers to its component. *)
ImprovedEverywhere ==
  \A i \in DOMAIN registry.agents :
    LET a == registry.agents[i] IN
    \A k \in DOMAIN a.parts :
      /\ a.parts[k].structure = a.enrolled.parts[k].structure
      /\ a.enrolled.improved /\ a.parts[k].component \in a.steady =>
           a.parts[k].text \in {s[2].text : s \in {x \in Snapshots : x[1] = a.parts[k].component}}

RegistryHolds == CheckedOnce /\ PresetsKept /\ ImprovedEverywhere
=============================================================================
