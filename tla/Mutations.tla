----------------------------- MODULE Mutations -----------------------------
(***************************************************************************)
(* One component while a loop evolves it: its definition, the versions     *)
(* mutators make of it, the version that is promoted, and what a compile   *)
(* then merges back into the definition the source declares                *)
(* (improvement/mutators, prompt_sections, version, snapshot).             *)
(*                                                                         *)
(* A prompt is the sequence of its pieces, a content hash the definition   *)
(* itself.  A section's piece is its text; frozen is mutable=False.        *)
(***************************************************************************)
EXTENDS Arrangement, Sequences, SequencesExt

CONSTANTS
  Sources,     \* what the source may define
  Rewrites,    \* texts an LLM may answer with
  NewStep,     \* the step a structural mutator proposes
  Tool,        \* the tool that is attached, enabled, disabled and moved
  MaxTemperature,
  MaxMutations, MaxSourceEdits

Empty == "empty"      \* an answer without text

Section(name, text, frozen) == [name |-> name, text |-> text, frozen |-> frozen]

VARIABLES
  declared,    \* the definition in the source
  versions,    \* the registry: [definition, parent, author], oldest first
  promoted,    \* the promoted definition, or {}
  mutated, sourceEdits

mutations == <<declared, versions, promoted, mutated, sourceEdits>>

---------------------------------------------------------------------------
(* Prompt sections. *)

(* split_into_sections gives every section its place as its order.         *)
Rendered(sections) ==
  Sublist([i \in DOMAIN sections |-> sections[i].text], {i \in DOMAIN sections : sections[i].text # Empty})

Derived(d) == IF d.sections = <<>> THEN d ELSE [d EXCEPT !.prompt = Rendered(d.sections)]

Fields   == {"prompt", "sections", "steps", "enabled", "extra", "format", "temperature", "subagents"}
Sections == [name : STRING, text : STRING, frozen : BOOLEAN]
Steps    == [id : Nat, name : STRING, uses : Seq(STRING), goto : Nat]

(* Sections are those of split_into_sections, which drops empty ones, and  *)
(* steps are numbered.  Nothing renders a source's prompt from its         *)
(* sections: it may be any text.                                           *)
WellShaped(d) ==
  /\ DOMAIN d = Fields
  /\ d.sections \in Seq(Sections) /\ \A i \in DOMAIN d.sections : d.sections[i].text # Empty
  /\ d.steps \in Seq(Steps) /\ \A i \in DOMAIN d.steps : d.steps[i].id = i

ASSUME MutationsAssumption ==
  /\ {MaxTemperature, MaxMutations, MaxSourceEdits} \subseteq Nat
  /\ Rewrites \subseteq STRING /\ NewStep \in Steps
  /\ \A d \in Sources : WellShaped(d)

---------------------------------------------------------------------------
(* Mutators: the definitions each may make of one, none where it answers   *)
(* None.  An exception of the LLM, an empty and an unchanged answer all    *)
(* mean none.                                                              *)

PromptPrefix(d) == IF Contains(d.prompt, "prefix") THEN {} ELSE {[d EXCEPT !.prompt = <<"prefix">> \o @]}
PromptSuffix(d) == IF Contains(d.prompt, "suffix") THEN {} ELSE {[d EXCEPT !.prompt = Append(@, "suffix")]}

(* An LLM asked to rewrite a text: its answer may be empty, and a teacher  *)
(* that fails or says nothing answers with what it was given.              *)
Completed(target) == {<<r>> : r \in Rewrites}
Taught(target)    == {IF p = <<Empty>> THEN target ELSE p : p \in Completed(target)}

LLMPrompt(d) ==
  IF d.prompt = <<>> THEN {}
  ELSE {[d EXCEPT !.prompt = p] : p \in (Completed(d.prompt) \cup Taught(d.prompt)) \ {d.prompt, <<Empty>>}}

(* The rewriter driven by the distance to a teacher's answer.              *)
TeacherPrompt(d, gap) == IF gap = "closed" THEN {} ELSE LLMPrompt(d)

Identity(d) == {d}

(* Mutant: frozen sections are rewritten too. *)
Mutable_Any(s) == s.text # Empty

Mutable(s) == ~s.frozen /\ s.text # Empty

(* One section; its piece of the prompt is rendered again with the others. *)
SectionRewrite(d) ==
  UNION {{Derived([d EXCEPT !.sections[i].text = t]) : t \in Rewrites \ {Empty, d.sections[i].text}} :
           i \in {i \in DOMAIN d.sections : Mutable(d.sections[i])}}

ClampedTo(t)   == IF t > MaxTemperature THEN MaxTemperature ELSE t
Warmer(d)      == {[d EXCEPT !.temperature = t] : t \in {ClampedTo(d.temperature + 1)} \ {d.temperature}}
Scaled(d)      == {[d EXCEPT !.temperature = t] : t \in {ClampedTo(2 * d.temperature)} \ {d.temperature}}
Formats        == <<"bash", "json", "both">>
SetFormat(d)   == {[d EXCEPT !.format = f] : f \in {"json"} \ {d.format}}
Rotated(d)     == {[d EXCEPT !.format = Formats[(SelectInSeq(Formats, LAMBDA f : f = d.format) % 3) + 1]]}

(* Mutant: the ids stay as they were. *)
Renumbered_Kept(steps) == steps

Renumbered(steps) == [i \in DOMAIN steps |-> [steps[i] EXCEPT !.id = i]]

WithSteps(d, steps) == [d EXCEPT !.steps = Renumbered(steps)]
Named(d, name)      == {i \in DOMAIN d.steps : d.steps[i].name = name}

StepAppend(d) ==
  IF Named(d, NewStep.name) # {} THEN {}
  ELSE {WithSteps(d, InsertAt(d.steps, i, NewStep)) : i \in {1, Len(d.steps) + 1}}

StepRemove(d) ==
  {WithSteps(d, Sublist(d.steps, DOMAIN d.steps \ Named(d, name))) : name \in {s.name : s \in ToSet(d.steps)}}

(* LLMWorkflowEditor: a non-empty list of named steps, here what was there  *)
(* in another order, in part, or twice.                                    *)
Edited(d) ==
  LET n == Len(d.steps)
  IN  {Reverse(d.steps)} \cup {SubSeq(d.steps, 1, n - 1)} \cup {d.steps \o <<NewStep>>}

WorkflowEdit(d) ==
  {WithSteps(d, steps) : steps \in {e \in Edited(d) : d.steps # <<>> /\ e # <<>> /\ Renumbered(e) # Renumbered(d.steps)}}

Uses(step) == Contains(step.uses, Tool)

ToolAttach(d) == {[d EXCEPT !.extra = @ \cup {Tool}] : x \in {Tool} \ d.extra}
ToolDetach(d) == {[d EXCEPT !.extra = @ \ {Tool}] : x \in {Tool} \cap d.extra}
ToolEnable(d) == {[d EXCEPT !.enabled = @ \cup {Tool}] : x \in {Tool} \ d.enabled}

(* Mutant: the steps keep what is disabled. *)
Pruned_Not(d) == d.steps

Without(uses) == Sublist(uses, {k \in DOMAIN uses : uses[k] # Tool})
Pruned(d) == [i \in DOMAIN d.steps |-> [d.steps[i] EXCEPT !.uses = Without(@)]]

ToolDisable(d) ==
  {[d EXCEPT !.enabled = @ \ {Tool}, !.extra = @ \ {Tool}, !.steps = Pruned(d)]} \ {d}

Swapped(s, i, j) == [s EXCEPT ![i] = s[j], ![j] = s[i]]
FirstUse(d)      == SelectInSeq(d.steps, Uses)

MoveStep(d) ==
  LET i == FirstUse(d)
  IN  {WithSteps(d, Swapped(d.steps, i, j)) : j \in {k \in {i - 1, i + 1} : i # 0 /\ k \in DOMAIN d.steps}}

MoveWithinStep(d) ==
  LET i == FirstUse(d)
      uses == d.steps[i].uses
      p == SelectInSeq(uses, LAMBDA t : t = Tool)
  IN  IF i = 0 THEN {}
      ELSE {[d EXCEPT !.steps[i].uses = Swapped(uses, p, j)] : j \in {k \in {p - 1, p + 1} : k \in DOMAIN uses}}

(* The improvement agent's patch: its temperature is not clamped, and what  *)
(* it calls a tool description or "other" is none.                         *)
Patch(d) ==
  {[d EXCEPT !.prompt = <<t>>] : t \in Rewrites \ {Empty}}
  \cup {[d EXCEPT !.temperature = MaxTemperature + 1]}
  \cup {[d EXCEPT !.subagents = @ \cup {"new"}] : x \in {"new"} \ d.subagents}

Proposals(d) ==
  ({"flat"} \X (PromptPrefix(d) \cup PromptSuffix(d) \cup LLMPrompt(d)
                \cup UNION {TeacherPrompt(d, gap) : gap \in {"open", "closed"}}))
  \cup ({"section"} \X SectionRewrite(d))
  \cup ({"knob"} \X (Warmer(d) \cup Scaled(d) \cup SetFormat(d) \cup Rotated(d)))
  \cup ({"shape"} \X (StepAppend(d) \cup StepRemove(d) \cup WorkflowEdit(d) \cup MoveStep(d) \cup MoveWithinStep(d)))
  \cup ({"tool"} \X (ToolAttach(d) \cup ToolDetach(d) \cup ToolEnable(d)))
  \cup ({"disable"} \X ToolDisable(d))
  \cup ({"patch"} \X Patch(d))
  \cup ({"identity"} \X Identity(d))

---------------------------------------------------------------------------
(* Promotion and compile: apply_promoted_to_agent merges the prompt and its *)
(* sections, everything else is the source's.  With nothing promoted a      *)
(* compile takes the source's prompt as it is, whatever its sections say.   *)

Merged(d, p) == [d EXCEPT !.prompt = p.prompt, !.sections = p.sections]

Compiled == IF promoted = {} THEN declared ELSE Derived(Merged(declared, CHOOSE p \in promoted : TRUE))

---------------------------------------------------------------------------
MutationsInit ==
  /\ declared \in Sources /\ versions = <<>> /\ promoted = {} /\ mutated = 0 /\ sourceEdits = 0

Known == {v.definition : v \in ToSet(versions)}

(* A loop starts from the source, or from what a compile would make of it. *)
StartLoop ==
  /\ versions = <<>>
  /\ \E d \in {declared, Compiled} : versions' = <<[definition |-> d, parent |-> 0, author |-> "human"]>>
  /\ UNCHANGED <<declared, promoted, mutated, sourceEdits>>

(* register refuses a definition it has, whoever its parent is.            *)
Mutate ==
  /\ versions # <<>> /\ mutated < MaxMutations /\ mutated' = mutated + 1
  /\ \E i \in DOMAIN versions : \E p \in Proposals(versions[i].definition) :
       /\ p[2] \notin Known
       /\ versions' = Append(versions, [definition |-> p[2], parent |-> i, author |-> p[1]])
  /\ UNCHANGED <<declared, promoted, sourceEdits>>

Promote ==
  /\ \E d \in Known : promoted' = {d}
  /\ versions' = <<>>
  /\ UNCHANGED <<declared, mutated, sourceEdits>>

EditSource ==
  /\ versions = <<>> /\ sourceEdits < MaxSourceEdits /\ sourceEdits' = sourceEdits + 1
  /\ declared' \in Sources \ {declared}
  /\ UNCHANGED <<versions, promoted, mutated>>

MutationsNext == StartLoop \/ Mutate \/ Promote \/ EditSource

---------------------------------------------------------------------------
(* Properties. *)

Frozen(d)   == [i \in {i \in DOMAIN d.sections : d.sections[i].frozen} |-> d.sections[i]]
Outline(d)  == [i \in DOMAIN d.sections |-> d.sections[i].name]
Pieces(s)   == {s[i].text : i \in DOMAIN s}

(* No sequence of mutators changes a frozen section, drops or empties one,  *)
(* or changes their order.  Once a version is promoted the prompt that is   *)
(* compiled holds the frozen sections verbatim, even if that version's own  *)
(* prompt was rewritten as a whole; with nothing promoted it does where the *)
(* source's author rendered the prompt from the sections.  After the source *)
(* was edited they may be those of an earlier one.                          *)
FrozenSurvive ==
  LET fine(d) == \E r \in Sources :
                   /\ Frozen(d) = Frozen(r) /\ Outline(d) = Outline(r)
                   /\ \A s \in ToSet(d.sections) : s.text # Empty
  IN  /\ \A v \in ToSet(versions) : fine(v.definition)
      /\ fine(Compiled)
      /\ promoted # {} \/ declared = Derived(declared) =>
           Pieces(Frozen(Compiled)) \subseteq ToSet(Compiled.prompt)
      /\ sourceEdits = 0 => Frozen(Compiled) = Frozen(declared)

(* In every version the steps are numbered 1..N; a version that disabled    *)
(* the tool neither offers nor uses it; and one that was made by rewriting  *)
(* a section differs from its parent in that section's piece only.         *)
ShapeSound ==
  \A v \in ToSet(versions) :
    LET d == v.definition IN
    /\ \A i \in DOMAIN d.steps : d.steps[i].id = i
    /\ v.author = "disable" =>
         Tool \notin d.enabled \cup d.extra /\ \A s \in ToSet(d.steps) : ~Uses(s)
    /\ v.author = "section" =>
         /\ d.prompt = Rendered(d.sections)
         /\ Cardinality({i \in DOMAIN d.sections : d.sections[i] # versions[v.parent].definition.sections[i]}) = 1

(* Both, of every version that was ever registered.                         *)
EditsSound == FrozenSurvive /\ ShapeSound
=============================================================================
