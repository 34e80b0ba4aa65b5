---------------------------- MODULE Build_proofs ----------------------------
(***************************************************************************)
(* What a build promises, for every registry, agent tree and dialect: what *)
(* is registered stays what it was checked to be; an agent is told to do   *)
(* exactly what its permissions let it do; a clean build leaves in the     *)
(* target nothing of an earlier run; and what is built for one client, by  *)
(* however many processes, is what that client asked for.                  *)
(***************************************************************************)
EXTENDS Arrangement_proofs, Personalize, FiniteSetTheorems, Compile, Permissions, Registry, SequenceTheorems, WellFoundedInduction, TLAPS

(* Registry.                                                               *)
(* A sequence of its own elements.                                         *)
IsList(s) == s \in Seq({s[k] : k \in DOMAIN s})

LEMMA ListHas == ASSUME NEW s, IsList(s) PROVE Len(s) \in Nat /\ DOMAIN s = 1..Len(s)
BY DEF IsList

LEMMA ListOf ==
  ASSUME NEW S, NEW s \in Seq(S) PROVE IsList(s)
<1>1. Len(s) \in Nat /\ DOMAIN s = 1..Len(s) /\ s = [k \in 1..Len(s) |-> s[k]]
  BY LenProperties
<1>2. s \in [1..Len(s) -> {s[k] : k \in DOMAIN s}]
  BY <1>1
<1> QED BY <1>1, <1>2, IsASeq DEF IsList

LEMMA ListAppend ==
  ASSUME NEW s, IsList(s), NEW x
  PROVE  /\ IsList(Append(s, x)) /\ Len(Append(s, x)) = Len(s) + 1
         /\ Append(s, x)[Len(s) + 1] = x /\ \A k \in 1..Len(s) : Append(s, x)[k] = s[k]
<1> DEFINE S == {s[k] : k \in DOMAIN s} \cup {x}
<1>1. s \in Seq(S)
  BY SeqMonotonic DEF IsList
<1> HIDE DEF S
<1>2. /\ Append(s, x) \in Seq(S) /\ Len(Append(s, x)) = Len(s) + 1
      /\ Append(s, x)[Len(s) + 1] = x /\ \A k \in 1..Len(s) : Append(s, x)[k] = s[k]
  <2>1. x \in S
    BY DEF S
  <2> QED BY <1>1, <2>1, AppendProperties
<1> QED BY <1>2, ListOf

LEMMA ListExcept ==
  ASSUME NEW s, IsList(s), NEW i \in DOMAIN s, NEW x
  PROVE  /\ IsList([s EXCEPT ![i] = x]) /\ Len([s EXCEPT ![i] = x]) = Len(s)
         /\ [s EXCEPT ![i] = x][i] = x /\ \A k \in DOMAIN s : k # i => [s EXCEPT ![i] = x][k] = s[k]
<1> DEFINE S == {s[k] : k \in DOMAIN s} \cup {x}
<1>1. s \in Seq(S)
  BY SeqMonotonic DEF IsList
<1> HIDE DEF S
<1>2. x \in S /\ i \in 1..Len(s)
  BY ListHas DEF S
<1>3. /\ [s EXCEPT ![i] = x] \in Seq(S) /\ Len([s EXCEPT ![i] = x]) = Len(s)
  BY <1>1, <1>2, ExceptSeq
<1>4. [s EXCEPT ![i] = x][i] = x /\ \A k \in DOMAIN s : k # i => [s EXCEPT ![i] = x][k] = s[k]
  BY <1>1
<1> QED BY <1>3, <1>4, ListOf

-----------------------------------------------------------------------------
(* The inductive invariant.                                                *)
BookFields == {"agents", "presets", "templates", "configs", "promised"}

BookShaped == DOMAIN registry = BookFields /\ IsList(registry.agents)

IdsOnce == \A i, j \in DOMAIN registry.agents : registry.agents[i].id = registry.agents[j].id => i = j

PresetsKnown ==
  \A i \in DOMAIN registry.agents :
    LET a == registry.agents[i]
    IN  a.preset # NoName => /\ a.preset \in DOMAIN registry.presets
                             /\ ToParams(registry.presets[a.preset]) = a.params

ConfigsHold ==
  /\ DOMAIN registry.promised = DOMAIN registry.configs
  /\ \A n \in DOMAIN registry.configs :
       registry.configs[n].strict =>
         Resolves(registry.configs[n]) /\ Resolution(registry.configs[n]) = registry.promised[n]

ProfilesHold ==
  /\ \A m \in DOMAIN access : access[m].extends \in DOMAIN access \cup {NoName}
  /\ \A v \in passed : v[1] \in DOMAIN access /\ Validated(v[1], v[2])

TextsOf(c) == {s[2].text : s \in {x \in Snapshots : x[1] = c}}

PromotionsKnown == \A c \in DOMAIN promotions : \E s \in Snapshots : s[1] = c /\ s[2] = promotions[c]

WalkHolds ==
  /\ DOMAIN walk = {"at", "enrolment", "parts", "start", "used"} /\ walk.at \in Nat /\ IsList(walk.parts)
  /\ walk.at > 0 =>
       /\ walk.enrolment \in Enrolments
       /\ Len(walk.parts) = Len(walk.enrolment.parts)
       /\ DOMAIN walk.start \subseteq DOMAIN promotions
       /\ \A k \in DOMAIN walk.parts :
            /\ DOMAIN walk.parts[k] = {"kind", "component", "text", "structure"}
            /\ walk.parts[k].structure = walk.enrolment.parts[k].structure
            /\ k < walk.at /\ walk.parts[k].component \in DOMAIN walk.start =>
                 walk.parts[k].text \in TextsOf(walk.parts[k].component)

RegInv == /\ BookShaped /\ IdsOnce /\ PresetsKnown /\ ConfigsHold
          /\ ProfilesHold /\ PromotionsKnown /\ WalkHolds /\ ImprovedEverywhere

LEMMA RegInitially == RegistryInit => RegInv
<1> SUFFICES ASSUME RegistryInit PROVE RegInv
  OBVIOUS
<1>1. /\ registry = Empty /\ access = <<>> /\ passed = {} /\ promotions = <<>> /\ walk = NoWalk
  BY DEF RegistryInit
<1>2. DOMAIN registry = BookFields /\ registry.agents = <<>> /\ registry.configs = <<>> /\ registry.promised = <<>>
  BY <1>1 DEF Empty, BookFields
<1>3. DOMAIN <<>> = {} /\ IsList(<<>>)
  <2>1. DOMAIN <<>> = {} /\ <<>> \in Seq({})
    OBVIOUS
  <2> QED BY <2>1, ListOf
<1>4. WalkHolds
  BY <1>1, <1>3 DEF NoWalk, WalkHolds
<1>5. BookShaped /\ IdsOnce /\ PresetsKnown /\ ConfigsHold /\ ImprovedEverywhere
  BY <1>2, <1>3 DEF BookShaped, IdsOnce, PresetsKnown, ConfigsHold, ImprovedEverywhere
<1>6. ProfilesHold /\ PromotionsKnown
  BY <1>1, <1>3 DEF ProfilesHold, PromotionsKnown
<1> QED BY <1>4, <1>5, <1>6 DEF RegInv
-----------------------------------------------------------------------------
(* Configurations: what a reference finds is still found when agents have  *)
(* been added.                                                             *)
AgentsGrow ==
  /\ IsList(registry.agents) /\ IsList(registry'.agents) /\ Len(registry.agents) <= Len(registry'.agents)
  /\ \A k \in DOMAIN registry.agents : registry'.agents[k] = registry.agents[k]

TemplatesGrow ==
  \A t \in DOMAIN registry.templates :
    t \in DOMAIN registry'.templates /\ registry'.templates[t] = registry.templates[t]

LEMMA IndexesGrow ==
  ASSUME AgentsGrow
  PROVE  /\ DOMAIN registry.agents \subseteq DOMAIN registry'.agents
         /\ DOMAIN registry.agents \subseteq Nat /\ DOMAIN registry'.agents \subseteq Nat
         /\ \A k \in DOMAIN registry'.agents, m \in DOMAIN registry.agents :
              k <= m => k \in DOMAIN registry.agents
<1>1. Len(registry.agents) \in Nat /\ DOMAIN registry.agents = 1..Len(registry.agents)
  BY ListHas DEF AgentsGrow
<1>2. Len(registry'.agents) \in Nat /\ DOMAIN registry'.agents = 1..Len(registry'.agents)
  BY ListHas DEF AgentsGrow
<1> QED BY <1>1, <1>2 DEF AgentsGrow

LEMMA FirstStays ==
  ASSUME AgentsGrow, NEW p, Matching(p) # {}
  PROVE  Matching(p)' # {} /\ Min(Matching(p))' = Min(Matching(p)) /\ Min(Matching(p)) \in DOMAIN registry.agents
<1> DEFINE M == Matching(p)
           N == Matching(p)'
<1>1. M \subseteq N /\ M \subseteq DOMAIN registry.agents /\ M \subseteq Nat /\ N \subseteq Nat
  BY IndexesGrow DEF Matching, AgentsGrow
<1>2. \A k \in N, m \in M : k <= m => k \in M
  BY IndexesGrow DEF Matching, AgentsGrow
<1>3. M # {}
  OBVIOUS
<1> HIDE DEF M, N
<1>4. Min(M) \in M /\ \A y \in M : Min(M) <= y
  BY <1>1, <1>3, LeastIn
<1>5. Min(N) \in N /\ \A y \in N : Min(N) <= y
  BY <1>1, <1>3, LeastIn
<1>6. Min(N) <= Min(M)
  BY <1>1, <1>4, <1>5
<1>7. Min(N) \in M
  BY <1>2, <1>4, <1>5, <1>6
<1>8. Min(M) <= Min(N)
  BY <1>4, <1>7
<1>9. Min(N) = Min(M)
  <2>1. Min(M) \in Nat /\ Min(N) \in Nat
    BY <1>1, <1>4, <1>5
  <2> QED BY <2>1, <1>6, <1>8
<1>10. N # {} /\ Min(M) \in DOMAIN registry.agents
  BY <1>1, <1>4
<1>11. Min(Matching(p)') = Min(Matching(p))
  BY <1>9 DEF M, N
<1> QED BY <1>10, <1>11 DEF M, N, Min

LEMMA FindsStays ==
  ASSUME AgentsGrow, IdsOnce', NEW ref, Finds(ref)
  PROVE  Finds(ref)' /\ Of(Found(ref))' = Of(Found(ref))
<1>1. IdsOnce
  BY IndexesGrow DEF IdsOnce, AgentsGrow
<1>2. PICK k \in DOMAIN registry.agents :
        registry.agents[k].id = Found(ref) /\ registry'.agents[k].id = Found(ref)' /\ Finds(ref)'
  <2>1. CASE ref.wild
    <3>1. Matching(ref.of) # {} /\ Found(ref) = registry.agents[Min(Matching(ref.of))].id
      BY <2>1 DEF Finds, Found, Match
    <3>2. Matching(ref.of)' # {} /\ Min(Matching(ref.of))' = Min(Matching(ref.of))
          /\ Min(Matching(ref.of)) \in DOMAIN registry.agents
      BY <3>1, FirstStays
    <3>3. PICK m \in DOMAIN registry.agents : m = Min(Matching(ref.of))
      BY <3>2
    <3>4. Found(ref)' = registry'.agents[m].id
      BY <2>1, <3>2, <3>3 DEF Found, Match
    <3> QED BY <2>1, <3>1, <3>2, <3>3, <3>4 DEF Finds
  <2>2. CASE ~ref.wild
    <3>1. Found(ref) = ref.of /\ Found(ref)' = ref.of /\ ref.of \in Ids
      BY <2>2 DEF Finds, Found
    <3>2. PICK m \in DOMAIN registry.agents : registry.agents[m].id = ref.of
      BY <3>1 DEF Ids
    <3>3. m \in DOMAIN registry'.agents /\ registry'.agents[m].id = ref.of
      BY <3>2, IndexesGrow DEF AgentsGrow
    <3>4. ref.of \in Ids'
      BY <3>3 DEF Ids
    <3> QED BY <2>2, <3>1, <3>2, <3>3, <3>4 DEF Finds
  <2> QED BY <2>1, <2>2
<1>3. k \in DOMAIN registry'.agents /\ registry'.agents[k] = registry.agents[k]
  BY IndexesGrow DEF AgentsGrow
<1>4. Of(Found(ref)) = registry.agents[k]
  <2> DEFINE j == CHOOSE i \in DOMAIN registry.agents : registry.agents[i].id = Found(ref)
  <2>1. j \in DOMAIN registry.agents /\ registry.agents[j].id = Found(ref)
    BY <1>2
  <2>2. Of(Found(ref)) = registry.agents[j]
    BY DEF Of
  <2> HIDE DEF j
  <2> QED BY <1>1, <1>2, <2>1, <2>2 DEF IdsOnce
<1>5. Of(Found(ref))' = registry'.agents[k]
  <2> DEFINE j == CHOOSE i \in DOMAIN registry'.agents : registry'.agents[i].id = Found(ref)'
  <2>1. j \in DOMAIN registry'.agents /\ registry'.agents[j].id = Found(ref)'
    BY <1>2, <1>3
  <2>2. Of(Found(ref))' = registry'.agents[j]
    BY DEF Of
  <2> HIDE DEF j
  <2> QED BY <1>2, <1>3, <2>1, <2>2 DEF IdsOnce
<1> QED BY <1>2, <1>3, <1>4, <1>5

LEMMA ResolutionStays ==
  ASSUME AgentsGrow, TemplatesGrow, IdsOnce', NEW c, Resolves(c)
  PROVE  Resolves(c)' /\ Resolution(c)' = Resolution(c)
<1>1. /\ c.template \in DOMAIN registry.templates /\ c.template \in DOMAIN registry'.templates
      /\ registry'.templates[c.template] = registry.templates[c.template]
  BY DEF Resolves, TemplatesGrow
<1>2. ASSUME NEW s \in DOMAIN registry.templates[c.template]
      PROVE  /\ Finds(Reference(c, s))' /\ Of(Found(Reference(c, s)))' = Of(Found(Reference(c, s)))
  <2>1. Finds(Reference(c, s))
    BY DEF Resolves
  <2>2. PICK ref : ref = Reference(c, s)
    OBVIOUS
  <2>3. Reference(c, s)' = ref
    BY <1>1, <2>2 DEF Reference
  <2>4. Finds(ref)' /\ Of(Found(ref))' = Of(Found(ref))
    BY <2>1, <2>2, FindsStays
  <2> QED BY <2>2, <2>3, <2>4 DEF Finds, Found, Of
<1>3. Resolves(c)'
  BY <1>1, <1>2 DEF Resolves
<1>4. Resolution(c)' = Resolution(c)
  BY <1>1, <1>2 DEF Resolution
<1> QED BY <1>3, <1>4
-----------------------------------------------------------------------------
(* Profiles: what a profile inherits does not change when one is added.    *)
Rooted == \A m \in DOMAIN access : access[m].extends \in DOMAIN access \cup {NoName}

(* A set of profiles that holds what they extend.                          *)
Closed(S) == \A x \in S : access[x].extends \in S \cup {NoName}

LEMMA ChainIsLeast ==
  ASSUME NEW n, NEW S \in SUBSET DOMAIN access, n \in S, Closed(S)
  PROVE  Chain(n) \subseteq S
BY DEF Chain, Closed

LEMMA ChainStarts ==
  ASSUME NEW n \in DOMAIN access
  PROVE  n \in Chain(n) /\ Chain(n) \subseteq DOMAIN access
BY DEF Chain

LEMMA ChainCloses ==
  ASSUME Rooted, NEW n
  PROVE  Closed(Chain(n))
<1> SUFFICES ASSUME NEW x \in Chain(n), access[x].extends # NoName
             PROVE  access[x].extends \in Chain(n)
  BY DEF Closed
<1>1. x \in DOMAIN access /\ access[x].extends \in DOMAIN access
  BY DEF Chain, Rooted
<1>2. ASSUME NEW S \in SUBSET DOMAIN access, n \in S,
             \A y \in S : access[y].extends \in S \cup {NoName}
      PROVE  access[x].extends \in S
  BY <1>2 DEF Chain
<1> QED BY <1>1, <1>2 DEF Chain

LEMMA ChainUnfolds ==
  ASSUME Rooted, NEW n \in DOMAIN access
  PROVE  Chain(n) \subseteq {n} \cup (IF access[n].extends = NoName THEN {} ELSE Chain(access[n].extends))
<1>1. CASE access[n].extends = NoName
  <2>1. Closed({n})
    BY <1>1 DEF Closed
  <2> QED BY <1>1, <2>1, ChainIsLeast
<1>2. CASE access[n].extends # NoName
  <2> DEFINE T == {n} \cup Chain(access[n].extends)
  <2>1. access[n].extends \in DOMAIN access
    BY <1>2 DEF Rooted
  <2>2. access[n].extends \in Chain(access[n].extends) /\ Chain(access[n].extends) \subseteq DOMAIN access
    BY <2>1, ChainStarts
  <2>3. Closed(Chain(access[n].extends))
    BY ChainCloses
  <2>4. T \in SUBSET DOMAIN access /\ n \in T /\ Closed(T)
    BY <2>2, <2>3 DEF Closed
  <2> QED BY <1>2, <2>4, ChainIsLeast
<1> QED BY <1>1, <1>2

(* Of profiles in a chain one extends the others.                          *)
LEMMA NearestExists ==
  ASSUME Rooted, NEW n \in DOMAIN access, NEW B \in SUBSET Chain(n), B # {}
  PROVE  \E x \in B : B \subseteq Chain(x)
<1> SUFFICES ASSUME \A x \in B : ~(B \subseteq Chain(x)) PROVE FALSE
  OBVIOUS
<1> DEFINE S == {x \in DOMAIN access : B \subseteq Chain(x)}
<1>1. n \in S /\ S \in SUBSET DOMAIN access
  OBVIOUS
<1>2. Closed(S)
  <2> SUFFICES ASSUME NEW x \in S, access[x].extends # NoName PROVE access[x].extends \in S
    BY DEF Closed
  <2>1. x \in DOMAIN access /\ B \subseteq Chain(x) /\ x \notin B
    OBVIOUS
  <2>2. Chain(x) \subseteq {x} \cup Chain(access[x].extends)
    BY <2>1, ChainUnfolds
  <2>3. access[x].extends \in DOMAIN access
    BY <2>1 DEF Rooted
  <2> QED BY <2>1, <2>2, <2>3
<1>3. Chain(n) \subseteq S
  BY <1>1, <1>2, ChainIsLeast
<1> QED BY <1>3

LEMMA ChainStays ==
  ASSUME Rooted, NEW p, p.name \notin DOMAIN access, access' = Entry(access, p.name, p),
         NEW n \in DOMAIN access
  PROVE  Chain(n)' = Chain(n)
<1>1. DOMAIN access' = DOMAIN access \cup {p.name} /\ \A m \in DOMAIN access : access'[m] = access[m]
  BY DEF Entry
<1>2. ASSUME NEW m \in Chain(n)' PROVE m \in Chain(n)
  <2>1. \A S \in SUBSET DOMAIN access' :
          n \in S /\ (\A x \in S : access'[x].extends \in S \cup {NoName}) => m \in S
    BY <1>2 DEF Chain
  <2>2. m \in DOMAIN access
    BY <1>1, <2>1 DEF Rooted
  <2>3. ASSUME NEW S \in SUBSET DOMAIN access, n \in S, \A x \in S : access[x].extends \in S \cup {NoName}
        PROVE  m \in S
    <3>1. S \in SUBSET DOMAIN access' /\ \A x \in S : access'[x].extends \in S \cup {NoName}
      BY <1>1, <2>3
    <3> QED BY <2>1, <2>3, <3>1
  <2> QED BY <2>2, <2>3 DEF Chain
<1>3. ASSUME NEW m \in Chain(n) PROVE m \in Chain(n)'
  <2>1. m \in DOMAIN access'
    BY <1>1 DEF Chain
  <2>2. ASSUME NEW S \in SUBSET DOMAIN access', n \in S, \A x \in S : access'[x].extends \in S \cup {NoName}
        PROVE  m \in S
    <3> DEFINE T == S \cap DOMAIN access
    <3>1. T \in SUBSET DOMAIN access /\ n \in T
      BY <2>2
    <3>2. \A x \in T : access[x].extends \in T \cup {NoName}
      BY <1>1, <2>2 DEF Rooted
    <3> HIDE DEF T
    <3>3. m \in T
      BY <3>1, <3>2 DEF Chain
    <3> QED BY <3>3 DEF T
  <2> QED BY <2>1, <2>2 DEF Chain
<1>4. \A m : m \in Chain(n)' <=> m \in Chain(n)
  BY <1>2, <1>3
<1> HIDE DEF Chain
<1> QED BY <1>2, <1>3

LEMMA BindingStays ==
  ASSUME Rooted, NEW p, p.name \notin DOMAIN access, access' = Entry(access, p.name, p),
         NEW n \in DOMAIN access, NEW r
  PROVE  Binding(n, r)' = Binding(n, r)
<1> DEFINE B == {m \in Chain(n) : r \in DOMAIN access[m].bindings}
           D == {m \in Chain(n)' : r \in DOMAIN access'[m].bindings}
           X == {x \in B : B \subseteq Chain(x)}
           Y == {x \in D : D \subseteq Chain(x)'}
<1>1. Chain(n)' = Chain(n) /\ Chain(n) \subseteq DOMAIN access
  BY ChainStays, ChainStarts
<1>2. \A m \in DOMAIN access : access'[m] = access[m]
  BY DEF Entry
<1>3. B = D /\ B \subseteq DOMAIN access /\ B \in SUBSET Chain(n)
  BY <1>1, <1>2
<1>4. \A x \in DOMAIN access : Chain(x)' = Chain(x)
  BY ChainStays
<1>5. X = Y
  BY <1>3, <1>4
<1>6. Binding(n, r) = IF B = {} THEN NoName ELSE access[CHOOSE m \in X : TRUE].bindings[r]
  BY DEF Binding
<1>7. Binding(n, r)' = IF D = {} THEN NoName ELSE access'[CHOOSE m \in Y : TRUE].bindings[r]
  BY DEF Binding
<1>8. ASSUME B # {} PROVE X # {}
  <2> HIDE DEF B
  <2>1. PICK x \in B : B \subseteq Chain(x)
    BY <1>3, <1>8, NearestExists
  <2> QED BY <2>1
<1>9. X \subseteq DOMAIN access
  BY <1>3
<1> HIDE DEF B, D, X, Y
<1>10. B # {} => (CHOOSE m \in X : TRUE) \in X
  BY <1>8
<1> QED BY <1>2, <1>3, <1>5, <1>6, <1>7, <1>9, <1>10

LEMMA ValidatedStays ==
  ASSUME Rooted, NEW p, p.name \notin DOMAIN access, access' = Entry(access, p.name, p),
         NEW n \in DOMAIN access, NEW needs, Validated(n, needs)
  PROVE  Validated(n, needs)'
BY BindingStays DEF Validated
-----------------------------------------------------------------------------
(* Registering an agent, whatever its parts.                               *)
Newcomer(e, parts, start) ==
  [id |-> AgentId(e), preset |-> IF e.preset = NoName THEN NoName ELSE e.preset.name,
   params |-> Params(e), parts |-> parts, enrolled |-> e,
   steady |-> {c \in DOMAIN start : promotions[c] = start[c]}]

(* Nothing else of the registry changes; a preset that is named is known.  *)
OnlyAgents ==
  /\ DOMAIN registry' = BookFields
  /\ registry'.templates = registry.templates /\ registry'.configs = registry.configs
  /\ registry'.promised = registry.promised
  /\ \A q \in DOMAIN registry.presets : q \in DOMAIN registry'.presets /\ registry'.presets[q] = registry.presets[q]

Joins(e, parts, start) ==
  /\ AgentId(e) \notin Ids
  /\ registry'.agents = Append(registry.agents, Newcomer(e, parts, start))
  /\ e.preset # NoName => /\ e.preset.name \in DOMAIN registry'.presets
                           /\ registry'.presets[e.preset.name] = e.preset

LEMMA EnteredIs ==
  ASSUME BookShaped, NEW e, NEW parts, NEW start, registry' = Entered(e, parts, start)
  PROVE  OnlyAgents /\ (registry'.agents = registry.agents \/ Joins(e, parts, start))
<1>1. CASE Refused(e)
  <2>1. registry' = registry
    BY <1>1 DEF Entered
  <2> QED BY <2>1 DEF OnlyAgents, BookShaped
<1>2. CASE ~Refused(e)
  <2>1. PICK b : b = WithPreset(e.preset)
    OBVIOUS
  <2>2. /\ DOMAIN b = BookFields /\ b.agents = registry.agents
        /\ b.templates = registry.templates /\ b.configs = registry.configs /\ b.promised = registry.promised
    BY <2>1 DEF WithPreset, BookShaped, BookFields
  <2>3. \A q \in DOMAIN registry.presets : q \in DOMAIN b.presets /\ b.presets[q] = registry.presets[q]
    BY <2>1 DEF WithPreset, BookShaped, BookFields, Entry
  <2>4. e.preset # NoName => e.preset.name \in DOMAIN b.presets /\ b.presets[e.preset.name] = e.preset
    BY <1>2, <2>1 DEF WithPreset, BookShaped, BookFields, Entry, Refused, PresetTaken
  <2>5. CASE AgentId(e) \in Ids
    <3>1. registry' = b
      BY <1>2, <2>1, <2>5 DEF Entered
    <3> QED BY <2>2, <2>3, <3>1 DEF OnlyAgents
  <2>6. CASE AgentId(e) \notin Ids
    <3>1. registry' = [b EXCEPT !.agents = Append(@, Newcomer(e, parts, start))]
      BY <1>2, <2>1, <2>6 DEF Entered, Newcomer
    <3>2. DOMAIN registry' = BookFields /\ registry'.agents = Append(registry.agents, Newcomer(e, parts, start))
      BY <2>2, <3>1 DEF BookFields
    <3>3. /\ registry'.templates = b.templates /\ registry'.configs = b.configs
          /\ registry'.promised = b.promised /\ registry'.presets = b.presets
      BY <2>2, <3>1 DEF BookFields
    <3>4. OnlyAgents
      BY <2>2, <2>3, <3>2, <3>3 DEF OnlyAgents
    <3>5. Joins(e, parts, start)
      BY <2>4, <2>6, <3>2, <3>3 DEF Joins
    <3> QED BY <3>4, <3>5
  <2> QED BY <2>5, <2>6
<1> QED BY <1>1, <1>2

(* What an improved agent must be.                                         *)
Improved(e, parts, steady) ==
  \A k \in DOMAIN parts :
    /\ parts[k].structure = e.parts[k].structure
    /\ e.improved /\ parts[k].component \in steady => parts[k].text \in TextsOf(parts[k].component)

LEMMA ImprovedAgents ==
  ImprovedEverywhere <=>
    \A i \in DOMAIN registry.agents :
      Improved(registry.agents[i].enrolled, registry.agents[i].parts, registry.agents[i].steady)
BY DEF ImprovedEverywhere, Improved, TextsOf

AgentsHold == BookShaped /\ IdsOnce /\ PresetsKnown /\ ConfigsHold /\ ImprovedEverywhere

LEMMA EnteredHolds ==
  ASSUME AgentsHold, NEW e, NEW parts, NEW start, registry' = Entered(e, parts, start),
         Improved(e, parts, {c \in DOMAIN start : promotions[c] = start[c]})
  PROVE  AgentsHold'
<1> DEFINE a == Newcomer(e, parts, start)
<1>1. OnlyAgents /\ (registry'.agents = registry.agents \/ Joins(e, parts, start))
  BY EnteredIs DEF AgentsHold
<1>2. IsList(registry.agents) /\ Len(registry.agents) \in Nat /\ DOMAIN registry.agents = 1..Len(registry.agents)
  BY ListHas DEF AgentsHold, BookShaped
<1>3. CASE registry'.agents = registry.agents
  <2>1. BookShaped' /\ IdsOnce' /\ PresetsKnown' /\ AgentsGrow
    BY <1>1, <1>2, <1>3 DEF AgentsHold, OnlyAgents, BookShaped, IdsOnce, PresetsKnown, AgentsGrow
  <2>2. ImprovedEverywhere'
    BY <1>3 DEF AgentsHold, ImprovedEverywhere
  <2>3. TemplatesGrow
    BY <1>1 DEF OnlyAgents, TemplatesGrow
  <2>4. ConfigsHold'
    BY <1>1, <2>1, <2>3, ResolutionStays DEF AgentsHold, ConfigsHold, OnlyAgents
  <2> QED BY <2>1, <2>2, <2>4 DEF AgentsHold
<1>4. CASE Joins(e, parts, start)
  <2> DEFINE n == Len(registry.agents) + 1
  <2>0. /\ a.id = AgentId(e) /\ a.params = Params(e) /\ a.parts = parts /\ a.enrolled = e
        /\ a.steady = {c \in DOMAIN start : promotions[c] = start[c]}
        /\ a.preset = IF e.preset = NoName THEN NoName ELSE e.preset.name
    BY DEF Newcomer
  <2> HIDE DEF a
  <2>1. registry'.agents = Append(registry.agents, a)
    BY <1>4 DEF Joins, a
  <2>2. /\ IsList(registry'.agents) /\ DOMAIN registry'.agents = 1..n /\ registry'.agents[n] = a
        /\ \A k \in DOMAIN registry.agents : registry'.agents[k] = registry.agents[k]
        /\ Len(registry'.agents) = n
    BY <1>2, <2>1, ListAppend, ListHas
  <2>3. DOMAIN registry'.agents = DOMAIN registry.agents \cup {n} /\ n \notin DOMAIN registry.agents
    BY <1>2, <2>2
  <2>4. AgentsGrow
    BY <1>2, <2>2 DEF AgentsGrow
  <2>5. BookShaped'
    BY <1>1, <2>2 DEF OnlyAgents, BookShaped
  <2>6. \A k \in DOMAIN registry.agents : registry.agents[k].id # a.id
    BY <1>4, <2>0 DEF Joins, Ids
  <2> HIDE DEF n
  <2>7. IdsOnce'
    BY <2>2, <2>3, <2>6 DEF AgentsHold, IdsOnce
  <2>8. a.preset # NoName => a.preset \in DOMAIN registry'.presets /\ ToParams(registry'.presets[a.preset]) = a.params
    BY <1>4, <2>0 DEF Joins, Params
  <2>9. PresetsKnown'
    BY <1>1, <2>2, <2>3, <2>8 DEF AgentsHold, PresetsKnown, OnlyAgents
  <2>10. TemplatesGrow
    BY <1>1 DEF OnlyAgents, TemplatesGrow
  <2>11. ConfigsHold'
    BY <1>1, <2>4, <2>7, <2>10, ResolutionStays DEF AgentsHold, ConfigsHold, OnlyAgents
  <2>12. \A i \in DOMAIN registry'.agents :
           Improved(registry'.agents[i].enrolled, registry'.agents[i].parts, registry'.agents[i].steady)
    <3>1. Improved(a.enrolled, a.parts, a.steady)
      BY <2>0
    <3>2. \A i \in DOMAIN registry.agents :
            Improved(registry.agents[i].enrolled, registry.agents[i].parts, registry.agents[i].steady)
      BY ImprovedAgents DEF AgentsHold
    <3> QED BY <2>2, <2>3, <3>1, <3>2
  <2>13. ImprovedEverywhere'
    BY <2>12, ImprovedAgents DEF ImprovedEverywhere, Improved, TextsOf
  <2> QED BY <2>5, <2>7, <2>9, <2>11, <2>13 DEF AgentsHold
<1> QED BY <1>1, <1>3, <1>4
-----------------------------------------------------------------------------
(* The steps.  What a step leaves alone.                                   *)
LEMMA AgentsUnchanged ==
  ASSUME AgentsHold, registry' = registry
  PROVE  AgentsHold'
<1>1. BookShaped' /\ IdsOnce' /\ PresetsKnown' /\ AgentsGrow /\ TemplatesGrow
  BY DEF AgentsHold, BookShaped, IdsOnce, PresetsKnown, AgentsGrow, TemplatesGrow, IsList
<1>2. ImprovedEverywhere'
  BY DEF AgentsHold, ImprovedEverywhere
<1>3. ConfigsHold'
  BY <1>1, ResolutionStays DEF AgentsHold, ConfigsHold
<1> QED BY <1>1, <1>2, <1>3 DEF AgentsHold

LEMMA ProfilesUnchanged ==
  ASSUME ProfilesHold, access' = access, passed' = passed
  PROVE  ProfilesHold'
<1>1. \A n : Chain(n)' = Chain(n)
  BY DEF Chain
<1>2. ASSUME NEW n, NEW r PROVE Binding(n, r)' = Binding(n, r)
  <2> DEFINE B == {m \in Chain(n) : r \in DOMAIN access[m].bindings}
             D == {m \in Chain(n)' : r \in DOMAIN access'[m].bindings}
             X == {x \in B : B \subseteq Chain(x)}
             Y == {x \in D : D \subseteq Chain(x)'}
  <2>1. B = D
    BY <1>1
  <2>2. X = Y
    BY <1>1, <2>1
  <2>3. Binding(n, r) = IF B = {} THEN NoName ELSE access[CHOOSE m \in X : TRUE].bindings[r]
    BY DEF Binding
  <2>4. Binding(n, r)' = IF D = {} THEN NoName ELSE access'[CHOOSE m \in Y : TRUE].bindings[r]
    BY DEF Binding
  <2> HIDE DEF B, D, X, Y
  <2> QED BY <2>1, <2>2, <2>3, <2>4
<1>3. \A n, needs : Validated(n, needs) => Validated(n, needs)'
  BY <1>2 DEF Validated
<1> QED BY <1>3 DEF ProfilesHold

LEMMA PromotionsUnchanged ==
  ASSUME PromotionsKnown, promotions' = promotions
  PROVE  PromotionsKnown'
BY DEF PromotionsKnown

LEMMA WalkUnchanged ==
  ASSUME WalkHolds, PromotionsKnown, walk' = walk, promotions' = promotions
  PROVE  WalkHolds' /\ PromotionsKnown'
BY DEF WalkHolds, PromotionsKnown, IsList, TextsOf

LEMMA RegisterAgentHolds ==
  ASSUME RegInv, RegisterAgent
  PROVE  RegInv'
<1>1. PICK e \in Enrolments : ~e.improved /\ registry' = Entered(e, e.parts, <<>>)
  BY DEF RegisterAgent
<1>2. PICK start : start = <<>>
  OBVIOUS
<1>3. Improved(e, e.parts, {c \in DOMAIN start : promotions[c] = start[c]})
  BY <1>1 DEF Improved
<1>4. AgentsHold'
  BY <1>1, <1>2, <1>3, EnteredHolds DEF RegInv, AgentsHold
<1>5. ProfilesHold' /\ PromotionsKnown' /\ WalkHolds'
  BY ProfilesUnchanged, WalkUnchanged DEF RegisterAgent, RegInv
<1> QED BY <1>4, <1>5 DEF RegInv, AgentsHold

LEMMA BeginImprovedHolds ==
  ASSUME RegInv, BeginImproved
  PROVE  RegInv'
<1>1. PICK e \in Enrolments :
        walk' = [walk EXCEPT !.at = 1, !.enrolment = e, !.parts = e.parts, !.start = promotions]
  BY DEF BeginImproved
<1>2. DOMAIN walk = {"at", "enrolment", "parts", "start", "used"}
  BY DEF RegInv, WalkHolds
<1>3. /\ DOMAIN walk' = {"at", "enrolment", "parts", "start", "used"}
      /\ walk'.at = 1 /\ walk'.enrolment = e /\ walk'.parts = e.parts /\ walk'.start = promotions
  BY <1>1, <1>2
<1>4. IsList(e.parts) /\ DOMAIN e.parts = 1..Len(e.parts)
  <2>1. IsList(e.parts)
    BY RegistryAssumption DEF IsList
  <2> QED BY <2>1, ListHas
<1>5. \A k \in DOMAIN e.parts : DOMAIN e.parts[k] = {"kind", "component", "text", "structure"}
  BY RegistryAssumption
<1>6. promotions' = promotions
  BY DEF BeginImproved
<1>7. \A k \in DOMAIN e.parts : ~(k < 1)
  BY <1>4, ListHas
<1>8. WalkHolds'
  BY <1>3, <1>4, <1>5, <1>6, <1>7 DEF WalkHolds
<1>9. AgentsHold' /\ ProfilesHold' /\ PromotionsKnown'
  BY AgentsUnchanged, ProfilesUnchanged, PromotionsUnchanged DEF BeginImproved, RegInv, AgentsHold
<1> QED BY <1>8, <1>9 DEF RegInv, AgentsHold

LEMMA ApplyPromotedHolds ==
  ASSUME RegInv, ApplyPromoted
  PROVE  RegInv'
<1>0. /\ walk.at \in DOMAIN walk.parts /\ UNCHANGED <<registry, access, passed, promotions>>
  BY DEF ApplyPromoted
<1>1. DOMAIN walk = {"at", "enrolment", "parts", "start", "used"} /\ walk.at \in Nat
  BY DEF RegInv, WalkHolds
<1>2. PICK i, parts, e : i = walk.at /\ parts = walk.parts /\ e = walk.enrolment
  OBVIOUS
<1>5. i \in Nat /\ i > 0 /\ i \in DOMAIN parts /\ IsList(parts)
  <2>1. IsList(parts) /\ i \in DOMAIN parts
    BY <1>0, <1>2 DEF RegInv, WalkHolds
  <2> QED BY <2>1, ListHas
<1>3. PICK piece : piece = IF HasPromotion(parts[i].component)
                           THEN MergedText(parts[i], promotions[parts[i].component]) ELSE parts[i]
  OBVIOUS
<1>4. WalkHolds'
  <2>0. /\ e \in Enrolments /\ IsList(parts) /\ Len(parts) = Len(e.parts)
        /\ DOMAIN walk.start \subseteq DOMAIN promotions
        /\ \A k \in DOMAIN parts :
             /\ DOMAIN parts[k] = {"kind", "component", "text", "structure"}
             /\ parts[k].structure = e.parts[k].structure
             /\ k < i /\ parts[k].component \in DOMAIN walk.start => parts[k].text \in TextsOf(parts[k].component)
    BY <1>2, <1>5 DEF RegInv, WalkHolds
  <2>1. i \in DOMAIN parts /\ DOMAIN parts = 1..Len(parts) /\ Len(parts) \in Nat
    BY <1>0, <1>2, <2>0, ListHas
  <2>2. PICK parts1 : /\ parts1 = walk'.parts /\ IsList(parts1) /\ Len(parts1) = Len(parts)
                      /\ parts1[i] = piece /\ \A k \in DOMAIN parts : k # i => parts1[k] = parts[k]
    <3>1. CASE HasPromotion(parts[i].component)
      <4>1. walk'.parts = [parts EXCEPT ![i] = piece]
        BY <1>1, <1>2, <1>3, <3>1 DEF ApplyPromoted
      <4> QED BY <2>0, <2>1, <4>1, ListExcept
    <3>2. CASE ~HasPromotion(parts[i].component)
      <4>1. walk'.parts = parts
        BY <1>1, <1>2, <3>2 DEF ApplyPromoted
      <4> QED BY <1>3, <2>0, <3>2, <4>1
    <3> QED BY <3>1, <3>2
  <2>3. /\ DOMAIN walk' = DOMAIN walk /\ walk'.at = i + 1 /\ walk'.enrolment = e /\ walk'.start = walk.start
    BY <1>1, <1>2 DEF ApplyPromoted
  <2>4. DOMAIN parts1 = DOMAIN parts
    BY <2>1, <2>2, ListHas
  <2>5. /\ DOMAIN piece = {"kind", "component", "text", "structure"}
        /\ piece.structure = e.parts[i].structure /\ piece.component = parts[i].component
    BY <1>3, <2>0, <2>1 DEF MergedText
  <2>6. piece.component \in DOMAIN walk.start => piece.text \in TextsOf(piece.component)
    <3> SUFFICES ASSUME piece.component \in DOMAIN walk.start PROVE piece.text \in TextsOf(piece.component)
      OBVIOUS
    <3>1. piece.component \in DOMAIN promotions
      BY <2>0
    <3>2. piece = MergedText(parts[i], promotions[piece.component])
      BY <1>3, <2>5, <3>1 DEF HasPromotion
    <3>3. piece.text = promotions[piece.component].text
      BY <2>0, <2>1, <3>2 DEF MergedText
    <3> QED BY <3>1, <3>3 DEF RegInv, PromotionsKnown, TextsOf
  <2>7. ASSUME NEW k \in DOMAIN parts1
        PROVE  /\ DOMAIN parts1[k] = {"kind", "component", "text", "structure"}
               /\ parts1[k].structure = e.parts[k].structure
               /\ k < i + 1 /\ parts1[k].component \in DOMAIN walk.start =>
                    parts1[k].text \in TextsOf(parts1[k].component)
    <3>1. CASE k = i
      BY <2>2, <2>5, <2>6, <3>1
    <3>2. CASE k # i
      <4>1. parts1[k] = parts[k] /\ k \in DOMAIN parts
        BY <2>2, <2>4, <3>2
      <4>2. k < i + 1 => k < i
        BY <2>1, <2>4, <3>2
      <4> QED BY <2>0, <4>1, <4>2
    <3> QED BY <3>1, <3>2
  <2>8. WalkHolds'
    BY <1>0, <1>1, <1>5, <2>0, <2>2, <2>3, <2>7 DEF WalkHolds, TextsOf
  <2> QED BY <2>8
<1>6. AgentsHold' /\ ProfilesHold' /\ PromotionsKnown'
  BY <1>0, AgentsUnchanged, ProfilesUnchanged, PromotionsUnchanged DEF RegInv, AgentsHold
<1> QED BY <1>4, <1>5, <1>6 DEF RegInv, AgentsHold

LEMMA EndImprovedHolds ==
  ASSUME RegInv, EndImproved
  PROVE  RegInv'
<1>0. /\ walk.at > 0 /\ walk.at = Len(walk.parts) + 1 /\ walk' = [NoWalk EXCEPT !.used = walk.used]
      /\ UNCHANGED <<access, passed, promotions>>
  BY DEF EndImproved
<1>1. PICK e, parts, start : e = walk.enrolment /\ parts = walk.parts /\ start = walk.start
  OBVIOUS
<1>2. registry' = Entered(e, parts, start)
  BY <1>1 DEF EndImproved
<1>3. IsList(parts) /\ DOMAIN parts = 1..Len(parts) /\ Len(parts) \in Nat
  BY <1>1, ListHas DEF RegInv, WalkHolds
<1>4. \A k \in DOMAIN parts :
        /\ parts[k].structure = e.parts[k].structure
        /\ parts[k].component \in DOMAIN start => parts[k].text \in TextsOf(parts[k].component)
  <2>1. \A k \in DOMAIN parts : k < walk.at
    BY <1>0, <1>1, <1>3
  <2> QED BY <1>0, <1>1, <2>1 DEF RegInv, WalkHolds
<1>5. Improved(e, parts, {c \in DOMAIN start : promotions[c] = start[c]})
  BY <1>4 DEF Improved
<1>6. AgentsHold'
  BY <1>2, <1>5, EnteredHolds DEF RegInv, AgentsHold
<1>7. ProfilesHold' /\ PromotionsKnown'
  BY <1>0, ProfilesUnchanged, PromotionsUnchanged DEF RegInv
<1>8. WalkHolds'
  <2>1. DOMAIN walk' = {"at", "enrolment", "parts", "start", "used"} /\ walk'.at = 0 /\ walk'.parts = <<>>
    BY <1>0 DEF NoWalk
  <2>2. IsList(walk'.parts)
    <3>1. <<>> \in Seq({})
      OBVIOUS
    <3> QED BY <2>1, <3>1, ListOf
  <2> QED BY <2>1, <2>2 DEF WalkHolds
<1> QED BY <1>6, <1>7, <1>8 DEF RegInv, AgentsHold

LEMMA PromoteSnapshotHolds ==
  ASSUME RegInv, PromoteSnapshot
  PROVE  RegInv'
<1>1. PICK s \in Snapshots : promotions' = Entry(promotions, s[1], s[2])
  BY DEF PromoteSnapshot
<1>2. DOMAIN promotions \subseteq DOMAIN promotions' /\ PromotionsKnown'
  BY <1>1 DEF Entry, RegInv, PromotionsKnown
<1>3. DOMAIN walk = {"at", "enrolment", "parts", "start", "used"}
  BY DEF RegInv, WalkHolds
<1>4. /\ DOMAIN walk' = DOMAIN walk /\ walk'.at = walk.at /\ walk'.enrolment = walk.enrolment
      /\ walk'.parts = walk.parts /\ walk'.start = walk.start
  BY <1>3 DEF PromoteSnapshot
<1>5. WalkHolds'
  BY <1>2, <1>4 DEF RegInv, WalkHolds, IsList, TextsOf
<1>6. AgentsHold' /\ ProfilesHold'
  BY AgentsUnchanged, ProfilesUnchanged DEF PromoteSnapshot, RegInv, AgentsHold
<1> QED BY <1>2, <1>5, <1>6 DEF RegInv, AgentsHold

(* Templates and configurations leave the agents alone.                    *)
LEMMA TemplatesHold ==
  ASSUME RegInv, UNCHANGED <<access, passed, promotions, walk>>,
         DOMAIN registry' = DOMAIN registry, registry'.agents = registry.agents,
         registry'.presets = registry.presets, ConfigsHold'
  PROVE  RegInv'
<1>1. BookShaped' /\ IdsOnce' /\ PresetsKnown' /\ ImprovedEverywhere'
  <2>1. BookShaped'
    BY DEF RegInv, BookShaped, IsList
  <2>2. IdsOnce'
    BY DEF RegInv, IdsOnce
  <2>3. PresetsKnown'
    BY DEF RegInv, PresetsKnown
  <2>4. ImprovedEverywhere'
    BY DEF RegInv, ImprovedEverywhere
  <2> QED BY <2>1, <2>2, <2>3, <2>4
<1>2. ProfilesHold' /\ PromotionsKnown' /\ WalkHolds'
  BY ProfilesUnchanged, WalkUnchanged DEF RegInv
<1> QED BY <1>1, <1>2 DEF RegInv

LEMMA RegisterTemplateHolds ==
  ASSUME RegInv, RegisterTemplate
  PROVE  RegInv'
<1>1. PICK t \in Templates :
        /\ t.name \notin DOMAIN registry.templates
        /\ registry' = [registry EXCEPT !.templates = Entry(@, t.name, t.slots)]
  BY DEF RegisterTemplate
<1>2. DOMAIN registry = BookFields
  BY DEF RegInv, BookShaped
<1>3. /\ DOMAIN registry' = DOMAIN registry /\ registry'.agents = registry.agents
      /\ registry'.presets = registry.presets /\ registry'.configs = registry.configs
      /\ registry'.promised = registry.promised
      /\ registry'.templates = Entry(registry.templates, t.name, t.slots)
  BY <1>1, <1>2 DEF BookFields
<1>4. TemplatesGrow
  BY <1>1, <1>3 DEF TemplatesGrow, Entry
<1>5. AgentsGrow /\ IdsOnce'
  BY <1>3, ListHas DEF AgentsGrow, RegInv, BookShaped, IdsOnce, IsList
<1>6. ConfigsHold'
  BY <1>3, <1>4, <1>5, ResolutionStays DEF RegInv, ConfigsHold
<1> QED BY <1>3, <1>6, TemplatesHold DEF RegisterTemplate

LEMMA CreateConfigHolds ==
  ASSUME RegInv, CreateConfig
  PROVE  RegInv'
<1>1. PICK c \in Setups :
        /\ c.name \notin DOMAIN registry.configs
        /\ c.strict => Resolves(c)
        /\ registry' = [registry EXCEPT !.configs = Entry(@, c.name, c),
                          !.promised = Entry(@, c.name, IF c.strict THEN Resolution(c) ELSE <<>>)]
  BY DEF CreateConfig
<1>2. DOMAIN registry = BookFields
  BY DEF RegInv, BookShaped
<1>3. /\ DOMAIN registry' = DOMAIN registry /\ registry'.agents = registry.agents
      /\ registry'.presets = registry.presets /\ registry'.templates = registry.templates
      /\ registry'.configs = Entry(registry.configs, c.name, c)
      /\ registry'.promised = Entry(registry.promised, c.name, IF c.strict THEN Resolution(c) ELSE <<>>)
  BY <1>1, <1>2 DEF BookFields
<1>4. TemplatesGrow /\ AgentsGrow /\ IdsOnce'
  BY <1>3, ListHas DEF TemplatesGrow, AgentsGrow, RegInv, BookShaped, IdsOnce, IsList
<1>5. \A d : Resolves(d) => Resolves(d)' /\ Resolution(d)' = Resolution(d)
  BY <1>4, ResolutionStays
<1>6. /\ DOMAIN registry.promised = DOMAIN registry.configs
      /\ \A n \in DOMAIN registry.configs :
           registry.configs[n].strict =>
             Resolves(registry.configs[n]) /\ Resolution(registry.configs[n]) = registry.promised[n]
  BY DEF RegInv, ConfigsHold
<1>7. DOMAIN registry'.promised = DOMAIN registry'.configs
  BY <1>3, <1>6 DEF Entry
<1>8. ASSUME NEW n \in DOMAIN registry'.configs, NEW d, d = registry'.configs[n], d.strict
      PROVE  Resolves(d)' /\ Resolution(d)' = registry'.promised[n]
  <2>1. CASE n = c.name
    <3>1. d = c /\ registry'.promised[n] = Resolution(c)
      BY <1>3, <1>8, <2>1 DEF Entry
    <3> QED BY <1>1, <1>5, <1>8, <3>1
  <2>2. CASE n # c.name
    <3>1. /\ n \in DOMAIN registry.configs /\ d = registry.configs[n]
          /\ registry'.promised[n] = registry.promised[n]
      BY <1>3, <1>6, <1>8, <2>2 DEF Entry
    <3> QED BY <1>5, <1>6, <1>8, <3>1
  <2> QED BY <2>1, <2>2
<1>9. ConfigsHold'
  <2> SUFFICES ASSUME NEW n \in DOMAIN registry'.configs, registry'.configs[n].strict
               PROVE  Resolves(registry.configs[n])' /\ Resolution(registry.configs[n])' = registry'.promised[n]
    BY <1>7 DEF ConfigsHold
  <2>1. PICK d : d = registry'.configs[n]
    OBVIOUS
  <2> QED BY <1>8, <2>1 DEF Resolves, Resolution, Reference
<1> QED BY <1>3, <1>9, TemplatesHold DEF CreateConfig

LEMMA RegisterProfileHolds ==
  ASSUME RegInv, RegisterProfile
  PROVE  RegInv'
<1>1. PICK p \in Profiles : Enters(p) /\ access' = Entry(access, p.name, p)
  BY DEF RegisterProfile
<1>2. /\ p.name \notin DOMAIN access /\ (p.extends = NoName \/ p.extends \in DOMAIN access)
  BY <1>1 DEF Enters
<1>3. Rooted /\ passed' = passed /\ \A v \in passed : v[1] \in DOMAIN access /\ Validated(v[1], v[2])
  BY DEF RegInv, ProfilesHold, Rooted, RegisterProfile
<1>4. \A n \in DOMAIN access : \A needs : Validated(n, needs) => Validated(n, needs)'
  BY <1>1, <1>2, <1>3, ValidatedStays
<1>5. \A m \in DOMAIN access' : access'[m].extends \in DOMAIN access' \cup {NoName}
  BY <1>1, <1>2, <1>3 DEF Entry, Rooted
<1>6. DOMAIN access \subseteq DOMAIN access'
  BY <1>1 DEF Entry
<1>7. ASSUME NEW v \in passed' PROVE v[1] \in DOMAIN access' /\ Validated(v[1], v[2])'
  BY <1>3, <1>4, <1>6
<1>8. ProfilesHold'
  BY <1>5, <1>7 DEF ProfilesHold
<1>9. AgentsHold' /\ PromotionsKnown' /\ WalkHolds'
  BY AgentsUnchanged, WalkUnchanged DEF RegisterProfile, RegInv, AgentsHold
<1> QED BY <1>8, <1>9 DEF RegInv, AgentsHold

LEMMA ValidateAccessHolds ==
  ASSUME RegInv, ValidateAccess
  PROVE  RegInv'
<1>1. PICK n \in DOMAIN access, needs \in Needs : Validated(n, needs) /\ passed' = passed \cup {<<n, needs>>}
  BY DEF ValidateAccess
<1>2. access' = access
  BY DEF ValidateAccess
<1>3. \A x, y : Validated(x, y)' = Validated(x, y)
  BY <1>2 DEF Validated, Binding, Chain
<1>4. ProfilesHold'
  BY <1>1, <1>2, <1>3 DEF RegInv, ProfilesHold
<1>5. AgentsHold' /\ PromotionsKnown' /\ WalkHolds'
  BY AgentsUnchanged, WalkUnchanged DEF ValidateAccess, RegInv, AgentsHold
<1> QED BY <1>4, <1>5 DEF RegInv, AgentsHold

LEMMA RegStep == RegInv /\ [RegistryNext \/ AccessNext]_book => RegInv'
<1> SUFFICES ASSUME RegInv, [RegistryNext \/ AccessNext]_book PROVE RegInv'
  OBVIOUS
<1>1. CASE RegisterAgent
  BY <1>1, RegisterAgentHolds
<1>2. CASE BeginImproved
  BY <1>2, BeginImprovedHolds
<1>3. CASE ApplyPromoted
  BY <1>3, ApplyPromotedHolds
<1>4. CASE EndImproved
  BY <1>4, EndImprovedHolds
<1>5. CASE PromoteSnapshot
  BY <1>5, PromoteSnapshotHolds
<1>6. CASE RegisterTemplate
  BY <1>6, RegisterTemplateHolds
<1>7. CASE CreateConfig
  BY <1>7, CreateConfigHolds
<1>8. CASE RegisterProfile
  BY <1>8, RegisterProfileHolds
<1>9. CASE ValidateAccess
  BY <1>9, ValidateAccessHolds
<1>10. CASE UNCHANGED book
  BY <1>10, AgentsUnchanged, ProfilesUnchanged, WalkUnchanged DEF book, RegInv, AgentsHold
<1> QED BY <1>1, <1>2, <1>3, <1>4, <1>5, <1>6, <1>7, <1>8, <1>9, <1>10 DEF RegistryNext, AccessNext

LEMMA RegInvSays == RegInv => RegistryHolds
<1> SUFFICES ASSUME RegInv PROVE RegistryHolds
  OBVIOUS
<1>1. CheckedOnce
  BY DEF RegInv, ConfigsHold, ProfilesHold, CheckedOnce
<1>2. PresetsKept
  BY DEF RegInv, IdsOnce, PresetsKnown, PresetsKept
<1> QED BY <1>1, <1>2 DEF RegInv, RegistryHolds

(* Whatever is registered, in whatever order and while promotions change:  *)
(* what a strict configuration and a profile were checked for goes on to   *)
(* hold, ids stay unique and agents on their preset's model, and an agent  *)
(* registered with improvements has every promotion that stood.            *)
THEOREM RegistriesHold == RegistrySpec => []RegistryHolds
<1>1. RegistrySpec => []RegInv
  BY RegInitially, RegStep, PTL DEF RegistrySpec
<1> QED BY <1>1, RegInvSays, PTL

-----------------------------------------------------------------------------
(* Permissions.                                                            *)
(* What PermissionsAssumption says of an agent.                            *)
AgentHolds(a) ==
  /\ DOMAIN a = Fields
  /\ a.perms = Unset \/ a.perms \subseteq Toggles
  /\ a.mode \in {"primary", "subagent"}
  /\ \A k \in DOMAIN a.kids : a.kids[k] \in Modes
  /\ Len(a.tools) \in Nat /\ DOMAIN a.tools = 1..Len(a.tools)
  /\ Len(a.skills) \in Nat /\ DOMAIN a.skills = 1..Len(a.skills)
  /\ \A k \in DOMAIN a.skills : Len(a.skills[k].tools) \in Nat /\ DOMAIN a.skills[k].tools = 1..Len(a.skills[k].tools)
  /\ \A p \in Places(a) :
       /\ ToolAt(a, p).name \notin {"bash", "skill", "mcp"}
       /\ \A c \in ToolAt(a, p).commands \cup ToolAt(a, p).examples :
            Len(c) \in Nat \ {0} /\ c[1] # "opencode_manager"

(* A twin has everything but the mode of the agent it is made from.        *)
LEMMA PrimarySame ==
  ASSUME NEW a, DOMAIN a = Fields
  PROVE  /\ DOMAIN Primary(a) = Fields /\ Primary(a).mode = "primary"
         /\ \A x \in Fields \ {"mode"} : Primary(a)[x] = a[x]
BY DEF Primary

LEMMA PrimaryTools ==
  ASSUME NEW a, DOMAIN a = Fields
  PROVE  /\ Places(Primary(a)) = Places(a) /\ \A p : ToolAt(Primary(a), p) = ToolAt(a, p)
         /\ GatheredAt(Primary(a)) = GatheredAt(a)
         /\ Gathered(Primary(a)) = Gathered(a)
         /\ SkillNames(Primary(a)) = SkillNames(a)
         /\ On(Primary(a)) = On(a) /\ (Explicit(Primary(a)) <=> Explicit(a))
<1>1. /\ Primary(a).tools = a.tools /\ Primary(a).skills = a.skills /\ Primary(a).perms = a.perms
  BY PrimarySame DEF Fields
<1>2. Places(Primary(a)) = Places(a)
  BY <1>1 DEF Places
<1>3. \A p : ToolAt(Primary(a), p) = ToolAt(a, p)
  BY <1>1 DEF ToolAt
<1>4. GatheredAt(Primary(a)) = GatheredAt(a)
  BY <1>2, <1>3 DEF GatheredAt
<1>5. Gathered(Primary(a)) = Gathered(a)
  BY <1>3, <1>4 DEF Gathered
<1> QED BY <1>1, <1>2, <1>3, <1>4, <1>5 DEF SkillNames, On, Explicit

LEMMA PrimaryHolds ==
  ASSUME NEW a, AgentHolds(a)
  PROVE  AgentHolds(Primary(a))
<1>1. /\ DOMAIN Primary(a) = Fields /\ Primary(a).mode = "primary"
      /\ Primary(a).tools = a.tools /\ Primary(a).skills = a.skills /\ Primary(a).perms = a.perms
      /\ Primary(a).kids = a.kids
  BY PrimarySame DEF AgentHolds, Fields
<1>2. Places(Primary(a)) = Places(a) /\ \A p : ToolAt(Primary(a), p) = ToolAt(a, p)
  BY PrimaryTools DEF AgentHolds
<1> QED BY <1>1, <1>2 DEF AgentHolds

LEMMA TreesHold ==
  ASSUME NEW t \in Trees, NEW s \in DOMAIN t
  PROVE  AgentHolds(t[s]) /\ AgentHolds(Primary(t[s]))
<1>1. AgentHolds(t[s])
  BY PermissionsAssumption DEF AgentHolds
<1> QED BY <1>1, PrimaryHolds

-----------------------------------------------------------------------------
(* Of the places that rule on a pattern there is a last one.               *)
LEMMA GreatestIn ==
  ASSUME NEW n \in Nat, NEW S \in SUBSET (0..n), S # {}
  PROVE  \E x \in S : \A y \in S : y <= x
<1> DEFINE more == {pp \in (0..n) \X (0..n) : n - pp[1] < n - pp[2]}
           less == {ss \in Nat \X Nat : ss[1] < ss[2]}
           T == {n - x : x \in S}
<1>1. IsWellFoundedOn(less, Nat)
  BY NatLessThanWellFounded DEF OpToRel
<1>2. T \subseteq Nat /\ T # {}
  <2>1. \A x \in S : n - x \in Nat
    OBVIOUS
  <2>2. PICK x \in S : TRUE
    OBVIOUS
  <2> QED BY <2>1, <2>2
<1> HIDE DEF less, T
<1>3. PICK z \in T : \A y \in T : <<y, z>> \notin less
  BY <1>1, <1>2, WFMin
<1>4. PICK x \in S : z = n - x
  BY <1>3 DEF T
<1>5. ASSUME NEW y \in S PROVE y <= x
  <2>1. n - y \in T
    BY DEF T
  <2>2. <<n - y, z>> \notin less
    BY <1>3, <2>1
  <2>3. ~(n - y < n - x)
    BY <1>2, <1>4, <2>1, <2>2 DEF less, T
  <2> QED BY <2>3
<1> QED BY <1>5

LEMMA LastIn ==
  ASSUME NEW a, AgentHolds(a), NEW P \in SUBSET Places(a), P # {}
  PROVE  LastOf(P) \in P
<1> DEFINE m == Len(a.skills)
           K == {p[1] : p \in P}
<1>1. m \in Nat /\ DOMAIN a.skills = 1..m
  BY DEF AgentHolds
<1>2. \A p \in Places(a) : /\ p = <<p[1], p[2]>> /\ p[1] \in 0..m
                           /\ p[1] = 0 => p[2] \in DOMAIN a.tools
                           /\ p[1] # 0 => p[2] \in DOMAIN a.skills[p[1]].tools
  BY <1>1 DEF Places
<1> HIDE DEF m
<1>3. PICK k \in K : \A j \in K : j <= k
  <2>1. K \in SUBSET (0..m) /\ K # {}
    BY <1>2
  <2> HIDE DEF K
  <2> QED BY <1>1, <2>1, GreatestIn
<1> DEFINE I == {p[2] : p \in {q \in P : q[1] = k}}
<1>4. PICK n \in Nat : I \subseteq 0..n
  <2>1. CASE k = 0
    <3>1. Len(a.tools) \in Nat /\ DOMAIN a.tools = 1..Len(a.tools)
      BY DEF AgentHolds
    <3>2. \A i \in I : i \in 1..Len(a.tools)
      BY <1>2, <2>1, <3>1
    <3> HIDE DEF I
    <3> QED BY <3>1, <3>2
  <2>2. CASE k # 0
    <3>1. k \in DOMAIN a.skills
      BY <1>1, <1>2, <2>2
    <3>2. Len(a.skills[k].tools) \in Nat /\ DOMAIN a.skills[k].tools = 1..Len(a.skills[k].tools)
      BY <3>1 DEF AgentHolds
    <3> QED BY SMTT(30), <1>2, <2>2, <3>2
  <2> QED BY <2>1, <2>2
<1>5. PICK i \in I : \A j \in I : j <= i
  <2>1. I # {}
    BY DEF K
  <2> HIDE DEF I
  <2> QED BY <1>4, <2>1, GreatestIn
<1>6. PICK last \in P : last[1] = k /\ last[2] = i
  OBVIOUS
<1>7. ASSUME NEW q \in P PROVE q = last \/ Earlier(q, last)
  <2>1. q[1] \in 0..m /\ k \in 0..m /\ q[1] <= k /\ q = <<q[1], q[2]>> /\ last = <<k, i>>
    BY <1>2, <1>3, <1>6
  <2>2. CASE q[1] = k
    <3>1. q[2] \in I
      BY <2>2
    <3>2. q[2] <= i /\ q[2] \in 0..n /\ i \in 0..n
      BY <1>4, <1>5, <3>1
    <3> QED BY <1>6, <2>1, <2>2, <3>2 DEF Earlier
  <2>3. CASE q[1] # k
    BY <1>1, <1>6, <2>1, <2>3 DEF Earlier
  <2> QED BY <2>2, <2>3
<1> QED BY <1>7 DEF LastOf

-----------------------------------------------------------------------------
(* Where a rule of a tool comes from.                                      *)
FromTool(a, r, v) ==
  \E t \in Gathered(a) :
    \/ /\ t.bash # Absent /\ v = t.bash
       /\ \E c \in Patterns(t) : r = <<"bash">> \o c
    \/ r = <<t.name>> /\ t.json # Absent /\ v = t.json

LEMMA ChosenHas ==
  ASSUME NEW a, NEW t, NEW f \in Chosen(a, t)
  PROVE  f \in {"bash", "json"} /\ t[f] # Absent
BY DEF Chosen

LEMMA ToolRule ==
  ASSUME NEW a, NEW t \in Gathered(a), NEW r \in DOMAIN ToolRules(a, t)
  PROVE  FromTool(a, r, ToolRules(a, t)[r])
<1> DEFINE B == {x \in {<<"bash">> \o c : c \in Patterns(t)} : "bash" \in Chosen(a, t)}
           J == {x \in {<<t.name>>} : "json" \in Chosen(a, t)}
<1>1. ToolRules(a, t) = [x \in B \cup J |-> IF x \in B THEN t.bash ELSE t.json]
  BY DEF ToolRules
<1>2. r \in B \/ (r \notin B /\ r \in J)
  BY <1>1
<1>3. CASE r \in B
  <2>1. "bash" \in Chosen(a, t) /\ \E c \in Patterns(t) : r = <<"bash">> \o c
    BY <1>3
  <2>2. t.bash # Absent
    BY <2>1, ChosenHas
  <2>3. ToolRules(a, t)[r] = t.bash
    BY <1>1, <1>3
  <2> QED BY <2>1, <2>2, <2>3 DEF FromTool
<1>4. CASE r \notin B /\ r \in J
  <2>1. "json" \in Chosen(a, t) /\ r = <<t.name>>
    BY <1>4
  <2>2. t.json # Absent
    BY <2>1, ChosenHas
  <2>3. ToolRules(a, t)[r] = t.json
    BY <1>1, <1>4
  <2> QED BY <2>1, <2>2, <2>3 DEF FromTool
<1> QED BY <1>2, <1>3, <1>4

(* Every rule of a block is the agent's own, which allow, or a tool's.     *)
LEMMA RulesKnown ==
  ASSUME NEW a, AgentHolds(a), NEW r \in DOMAIN PermissionBlock(a)
  PROVE  \/ r \in DOMAIN OwnRules(a) /\ PermissionBlock(a)[r] = OwnRules(a)[r]
         \/ FromTool(a, r, PermissionBlock(a)[r])
<1>1. CASE RuledBy(a, r) = {}
  <2>1. \A t \in Gathered(a) : r \notin DOMAIN ToolRules(a, t)
    BY <1>1 DEF RuledBy, Gathered
  <2>2. r \in DOMAIN OwnRules(a) /\ PermissionBlock(a)[r] = OwnRules(a)[r]
    BY <1>1, <2>1 DEF PermissionBlock
  <2> QED BY <2>2
<1>2. CASE RuledBy(a, r) # {}
  <2>1. RuledBy(a, r) \in SUBSET Places(a)
    BY DEF RuledBy, GatheredAt
  <2>a. PICK p : p = LastOf(RuledBy(a, r))
    OBVIOUS
  <2>2. p \in RuledBy(a, r)
    BY <1>2, <2>1, <2>a, LastIn
  <2>3. ToolAt(a, p) \in Gathered(a) /\ r \in DOMAIN ToolRules(a, ToolAt(a, p))
    BY <2>2 DEF RuledBy, Gathered
  <2>4. PermissionBlock(a)[r] = ToolRules(a, ToolAt(a, p))[r]
    BY <1>2, <2>a DEF PermissionBlock
  <2> QED BY <2>3, <2>4, ToolRule
<1> QED BY <1>1, <1>2

LEMMA OwnAllowed ==
  ASSUME NEW a
  PROVE  /\ DOMAIN OwnRules(a) =
              {<<"skill", s>> : s \in SkillNames(a)} \cup {<<"task">> : k \in TaskTargets(a)}
              \cup {<<"bash", "opencode_manager">> : k \in PrimarySubagents(a)}
              \cup {<<k>> : k \in TodoTools(a) \cup ToggleKeys(a)} \cup ServerRules(a)
         /\ \A r \in DOMAIN OwnRules(a) : OwnRules(a)[r] = "allow"
         /\ DOMAIN OwnRules(a) \subseteq DOMAIN PermissionBlock(a)
BY DEF OwnRules, Allow, PermissionBlock

(* A tool's command has at least two parts, its name one.                  *)
LEMMA ToolRuleShape ==
  ASSUME NEW a, AgentHolds(a), NEW t \in Gathered(a)
  PROVE  /\ t.name \notin {"bash", "skill", "mcp"}
         /\ \A c \in Patterns(t) : LET r == <<"bash">> \o c
                                   IN  /\ Len(r) \in Nat /\ Len(r) >= 2
                                       /\ r[1] = "bash" /\ r[2] # "opencode_manager"
<1>1. PICK p \in Places(a) : t = ToolAt(a, p)
  BY DEF Gathered, GatheredAt
<1>2. /\ t.name \notin {"bash", "skill", "mcp"}
      /\ \A c \in t.commands \cup t.examples : Len(c) \in Nat \ {0} /\ c[1] # "opencode_manager"
  BY <1>1 DEF AgentHolds
<1>3. \A c \in Patterns(t) : Len(c) \in Nat \ {0} /\ c[1] # "opencode_manager"
  BY <1>2 DEF Patterns
<1>4. ASSUME NEW c, Len(c) \in Nat \ {0}, c[1] # "opencode_manager"
      PROVE  LET r == <<"bash">> \o c IN Len(r) \in Nat /\ Len(r) >= 2 /\ r[1] = "bash" /\ r[2] # "opencode_manager"
  BY <1>4
<1> QED BY <1>2, <1>3, <1>4

(* The runtime takes the longest rule that covers a call.                  *)
LEMMA Parts ==
  ASSUME NEW x, NEW y, NEW z
  PROVE  /\ Len(<<x>>) = 1 /\ Len(<<x, y>>) = 2 /\ Len(<<x, y, z>>) = 3
         /\ SubSeq(<<x>>, 1, 1) = <<x>>
         /\ SubSeq(<<x, y>>, 1, 1) = <<x>> /\ SubSeq(<<x, y>>, 1, 2) = <<x, y>>
         /\ SubSeq(<<x, y, z>>, 1, 1) = <<x>> /\ SubSeq(<<x, y, z>>, 1, 2) = <<x, y>>
         /\ SubSeq(<<x, y, z>>, 1, 3) = <<x, y, z>>
<1>1. /\ <<x>> \in Seq({x, y, z}) /\ <<x, y>> \in Seq({x, y, z}) /\ <<x, y, z>> \in Seq({x, y, z})
  OBVIOUS
<1>2. ASSUME NEW s \in Seq({x, y, z}), NEW n \in 1..Len(s)
      PROVE  SubSeq(s, 1, n) \in Seq({x, y, z}) /\ Len(SubSeq(s, 1, n)) = n
             /\ \A i \in 1..n : SubSeq(s, 1, n)[i] = s[i]
  BY SubSeqProperties
<1>3. Len(<<x>>) = 1 /\ Len(<<x, y>>) = 2 /\ Len(<<x, y, z>>) = 3
  OBVIOUS
<1>4. ASSUME NEW s \in Seq({x, y, z}), NEW u \in Seq({x, y, z}), NEW n \in 1..Len(s), Len(u) = n,
             \A i \in 1..n : u[i] = s[i]
      PROVE  SubSeq(s, 1, n) = u
  BY <1>2, <1>4, SeqEqual
<1>a. \A i : /\ i \in 1..1 <=> i \in {1}
             /\ i \in 1..2 <=> i \in {1, 2}
             /\ i \in 1..3 <=> i \in {1, 2, 3}
  OBVIOUS
<1>b. /\ <<x>>[1] = x /\ <<x, y>>[1] = x /\ <<x, y>>[2] = y
      /\ <<x, y, z>>[1] = x /\ <<x, y, z>>[2] = y /\ <<x, y, z>>[3] = z
  OBVIOUS
<1>5. SubSeq(<<x>>, 1, 1) = <<x>>
  <2>1. 1 \in 1..Len(<<x>>) /\ Len(<<x>>) = 1 /\ \A i \in 1..1 : <<x>>[i] = <<x>>[i]
    BY <1>3, <1>a, <1>b
  <2> QED BY <1>1, <1>4, <2>1
<1>6. SubSeq(<<x, y>>, 1, 1) = <<x>>
  <2>1. 1 \in 1..Len(<<x, y>>) /\ Len(<<x>>) = 1 /\ \A i \in 1..1 : <<x>>[i] = <<x, y>>[i]
    BY <1>3, <1>a, <1>b
  <2> QED BY <1>1, <1>4, <2>1
<1>7. SubSeq(<<x, y>>, 1, 2) = <<x, y>>
  <2>1. 2 \in 1..Len(<<x, y>>) /\ Len(<<x, y>>) = 2 /\ \A i \in 1..2 : <<x, y>>[i] = <<x, y>>[i]
    BY <1>3, <1>a, <1>b
  <2> QED BY <1>1, <1>4, <2>1
<1>8. SubSeq(<<x, y, z>>, 1, 1) = <<x>>
  <2>1. 1 \in 1..Len(<<x, y, z>>) /\ Len(<<x>>) = 1 /\ \A i \in 1..1 : <<x>>[i] = <<x, y, z>>[i]
    BY <1>3, <1>a, <1>b
  <2> QED BY <1>1, <1>4, <2>1
<1>9. SubSeq(<<x, y, z>>, 1, 2) = <<x, y>>
  <2>1. 2 \in 1..Len(<<x, y, z>>) /\ Len(<<x, y>>) = 2 /\ \A i \in 1..2 : <<x, y>>[i] = <<x, y, z>>[i]
    BY <1>3, <1>a, <1>b
  <2> QED BY <1>1, <1>4, <2>1
<1>10. SubSeq(<<x, y, z>>, 1, 3) = <<x, y, z>>
  <2>1. 3 \in 1..Len(<<x, y, z>>) /\ Len(<<x, y, z>>) = 3 /\ \A i \in 1..3 : <<x, y, z>>[i] = <<x, y, z>>[i]
    BY <1>3, <1>a, <1>b
  <2> QED BY <1>1, <1>4, <2>1
<1> QED BY <1>3, <1>5, <1>6, <1>7, <1>8, <1>9, <1>10

LEMMA TopOf ==
  ASSUME NEW n \in Nat, NEW S \in SUBSET (1..n), NEW m \in S, \A i \in S : i <= m
  PROVE  Max(S) = m
<1>1. \E x \in S : \A y \in S : x >= y
  OBVIOUS
<1>2. PICK x \in S : x = Max(S) /\ \A y \in S : x >= y
  BY <1>1 DEF Max
<1>3. x \in 1..n /\ m \in 1..n /\ x >= m /\ x <= m
  BY <1>2
<1> QED BY <1>2, <1>3

LEMMA RuleOne ==
  ASSUME NEW rules, NEW x
  PROVE  Rule(rules, <<x>>) = IF <<x>> \in DOMAIN rules THEN rules[<<x>>] ELSE "deny"
<1> DEFINE covering == {i \in 1..Len(<<x>>) : SubSeq(<<x>>, 1, i) \in DOMAIN rules}
<1>1. /\ covering = {i \in {1} : <<x>> \in DOMAIN rules}
      /\ covering # {} => Max(covering) = 1
  <2>1. Len(<<x>>) = 1 /\ SubSeq(<<x>>, 1, 1) = <<x>>
    BY Parts
  <2>2. covering = {i \in {1} : <<x>> \in DOMAIN rules}
    <3>1. 1..1 = {1}
      OBVIOUS
    <3> QED BY <2>1, <3>1
  <2> HIDE DEF covering
  <2>3. covering # {} => Max(covering) = 1
    BY <2>2, TopOf
  <2> QED BY <2>2, <2>3
<1> QED BY <1>1, Parts DEF Rule

LEMMA RuleTwo ==
  ASSUME NEW rules, NEW x, NEW y
  PROVE  Rule(rules, <<x, y>>) = IF <<x, y>> \in DOMAIN rules THEN rules[<<x, y>>] ELSE Rule(rules, <<x>>)
<1> DEFINE covering == {i \in 1..Len(<<x, y>>) : SubSeq(<<x, y>>, 1, i) \in DOMAIN rules}
<1>1. /\ covering \in SUBSET {1, 2}
      /\ 1 \in covering <=> <<x>> \in DOMAIN rules
      /\ 2 \in covering <=> <<x, y>> \in DOMAIN rules
  <2>1. Len(<<x, y>>) = 2 /\ 1..2 = {1, 2}
    BY Parts
  <2>2. covering = {i \in {1, 2} : SubSeq(<<x, y>>, 1, i) \in DOMAIN rules}
    BY <2>1
  <2>3. SubSeq(<<x, y>>, 1, 1) = <<x>>
    BY Parts
  <2>4. SubSeq(<<x, y>>, 1, 2) = <<x, y>>
    BY Parts
  <2> HIDE DEF covering
  <2>5. 1 \in covering <=> <<x>> \in DOMAIN rules
    BY <2>2, <2>3
  <2>6. 2 \in covering <=> <<x, y>> \in DOMAIN rules
    BY <2>2, <2>4
  <2> QED BY <2>2, <2>5, <2>6
<1>2. Rule(rules, <<x, y>>) = IF covering = {} THEN "deny" ELSE rules[SubSeq(<<x, y>>, 1, Max(covering))]
  BY DEF Rule
<1> HIDE DEF covering
<1>3. covering \in SUBSET (1..2)
  BY <1>1
<1>4. CASE <<x, y>> \in DOMAIN rules
  <2>1. Max(covering) = 2
    BY <1>1, <1>3, <1>4, TopOf
  <2> QED BY <1>1, <1>2, <1>4, <2>1, Parts
<1>5. CASE <<x, y>> \notin DOMAIN rules /\ <<x>> \in DOMAIN rules
  <2>1. Max(covering) = 1
    BY <1>1, <1>3, <1>5, TopOf
  <2> QED BY <1>1, <1>2, <1>5, <2>1, Parts, RuleOne
<1>6. CASE <<x, y>> \notin DOMAIN rules /\ <<x>> \notin DOMAIN rules
  <2>1. covering = {}
    BY <1>1, <1>6
  <2> QED BY <1>2, <1>6, <2>1, RuleOne
<1> QED BY <1>4, <1>5, <1>6

LEMMA RuleThree ==
  ASSUME NEW rules, NEW x, NEW y, NEW z
  PROVE  Rule(rules, <<x, y, z>>) =
           IF <<x, y, z>> \in DOMAIN rules THEN rules[<<x, y, z>>] ELSE Rule(rules, <<x, y>>)
<1> DEFINE covering == {i \in 1..Len(<<x, y, z>>) : SubSeq(<<x, y, z>>, 1, i) \in DOMAIN rules}
<1>1. /\ covering \in SUBSET {1, 2, 3}
      /\ 1 \in covering <=> <<x>> \in DOMAIN rules
      /\ 2 \in covering <=> <<x, y>> \in DOMAIN rules
      /\ 3 \in covering <=> <<x, y, z>> \in DOMAIN rules
  <2>1. Len(<<x, y, z>>) = 3 /\ 1..3 = {1, 2, 3}
    BY Parts
  <2>2. covering = {i \in {1, 2, 3} : SubSeq(<<x, y, z>>, 1, i) \in DOMAIN rules}
    BY <2>1
  <2>3. SubSeq(<<x, y, z>>, 1, 1) = <<x>>
    BY Parts
  <2>4. SubSeq(<<x, y, z>>, 1, 2) = <<x, y>>
    BY Parts
  <2>5. SubSeq(<<x, y, z>>, 1, 3) = <<x, y, z>>
    BY Parts
  <2> HIDE DEF covering
  <2>6. 1 \in covering <=> <<x>> \in DOMAIN rules
    BY <2>2, <2>3
  <2>7. 2 \in covering <=> <<x, y>> \in DOMAIN rules
    BY <2>2, <2>4
  <2>8. 3 \in covering <=> <<x, y, z>> \in DOMAIN rules
    BY <2>2, <2>5
  <2> QED BY <2>2, <2>6, <2>7, <2>8
<1>2. Rule(rules, <<x, y, z>>) = IF covering = {} THEN "deny" ELSE rules[SubSeq(<<x, y, z>>, 1, Max(covering))]
  BY DEF Rule
<1> HIDE DEF covering
<1>3. covering \in SUBSET (1..3)
  BY <1>1
<1>4. CASE <<x, y, z>> \in DOMAIN rules
  <2>1. Max(covering) = 3
    BY <1>1, <1>3, <1>4, TopOf
  <2>2. covering # {}
    BY <1>1, <1>4
  <2>3. Rule(rules, <<x, y, z>>) = rules[SubSeq(<<x, y, z>>, 1, 3)]
    BY <1>2, <2>1, <2>2
  <2>4. SubSeq(<<x, y, z>>, 1, 3) = <<x, y, z>>
    BY Parts
  <2> QED BY <1>4, <2>3, <2>4
<1>5. CASE <<x, y, z>> \notin DOMAIN rules /\ <<x, y>> \in DOMAIN rules
  <2>1. Max(covering) = 2
    BY <1>1, <1>3, <1>5, TopOf
  <2> QED BY <1>1, <1>2, <1>5, <2>1, Parts, RuleTwo
<1>6. CASE <<x, y, z>> \notin DOMAIN rules /\ <<x, y>> \notin DOMAIN rules /\ <<x>> \in DOMAIN rules
  <2>1. Max(covering) = 1
    BY <1>1, <1>3, <1>6, TopOf
  <2>2. covering # {}
    BY <1>1, <1>6
  <2>3. Rule(rules, <<x, y, z>>) = rules[SubSeq(<<x, y, z>>, 1, 1)]
    BY <1>2, <2>1, <2>2
  <2>4. SubSeq(<<x, y, z>>, 1, 1) = <<x>>
    BY Parts
  <2>5. Rule(rules, <<x, y>>) = rules[<<x>>]
    BY <1>6, RuleTwo, RuleOne
  <2> QED BY <1>6, <2>3, <2>4, <2>5
<1>7. CASE <<x, y, z>> \notin DOMAIN rules /\ <<x, y>> \notin DOMAIN rules /\ <<x>> \notin DOMAIN rules
  <2>1. covering = {}
    BY <1>1, <1>7
  <2> QED BY <1>2, <1>7, <2>1, RuleTwo, RuleOne
<1> QED BY <1>4, <1>5, <1>6, <1>7

-----------------------------------------------------------------------------
(* The rules of a block by their first part.                               *)
LEMMA ServerShape == ASSUME NEW a, NEW r \in ServerRules(a) PROVE r[1] = "mcp" /\ Len(r) >= 2
BY DEF ServerRules

(* A rule with one part: the tool that bears the name decides.             *)
LEMMA OnePart ==
  ASSUME NEW a, AgentHolds(a), NEW k, <<k>> \in DOMAIN PermissionBlock(a)
  PROVE  \/ <<k>> \in DOMAIN OwnRules(a) /\ PermissionBlock(a)[<<k>>] = "allow"
         \/ \E t \in Gathered(a) : t.name = k /\ t.json # Absent /\ PermissionBlock(a)[<<k>>] = t.json
<1>1. CASE <<k>> \in DOMAIN OwnRules(a) /\ PermissionBlock(a)[<<k>>] = OwnRules(a)[<<k>>]
  BY <1>1, OwnAllowed
<1>2. CASE FromTool(a, <<k>>, PermissionBlock(a)[<<k>>])
  <2>1. ASSUME NEW t \in Gathered(a), NEW c \in Patterns(t), <<k>> = <<"bash">> \o c PROVE FALSE
    <3>1. Len(<<"bash">> \o c) >= 2
      BY ToolRuleShape
    <3>2. Len(<<k>>) = 1
      OBVIOUS
    <3> QED BY <2>1, <3>1, <3>2
  <2>2. PICK t \in Gathered(a) : <<k>> = <<t.name>> /\ t.json # Absent /\ PermissionBlock(a)[<<k>>] = t.json
    BY <1>2, <2>1 DEF FromTool
  <2>3. t.name = k
    BY <2>2
  <2> QED BY <2>2, <2>3
<1> QED BY <1>1, <1>2, RulesKnown

(* A longer rule that names no command of a tool is the agent's own.       *)
LEMMA MoreParts ==
  ASSUME NEW a, AgentHolds(a), NEW r \in DOMAIN PermissionBlock(a), Len(r) >= 2,
         r[1] # "bash" \/ r[2] = "opencode_manager"
  PROVE  r \in DOMAIN OwnRules(a) /\ PermissionBlock(a)[r] = "allow"
<1>1. CASE r \in DOMAIN OwnRules(a) /\ PermissionBlock(a)[r] = OwnRules(a)[r]
  BY <1>1, OwnAllowed
<1>2. CASE FromTool(a, r, PermissionBlock(a)[r])
  <2>1. ASSUME NEW t \in Gathered(a), NEW c \in Patterns(t), r = <<"bash">> \o c PROVE FALSE
    <3>1. (<<"bash">> \o c)[1] = "bash" /\ (<<"bash">> \o c)[2] # "opencode_manager"
      BY ToolRuleShape
    <3> QED BY <2>1, <3>1
  <2>2. ASSUME NEW t, r = <<t.name>> PROVE FALSE
    <3>1. Len(<<t.name>>) = 1
      OBVIOUS
    <3> QED BY <2>2, <3>1
  <2> QED BY <1>2, <2>1, <2>2 DEF FromTool
<1> QED BY <1>1, <1>2, RulesKnown

(* What an agent's blocks let through.                                     *)
Reaches(a, call) == call[1] \in Switches(a) /\ Rule(PermissionBlock(a), call) = "allow"

LEMMA SwitchedOn ==
  ASSUME NEW a, NEW r \in DOMAIN PermissionBlock(a)
  PROVE  r[1] \in Switches(a)
BY DEF Switches

(* A rule of the agent's own with one part opens it, unless withheld.      *)
LEMMA OwnOpens ==
  ASSUME NEW a, AgentHolds(a), NEW k, <<k>> \in DOMAIN OwnRules(a)
  PROVE  /\ k \in Switches(a)
         /\ Rule(PermissionBlock(a), <<k>>) = "allow" \/ Withheld(a, k)
<1>1. <<k>> \in DOMAIN PermissionBlock(a)
  BY OwnAllowed
<1>2. k \in Switches(a)
  BY <1>1, SwitchedOn
<1>3. Rule(PermissionBlock(a), <<k>>) = PermissionBlock(a)[<<k>>]
  BY <1>1, RuleOne
<1>4. PermissionBlock(a)[<<k>>] = "allow" \/ Withheld(a, k)
  BY <1>1, OnePart DEF Withheld
<1> QED BY <1>2, <1>3, <1>4

LEMMA DelegationOpens ==
  ASSUME NEW a, AgentHolds(a), NEW c \in Delegations(a)
  PROVE  Reaches(a, c) \/ Withheld(a, c[1])
<1>1. PICK k \in DOMAIN a.kids : c = IF a.kids[k] = "primary" THEN <<"bash", "opencode_manager", k>> ELSE <<"task", k>>
  BY DEF Delegations
<1>2. CASE a.kids[k] = "primary"
  <2>1. c = <<"bash", "opencode_manager", k>> /\ c[1] = "bash"
    BY <1>1, <1>2
  <2>2. <<"bash", "opencode_manager">> \in DOMAIN OwnRules(a)
    BY <1>2, OwnAllowed DEF PrimarySubagents
  <2>3. <<"bash", "opencode_manager">> \in DOMAIN PermissionBlock(a)
    BY <2>2, OwnAllowed
  <2>4. PermissionBlock(a)[<<"bash", "opencode_manager">>] = "allow"
    BY <2>3, MoreParts
  <2>5. c \in DOMAIN PermissionBlock(a) => PermissionBlock(a)[c] = "allow"
    BY <2>1, MoreParts
  <2>6. "bash" \in Switches(a)
    BY <2>3, SwitchedOn
  <2>7. Rule(PermissionBlock(a), <<"bash", "opencode_manager">>) = "allow"
    BY <2>3, <2>4, RuleTwo
  <2>8. Rule(PermissionBlock(a), c) = "allow"
    BY <2>1, <2>5, <2>7, RuleThree
  <2> QED BY <2>1, <2>6, <2>8 DEF Reaches
<1>3. CASE a.kids[k] # "primary"
  <2>1. c = <<"task", k>> /\ c[1] = "task"
    BY <1>1, <1>3
  <2>2. <<"task">> \in DOMAIN OwnRules(a)
    BY <1>3, OwnAllowed DEF TaskTargets
  <2>3. /\ "task" \in Switches(a)
        /\ Rule(PermissionBlock(a), <<"task">>) = "allow" \/ Withheld(a, "task")
    BY <2>2, OwnOpens
  <2>4. c \in DOMAIN PermissionBlock(a) => PermissionBlock(a)[c] = "allow"
    BY <2>1, MoreParts
  <2>5. Rule(PermissionBlock(a), c) = "allow" \/ Rule(PermissionBlock(a), c) = Rule(PermissionBlock(a), <<"task">>)
    BY <2>1, <2>4, RuleTwo
  <2> QED BY <2>1, <2>3, <2>5 DEF Reaches
<1> QED BY <1>2, <1>3

(* A call with one part that the agent's own rules name.                   *)
LEMMA OneOpens ==
  ASSUME NEW a, AgentHolds(a), NEW k, <<k>> \in DOMAIN OwnRules(a)
  PROVE  Reaches(a, <<k>>) \/ Withheld(a, <<k>>[1])
<1>1. <<k>>[1] = k
  OBVIOUS
<1> QED BY <1>1, OwnOpens DEF Reaches

LEMMA TrackingOpens ==
  ASSUME NEW a, AgentHolds(a), NEW c \in Tracking(a) \ Unruled
  PROVE  Reaches(a, c) \/ Withheld(a, c[1])
<1>1. Tracks(a) /\ a.mode # "subagent" /\ c \in {<<"todowrite">>, <<"todoread">>}
  BY DEF Tracking, Unruled
<1>2. {"todoread", "todowrite"} \subseteq TodoTools(a)
  BY <1>1 DEF TodoTools, AgentHolds
<1>3. c \in DOMAIN OwnRules(a)
  BY <1>1, <1>2, OwnAllowed
<1> QED BY <1>1, <1>3, OneOpens

LEMMA PromiseOpens ==
  ASSUME NEW a, AgentHolds(a), NEW c \in Promises(a) \ Unruled
  PROVE  Reaches(a, c) \/ Withheld(a, c[1])
<1>1. \/ \E k \in On(a) \cap {"read", "write"} : c = <<k>>
      \/ c \in Delegations(a)
      \/ \E s \in SkillNames(a) : c = <<"skill", s>>
  BY DEF Promises, Unruled
<1>2. CASE \E k \in On(a) \cap {"read", "write"} : c = <<k>>
  <2>1. PICK k \in On(a) \cap {"read", "write"} : c = <<k>>
    BY <1>2
  <2>2. k \in ToggleKeys(a)
    BY DEF ToggleKeys
  <2>3. c \in DOMAIN OwnRules(a)
    BY <2>1, <2>2, OwnAllowed
  <2> QED BY <2>1, <2>3, OneOpens
<1>3. CASE \E s \in SkillNames(a) : c = <<"skill", s>>
  <2>1. PICK s \in SkillNames(a) : c = <<"skill", s>>
    BY <1>3
  <2>2. c \in DOMAIN OwnRules(a) /\ c \in DOMAIN PermissionBlock(a)
    BY <2>1, OwnAllowed
  <2>3. PermissionBlock(a)[c] = "allow" /\ c[1] = "skill"
    BY <2>1, <2>2, MoreParts
  <2>4. Rule(PermissionBlock(a), c) = "allow"
    BY <2>1, <2>2, <2>3, RuleTwo
  <2> QED BY <2>2, <2>3, <2>4, SwitchedOn DEF Reaches
<1> QED BY <1>1, <1>2, <1>3, DelegationOpens

(* A toggle that is off is opened only by a tool that bears its name.      *)
LEMMA OffStaysShut ==
  ASSUME NEW a, AgentHolds(a), NEW k \in FileToggles, k \notin On(a), Reaches(a, <<k>>)
  PROVE  Asks(a, k)
<1>1. Rule(PermissionBlock(a), <<k>>) = "allow"
  BY DEF Reaches
<1>2. <<k>> \in DOMAIN PermissionBlock(a)
  BY <1>1, RuleOne
<1>3. CASE <<k>> \in DOMAIN OwnRules(a)
  <2>1. k \notin TodoTools(a) /\ k \notin ToggleKeys(a) /\ k # "task"
    BY DEF FileToggles, TodoTools, ToggleKeys
  <2>2. <<k>> \notin ServerRules(a)
    <3>1. <<k>>[1] = k /\ k # "mcp"
      BY DEF FileToggles
    <3> QED BY <3>1, ServerShape
  <2> QED BY <1>3, <2>1, <2>2, OwnAllowed
<1>4. CASE \E t \in Gathered(a) : t.name = k /\ t.json # Absent /\ PermissionBlock(a)[<<k>>] = t.json
  BY <1>4 DEF Asks
<1> QED BY <1>2, <1>3, <1>4, OnePart

(* A toggle that is on is open, unless a tool of its name withholds it.    *)
LEMMA OnStaysOpen ==
  ASSUME NEW a, AgentHolds(a), NEW k \in On(a) \cap FileToggles
  PROVE  Reaches(a, <<k>>) \/ Withheld(a, k)
<1>1. k \in ToggleKeys(a)
  BY DEF ToggleKeys, FileToggles
<1>2. <<k>> \in DOMAIN OwnRules(a)
  BY <1>1, OwnAllowed
<1>3. <<k>>[1] = k
  OBVIOUS
<1> QED BY <1>2, <1>3, OneOpens

(* What Claude's settings allow next to a block that allows it.            *)
LEMMA AllowancesAre ==
  ASSUME NEW t, NEW p
  PROVE  p \in Allowances(t) <=>
           \/ \E s \in DOMAIN t : \E tool \in Gathered(t[s]) :
                tool.bash # Absent /\ \E c \in Patterns(tool) : p = <<"bash">> \o c
           \/ \E s \in DOMAIN t : \E x \in SkillNames(t[s]) : p = <<"skill", x>>
           \/ \E j \in FileToggles : Capable(t, j) /\ p = <<j>>
<1> DEFINE tools == UNION {Gathered(t[s]) : s \in DOMAIN t}
           commands == UNION {Patterns(x) : x \in {x \in tools : x.bash # Absent}}
           skills == UNION {SkillNames(t[s]) : s \in DOMAIN t}
<1>1. Allowances(t) = {<<"bash">> \o c : c \in commands} \cup {<<"skill", k>> : k \in skills}
                      \cup {<<k>> : k \in {k \in FileToggles : Capable(t, k)}}
  BY DEF Allowances
<1>2. \A x : x \in tools <=> \E s \in DOMAIN t : x \in Gathered(t[s])
  OBVIOUS
<1>3. \A k : k \in skills <=> \E s \in DOMAIN t : k \in SkillNames(t[s])
  OBVIOUS
<1> HIDE DEF tools
<1>4. \A c : c \in commands <=> \E x \in tools : x.bash # Absent /\ c \in Patterns(x)
  OBVIOUS
<1> HIDE DEF commands, skills
<1> DEFINE Runs == {<<"bash">> \o c : c \in commands}
           Loads == {<<"skill", k>> : k \in skills}
           Toggled == {<<k>> : k \in {k \in FileToggles : Capable(t, k)}}
<1>5. /\ p \in Runs <=> \E c \in commands : p = <<"bash">> \o c
      /\ p \in Loads <=> \E k \in skills : p = <<"skill", k>>
  OBVIOUS
<1>6. p \in Toggled <=> \E j \in FileToggles : Capable(t, j) /\ p = <<j>>
  OBVIOUS
<1>7. p \in Allowances(t) <=> p \in Runs \/ p \in Loads \/ p \in Toggled
  BY <1>1
<1> HIDE DEF Runs, Loads, Toggled
<1>8. p \in Runs <=> \E s \in DOMAIN t : \E tool \in Gathered(t[s]) :
                       tool.bash # Absent /\ \E c \in Patterns(tool) : p = <<"bash">> \o c
  BY <1>2, <1>4, <1>5
<1>9. p \in Loads <=> \E s \in DOMAIN t : \E x \in SkillNames(t[s]) : p = <<"skill", x>>
  BY <1>3, <1>5
<1> QED BY <1>6, <1>7, <1>8, <1>9

LEMMA CommandsAllowed ==
  ASSUME NEW t \in Trees, NEW s \in DOMAIN t, NEW a \in {t[s], Primary(t[s])},
         NEW p \in DOMAIN PermissionBlock(a), p[1] = "bash", p[2] # "opencode_manager"
  PROVE  p \in Allowances(t)
<1>1. AgentHolds(a) /\ Gathered(a) = Gathered(t[s])
  BY TreesHold, PrimaryTools DEF AgentHolds
<1>2. CASE p \in DOMAIN OwnRules(a)
  <2>1. \A r \in ServerRules(a) : r[1] = "mcp"
    BY ServerShape
  <2>2. \/ \E x \in SkillNames(a) : p = <<"skill", x>>
        \/ p = <<"task">>
        \/ p = <<"bash", "opencode_manager">>
        \/ \E k \in TodoTools(a) \cup ToggleKeys(a) : p = <<k>>
    BY <1>2, <2>1, OwnAllowed
  <2>3. "bash" \notin TodoTools(a) \cup ToggleKeys(a)
    BY DEF TodoTools, ToggleKeys, On, Toggles
  <2> QED BY <2>2, <2>3
<1>3. CASE FromTool(a, p, PermissionBlock(a)[p])
  <2>1. PICK tool \in Gathered(t[s]) : \/ tool.bash # Absent /\ \E c \in Patterns(tool) : p = <<"bash">> \o c
                                       \/ p = <<tool.name>>
    BY <1>1, <1>3 DEF FromTool
  <2>2. p # <<tool.name>>
    <3>1. tool.name # "bash"
      BY <1>1, <2>1, ToolRuleShape
    <3>2. <<tool.name>>[1] = tool.name
      OBVIOUS
    <3> QED BY <3>1, <3>2
  <2>3. PICK c \in Patterns(tool) : p = <<"bash">> \o c
    BY <2>1, <2>2
  <2> QED BY <2>1, <2>2, <2>3, AllowancesAre
<1> QED BY <1>1, <1>2, <1>3, RulesKnown

(* The settings let no single call through but those of a capable agent.   *)
LEMMA CapableAllowed ==
  ASSUME NEW t \in Trees, NEW k \in FileToggles, <<k>> \in Allowances(t)
  PROVE  \E s \in DOMAIN t : k \in On(t[s])
<1>1. ASSUME NEW s \in DOMAIN t, NEW tool \in Gathered(t[s]), NEW c \in Patterns(tool), <<k>> = <<"bash">> \o c
      PROVE  FALSE
  <2>1. Len(<<"bash">> \o c) >= 2
    BY TreesHold, ToolRuleShape
  <2>2. Len(<<k>>) = 1
    OBVIOUS
  <2> QED BY <1>1, <2>1, <2>2
<1>2. ASSUME NEW x, <<k>> = <<"skill", x>> PROVE FALSE
  <2>1. Len(<<k>>) = 1 /\ Len(<<"skill", x>>) = 2
    OBVIOUS
  <2> QED BY <1>2, <2>1
<1>3. \E j \in FileToggles : Capable(t, j) /\ <<k>> = <<j>>
  BY <1>1, <1>2, AllowancesAre
<1>4. Capable(t, k)
  BY <1>3
<1> QED BY <1>4 DEF Capable

-----------------------------------------------------------------------------
(* The inductive invariant: a file holds what was rendered from one of the *)
(* pass's agents or its twin, and the settings what was made of them all.  *)
FilesRendered ==
  \A w \in DOMAIN written : \E s \in DOMAIN rendered :
    \E a \in {rendered[s], Primary(rendered[s])} : written[w] = Rendered(a)

PermInv ==
  /\ harness \in Harnesses /\ rendered \in Trees /\ unwritten \subseteq DOMAIN rendered
  /\ FilesRendered
  /\ settings # NoPermission => settings = [allow |-> Allowances(rendered), deny |-> Denials(rendered)]

LEMMA PermInitially == PermissionsInit => PermInv
BY DEF PermissionsInit, PermInv, FilesRendered, NoPermission

LEMMA RenderAgentHolds ==
  ASSUME PermInv, NEW slot \in unwritten, RenderAgent(slot)
  PROVE  PermInv'
<1> DEFINE a == rendered[slot]
           new == {<<slot, "own">>} \cup {w \in {<<slot, "twin">>} : Twinned(a)}
<1>1. /\ slot \in DOMAIN rendered /\ UNCHANGED <<harness, rendered, settings>> /\ unwritten' \subseteq unwritten
  BY DEF PermInv, RenderAgent
<1>2. written' = [w \in DOMAIN written \cup new |->
                    CASE w = <<slot, "own">>  -> Rendered(a)
                      [] w = <<slot, "twin">> -> Twin(a)
                      [] OTHER                -> written[w]]
  BY DEF RenderAgent
<1>3. \A x : Rendered(x)' = Rendered(x)
  BY <1>1 DEF Rendered
<1> HIDE DEF a
<1>4. ASSUME NEW w \in DOMAIN written'
      PROVE  \E s \in DOMAIN rendered : \E x \in {rendered[s], Primary(rendered[s])} : written'[w] = Rendered(x)
  <2>1. CASE w = <<slot, "own">>
    <3>1. written'[w] = Rendered(a)
      BY <1>2, <1>4, <2>1
    <3> QED BY <1>1, <3>1 DEF a
  <2>2. CASE w = <<slot, "twin">>
    <3>1. written'[w] = Rendered(Primary(a))
      BY <1>2, <1>4, <2>2 DEF Twin
    <3> QED BY <1>1, <3>1 DEF a
  <2>3. CASE w # <<slot, "own">> /\ w # <<slot, "twin">>
    <3>1. w \in DOMAIN written /\ written'[w] = written[w]
      BY <1>2, <1>4, <2>3
    <3> QED BY <3>1 DEF PermInv, FilesRendered
  <2> QED BY <2>1, <2>2, <2>3
<1>5. FilesRendered'
  BY <1>1, <1>3, <1>4 DEF FilesRendered
<1> QED BY <1>1, <1>5 DEF PermInv

LEMMA WriteSettingsHolds ==
  ASSUME PermInv, WriteSettings
  PROVE  PermInv'
<1>1. UNCHANGED <<harness, rendered, unwritten, written>>
      /\ settings' = [allow |-> Allowances(rendered), deny |-> Denials(rendered)]
  BY DEF WriteSettings
<1>2. FilesRendered'
  BY <1>1 DEF PermInv, FilesRendered, Rendered
<1> QED BY <1>1, <1>2 DEF PermInv

LEMMA PermInductive == ASSUME PermInv, [PermissionsNext]_permissions PROVE PermInv'
<1>1. CASE UNCHANGED permissions
  BY <1>1 DEF permissions, PermInv, FilesRendered, Rendered
<1> QED BY <1>1, RenderAgentHolds, WriteSettingsHolds DEF PermissionsNext

LEMMA PermissionsHold == PermissionsSpec => []PermInv
<1>1. PermInv /\ [PermissionsNext]_permissions => PermInv'
  BY PermInductive
<1> QED BY PermInitially, <1>1, PTL DEF PermissionsSpec

-----------------------------------------------------------------------------
(* What the invariant says of one file.                                    *)
LEMMA OneFile ==
  ASSUME PermInv, NEW w \in DOMAIN written
  PROVE  \E s \in DOMAIN rendered : \E a \in {rendered[s], Primary(rendered[s])} :
           /\ written[w] = Rendered(a) /\ written[w].agent = a /\ AgentHolds(a)
           /\ On(a) = On(rendered[s]) /\ (Explicit(a) <=> Explicit(rendered[s]))
<1>a. PICK s \in DOMAIN rendered : \E a \in {rendered[s], Primary(rendered[s])} : written[w] = Rendered(a)
  BY DEF PermInv, FilesRendered
<1>1. PICK a \in {rendered[s], Primary(rendered[s])} : written[w] = Rendered(a)
  BY <1>a
<1>2. AgentHolds(rendered[s]) /\ AgentHolds(a)
  BY TreesHold DEF PermInv
<1>3. On(a) = On(rendered[s]) /\ (Explicit(a) <=> Explicit(rendered[s]))
  BY <1>2, PrimaryTools DEF AgentHolds
<1>4. written[w].agent = a
  BY <1>1 DEF Rendered, PermInv, Harnesses
<1> QED BY <1>1, <1>2, <1>3, <1>4

LEMMA OnlyTheExplicit == ASSUME NEW a, NEW k \in On(a), k \in FileToggles PROVE Explicit(a)
BY DEF On, Explicit, Unset, Toggles

LEMMA OpenCodeIs ==
  ASSUME harness = "opencode", NEW a, NEW call
  PROVE  Lets(Rendered(a), call) <=> Reaches(a, call)
BY DEF Lets, Rendered, OpenCodeLets, Reaches

LEMMA DeliverableFollows == ASSUME PermInv PROVE PromptIsDeliverable
<1> SUFFICES ASSUME harness = "opencode", NEW w \in DOMAIN written,
                    NEW c \in (Delegations(written[w].agent) \cup Tracking(written[w].agent)
                               \cup Promises(written[w].agent)) \ Unruled
             PROVE  Lets(written[w], c) \/ Withheld(written[w].agent, c[1])
  BY DEF PromptIsDeliverable
<1>1. PICK a : written[w] = Rendered(a) /\ written[w].agent = a /\ AgentHolds(a)
  BY OneFile
<1>2. Reaches(a, c) \/ Withheld(a, c[1])
  BY <1>1, DelegationOpens, TrackingOpens, PromiseOpens
<1> QED BY <1>1, <1>2, OpenCodeIs

LEMMA PrivilegeFollows == ASSUME PermInv PROVE LeastPrivilege
<1> SUFFICES ASSUME NEW w \in DOMAIN written, NEW k \in FileToggles,
                    Explicit(written[w].agent), k \notin On(written[w].agent)
             PROVE  CASE harness = "opencode" -> Lets(written[w], <<k>>) => Asks(written[w].agent, k)
                      [] harness = "claude" -> settings # NoPermission /\ <<k>> \in settings.allow =>
                                                 \E s \in DOMAIN rendered : k \in On(rendered[s])
                      [] harness = "pi" -> k \notin written[w].tools
                      [] harness = "codex" ->
                           k = "read" \/ On(written[w].agent) \cap {"write", "edit"} # {} \/ ~Lets(written[w], <<k>>)
  BY DEF LeastPrivilege
<1>1. PICK a : written[w] = Rendered(a) /\ written[w].agent = a /\ AgentHolds(a)
  BY OneFile
<1>2. CASE harness = "opencode"
  BY <1>1, <1>2, OpenCodeIs, OffStaysShut
<1>3. CASE harness = "claude"
  BY <1>3, CapableAllowed DEF PermInv
<1>4. CASE harness = "pi"
  BY <1>1, <1>4 DEF Rendered, PiTools, Disallowed
<1>5. CASE harness = "codex"
  <2>1. written[w].sandbox = Sandbox(a)
    BY <1>1, <1>5 DEF Rendered
  <2>2. ASSUME k # "read", On(a) \cap {"write", "edit"} = {} PROVE ~Lets(written[w], <<k>>)
    <3>1. written[w].sandbox = "read-only"
      BY <1>1, <2>1, <2>2 DEF Sandbox
    <3>2. <<k>>[1] \in {"write", "edit"}
      BY <2>2 DEF FileToggles
    <3> QED BY <1>5, <3>1, <3>2 DEF Lets
  <2> QED BY <1>1, <1>5, <2>2
<1> QED BY <1>2, <1>3, <1>4, <1>5 DEF PermInv, Harnesses

LEMMA NobodyFollows == ASSUME PermInv PROVE NobodyLockedOut
<1> SUFFICES ASSUME NEW w \in DOMAIN written
             PROVE  /\ \A k \in On(written[w].agent) \cap FileToggles :
                         Lets(written[w], <<k>>) \/ Withheld(written[w].agent, k)
                    /\ harness = "claude" /\ settings # NoPermission =>
                         \A p \in DOMAIN written[w].rules :
                           written[w].rules[p] = "allow" /\ p[1] = "bash" /\ p[2] # "opencode_manager" =>
                             p \in settings.allow
  BY DEF NobodyLockedOut
<1>a. PICK s \in DOMAIN rendered :
        \E a \in {rendered[s], Primary(rendered[s])} :
           /\ written[w] = Rendered(a) /\ written[w].agent = a /\ AgentHolds(a)
           /\ On(a) = On(rendered[s]) /\ (Explicit(a) <=> Explicit(rendered[s]))
  BY OneFile
<1>1. PICK a \in {rendered[s], Primary(rendered[s])} :
           /\ written[w] = Rendered(a) /\ written[w].agent = a /\ AgentHolds(a)
           /\ On(a) = On(rendered[s]) /\ (Explicit(a) <=> Explicit(rendered[s]))
  BY <1>a
<1>2. ASSUME NEW k \in On(a) \cap FileToggles PROVE Lets(written[w], <<k>>) \/ Withheld(a, k)
  <2>0. Explicit(a) /\ <<k>>[1] = k
    BY OnlyTheExplicit
  <2>1. CASE harness = "opencode"
    BY <1>1, <2>1, OpenCodeIs, OnStaysOpen
  <2>2. CASE harness = "claude"
    <3>1. Capable(rendered, k)
      BY <1>1, <2>0 DEF Capable
    <3>2. <<k>> \notin Denials(rendered)
      BY <3>1 DEF Denials
    <3> QED BY <2>0, <2>2, <3>2 DEF Lets, PermInv
  <2>3. CASE harness = "pi"
    <3>1. k \notin Disallowed(a)
      BY <2>0 DEF Disallowed
    <3>2. k \in PiTools(a)
      BY <2>0, <3>1 DEF PiTools
    <3> QED BY <1>1, <2>0, <2>3, <3>1, <3>2 DEF Lets, Rendered
  <2>4. CASE harness = "codex"
    <3>1. k \in {"write", "edit"} => Sandbox(a) = "workspace-write"
      BY DEF Sandbox
    <3> QED BY <1>1, <2>0, <2>4, <3>1 DEF Lets, Rendered
  <2> QED BY <2>1, <2>2, <2>3, <2>4 DEF PermInv, Harnesses
<1>3. ASSUME harness = "claude", settings # NoPermission,
             NEW p \in DOMAIN written[w].rules, p[1] = "bash", p[2] # "opencode_manager"
      PROVE  p \in settings.allow
  <2>1. written[w].rules = PermissionBlock(a)
    BY <1>1, <1>3 DEF Rendered
  <2>2. p \in Allowances(rendered)
    BY <1>1, <1>3, <2>1, CommandsAllowed DEF PermInv
  <2> QED BY <1>3, <2>2 DEF PermInv
<1> QED BY <1>1, <1>2, <1>3

(* For every tree of agents: what the prompt of an OpenCode file tells its *)
(* agent to call, its blocks let through or a tool of its own withholds,   *)
(* twins included and the unruled scripts apart.                           *)
THEOREM PromptsDeliver == PermissionsSpec => []PromptIsDeliverable
  BY DeliverableFollows, PermissionsHold, PTL

(* For every tree: a toggle explicitly left off is opened by nothing but,  *)
(* in OpenCode, a tool that bears its name, in Claude's shared settings,   *)
(* another agent that has it on and, in Codex, the sandbox of an agent     *)
(* that may write or edit.                                                 *)
THEOREM PrivilegesStay == PermissionsSpec => []LeastPrivilege
  BY PrivilegeFollows, PermissionsHold, PTL

(* For every tree and dialect: an agent keeps what it was given, whatever  *)
(* its siblings were not given, and Claude's settings the commands of its  *)
(* frontmatter, opencode_manager apart.                                    *)
THEOREM EveryoneKeepsTheirs == PermissionsSpec => []NobodyLockedOut
  BY NobodyFollows, PermissionsHold, PTL

-----------------------------------------------------------------------------
(* Compile.                                                                *)
Typed(t) == \A f \in DOMAIN t : f = File(f.dir, f.stem) /\ "run" \in DOMAIN t[f]

(* The passes whose cleaning is behind the run.                            *)
CleanedPasses == CASE pc = "idle" -> 1..Passes
                   [] pc = "pass" -> 1..(pass - 1)
                   [] OTHER       -> 1..pass

(* A file of an earlier run may still be called so.                        *)
MayBeOld(stem) ==
  /\ Strategy # "full"
  /\ Strategy = "per_variant" =>
       ~ \E i \in CleanedPasses : /\ ~Single /\ Variant(i).postfix # <<>>
                                  /\ IsSuffix(Variant(i).postfix, stem)

Fresh(t) == \A f \in DOMAIN t : t[f].run = runs \/ MayBeOld(f.stem)

Control == /\ pass \in Nat \ {0}
           /\ pc = "idle" => pass = 1
           /\ pc # "idle" => cmd \in Commands
           /\ pc # "idle" => outcome = "running"

(* The inductive invariant: already during a run, what the cleaned passes  *)
(* had to remove is gone.                                                  *)
IInv == /\ Control /\ Typed(tree)
        /\ pc = "move" => Under(tree, ".claude") = {}
        /\ pc \notin {"idle", "wipe"} \/ Done => Fresh(tree)

-----------------------------------------------------------------------------
(* What the steps of a pass do to a tree: every text in u is of run r, or  *)
(* was in t under the same stem.                                           *)
Renews(t, u, r) ==
  \A f \in DOMAIN u : \/ u[f].run = r
                      \/ \E g \in DOMAIN t : g.stem = f.stem /\ u[f].run = t[g].run

LEMMA RenewsRefl == ASSUME NEW t, NEW r PROVE Renews(t, t, r)
  BY DEF Renews

LEMMA RenewsTrans ==
  ASSUME NEW t, NEW u, NEW v, NEW r, Renews(t, u, r), Renews(u, v, r)
  PROVE  Renews(t, v, r)
  BY DEF Renews

(* Put adds a text of this run.                                            *)
LEMMA PutRenews ==
  ASSUME NEW t, NEW f, NEW text, NEW r, text.run = r
  PROVE  Renews(t, Put(t, f, text), r)
  BY DEF Renews, Put

LEMMA PutTyped ==
  ASSUME NEW t, NEW d, NEW s, NEW text, Typed(t), "run" \in DOMAIN text
  PROVE  Typed(Put(t, File(d, s), text))
  BY DEF Typed, Put, File

(* Del removes files and changes none.                                     *)
LEMMA DelRenews ==
  ASSUME NEW t, NEW F, NEW r, Typed(t)
  PROVE  Renews(t, Del(t, F), r) /\ Typed(Del(t, F))
  BY DEF Renews, Del, Typed

(* The texts of a pass are of this run.                                    *)
LEMMA Texts ==
  /\ \A i, w : AgentText(i, w).run = runs /\ "run" \in DOMAIN AgentText(i, w)
  /\ \A n, i : SharedText(n, i).run = runs /\ "run" \in DOMAIN SharedText(n, i)
  BY DEF AgentText, SharedText

LEMMA TooledRenews ==
  ASSUME NEW t, Typed(t)
  PROVE  Renews(t, Tooled(t), runs) /\ Typed(Tooled(t))
<1> DEFINE text == SharedText("tools", pass)
<1>1. text.run = runs /\ "run" \in DOMAIN text
  BY Texts
<1>2. \E d, s : ToolFile = File(d, s)
  BY DEF ToolFile
<1> HIDE DEF text
<1>3. Renews(t, Put(t, ToolFile, text), runs) /\ Typed(Put(t, ToolFile, text))
  BY <1>1, <1>2, PutRenews, PutTyped
<1> QED
  BY <1>3, RenewsRefl DEF Tooled, text

LEMMA IndexedRenews ==
  ASSUME NEW t, Typed(t)
  PROVE  Renews(t, Indexed(t), runs) /\ Typed(Indexed(t))
<1>1. \A n : Renews(t, Put(t, File(".claude", <<"settings">>), SharedText(n, pass)), runs)
  BY Texts, PutRenews
<1>2. \A n : Typed(Put(t, File(".claude", <<"settings">>), SharedText(n, pass)))
  BY Texts, PutTyped
<1>3. \A n : Renews(t, Put(t, File(".", <<"AGENTS">>), SharedText(n, pass)), runs)
  BY Texts, PutRenews
<1>4. \A n : Typed(Put(t, File(".", <<"AGENTS">>), SharedText(n, pass)))
  BY Texts, PutTyped
<1> QED
  BY <1>1, <1>2, <1>3, <1>4, RenewsRefl DEF Indexed

LEMMA Serving ==
  ASSUME NEW x, "run" \in DOMAIN x
  PROVE  /\ [x EXCEPT !.served = TRUE].run = x.run
         /\ "run" \in DOMAIN [x EXCEPT !.served = TRUE]
  BY Zenon

(* Codex's registration changes the text of a file and not its run.        *)
LEMMA ServedRenews ==
  ASSUME NEW t, Typed(t)
  PROVE  Renews(t, Served(t), runs) /\ Typed(Served(t))
<1> DEFINE u == [f \in DOMAIN t |->
                   IF f.dir = ".codex" THEN [t[f] EXCEPT !.served = TRUE] ELSE t[f]]
<1>1. ASSUME NEW f \in DOMAIN t PROVE u[f].run = t[f].run /\ "run" \in DOMAIN u[f]
  <2>1. CASE f.dir = ".codex"
    <3>1. u[f] = [t[f] EXCEPT !.served = TRUE] /\ "run" \in DOMAIN t[f]
      BY <2>1 DEF Typed
    <3> QED
      BY <3>1, Serving
  <2>2. CASE f.dir # ".codex"
    BY <2>2 DEF Typed
  <2> QED
    BY <2>1, <2>2
<1>2. DOMAIN u = DOMAIN t
  OBVIOUS
<1> HIDE DEF u
<1>3. Renews(t, u, runs) /\ Typed(u)
  BY <1>1, <1>2 DEF Renews, Typed
<1> QED
  BY <1>3, RenewsRefl DEF Served, u

(* The move to .claude keeps every text under its stem.                    *)
LEMMA MoveRenews ==
  ASSUME Typed(tree), Under(tree, ".claude") = {}, Move
  PROVE  Renews(tree, tree', runs) /\ Typed(tree')
<1>1. ASSUME NEW f \in DOMAIN tree'
      PROVE  \E g \in DOMAIN tree : /\ g.stem = f.stem /\ tree'[f] = tree[g]
                                     /\ f = File(f.dir, f.stem)
  <2>1. PICK g \in DOMAIN tree : f = Renamed(g)
    BY <1>1 DEF Move
  <2>2. g = File(g.dir, g.stem) /\ g.dir # ".claude"
    BY Zenon DEF Typed, Under
  <2>3. tree'[f] = tree[IF f.dir = ".claude" THEN [f EXCEPT !.dir = ".opencode"] ELSE f]
    BY <1>1 DEF Move
  <2>4. PICK d, s : g = File(d, s)
    BY <2>2
  <2>5. CASE d = ".opencode"
    <3>1. f = File(".claude", s)
      BY <2>1, <2>4, <2>5 DEF Renamed, File
    <3>2. [f EXCEPT !.dir = ".opencode"] = g
      BY <3>1, <2>4, <2>5 DEF File
    <3> QED
      BY <3>1, <3>2, <2>3, <2>4 DEF File
  <2>6. CASE d # ".opencode"
    <3>1. f = g /\ f.dir # ".claude"
      BY <2>1, <2>2, <2>4, <2>6 DEF Renamed, File
    <3> QED
      BY <3>1, <2>2, <2>3
  <2> QED
    BY <2>5, <2>6
<1>2. Renews(tree, tree', runs)
  BY <1>1 DEF Renews
<1>3. Typed(tree')
  BY <1>1 DEF Typed
<1> QED
  BY <1>2, <1>3

-----------------------------------------------------------------------------
(* A step that renews the tree and cleans for no further pass keeps it     *)
(* fresh.                                                                  *)
LEMMA FreshKept ==
  ASSUME Fresh(tree), Renews(tree, tree', runs), runs' = runs, cmd' = cmd,
         CleanedPasses' \subseteq CleanedPasses
  PROVE  Fresh(tree)'
<1>1. \A s : MayBeOld(s) => MayBeOld(s)'
  BY DEF MayBeOld, Strategy, Single, Variant
<1> QED
  BY <1>1 DEF Fresh, Renews

(* StartPass: what is named for the pass goes.                             *)
LEMMA CleanedFresh ==
  ASSUME IInv, StartPass, pc' = "scripts"
  PROVE  Fresh(tree)'
<1>1. /\ pc = "pass" /\ pass' = pass /\ cmd' = cmd /\ runs' = runs
      /\ tree' = Cleaned /\ pass \in Nat \ {0} /\ Fresh(tree)
  BY DEF StartPass, Ends, IInv, Control
<1>2. CleanedPasses' = CleanedPasses \cup {pass}
  BY <1>1 DEF CleanedPasses
<1>3. ASSUME NEW f \in DOMAIN tree'
      PROVE  tree'[f].run = runs' \/ MayBeOld(f.stem)'
  <2>1. f \in DOMAIN tree /\ tree'[f] = tree[f]
    BY <1>1 DEF Cleaned, Del
  <2>2. Strategy = "per_variant" /\ ~Single =>
          ~ (/\ Variant(pass).postfix # <<>>
             /\ IsSuffix(Variant(pass).postfix, f.stem))
    BY <1>1, <2>1 DEF Cleaned, Del, VariantArtifacts
  <2>3. tree[f].run = runs \/ MayBeOld(f.stem)
    BY <1>1, <2>1 DEF Fresh
  <2>4. MayBeOld(f.stem) => MayBeOld(f.stem)'
    BY <1>1, <1>2, <2>2 DEF MayBeOld, Strategy, Single, Variant
  <2> QED
    BY <1>1, <2>1, <2>3, <2>4
<1> QED
  BY <1>3 DEF Fresh

(* A run that ends without being done promises nothing of its tree.        *)
LEMMA EndsEarly ==
  ASSUME IInv, NEW how, Ends(how), how \notin {"done", "running"}, Typed(tree')
  PROVE  IInv'
  BY DEF IInv, Ends, Control, Done

LEMMA RunInductive == ASSUME IInv, Run PROVE IInv'
<1>1. CASE Ends("raised") \/ Ends("dry")
  <2>1. Typed(tree')
    BY DEF IInv, Run
  <2> QED
    BY <1>1, <2>1, EndsEarly
<1>2. CASE /\ pc' = IF cmd'.strategy = "full" THEN "wipe" ELSE "pass"
           /\ outcome' = "running" /\ UNCHANGED <<pass, scripts, agents>>
  <2>1. Control' /\ Typed(tree') /\ pc' # "move" /\ ~Done'
    BY <1>2 DEF IInv, Run, Control, Done
  <2>2. ASSUME pc' # "wipe" PROVE \A s : MayBeOld(s)'
    <3>1. pc' = "pass" /\ cmd'.strategy # "full" /\ pass' = 1
      BY <1>2, <2>2 DEF IInv, Run, Control
    <3>2. CleanedPasses' = {}
      BY <3>1 DEF CleanedPasses
    <3> QED
      BY <3>1, <3>2 DEF MayBeOld, Strategy
  <2> QED
    BY <2>1, <2>2 DEF IInv, Fresh
<1> QED
  BY <1>1, <1>2 DEF Run

LEMMA PrepareTargetInductive == ASSUME IInv, PrepareTarget PROVE IInv'
<1>1. DOMAIN tree' = {}
  BY DEF PrepareTarget, None
<1>2. Typed(tree') /\ Fresh(tree)'
  BY <1>1 DEF Typed, Fresh
<1>3. Control' /\ pc' = "pass"
  BY DEF IInv, Control, PrepareTarget
<1> QED
  BY <1>2, <1>3 DEF IInv

LEMMA StartPassInductive == ASSUME IInv, StartPass PROVE IInv'
<1>1. Typed(tree')
  BY DelRenews DEF IInv, StartPass, Cleaned
<1>2. CASE Ends("raised")
  BY <1>1, <1>2, EndsEarly
<1>3. CASE pc' = "scripts" /\ UNCHANGED <<pass, agents, outcome>>
  <2>1. Fresh(tree)'
    BY <1>3, CleanedFresh
  <2>2. Control' /\ pc' # "move"
    BY <1>3 DEF IInv, Control, StartPass
  <2> QED
    BY <1>1, <2>1, <2>2 DEF IInv
<1> QED
  BY <1>2, <1>3 DEF StartPass

(* The other steps of a pass go on as they were.                           *)
LEMMA GoesOn ==
  ASSUME IInv, pc \notin {"idle", "wipe", "pass"},
         UNCHANGED <<cmd, runs, outcome, pass>>,
         pc' \notin {"idle", "wipe", "pass"},
         Renews(tree, tree', runs), Typed(tree'),
         pc' = "move" => Under(tree', ".claude") = {}
  PROVE  IInv'
<1>1. Fresh(tree) /\ Control
  BY DEF IInv
<1>2. CleanedPasses' = CleanedPasses
  BY DEF CleanedPasses
<1>3. Fresh(tree)'
  BY <1>1, <1>2, FreshKept
<1>4. Control'
  BY <1>1 DEF Control
<1> QED
  BY <1>3, <1>4 DEF IInv

LEMMA CopyScriptInductive == ASSUME IInv, CopyScript PROVE IInv'
<1>1. Typed(tree)
  BY DEF IInv
<1>2. CASE Ends("raised") /\ UNCHANGED tree
  BY <1>1, <1>2, EndsEarly
<1>3. CASE \E s : /\ tree' = Put(tree, File("scripts", <<s>>), SharedText(s, pass))
                  /\ UNCHANGED <<pc, pass, agents, outcome>>
  <2>1. PICK s : /\ tree' = Put(tree, File("scripts", <<s>>), SharedText(s, pass))
                 /\ UNCHANGED <<pc, pass, agents, outcome>>
    BY <1>3
  <2>2. Renews(tree, tree', runs) /\ Typed(tree')
    BY <1>1, <2>1, Texts, PutRenews, PutTyped
  <2> QED
    BY <2>1, <2>2, GoesOn DEF CopyScript
<1> QED
  BY <1>2, <1>3 DEF CopyScript

LEMMA OrderInductive == ASSUME IInv, Order PROVE IInv'
<1>1. Renews(tree, tree', runs) /\ Typed(tree')
  BY TooledRenews, RenewsRefl DEF IInv, Order
<1>2. CASE Ends("raised")
  BY <1>1, <1>2, EndsEarly
<1>3. CASE pc' = "agents" /\ UNCHANGED <<pass, scripts, outcome>>
  BY <1>1, <1>3, GoesOn DEF Order
<1> QED
  BY <1>2, <1>3 DEF Order

LEMMA WriteAgentInductive == ASSUME IInv, WriteAgent PROVE IInv'
<1>1. Typed(tree)
  BY DEF IInv
<1>2. CASE Ends("raised") /\ UNCHANGED tree
  BY <1>1, <1>2, EndsEarly
<1>3. CASE \E w : /\ tree' = Put(tree, AgentFile(AgentDir, pass, w), AgentText(pass, w))
                  /\ UNCHANGED <<pc, pass, scripts, outcome>>
  <2>1. PICK w : /\ tree' = Put(tree, AgentFile(AgentDir, pass, w), AgentText(pass, w))
                 /\ UNCHANGED <<pc, pass, scripts, outcome>>
    BY <1>3
  <2>2. Renews(tree, tree', runs) /\ Typed(tree')
    BY <1>1, <2>1, Texts, PutRenews, PutTyped DEF AgentFile
  <2> QED
    BY <2>1, <2>2, GoesOn DEF WriteAgent
<1> QED
  BY <1>2, <1>3 DEF WriteAgent

LEMMA AgentsWrittenInductive == ASSUME IInv, AgentsWritten PROVE IInv'
<1>1. Renews(tree, tree', runs) /\ Typed(tree')
  BY RenewsRefl DEF IInv, AgentsWritten
<1> QED
  BY <1>1, GoesOn DEF AgentsWritten

LEMMA DiscardInductive == ASSUME IInv, Discard PROVE IInv'
<1>1. Renews(tree, tree', runs) /\ Typed(tree')
  BY DelRenews DEF IInv, Discard
<1>2. Under(tree', ".claude") = {}
  BY DEF Discard, Under, Del
<1> QED
  BY <1>1, <1>2, GoesOn DEF Discard

LEMMA MoveInductive == ASSUME IInv, Move PROVE IInv'
<1>1. Typed(tree) /\ Under(tree, ".claude") = {}
  BY DEF IInv, Move
<1>2. Renews(tree, tree', runs) /\ Typed(tree')
  BY <1>1, MoveRenews
<1> QED
  BY <1>2, GoesOn DEF Move

LEMMA WriteIndexInductive == ASSUME IInv, WriteIndex PROVE IInv'
<1> DEFINE t == IF cmd.dialect = "pi" THEN tree ELSE Tooled(Indexed(tree))
<1>1. Typed(tree) /\ Fresh(tree) /\ Control
  BY DEF IInv, WriteIndex
<1>2. Renews(tree, t, runs) /\ Typed(t)
  BY <1>1, IndexedRenews, TooledRenews, RenewsRefl, RenewsTrans
<1>3. tree' = Served(t)
  BY DEF WriteIndex
<1> HIDE DEF t
<1>4. Renews(tree, tree', runs) /\ Typed(tree')
  BY <1>2, <1>3, ServedRenews, RenewsTrans
<1>5. /\ pc = "index" /\ pc' = "pass" /\ pass' = pass + 1
      /\ cmd' = cmd /\ runs' = runs /\ outcome' = outcome
  BY DEF WriteIndex
<1>6. CleanedPasses' = CleanedPasses
  BY <1>1, <1>5 DEF CleanedPasses, Control
<1>7. Fresh(tree)'
  BY <1>1, <1>4, <1>5, <1>6, FreshKept
<1>8. Control'
  BY <1>1, <1>5 DEF Control
<1> QED
  BY <1>4, <1>5, <1>7, <1>8 DEF IInv

LEMMA FinishInductive == ASSUME IInv, Finish PROVE IInv'
<1>1. /\ pc = "pass" /\ pass > Passes /\ pc' = "idle" /\ pass' = 1
      /\ tree' = tree /\ cmd' = cmd /\ runs' = runs
  BY DEF Finish, Ends
<1>2. Typed(tree) /\ Fresh(tree) /\ Control
  BY <1>1 DEF IInv
<1>3. Passes \in Nat
  BY <1>1, <1>2, CompileAssumption DEF Control, Passes
<1>4. CleanedPasses' \subseteq CleanedPasses
  BY <1>1, <1>2, <1>3 DEF CleanedPasses, Control, Passes, Single
<1>5. Renews(tree, tree', runs)
  BY <1>1, RenewsRefl
<1>6. Fresh(tree)'
  BY <1>1, <1>2, <1>4, <1>5, FreshKept
<1>7. Control'
  BY <1>1 DEF Control
<1> QED
  BY <1>1, <1>2, <1>6, <1>7 DEF IInv

LEMMA DieInductive == ASSUME IInv, Die PROVE IInv'
<1>1. PICK gone : tree' = Del(tree, gone)
  BY Zenon DEF Die
<1>2. Typed(tree')
  BY <1>1, DelRenews DEF IInv
<1> QED
  BY <1>2, EndsEarly DEF Die

(* The invariant holds of every state of CompileScript.run.                *)
THEOREM Inductive == Spec => []IInv
<1>1. Init => IInv
  BY DEF Init, IInv, Control, Typed, None, Done
<1>2. ASSUME IInv, [Next]_vars PROVE IInv'
  <2>1. CASE UNCHANGED vars
    <3>1. Control' = Control /\ Typed(tree)' = Typed(tree) /\ Done' = Done
      BY <2>1 DEF vars, Control, Typed, Done
    <3>2. Under(tree, ".claude")' = Under(tree, ".claude")
      BY <2>1 DEF vars, Under
    <3>3. CleanedPasses' = CleanedPasses
      BY <2>1 DEF vars, CleanedPasses, Passes, Single
    <3>4. Fresh(tree) => Fresh(tree)'
      BY <2>1, <3>3, RenewsRefl, FreshKept DEF vars
    <3>5. pc' = pc
      BY <2>1 DEF vars
    <3> QED
      BY <1>2, <3>1, <3>2, <3>4, <3>5 DEF IInv
  <2> QED
    BY <1>2, <2>1, RunInductive, PrepareTargetInductive, StartPassInductive,
       CopyScriptInductive, OrderInductive, WriteAgentInductive,
       AgentsWrittenInductive, DiscardInductive, MoveInductive,
       WriteIndexInductive, FinishInductive, DieInductive DEF Next
<1> QED
  BY <1>1, <1>2, PTL DEF Spec

---------------------------------------------------------------------------
(* Personalization.                                                         *)

(* The inductive invariant.                                                *)
Stays(p) == proc[p].pc \in {"idle", "answered", "failed"}

AskedFor(r) == {"servers", "sources"} \subseteq DOMAIN r /\ \E with \in Connections : r.servers = with.servers /\ r.sources = with.sources

(* What the record of a process holds, by what it does. *)
Held(r) ==
  /\ "pc" \in DOMAIN r
  /\ r.pc \notin {"idle", "answered", "failed"} => {"kind", "client"} \subseteq DOMAIN r /\ r.client \in Clients
  /\ r.pc \in {"elicit", "bundle"} => AskedFor(r)
  /\ r.pc \notin {"idle", "answered", "failed", "elicit"} => "spec" \in DOMAIN r
  /\ r.pc \notin {"idle", "answered", "failed", "elicit", "bundle"} =>
       {"profiles", "bundle", "surface", "graded", "slot"} \subseteq DOMAIN r
  /\ r.pc \notin {"idle", "answered", "failed", "elicit", "bundle", "begin"} => {"at", "served", "alone"} \subseteq DOMAIN r
  /\ r.pc = "agent" => r.at \in 1..Len(Roles)
  /\ r.pc \in {"truncate", "fill"} => "base" \in DOMAIN r
  /\ r.pc = "grade" => "probes" \in DOMAIN r

ClientFiles == {"config", "agents", "probes", "promoted"}

ClientsShaped ==
  /\ DOMAIN proc = Procs /\ \A p \in Procs : Held(proc[p])
  /\ DOMAIN disk = Clients /\ DOMAIN owner = Clients
  /\ \A c \in Clients : /\ DOMAIN disk[c] = ClientFiles
                        /\ DOMAIN disk[c].agents = ToSet(Roles)

LEMMA UpdatedIs ==
  ASSUME NEW at, NEW fields
  PROVE  /\ DOMAIN Updated(at, fields) = DOMAIN at \cup DOMAIN fields
         /\ \A k \in DOMAIN fields : Updated(at, fields)[k] = fields[k]
         /\ \A k \in DOMAIN at \ DOMAIN fields : Updated(at, fields)[k] = at[k]
BY DEF Updated

LEMMA GoIs ==
  ASSUME NEW p \in Procs, NEW fields, DOMAIN proc = Procs, Go(p, fields)
  PROVE  proc'[p] = Updated(proc[p], fields) /\ DOMAIN proc' = Procs /\ \A q \in Procs \ {p} : proc'[q] = proc[q]
BY DEF Go

LEMMA RolesAre == Len(Roles) \in Nat /\ Len(Roles) >= 1 /\ DOMAIN Roles = 1..Len(Roles)
<1>1. Roles \in Seq(STRING) /\ Roles # <<>>
  BY PersonalizeAssumption
<1> QED BY <1>1, EmptySeq, LenProperties

LEMMA ShapedInitially == PersonalizeInit => ClientsShaped
<1> SUFFICES ASSUME PersonalizeInit PROVE ClientsShaped
  OBVIOUS
<1>1. DOMAIN proc = Procs /\ \A p \in Procs : Held(proc[p])
  BY DEF PersonalizeInit, Held
<1>2. DOMAIN disk = Clients /\ DOMAIN owner = Clients
  BY DEF PersonalizeInit
<1>3. \A c \in Clients : DOMAIN disk[c] = ClientFiles /\ DOMAIN disk[c].agents = ToSet(Roles)
  BY DEF PersonalizeInit, ClientFiles
<1> QED BY <1>1, <1>2, <1>3 DEF ClientsShaped

(* What a step of one process leaves of the others: at most that they are  *)
(* no longer alone.                                                        *)
OthersKept(p) ==
  /\ DOMAIN proc' = Procs
  /\ \A q \in Procs \ {p} : proc'[q] = proc[q] \/ (proc'[q] = Updated(proc[q], [alone |-> FALSE]) /\ Writing(q))

LEMMA NotAloneHeld ==
  ASSUME NEW r, Held(r)
  PROVE  Held(Updated(r, [alone |-> FALSE]))
<1> DEFINE f == [alone |-> FALSE]
           u == Updated(r, f)
<1>1. DOMAIN f = {"alone"}
  OBVIOUS
<1>2. DOMAIN u = DOMAIN r \cup {"alone"} /\ \A k \in DOMAIN r \ {"alone"} : u[k] = r[k]
  BY <1>1, UpdatedIs
<1> HIDE DEF u, f
<1>3. Held(u)
  BY <1>2 DEF Held, AskedFor
<1> QED BY <1>3 DEF u, f

LEMMA StepHeld ==
  ASSUME ClientsShaped, NEW p \in Procs,
         \/ Request(p) \/ Elicit(p) \/ Bundle(p) \/ Begin(p) \/ PlaceAgent(p) \/ ReadConfig(p)
         \/ TruncateConfig(p) \/ FillConfig(p) \/ Again(p) \/ Baseline(p) \/ Seed(p)
         \/ Grade(p) \/ EndLoop(p) \/ LoopRaises(p) \/ Answer(p) \/ Dies(p)
  PROVE  OthersKept(p) /\ Held(proc'[p])
<1>h. DOMAIN proc = Procs /\ Held(proc[p]) /\ "pc" \in DOMAIN proc[p]
  BY DEF ClientsShaped, Held
<1>g. ASSUME NEW fields, Go(p, fields)
      PROVE  OthersKept(p) /\ proc'[p] = Updated(proc[p], fields)
  BY <1>h, <1>g, GoIs DEF OthersKept
<1>f. ASSUME NEW stage \in {"failed", "answered", "idle"}, proc' = [proc EXCEPT ![p] = [pc |-> stage]]
      PROVE  OthersKept(p) /\ Held(proc'[p])
  <2>1. OthersKept(p) /\ proc'[p] = [pc |-> stage]
    BY <1>h, <1>f DEF OthersKept
  <2>2. DOMAIN proc'[p] = {"pc"} /\ proc'[p].pc = stage
    BY <2>1
  <2> QED BY <2>1, <2>2 DEF Held
<1>1. CASE Request(p)
  <2>1. PICK kind \in {"intake", "optimize", "serve"}, c \in Clients, with \in Connections :
          proc' = [proc EXCEPT ![p] = Updated(with, [pc |-> "elicit", kind |-> kind, client |-> c])]
    BY <1>1 DEF Request
  <2>2. OthersKept(p) /\ proc'[p] = Updated(with, [pc |-> "elicit", kind |-> kind, client |-> c])
    BY <1>h, <2>1 DEF OthersKept
  <2>3. DOMAIN with = {"servers", "sources"}
    BY PersonalizeAssumption
  <2>4. /\ DOMAIN proc'[p] = {"servers", "sources", "pc", "kind", "client"}
        /\ proc'[p].pc = "elicit" /\ proc'[p].client = c
        /\ proc'[p].servers = with.servers /\ proc'[p].sources = with.sources
    BY <2>2, <2>3 DEF Updated
  <2> QED BY <2>2, <2>4 DEF Held, AskedFor
<1>2. CASE Elicit(p)
  <2>1. proc[p].pc = "elicit"
    BY <1>2 DEF Elicit
  <2>2. CASE Fail(p)
    BY <2>2, <1>f DEF Fail
  <2>3. CASE proc' = [proc EXCEPT ![p] = [pc |-> "answered"]]
    BY <2>3, <1>f
  <2>4. CASE \E reply \in Replies : Go(p, [pc |-> "bundle", spec |-> SpecOf(reply)])
    <3>1. PICK reply \in Replies : Go(p, [pc |-> "bundle", spec |-> SpecOf(reply)])
      BY <2>4
    <3>2. OthersKept(p) /\ proc'[p] = Updated(proc[p], [pc |-> "bundle", spec |-> SpecOf(reply)])
      BY <3>1, <1>g
    <3>3. /\ DOMAIN proc'[p] = DOMAIN proc[p] \cup {"pc", "spec"} /\ proc'[p].pc = "bundle"
          /\ \A k \in DOMAIN proc[p] \ {"pc", "spec"} : proc'[p][k] = proc[p][k]
      BY <3>2 DEF Updated
    <3> QED BY <3>2, <3>3, <1>h, <2>1 DEF Held, AskedFor
  <2> QED BY <2>2, <2>3, <2>4, <1>2 DEF Elicit
<1>3. CASE Bundle(p)
  <2>1. proc[p].pc = "bundle"
    BY <1>3 DEF Bundle
  <2>2. CASE Fail(p)
    BY <2>2, <1>f DEF Fail
  <2>3. CASE ~Fail(p)
    <3>1. PICK x1, x2, x3 : Go(p, [pc |-> "begin", profiles |-> x1, bundle |-> x2, surface |-> x3, graded |-> {}, slot |-> Nothing])
      BY <1>3, <2>3 DEF Bundle
    <3>2. OthersKept(p) /\ proc'[p] = Updated(proc[p], [pc |-> "begin", profiles |-> x1, bundle |-> x2, surface |-> x3, graded |-> {}, slot |-> Nothing])
      BY <3>1, <1>g
    <3>3. /\ DOMAIN proc'[p] = DOMAIN proc[p] \cup {"pc", "profiles", "bundle", "surface", "graded", "slot"} /\ proc'[p].pc = "begin"
          /\ proc'[p].kind = proc[p].kind /\ proc'[p].client = proc[p].client
      BY <3>2, <1>h, <2>1 DEF Updated, Held
    <3> QED BY <3>2, <3>3, <1>h, <2>1 DEF Held
  <2> QED BY <2>2, <2>3
<1>4. CASE Begin(p)
  <2>1. /\ proc[p].pc = "begin" /\ DOMAIN proc' = Procs
        /\ proc'[p] = Updated(proc[p], [pc |-> "agent", at |-> 1, served |-> FALSE, alone |-> Others(p) = {}])
        /\ \A q \in Procs \ {p} : proc'[q] = IF q \in Others(p) THEN Updated(proc[q], [alone |-> FALSE]) ELSE proc[q]
    BY <1>4 DEF Begin
  <2>2. OthersKept(p)
    BY <2>1 DEF OthersKept, Others
  <2>3. /\ DOMAIN proc'[p] = DOMAIN proc[p] \cup {"pc", "at", "served", "alone"} /\ proc'[p].pc = "agent" /\ proc'[p].at = 1
        /\ \A k \in DOMAIN proc[p] \ {"pc", "at", "served", "alone"} : proc'[p][k] = proc[p][k]
    BY <2>1, <1>h DEF Updated
  <2> QED BY <2>1, <2>2, <2>3, <1>h, RolesAre DEF Held
<1>5. CASE PlaceAgent(p)
  <2>1. proc[p].pc = "agent" /\ proc[p].at \in 1..Len(Roles)
    BY <1>5, <1>h DEF PlaceAgent, Held
  <2>2. CASE proc[p].at < Len(Roles)
    <3>1. Go(p, [at |-> proc[p].at + 1])
      BY <1>5, <2>2 DEF PlaceAgent
    <3>2. OthersKept(p) /\ proc'[p] = Updated(proc[p], [at |-> proc[p].at + 1])
      BY <3>1, <1>g
    <3>3. /\ DOMAIN proc'[p] = DOMAIN proc[p] \cup {"at"} /\ proc'[p].at = proc[p].at + 1
          /\ \A k \in DOMAIN proc[p] \ {"at"} : proc'[p][k] = proc[p][k]
      BY <3>2, <1>h DEF Updated
    <3> QED BY <3>2, <3>3, <2>1, <2>2, <1>h, RolesAre DEF Held
  <2>3. CASE ~(proc[p].at < Len(Roles))
    <3>1. Go(p, [pc |-> "read"])
      BY <1>5, <2>3 DEF PlaceAgent
    <3>2. OthersKept(p) /\ proc'[p] = Updated(proc[p], [pc |-> "read"])
      BY <3>1, <1>g
    <3>3. /\ DOMAIN proc'[p] = DOMAIN proc[p] \cup {"pc"} /\ proc'[p].pc = "read"
          /\ \A k \in DOMAIN proc[p] \ {"pc"} : proc'[p][k] = proc[p][k]
      BY <3>2, <1>h DEF Updated
    <3> QED BY <3>2, <3>3, <2>1, <1>h DEF Held
  <2> QED BY <2>2, <2>3
(* A step of a compile or of a run that goes on keeps what it knows.       *)
<1>k. ASSUME NEW fields, Go(p, fields), NEW stage \in {"read", "truncate", "fill", "again", "baseline", "seed", "grade", "answer"},
             "pc" \in DOMAIN fields, fields["pc"] = stage,
             DOMAIN fields \subseteq {"pc", "base", "prompt", "probes", "graded", "slot"},
             proc[p].pc \in {"read", "truncate", "fill", "again", "baseline", "seed", "grade"},
             stage \in {"truncate", "fill"} => "base" \in DOMAIN proc[p] \cup DOMAIN fields,
             stage = "grade" => "probes" \in DOMAIN fields
      PROVE  OthersKept(p) /\ Held(proc'[p])
  <2>1. OthersKept(p) /\ proc'[p] = Updated(proc[p], fields)
    BY <1>k, <1>g
  <2>2. "client" \in DOMAIN proc[p] \ DOMAIN fields /\ "pc" \in DOMAIN fields
    BY <1>h, <1>k DEF Held
  <2>3. DOMAIN proc'[p] = DOMAIN proc[p] \cup DOMAIN fields /\ proc'[p]["pc"] = stage /\ proc'[p]["client"] = proc[p]["client"]
    <3>1. /\ DOMAIN Updated(proc[p], fields) = DOMAIN proc[p] \cup DOMAIN fields
          /\ \A k \in DOMAIN fields : Updated(proc[p], fields)[k] = fields[k]
          /\ \A k \in DOMAIN proc[p] \ DOMAIN fields : Updated(proc[p], fields)[k] = proc[p][k]
      BY UpdatedIs
    <3>2. proc'[p] = Updated(proc[p], fields) /\ fields["pc"] = stage
      BY <2>1, <1>k
    <3> QED BY <3>1, <3>2, <2>2
  <2> QED BY <2>1, <2>3, <1>h, <1>k DEF Held
<1>6. CASE ReadConfig(p)
  <2>1. proc[p].pc = "read" /\ Go(p, [pc |-> "truncate", base |-> Kept(disk[C(p)].config)])
    BY <1>6 DEF ReadConfig
  <2> QED BY <2>1, <1>k
<1>7. CASE TruncateConfig(p)
  <2>1. proc[p].pc = "truncate" /\ Go(p, [pc |-> "fill"]) /\ "base" \in DOMAIN proc[p]
    BY <1>7, <1>h DEF TruncateConfig, Held
  <2> QED BY <2>1, <1>k
<1>8. CASE FillConfig(p)
  <2>1. PICK stage \in {"answer", "baseline", "again"} : proc[p].pc = "fill" /\ Go(p, [pc |-> stage])
    BY <1>8 DEF FillConfig
  <2> QED BY <2>1, <1>k
<1>9. CASE Again(p)
  <2>1. proc[p].pc = "again" /\ Go(p, [pc |-> "agent", at |-> 1, served |-> TRUE])
    BY <1>9 DEF Again
  <2>2. OthersKept(p) /\ proc'[p] = Updated(proc[p], [pc |-> "agent", at |-> 1, served |-> TRUE])
    BY <2>1, <1>g
  <2>3. /\ DOMAIN proc'[p] = DOMAIN proc[p] \cup {"pc", "at", "served"} /\ proc'[p].pc = "agent" /\ proc'[p].at = 1
        /\ \A k \in DOMAIN proc[p] \ {"pc", "at", "served"} : proc'[p][k] = proc[p][k]
    BY <2>2, <1>h DEF Updated
  <2> QED BY <2>1, <2>2, <2>3, <1>h, RolesAre DEF Held
<1>10. CASE Baseline(p)
  <2>1. proc[p].pc = "baseline" /\ Go(p, [pc |-> "seed", prompt |-> disk[C(p)].agents[Planner]])
    BY <1>10 DEF Baseline
  <2> QED BY <2>1, <1>k
<1>11. CASE Seed(p)
  <2>1. proc[p].pc = "seed" /\ \E x : Go(p, [pc |-> "grade", probes |-> x])
    BY <1>11 DEF Seed
  <2> QED BY <2>1, <1>k
<1>12. CASE Grade(p)
  <2>1. proc[p].pc = "grade" /\ \E x : Go(p, [graded |-> x])
    BY <1>12 DEF Grade
  <2>2. PICK x : Go(p, [graded |-> x])
    BY <2>1
  <2>3. OthersKept(p) /\ proc'[p] = Updated(proc[p], [graded |-> x])
    BY <2>2, <1>g
  <2>4. /\ DOMAIN proc'[p] = DOMAIN proc[p] \cup {"graded"}
        /\ \A k \in DOMAIN proc[p] \ {"graded"} : proc'[p][k] = proc[p][k]
    BY <2>3, <1>h DEF Updated
  <2> QED BY <2>1, <2>3, <2>4, <1>h DEF Held
<1>13. CASE EndLoop(p)
  <2>1. proc[p].pc = "grade"
    BY <1>13 DEF EndLoop
  <2>2. (\E x : Go(p, [pc |-> "again", graded |-> {}, slot |-> x])) \/ Go(p, [pc |-> "again", graded |-> {}])
    BY <1>13 DEF EndLoop
  <2>3. CASE Go(p, [pc |-> "again", graded |-> {}])
    BY <2>1, <2>3, <1>k
  <2>4. CASE \E x : Go(p, [pc |-> "again", graded |-> {}, slot |-> x])
    BY <2>1, <2>4, <1>k
  <2> QED BY <2>2, <2>3, <2>4
<1>14. CASE LoopRaises(p)
  <2>1. proc[p].pc = "grade" /\ Go(p, [pc |-> "again", graded |-> {}])
    BY <1>14 DEF LoopRaises
  <2> QED BY <2>1, <1>k
<1>15. CASE Answer(p)
  BY <1>15, <1>f DEF Answer
<1>16. CASE Dies(p)
  BY <1>16, <1>f DEF Dies
<1> QED BY <1>1, <1>2, <1>3, <1>4, <1>5, <1>6, <1>7, <1>8, <1>9, <1>10, <1>11, <1>12, <1>13, <1>14, <1>15, <1>16

(* The disk changes at the root of the client the process works for.       *)
LEMMA StepDisk ==
  ASSUME ClientsShaped, NEW p \in Procs,
         \/ Request(p) \/ Elicit(p) \/ Bundle(p) \/ Begin(p) \/ PlaceAgent(p) \/ ReadConfig(p)
         \/ TruncateConfig(p) \/ FillConfig(p) \/ Again(p) \/ Baseline(p) \/ Seed(p)
         \/ Grade(p) \/ EndLoop(p) \/ LoopRaises(p) \/ Answer(p) \/ Dies(p)
  PROVE  /\ DOMAIN disk' = Clients /\ DOMAIN owner' = Clients
         /\ \A c \in Clients : DOMAIN disk'[c] = ClientFiles /\ DOMAIN disk'[c].agents = ToSet(Roles)
<1> USE DEF ClientsShaped
<1>1. CASE PlaceAgent(p)
  BY <1>1 DEF PlaceAgent, ClientFiles
<1>2. CASE TruncateConfig(p)
  BY <1>2 DEF TruncateConfig, ClientFiles
<1>3. CASE FillConfig(p)
  BY <1>3 DEF FillConfig, ClientFiles
<1>4. CASE Seed(p)
  BY <1>4 DEF Seed, ClientFiles
<1>5. CASE EndLoop(p)
  BY <1>5 DEF EndLoop, ClientFiles
<1>6. CASE Begin(p)
  BY <1>6 DEF Begin
<1>7. CASE Answer(p)
  BY <1>7 DEF Answer
<1>8. CASE Request(p) \/ Elicit(p) \/ Bundle(p) \/ ReadConfig(p) \/ Again(p) \/ Baseline(p) \/ Grade(p) \/ LoopRaises(p) \/ Dies(p)
  BY <1>8 DEF Request, Elicit, Bundle, ReadConfig, Again, Baseline, Grade, LoopRaises, Dies
<1> QED BY <1>1, <1>2, <1>3, <1>4, <1>5, <1>6, <1>7, <1>8

Stepping(p) ==
  \/ Request(p) \/ Elicit(p) \/ Bundle(p) \/ Begin(p) \/ PlaceAgent(p) \/ ReadConfig(p)
  \/ TruncateConfig(p) \/ FillConfig(p) \/ Again(p) \/ Baseline(p) \/ Seed(p)
  \/ Grade(p) \/ EndLoop(p) \/ LoopRaises(p) \/ Answer(p) \/ Dies(p)

LEMMA StaysShaped ==
  ASSUME ClientsShaped, NEW p \in Procs, Stepping(p)
  PROVE  ClientsShaped' /\ OthersKept(p)
<1>1. OthersKept(p) /\ Held(proc'[p])
  BY StepHeld DEF Stepping
<1>2. /\ DOMAIN disk' = Clients /\ DOMAIN owner' = Clients
      /\ \A c \in Clients : DOMAIN disk'[c] = ClientFiles /\ DOMAIN disk'[c].agents = ToSet(Roles)
  BY StepDisk DEF Stepping
<1>3. ASSUME NEW q \in Procs PROVE Held(proc'[q])
  BY <1>1, NotAloneHeld DEF OthersKept, ClientsShaped
<1> QED BY <1>1, <1>2, <1>3 DEF ClientsShaped, OthersKept

-----------------------------------------------------------------------------
(* A version's score is a floor under its sessions, and what is promoted   *)
(* has cleared the gate.                                                   *)
Worth(score) == IF score = Error THEN 0 ELSE score

GradedTruly(v) ==
  /\ v.n \in Nat /\ v.floor \in Nat
  /\ \A score \in v.results : Worth(score) \in Nat /\ v.floor <= Worth(score)

RunHolds(r) ==
  /\ r.pc \notin {"idle", "answered", "failed", "elicit"} => DOMAIN r.spec.tasks # {}
  /\ r.pc \notin {"idle", "answered", "failed", "elicit", "bundle"} =>
       IsFiniteSet(r.graded) /\ \A v \in r.graded : GradedTruly(v)
  /\ r.pc = "grade" => DOMAIN r.probes # {}

GradesHold == \A p \in Procs : RunHolds(proc[p])

LEMMA FloorHolds ==
  ASSUME NEW D, NEW results \in [D -> Scores \cup {Error}], D # {}
  PROVE  Floor(results) \in Nat /\ \A score \in Range(results) : Worth(score) \in Nat /\ Floor(results) <= Worth(score)
<1> DEFINE worths == {IF results[k] = Error THEN 0 ELSE results[k] : k \in DOMAIN results}
<1>1. \A score \in Scores \cup {Error} : Worth(score) \in Nat
  BY PersonalizeAssumption DEF Worth
<1>2. worths \subseteq Nat /\ worths # {} /\ \A k \in DOMAIN results : Worth(results[k]) \in worths
  BY <1>1 DEF Worth
<1>3. Floor(results) = Min(worths)
  BY DEF Floor
<1> HIDE DEF worths
<1>4. Min(worths) \in worths /\ \A y \in worths : Min(worths) <= y
  BY <1>2, LeastIn
<1>6. Floor(results) \in Nat /\ \A y \in worths : Floor(results) <= y
  BY <1>2, <1>3, <1>4
<1>5. ASSUME NEW score \in Range(results) PROVE Worth(score) \in Nat /\ Floor(results) <= Worth(score)
  <2>1. PICK k \in DOMAIN results : score = results[k]
    BY DEF Range
  <2> QED BY <1>1, <1>2, <1>6, <2>1
<1> QED BY <1>5, <1>6

LEMMA CreditIs ==
  ASSUME NEW v, v.floor \in Nat
  PROVE  Credit(v) \in 0..10 /\ Credit(v) <= v.floor
<1>1. Target \in 1..10 /\ {v.floor, Target} \subseteq Nat /\ {v.floor, Target} # {}
  BY PersonalizeAssumption
<1>2. Credit(v) \in {v.floor, Target} /\ Credit(v) <= v.floor /\ Credit(v) <= Target
  BY <1>1, LeastIn DEF Credit
<1> QED BY <1>1, <1>2

LEMMA BestIsOne ==
  ASSUME NEW versions, versions # {}, \A v \in versions : GradedTruly(v)
  PROVE  Best(versions) \in versions
<1> DEFINE less == {ss \in Nat \X Nat : ss[1] < ss[2]}
           misses == {10 - Credit(v) : v \in versions}
<1>1. \A v \in versions : Credit(v) \in 0..10 /\ 10 - Credit(v) \in Nat /\ v.n \in Nat
  BY CreditIs DEF GradedTruly
<1>2. misses \in SUBSET Nat /\ misses # {}
  BY <1>1
<1>3. Min(misses) \in misses /\ \A y \in misses : Min(misses) <= y
  BY <1>2, LeastIn
<1>4. PICK b \in versions : \A w \in versions : 10 - Credit(b) <= 10 - Credit(w)
  BY <1>3
<1>5. \A w \in versions : Credit(w) <= Credit(b)
  BY <1>1, <1>4
<1> DEFINE top == {v \in versions : Credit(v) = Credit(b)}
           firsts == {v.n : v \in top}
<1>6. firsts \in SUBSET Nat /\ firsts # {}
  BY <1>1
<1>7. Min(firsts) \in firsts /\ \A y \in firsts : Min(firsts) <= y
  BY <1>6, LeastIn
<1>8. PICK v \in versions : Credit(v) = Credit(b) /\ \A w \in top : v.n <= w.n
  BY <1>7
<1>9. \A w \in versions : Credit(w) < Credit(v) \/ (Credit(w) = Credit(v) /\ v.n <= w.n)
  BY <1>1, <1>5, <1>8
<1> QED BY <1>9 DEF Best

LEMMA GateIs ==
  ASSUME NEW v, GradedTruly(v), Promotable(v), NEW score \in v.results
  PROVE  score # Error /\ 10 * score >= Target * Target
<1>1. Credit(v) \in 0..10 /\ Credit(v) <= v.floor /\ v.floor \in Nat
  BY CreditIs DEF GradedTruly
<1>2. Worth(score) \in Nat /\ v.floor <= Worth(score)
  BY DEF GradedTruly
<1>3. 10 * Credit(v) >= Target * Target
  BY DEF Promotable
<1>4. Target * Target \in Nat /\ Target * Target >= 1
  <2>1. Target \in 1..10
    BY PersonalizeAssumption
  <2>2. \A x \in 1..10 : x * x \in Nat /\ x * x >= 1
    OBVIOUS
  <2> QED BY <2>1, <2>2
<1>5. Worth(score) \in Nat /\ 10 * Worth(score) >= Target * Target /\ Worth(score) # 0
  BY <1>1, <1>2, <1>3, <1>4
<1> QED BY <1>5 DEF Worth

LEMMA NotAloneRuns ==
  ASSUME NEW r, Held(r), RunHolds(r)
  PROVE  RunHolds(Updated(r, [alone |-> FALSE]))
<1> DEFINE f == [alone |-> FALSE]
           u == Updated(r, f)
<1>1. DOMAIN f = {"alone"}
  OBVIOUS
<1>2. DOMAIN u = DOMAIN r \cup {"alone"} /\ \A k \in DOMAIN r \ {"alone"} : u[k] = r[k]
  BY <1>1, UpdatedIs
<1> HIDE DEF u, f
<1>3. /\ u.pc = r.pc
      /\ r.pc \notin {"idle", "answered", "failed", "elicit"} => u.spec = r.spec
      /\ r.pc \notin {"idle", "answered", "failed", "elicit", "bundle"} => u.graded = r.graded
      /\ r.pc = "grade" => u.probes = r.probes
  BY <1>2 DEF Held
<1>4. RunHolds(u)
  BY <1>3 DEF RunHolds
<1> QED BY <1>4 DEF u, f

LEMMA OthersRun ==
  ASSUME ClientsShaped, GradesHold, NEW p \in Procs, OthersKept(p), RunHolds(proc'[p])
  PROVE  GradesHold'
<1>1. ASSUME NEW q \in Procs PROVE RunHolds(proc'[q])
  <2>1. Held(proc[q]) /\ RunHolds(proc[q])
    BY DEF ClientsShaped, GradesHold
  <2> QED BY <2>1, NotAloneRuns DEF OthersKept
<1> QED BY <1>1 DEF GradesHold

LEMMA StepRuns ==
  ASSUME ClientsShaped, GradesHold, NEW p \in Procs, Stepping(p)
  PROVE  RunHolds(proc'[p])
<1>h. DOMAIN proc = Procs /\ Held(proc[p]) /\ "pc" \in DOMAIN proc[p] /\ RunHolds(proc[p])
  BY DEF ClientsShaped, Held, GradesHold
<1>g. ASSUME NEW fields, Go(p, fields)
      PROVE  proc'[p] = Updated(proc[p], fields)
  BY <1>h, <1>g, GoIs
<1>f. ASSUME NEW stage \in {"failed", "answered", "idle"}, proc' = [proc EXCEPT ![p] = [pc |-> stage]]
      PROVE  RunHolds(proc'[p])
  <2>1. proc'[p] = [pc |-> stage]
    BY <1>h, <1>f
  <2>2. proc'[p].pc = stage
    BY <2>1
  <2> QED BY <2>2 DEF RunHolds
(* What goes on after the bundle keeps the spec; grades are kept or reset. *)
<1>k. ASSUME NEW fields, Go(p, fields), "spec" \notin DOMAIN fields,
             proc[p].pc \notin {"idle", "answered", "failed", "elicit", "bundle"},
             "graded" \in DOMAIN fields => fields["graded"] = {},
             "probes" \notin DOMAIN fields,
             "pc" \in DOMAIN fields => fields["pc"] # "grade"
      PROVE  RunHolds(proc'[p])
  <2>1. proc'[p] = Updated(proc[p], fields)
    BY <1>k, <1>g
  <2>2. /\ \A k \in DOMAIN fields : Updated(proc[p], fields)[k] = fields[k]
        /\ \A k \in DOMAIN proc[p] \ DOMAIN fields : Updated(proc[p], fields)[k] = proc[p][k]
    BY UpdatedIs, ZenonT(30)
  <2>3. {"pc", "spec", "graded"} \subseteq DOMAIN proc[p] /\ DOMAIN proc[p].spec.tasks # {}
    BY <1>h, <1>k DEF Held, RunHolds
  <2>4. proc'[p]["spec"] = proc[p]["spec"]
    BY <2>1, <2>2, <2>3, <1>k
  <2>5. proc'[p]["graded"] = proc[p]["graded"] \/ proc'[p]["graded"] = {}
    BY <2>1, <2>2, <2>3, <1>k
  <2>6. IsFiniteSet(proc'[p]["graded"]) /\ \A v \in proc'[p]["graded"] : GradedTruly(v)
    BY <2>5, <1>h, <1>k, FS_EmptySet DEF RunHolds
  <2>7. proc'[p]["pc"] = "grade" => proc[p]["pc"] = "grade" /\ "probes" \in DOMAIN proc[p] /\ proc'[p]["probes"] = proc[p]["probes"]
    <3>1. CASE "pc" \in DOMAIN fields
      BY <3>1, <2>1, <2>2, <1>k
    <3>2. CASE "pc" \notin DOMAIN fields
      <4>1. proc'[p]["pc"] = proc[p]["pc"]
        BY <3>2, <2>1, <2>2, <2>3
      <4>2. proc[p]["pc"] = "grade" => "probes" \in DOMAIN proc[p]
        BY <1>h DEF Held
      <4> QED BY <4>1, <4>2, <2>1, <2>2, <1>k
    <3> QED BY <3>1, <3>2
  <2> QED BY <2>3, <2>4, <2>6, <2>7, <1>h DEF RunHolds
<1>1. CASE Request(p)
  <2>1. PICK kind \in {"intake", "optimize", "serve"}, c \in Clients, with \in Connections :
          proc' = [proc EXCEPT ![p] = Updated(with, [pc |-> "elicit", kind |-> kind, client |-> c])]
    BY <1>1 DEF Request
  <2>2. proc'[p] = Updated(with, [pc |-> "elicit", kind |-> kind, client |-> c])
    BY <1>h, <2>1
  <2>3. proc'[p].pc = "elicit"
    BY <2>2 DEF Updated
  <2> QED BY <2>3 DEF RunHolds
<1>2. CASE Elicit(p)
  <2>2. CASE Fail(p)
    BY <2>2, <1>f DEF Fail
  <2>3. CASE proc' = [proc EXCEPT ![p] = [pc |-> "answered"]]
    BY <2>3, <1>f
  <2>4. CASE \E reply \in Replies : Usable(SpecOf(reply)) /\ Go(p, [pc |-> "bundle", spec |-> SpecOf(reply)])
    <3>1. PICK reply \in Replies : Usable(SpecOf(reply)) /\ Go(p, [pc |-> "bundle", spec |-> SpecOf(reply)])
      BY <2>4
    <3>2. proc'[p] = Updated(proc[p], [pc |-> "bundle", spec |-> SpecOf(reply)])
      BY <3>1, <1>g
    <3>3. proc'[p].pc = "bundle" /\ proc'[p].spec = SpecOf(reply)
      BY <3>2 DEF Updated
    <3> QED BY <3>1, <3>3 DEF RunHolds, Usable
  <2> QED BY <2>2, <2>3, <2>4, <1>2 DEF Elicit
<1>3. CASE Bundle(p)
  <2>1. proc[p].pc = "bundle"
    BY <1>3 DEF Bundle
  <2>2. CASE Fail(p)
    BY <2>2, <1>f DEF Fail
  <2>3. CASE ~Fail(p)
    <3>1. PICK x1, x2, x3 : Go(p, [pc |-> "begin", profiles |-> x1, bundle |-> x2, surface |-> x3, graded |-> {}, slot |-> Nothing])
      BY <1>3, <2>3 DEF Bundle
    <3>2. proc'[p] = Updated(proc[p], [pc |-> "begin", profiles |-> x1, bundle |-> x2, surface |-> x3, graded |-> {}, slot |-> Nothing])
      BY <3>1, <1>g
    <3>3. "spec" \in DOMAIN proc[p] /\ DOMAIN proc[p].spec.tasks # {}
      BY <1>h, <2>1 DEF Held, RunHolds
    <3>4. proc'[p].pc = "begin" /\ proc'[p].graded = {} /\ proc'[p].spec = proc[p].spec
      BY <3>2, <3>3 DEF Updated
    <3> QED BY <3>3, <3>4, FS_EmptySet DEF RunHolds
  <2> QED BY <2>2, <2>3
<1>4. CASE Begin(p)
  <2>1. /\ proc[p].pc = "begin"
        /\ proc'[p] = Updated(proc[p], [pc |-> "agent", at |-> 1, served |-> FALSE, alone |-> Others(p) = {}])
    BY <1>4 DEF Begin
  <2>2. {"spec", "graded"} \subseteq DOMAIN proc[p]
    BY <1>h, <2>1 DEF Held
  <2>3. proc'[p].pc = "agent" /\ proc'[p].spec = proc[p].spec /\ proc'[p].graded = proc[p].graded
    BY <2>1, <2>2 DEF Updated
  <2> QED BY <2>1, <2>3, <1>h DEF RunHolds
<1>5. CASE PlaceAgent(p)
  <2>1. proc[p].pc = "agent" /\ (Go(p, [at |-> proc[p].at + 1]) \/ Go(p, [pc |-> "read"]))
    BY <1>5 DEF PlaceAgent
  <2> QED BY <2>1, <1>k
<1>6. CASE ReadConfig(p)
  <2>1. proc[p].pc = "read" /\ Go(p, [pc |-> "truncate", base |-> Kept(disk[C(p)].config)])
    BY <1>6 DEF ReadConfig
  <2> QED BY <2>1, <1>k
<1>7. CASE TruncateConfig(p)
  <2>1. proc[p].pc = "truncate" /\ Go(p, [pc |-> "fill"])
    BY <1>7 DEF TruncateConfig
  <2> QED BY <2>1, <1>k
<1>8. CASE FillConfig(p)
  <2>1. PICK stage \in {"answer", "baseline", "again"} : proc[p].pc = "fill" /\ Go(p, [pc |-> stage])
    BY <1>8 DEF FillConfig
  <2> QED BY <2>1, <1>k
<1>9. CASE Again(p)
  <2>1. proc[p].pc = "again" /\ Go(p, [pc |-> "agent", at |-> 1, served |-> TRUE])
    BY <1>9 DEF Again
  <2> QED BY <2>1, <1>k
<1>10. CASE Baseline(p)
  <2>1. proc[p].pc = "baseline" /\ Go(p, [pc |-> "seed", prompt |-> disk[C(p)].agents[Planner]])
    BY <1>10 DEF Baseline
  <2> QED BY <2>1, <1>k
<1>11. CASE Seed(p)
  <2>1. PICK cache : proc[p].pc = "seed" /\ Go(p, [pc |-> "grade", probes |-> Restrict(cache, DOMAIN proc[p].spec.tasks)])
    BY <1>11 DEF Seed
  <2>2. proc'[p] = Updated(proc[p], [pc |-> "grade", probes |-> Restrict(cache, DOMAIN proc[p].spec.tasks)])
    BY <2>1, <1>g
  <2>3. {"spec", "graded"} \subseteq DOMAIN proc[p]
    BY <1>h, <2>1 DEF Held
  <2>4. /\ proc'[p].pc = "grade" /\ proc'[p].spec = proc[p].spec /\ proc'[p].graded = proc[p].graded
        /\ proc'[p].probes = Restrict(cache, DOMAIN proc[p].spec.tasks)
    BY <2>2, <2>3 DEF Updated
  <2>5. DOMAIN Restrict(cache, DOMAIN proc[p].spec.tasks) = DOMAIN proc[p].spec.tasks
    BY DEF Restrict
  <2> QED BY <2>1, <2>4, <2>5, <1>h DEF RunHolds
<1>12. CASE Grade(p)
  <2>1. proc[p].pc = "grade" /\ IsFiniteSet(proc[p].graded) /\ DOMAIN proc[p].probes # {} /\ \A v \in proc[p].graded : GradedTruly(v)
    BY <1>12, <1>h DEF Grade, RunHolds
  <2>r. PICK results \in [DOMAIN proc[p].probes -> Scores \cup {Error}] : \E prompt :
          Go(p, [graded |-> proc[p].graded \cup
                   {[n |-> Cardinality(proc[p].graded), prompt |-> prompt, floor |-> Floor(results), results |-> Range(results)]}])
    BY <1>12 DEF Grade
  <2>2. PICK prompt :
          Go(p, [graded |-> proc[p].graded \cup
                   {[n |-> Cardinality(proc[p].graded), prompt |-> prompt, floor |-> Floor(results), results |-> Range(results)]}])
    BY <2>r
  <2> DEFINE v == [n |-> Cardinality(proc[p].graded), prompt |-> prompt, floor |-> Floor(results), results |-> Range(results)]
  <2>3. GradedTruly(v)
    <3>1. Cardinality(proc[p].graded) \in Nat
      BY <2>1, FS_CardinalityType
    <3>2. Floor(results) \in Nat /\ \A score \in Range(results) : Worth(score) \in Nat /\ Floor(results) <= Worth(score)
      BY <2>1, FloorHolds
    <3> QED BY <3>1, <3>2 DEF GradedTruly
  <2>4. proc'[p] = Updated(proc[p], [graded |-> proc[p].graded \cup {v}])
    BY <2>2, <1>g
  <2> HIDE DEF v
  <2>5. {"spec", "graded", "probes", "pc"} \subseteq DOMAIN proc[p]
    BY <1>h, <2>1 DEF Held
  <2>6. /\ proc'[p].pc = "grade" /\ proc'[p].spec = proc[p].spec /\ proc'[p].probes = proc[p].probes
        /\ proc'[p].graded = proc[p].graded \cup {v}
    BY <2>1, <2>4, <2>5 DEF Updated
  <2>7. IsFiniteSet(proc[p].graded \cup {v})
    BY <2>1, FS_AddElement
  <2> QED BY <2>1, <2>3, <2>6, <2>7, <1>h DEF RunHolds
<1>13. CASE EndLoop(p)
  <2>1. proc[p].pc = "grade"
    BY <1>13 DEF EndLoop
  <2>2. (\E x : Go(p, [pc |-> "again", graded |-> {}, slot |-> x])) \/ Go(p, [pc |-> "again", graded |-> {}])
    BY <1>13 DEF EndLoop
  <2>3. CASE Go(p, [pc |-> "again", graded |-> {}])
    BY <2>1, <2>3, <1>k
  <2>4. CASE \E x : Go(p, [pc |-> "again", graded |-> {}, slot |-> x])
    BY <2>1, <2>4, <1>k
  <2> QED BY <2>2, <2>3, <2>4
<1>14. CASE LoopRaises(p)
  <2>1. proc[p].pc = "grade" /\ Go(p, [pc |-> "again", graded |-> {}])
    BY <1>14 DEF LoopRaises
  <2> QED BY <2>1, <1>k
<1>15. CASE Answer(p)
  BY <1>15, <1>f DEF Answer
<1>16. CASE Dies(p)
  BY <1>16, <1>f DEF Dies
<1> QED BY <1>1, <1>2, <1>3, <1>4, <1>5, <1>6, <1>7, <1>8, <1>9, <1>10, <1>11, <1>12, <1>13, <1>14, <1>15, <1>16 DEF Stepping

LEMMA StaysEarned ==
  ASSUME ClientsShaped, GradesHold, PromotionEarned, NEW p \in Procs, Stepping(p)
  PROVE  PromotionEarned'
<1>1. CASE EndLoop(p) /\ disk' # disk
  <2>1. PICK best : /\ best = Best(proc[p].graded) /\ Promotable(best)
                    /\ disk' = [disk EXCEPT ![C(p)].promoted = best]
    BY <1>1 DEF EndLoop
  <2>2. proc[p].graded # {} /\ \A v \in proc[p].graded : GradedTruly(v)
    BY <1>1 DEF EndLoop, GradesHold, RunHolds
  <2>3. GradedTruly(best)
    BY <2>1, <2>2, BestIsOne
  <2>4. \A score \in best.results : score # Error /\ 10 * score >= Target * Target
    BY <2>1, <2>3, GateIs
  <2>5. \A c \in Clients : disk'[c].promoted = disk[c].promoted \/ disk'[c].promoted = best
    BY <2>1 DEF ClientsShaped, ClientFiles
  <2> QED BY <2>4, <2>5 DEF PromotionEarned
<1>2. CASE ~(EndLoop(p) /\ disk' # disk)
  <2>1. \A c \in Clients : disk'[c].promoted = disk[c].promoted
    <3>1. CASE PlaceAgent(p)
      BY <3>1 DEF PlaceAgent, ClientsShaped, ClientFiles
    <3>2. CASE TruncateConfig(p)
      BY <3>2 DEF TruncateConfig, ClientsShaped, ClientFiles
    <3>3. CASE FillConfig(p)
      BY <3>3 DEF FillConfig, ClientsShaped, ClientFiles
    <3>4. CASE Seed(p)
      BY <3>4 DEF Seed, ClientsShaped, ClientFiles
    <3>5. CASE Request(p) \/ Elicit(p) \/ Bundle(p) \/ ReadConfig(p) \/ Again(p) \/ Baseline(p) \/ Grade(p) \/ LoopRaises(p) \/ Dies(p)
      BY <3>5 DEF Request, Elicit, Bundle, ReadConfig, Again, Baseline, Grade, LoopRaises, Dies
    <3>6. CASE Begin(p) \/ Answer(p)
      BY <3>6 DEF Begin, Answer
    <3> QED BY <1>2, <3>1, <3>2, <3>3, <3>4, <3>5, <3>6 DEF Stepping
  <2> QED BY <2>1 DEF PromotionEarned
<1> QED BY <1>1, <1>2

LEMMA StepIs == ASSUME PersonalizeNext PROVE \E p \in Procs : Stepping(p)
BY DEF PersonalizeNext, Stepping

LEMMA IdleStutters ==
  ASSUME ClientsShaped, GradesHold, PromotionEarned, UNCHANGED personalize
  PROVE  ClientsShaped' /\ GradesHold' /\ PromotionEarned'
BY DEF personalize, ClientsShaped, GradesHold, PromotionEarned

(* However requests overlap and processes die, a client's slot only ever   *)
(* holds a version each of whose sessions completed with at least the      *)
(* square of the target, the gate run_fleet applies: the floor counts an   *)
(* errored session as 0, the aggregate is the floor's share of the target. *)
(* That is less than the target judge.py:78 speaks of.                     *)
THEOREM PromotionsAreEarned == Specification => []PromotionEarned
<1> DEFINE I == ClientsShaped /\ GradesHold /\ PromotionEarned
<1>1. PersonalizeInit => I
  <2>1. ASSUME PersonalizeInit PROVE GradesHold /\ PromotionEarned
    BY <2>1 DEF PersonalizeInit, GradesHold, RunHolds, PromotionEarned
  <2> QED BY <2>1, ShapedInitially
<1>2. I /\ [PersonalizeNext]_personalize => I'
  <2>1. ASSUME I, PersonalizeNext PROVE I'
    <3>1. PICK p \in Procs : Stepping(p)
      BY <2>1, StepIs
    <3>2. ClientsShaped' /\ OthersKept(p)
      BY <2>1, <3>1, StaysShaped
    <3>3. GradesHold'
      BY <2>1, <3>1, <3>2, StepRuns, OthersRun
    <3> QED BY <2>1, <3>1, <3>2, <3>3, StaysEarned
  <2>2. ASSUME I, UNCHANGED personalize PROVE I'
    BY <2>2, IdleStutters
  <2> QED BY <2>1, <2>2
<1> QED BY <1>1, <1>2, PTL DEF Specification

-----------------------------------------------------------------------------
(* The tools of a bundle are finitely many names.                          *)
NameParts == STRING \cup {"client", "search", "read", "by_path"}

Named(tools) == IsFiniteSet(tools) /\ tools \subseteq Seq(NameParts)

BundleHolds(r) == "bundle" \in DOMAIN r => Named(ClientTools(r.bundle))

BundlesHold == \A p \in Procs : BundleHolds(proc[p])

LEMMA ImageFinite ==
  ASSUME NEW S, IsFiniteSet(S), NEW f, DOMAIN f = S, f = [x \in S |-> f[x]]
  PROVE  IsFiniteSet({f[x] : x \in S})
<1> DEFINE T == {f[x] : x \in S}
<1>1. f \in Surjection(S, T)
  BY DEF Surjection
<1> HIDE DEF T
<1>2. IsFiniteSet(T)
  BY <1>1, FS_Surjection
<1> QED BY <1>2 DEF T

LEMMA UnionNamed ==
  ASSUME NEW families, IsFiniteSet(families), \A tools \in families : Named(tools)
  PROVE  Named(UNION families)
<1>1. IsFiniteSet(UNION families)
  BY FS_UNION DEF Named
<1> QED BY <1>1 DEF Named

LEMMA Tuples ==
  ASSUME NEW S, NEW x \in S, NEW y \in S, NEW z \in S
  PROVE  <<x>> \in Seq(S) /\ Len(<<x>>) = 1 /\ <<x, y>> \in Seq(S) /\ <<x, y, z>> \in Seq(S)
OBVIOUS

LEMMA DerivedNamed == ASSUME NEW slug \in STRING PROVE Named(Derived(slug)) /\ Named({})
<1>1. IsFiniteSet({<<"search", slug>>} \cup {<<"read", slug, "by_path">>})
  BY FS_Singleton, FS_AddElement
<1>2. Derived(slug) = {<<"search", slug>>} \cup {<<"read", slug, "by_path">>}
  BY DEF Derived
<1>3. <<"search", slug>> \in Seq(NameParts) /\ <<"read", slug, "by_path">> \in Seq(NameParts)
  <2>1. slug \in NameParts /\ "search" \in NameParts /\ "read" \in NameParts /\ "by_path" \in NameParts
    BY DEF NameParts
  <2> QED BY <2>1, Tuples
<1> QED BY <1>1, <1>2, <1>3, FS_EmptySet DEF Named

LEMMA BundleNamed ==
  ASSUME NEW with \in Connections, NEW bundle,
         bundle.servers = with.servers,
         bundle.sources = [i \in DOMAIN with.sources |->
                             [slug  |-> with.sources[i].slug,
                              tools |-> IF with.sources[i].adapter THEN Derived(with.sources[i].slug) ELSE {}]]
  PROVE  Named(ClientTools(bundle))
<1>1. /\ IsFiniteSet(with.servers) /\ \A s \in with.servers : Named(s.tools)
      /\ with.sources \in Seq([slug : STRING, adapter : BOOLEAN])
  <2>1. Seq(STRING) \subseteq Seq(NameParts)
    BY SeqMonotonic DEF NameParts
  <2> QED BY <2>1, PersonalizeAssumption DEF Named
<1> DEFINE on == {s \in bundle.servers : s.enabled}
           f == [s \in on |-> s.tools]
           D == DOMAIN with.sources
           g == [i \in D |-> bundle.sources[i].tools]
<1>2. IsFiniteSet(on) /\ on \subseteq with.servers
  BY <1>1, FS_Subset
<1>3. Named(UNION {s.tools : s \in on})
  <2>1. DOMAIN f = on /\ f = [s \in on |-> f[s]]
    OBVIOUS
  <2> HIDE DEF on
  <2>2. IsFiniteSet({f[s] : s \in on})
    <3> HIDE DEF f
    <3> QED BY <1>2, <2>1, ImageFinite
  <2>3. {f[s] : s \in on} = {s.tools : s \in on}
    OBVIOUS
  <2>4. \A tools \in {s.tools : s \in on} : Named(tools)
    BY <1>1, <1>2
  <2> QED BY <2>2, <2>3, <2>4, UnionNamed
<1>4. Named(UNION {s.tools : s \in ToSet(bundle.sources)})
  <2>1. IsFiniteSet(D) /\ \A i \in D : with.sources[i].slug \in STRING
    <3>1. D = 1..Len(with.sources) /\ Len(with.sources) \in Nat
      BY <1>1, LenProperties
    <3>2. \A i \in D : with.sources[i] \in [slug : STRING, adapter : BOOLEAN]
      BY <1>1, <3>1, ElementOfSeq
    <3>3. IsFiniteSet(D)
      BY <3>1, FS_Interval
    <3>4. \A i \in D : with.sources[i].slug \in STRING
      BY <3>2
    <3> QED BY <3>3, <3>4
  <2>2. DOMAIN g = D /\ g = [i \in D |-> g[i]]
    OBVIOUS
  <2>3. ASSUME NEW i \in D PROVE Named(g[i])
    <3>1. g[i] = IF with.sources[i].adapter THEN Derived(with.sources[i].slug) ELSE {}
      OBVIOUS
    <3>2. Named(Derived(with.sources[i].slug)) /\ Named({})
      BY <2>1, DerivedNamed
    <3> HIDE DEF g, D
    <3> QED BY <3>1, <3>2
  <2>4. {g[i] : i \in D} = {s.tools : s \in ToSet(bundle.sources)}
    <3>1. DOMAIN bundle.sources = D /\ \A i \in D : g[i] = bundle.sources[i].tools
      OBVIOUS
    <3>2. ToSet(bundle.sources) = {bundle.sources[i] : i \in D}
      BY <3>1 DEF ToSet
    <3> DEFINE its == bundle.sources
    <3> HIDE DEF g, D
    <3>5. \A i \in D : g[i] = its[i].tools
      BY <3>1
    <3> HIDE DEF its
    <3>3. {g[i] : i \in D} = {its[i].tools : i \in D}
      BY <3>5
    <3>4. {s.tools : s \in {its[i] : i \in D}} = {its[i].tools : i \in D}
      OBVIOUS
    <3> USE DEF its
    <3> QED BY <3>2, <3>3, <3>4
  <2> HIDE DEF D, g
  <2>5. IsFiniteSet({g[i] : i \in D})
    BY <2>1, <2>2, ImageFinite
  <2>6. \A tools \in {g[i] : i \in D} : Named(tools)
    BY <2>3
  <2>7. Named(UNION {g[i] : i \in D})
    BY <2>5, <2>6, UnionNamed
  <2> QED BY <2>4, <2>7
<1> DEFINE served == UNION {s.tools : s \in on}
           derived == UNION {s.tools : s \in ToSet(bundle.sources)}
<1>6. ClientTools(bundle) = served \cup derived
  BY DEF ClientTools
<1>7. Named(served) /\ Named(derived)
  BY <1>3, <1>4
<1> HIDE DEF served, derived
<1>8. IsFiniteSet(served \cup derived)
  BY <1>7, FS_Union DEF Named
<1> QED BY <1>6, <1>7, <1>8 DEF Named

-----------------------------------------------------------------------------
(* The merge.                                                              *)
LEMMA AliasIs ==
  ASSUME NEW t \in Seq(NameParts), NEW u \in Seq(NameParts)
  PROVE  Head(Alias(t)) = "client" /\ (Alias(t) = Alias(u) => t = u)
<1>1. <<"client">> \in Seq(NameParts) /\ Len(<<"client">>) = 1
  <2>1. "client" \in NameParts
    BY DEF NameParts
  <2> QED BY <2>1, Tuples
<1>2. ASSUME NEW v \in Seq(NameParts)
      PROVE  /\ Alias(v) \in Seq(NameParts) /\ Len(Alias(v)) = 1 + Len(v) /\ Alias(v)[1] = "client"
             /\ \A i \in 1..Len(v) : Alias(v)[i + 1] = v[i]
  <2>1. /\ Alias(v) \in Seq(NameParts) /\ Len(Alias(v)) = 1 + Len(v)
        /\ \A i \in 1 .. 1 + Len(v) : Alias(v)[i] = IF i <= 1 THEN <<"client">>[i] ELSE v[i - 1]
    BY <1>1, ConcatProperties DEF Alias
  <2>2. Len(v) \in Nat
    BY LenProperties
  <2> QED BY <2>1, <2>2
<1>3. Head(Alias(t)) = "client"
  BY <1>2
<1>4. ASSUME Alias(t) = Alias(u) PROVE t = u
  <2>1. Len(t) \in Nat /\ Len(u) \in Nat
    BY LenProperties
  <2>2. Len(t) = Len(u)
    BY <1>2, <1>4, <2>1
  <2>3. ASSUME NEW i \in 1..Len(t) PROVE t[i] = u[i]
    <3>1. Alias(t)[i + 1] = t[i]
      BY <1>2
    <3>2. Alias(u)[i + 1] = u[i]
      BY <1>2, <2>2
    <3> QED BY <3>1, <3>2, <1>4
  <2> QED BY <2>2, <2>3, SeqEqual
<1> QED BY <1>3, <1>4

MergeSound(bundle, policy) ==
  LET surface == Merge(bundle, policy)
      theirs  == ClientTools(bundle)
      clash   == theirs \cap Builtins
      added   == surface.allow \ Builtins
      kept    == IF policy = "client_overrides" THEN Builtins \ clash ELSE Builtins
  IN  Refuses(bundle, policy) \/
      /\ kept \subseteq surface.allow
      /\ theirs \ clash \subseteq added
      /\ DOMAIN surface.aliases \cup surface.dropped = clash
      /\ (\A t \in theirs \cup Builtins : Head(t) # "client") => Cardinality(added) = Cardinality(theirs \ surface.dropped)

LEMMA Merged ==
  ASSUME NEW bundle, NEW policy \in Policies, Named(ClientTools(bundle))
  PROVE  MergeSound(bundle, policy)
<1> DEFINE theirs == ClientTools(bundle)
           clash == theirs \cap Builtins
           surface == Merge(bundle, policy)
           added == surface.allow \ Builtins
           gained == UNION {Exposed(t, policy) : t \in theirs}
<1>s. /\ surface.allow = Builtins \cup gained
      /\ surface.aliases = IF policy = "namespace_client" THEN [t \in clash |-> Alias(t)] ELSE <<>>
      /\ surface.dropped = IF policy \in {"builtin_wins", "client_overrides"} THEN clash ELSE {}
  BY DEF Merge, Collisions
<1>t. IsFiniteSet(theirs) /\ theirs \subseteq Seq(NameParts)
  BY DEF Named
<1>r. Refuses(bundle, policy) <=> policy = "error" /\ clash # {}
  BY DEF Refuses, Collisions
<1>1. CASE policy = "namespace_client"
  <2>1. gained = (theirs \ clash) \cup {Alias(t) : t \in clash}
    <3>1. \A t \in theirs : Exposed(t, policy) = IF t \in Builtins THEN {Alias(t)} ELSE {t}
      BY <1>1 DEF Exposed
    <3> HIDE DEF theirs
    <3> QED BY <3>1
  <2>2. DOMAIN surface.aliases = clash /\ surface.dropped = {}
    <3>1. surface.aliases = [t \in clash |-> Alias(t)] /\ surface.dropped = {}
      BY <1>s, <1>1
    <3> HIDE DEF surface, clash
    <3> QED BY <3>1
  <2> HIDE DEF surface, gained, theirs
  <2>3. ASSUME \A t \in theirs \cup Builtins : Head(t) # "client" PROVE Cardinality(added) = Cardinality(theirs)
    <3> DEFINE name == [t \in theirs |-> IF t \in Builtins THEN Alias(t) ELSE t]
    <3>1. \A t \in clash : Alias(t) \notin Builtins /\ Alias(t) \notin theirs
      BY <2>3, <1>t, AliasIs
    <3>2. added = {name[t] : t \in theirs}
      BY <1>s, <2>1, <3>1
    <3>3. name \in Injection(theirs, added)
      <4>1. name \in [theirs -> added]
        BY <3>2
      <4>2. ASSUME NEW t \in theirs, NEW u \in theirs, name[t] = name[u] PROVE t = u
        <5>1. CASE t \in Builtins /\ u \in Builtins
          BY <5>1, <4>2, <1>t, AliasIs
        <5>2. CASE ~(t \in Builtins /\ u \in Builtins)
          BY <5>2, <4>2, <3>1
        <5> QED BY <5>1, <5>2
      <4> HIDE DEF name
      <4> QED BY <4>1, <4>2 DEF Injection, IsInjective
    <3>4. name \in Surjection(theirs, added)
      BY <3>2 DEF Surjection
    <3> HIDE DEF name, added
    <3>5. ExistsBijection(theirs, added)
      BY <3>3, <3>4 DEF ExistsBijection, Bijection
    <3> QED BY <3>5, <1>t, FS_Bijection
  <2> QED BY <1>s, <2>1, <2>2, <2>3 DEF MergeSound, surface, theirs, gained
<1>2. CASE policy # "namespace_client"
  <2>1. gained = theirs \ clash
    <3>1. \A t \in theirs : Exposed(t, policy) = IF t \in Builtins THEN {} ELSE {t}
      BY <1>2 DEF Exposed
    <3> HIDE DEF theirs
    <3> QED BY <3>1
  <2>2. DOMAIN surface.aliases = {} /\ surface.dropped = IF policy = "error" THEN {} ELSE clash
    BY <1>s, <1>2 DEF Policies
  <2>3. added = theirs \ clash
    <3> HIDE DEF surface, gained, theirs
    <3> QED BY <1>s, <2>1
  <2>4. policy = "error" => Refuses(bundle, policy) \/ clash = {}
    BY <1>r
  <2> HIDE DEF surface, gained, theirs
  <2>5. Refuses(bundle, policy) \/ (DOMAIN surface.aliases \cup surface.dropped = clash /\ theirs \ surface.dropped = added)
    BY <2>2, <2>3, <2>4
  <2> QED BY <1>s, <2>3, <2>5 DEF MergeSound, surface, theirs
<1> QED BY <1>1, <1>2

LEMMA StepBundles ==
  ASSUME ClientsShaped, BundlesHold, NEW p \in Procs, Stepping(p)
  PROVE  BundleHolds(proc'[p])
<1>h. DOMAIN proc = Procs /\ Held(proc[p]) /\ BundleHolds(proc[p])
  BY DEF ClientsShaped, BundlesHold
<1>f. ASSUME NEW stage, proc' = [proc EXCEPT ![p] = [pc |-> stage]] PROVE BundleHolds(proc'[p])
  <2>1. proc'[p] = [pc |-> stage]
    BY <1>h, <1>f
  <2>2. DOMAIN proc'[p] = {"pc"}
    BY <2>1
  <2> QED BY <2>2 DEF BundleHolds
<1>k. ASSUME NEW fields, proc'[p] = Updated(proc[p], fields), "bundle" \notin DOMAIN fields
      PROVE  BundleHolds(proc'[p])
  <2>1. /\ DOMAIN Updated(proc[p], fields) = DOMAIN proc[p] \cup DOMAIN fields
        /\ \A k \in DOMAIN proc[p] \ DOMAIN fields : Updated(proc[p], fields)[k] = proc[p][k]
    BY UpdatedIs, ZenonT(30)
  <2>2. "bundle" \in DOMAIN proc'[p] => "bundle" \in DOMAIN proc[p] /\ proc'[p]["bundle"] = proc[p]["bundle"]
    BY <2>1, <1>k
  <2> QED BY <2>2, <1>h DEF BundleHolds
<1>g. ASSUME NEW fields, Go(p, fields), "bundle" \notin DOMAIN fields
      PROVE  BundleHolds(proc'[p])
  BY <1>h, <1>g, <1>k, GoIs
<1>1. CASE Request(p)
  <2>1. PICK kind \in {"intake", "optimize", "serve"}, c \in Clients, with \in Connections :
          proc' = [proc EXCEPT ![p] = Updated(with, [pc |-> "elicit", kind |-> kind, client |-> c])]
    BY <1>1 DEF Request
  <2>2. proc'[p] = Updated(with, [pc |-> "elicit", kind |-> kind, client |-> c])
    BY <1>h, <2>1
  <2>3. DOMAIN with = {"servers", "sources"}
    BY PersonalizeAssumption
  <2>4. "bundle" \notin DOMAIN proc'[p]
    BY <2>2, <2>3 DEF Updated
  <2> QED BY <2>4 DEF BundleHolds
<1>2. CASE Elicit(p)
  <2>1. Fail(p) \/ proc' = [proc EXCEPT ![p] = [pc |-> "answered"]] \/ \E x : Go(p, [pc |-> "bundle", spec |-> x])
    BY <1>2 DEF Elicit
  <2>2. CASE Fail(p) \/ proc' = [proc EXCEPT ![p] = [pc |-> "answered"]]
    BY <2>2, <1>f DEF Fail
  <2>3. CASE \E x : Go(p, [pc |-> "bundle", spec |-> x])
    BY <2>3, <1>g
  <2> QED BY <2>1, <2>2, <2>3
<1>3. CASE Bundle(p)
  <2>2. CASE Fail(p)
    BY <2>2, <1>f DEF Fail
  <2>3. CASE ~Fail(p)
    <3> DEFINE bundle == [servers |-> proc[p].servers,
                          sources |-> [i \in DOMAIN proc[p].sources |->
                                         [slug  |-> proc[p].sources[i].slug,
                                          tools |-> IF proc[p].sources[i].adapter THEN Derived(proc[p].sources[i].slug) ELSE {}]]]
    <3>1. PICK x1, x3 : Go(p, [pc |-> "begin", profiles |-> x1, bundle |-> bundle, surface |-> x3, graded |-> {}, slot |-> Nothing])
      BY <1>3, <2>3 DEF Bundle
    <3>2. PICK with \in Connections : proc[p].servers = with.servers /\ proc[p].sources = with.sources
      BY <1>3, <1>h DEF Bundle, Held, AskedFor
    <3>3. bundle.servers = with.servers
          /\ bundle.sources = [i \in DOMAIN with.sources |->
                                 [slug  |-> with.sources[i].slug,
                                  tools |-> IF with.sources[i].adapter THEN Derived(with.sources[i].slug) ELSE {}]]
      BY <3>2
    <3> HIDE DEF bundle
    <3>4. Named(ClientTools(bundle))
      BY <3>3, BundleNamed
    <3>5. proc'[p] = Updated(proc[p], [pc |-> "begin", profiles |-> x1, bundle |-> bundle, surface |-> x3, graded |-> {}, slot |-> Nothing])
      BY <3>1, <1>h, GoIs
    <3>6. proc'[p].bundle = bundle
      BY <3>5 DEF Updated
    <3> QED BY <3>4, <3>6 DEF BundleHolds
  <2> QED BY <2>2, <2>3
<1>4. CASE Begin(p)
  <2>1. proc'[p] = Updated(proc[p], [pc |-> "agent", at |-> 1, served |-> FALSE, alone |-> Others(p) = {}])
    BY <1>4 DEF Begin
  <2> QED BY <2>1, <1>k
<1>5. CASE PlaceAgent(p)
  <2>1. Go(p, [at |-> proc[p].at + 1]) \/ Go(p, [pc |-> "read"])
    BY <1>5 DEF PlaceAgent
  <2> QED BY <2>1, <1>g
<1>6. CASE ReadConfig(p)
  <2>1. \E x : Go(p, [pc |-> "truncate", base |-> x])
    BY <1>6 DEF ReadConfig
  <2> QED BY <2>1, <1>g
<1>7. CASE TruncateConfig(p)
  <2>1. Go(p, [pc |-> "fill"])
    BY <1>7 DEF TruncateConfig
  <2> QED BY <2>1, <1>g
<1>8. CASE FillConfig(p)
  <2>1. \E x : Go(p, [pc |-> x])
    BY <1>8 DEF FillConfig
  <2> QED BY <2>1, <1>g
<1>9. CASE Again(p)
  <2>1. Go(p, [pc |-> "agent", at |-> 1, served |-> TRUE])
    BY <1>9 DEF Again
  <2> QED BY <2>1, <1>g
<1>10. CASE Baseline(p)
  <2>1. \E x : Go(p, [pc |-> "seed", prompt |-> x])
    BY <1>10 DEF Baseline
  <2> QED BY <2>1, <1>g
<1>11. CASE Seed(p)
  <2>1. \E x : Go(p, [pc |-> "grade", probes |-> x])
    BY <1>11 DEF Seed
  <2> QED BY <2>1, <1>g
<1>12. CASE Grade(p)
  <2>1. \E x : Go(p, [graded |-> x])
    BY <1>12 DEF Grade
  <2> QED BY <2>1, <1>g
<1>13. CASE EndLoop(p)
  <2>1. (\E x : Go(p, [pc |-> "again", graded |-> {}, slot |-> x])) \/ Go(p, [pc |-> "again", graded |-> {}])
    BY <1>13 DEF EndLoop
  <2> QED BY <2>1, <1>g
<1>14. CASE LoopRaises(p)
  <2>1. Go(p, [pc |-> "again", graded |-> {}])
    BY <1>14 DEF LoopRaises
  <2> QED BY <2>1, <1>g
<1>15. CASE Answer(p)
  BY <1>15, <1>f DEF Answer
<1>16. CASE Dies(p)
  BY <1>16, <1>f DEF Dies
<1> QED BY <1>1, <1>2, <1>3, <1>4, <1>5, <1>6, <1>7, <1>8, <1>9, <1>10, <1>11, <1>12, <1>13, <1>14, <1>15, <1>16 DEF Stepping

LEMMA StaysBundled ==
  ASSUME ClientsShaped, BundlesHold, NEW p \in Procs, Stepping(p)
  PROVE  BundlesHold'
<1>1. OthersKept(p) /\ BundleHolds(proc'[p])
  BY StaysShaped, StepBundles
<1>2. ASSUME NEW q \in Procs \ {p} PROVE BundleHolds(proc'[q])
  <2>1. BundleHolds(proc[q])
    BY DEF BundlesHold
  <2>2. CASE proc'[q] = proc[q]
    BY <2>1, <2>2
  <2>3. CASE proc'[q] = Updated(proc[q], [alone |-> FALSE])
    <3>1. "bundle" \in DOMAIN proc'[q] => "bundle" \in DOMAIN proc[q] /\ proc'[q].bundle = proc[q].bundle
      BY <2>3 DEF Updated
    <3> QED BY <2>1, <3>1 DEF BundleHolds
  <2> QED BY <1>1, <2>2, <2>3 DEF OthersKept
<1> QED BY <1>1, <1>2 DEF BundlesHold

LEMMA ShadowsNothing == ASSUME BundlesHold PROVE NothingShadowed
<1>1. ASSUME NEW p \in Procs, NEW policy \in Policies, "bundle" \in DOMAIN proc[p]
      PROVE  MergeSound(proc[p].bundle, policy)
  BY <1>1, Merged DEF BundlesHold, BundleHolds
<1> QED BY <1>1 DEF NothingShadowed, MergeSound

(* Whatever servers and sources a request names and whichever policy it is *)
(* merged under, merge_capabilities keeps every platform tool (but for the *)
(* names a client takes over under client_overrides, of which nothing is   *)
(* said), reaches each tool of the client under a name of its own or       *)
(* reports the name as dropped, and (no other tool being named like an     *)
(* alias) no two of them share a name.                                     *)
THEOREM MergesShadowNothing == Specification => []NothingShadowed
<1> DEFINE I == ClientsShaped /\ BundlesHold
<1>1. PersonalizeInit => I
  <2>1. ASSUME PersonalizeInit PROVE BundlesHold
    <3>1. ASSUME NEW p \in Procs PROVE BundleHolds(proc[p])
      <4>1. proc[p] = [pc |-> "idle"]
        BY <2>1 DEF PersonalizeInit
      <4>2. DOMAIN proc[p] = {"pc"}
        BY <4>1
      <4> QED BY <4>2 DEF BundleHolds
    <3> QED BY <3>1 DEF BundlesHold
  <2> QED BY <2>1, ShapedInitially
<1>2. I /\ [PersonalizeNext]_personalize => I'
  <2>1. ASSUME I, PersonalizeNext PROVE I'
    <3>1. PICK p \in Procs : Stepping(p)
      BY <2>1, StepIs
    <3> QED BY <2>1, <3>1, StaysShaped, StaysBundled
  <2>2. ASSUME I, UNCHANGED personalize PROVE I'
    BY <2>2 DEF personalize, ClientsShaped, BundlesHold
  <2> QED BY <2>1, <2>2
<1>3. I => NothingShadowed
  BY ShadowsNothing
<1> QED BY <1>1, <1>2, <1>3, PTL DEF Specification

-----------------------------------------------------------------------------
(* Who works at a root alone leaves it as it was asked.                    *)
Doing == {"agent", "read", "truncate", "fill", "again", "baseline", "seed", "grade", "answer"}

Active(p) == proc[p].pc \in Doing

AsAsked(role, profiles, spec) ==
  <<BasePrompt(role)>> \o [i \in DOMAIN profiles |-> Layout(profiles[i])] \o <<Client(spec)>>

Placed(p) ==
  \A j \in 1..Len(Roles) : (proc[p].pc = "agent" => j < proc[p].at) =>
    disk[C(p)].agents[Roles[j]] = AsAsked(Roles[j], proc[p].profiles, proc[p].spec)

Filled(p) ==
  proc[p].pc = "answer" => /\ disk[C(p)].config.is = "whole"
                           /\ disk[C(p)].config.tools = proc[p].surface.allow
                           /\ disk[C(p)].config.mcp = proc[p].surface.mcp

EachItsRoot(p) == \A q \in Procs \ {p} : Active(q) => C(q) # C(p)

RootHolds(p) ==
  Active(p) => /\ owner[C(p)] = Nothing
               /\ proc[p].alone => EachItsRoot(p) /\ Placed(p) /\ Filled(p)

RootsHold == \A p \in Procs : RootHolds(p)

UsersHold ==
  /\ user \subseteq Clients
  /\ \A c \in user : disk[c].config.is = "torn" \/ (disk[c].config.is = "whole" /\ disk[c].config.other)
  /\ \A p \in Procs : proc[p].pc \in {"truncate", "fill"} /\ C(p) \in user => proc[p].base

(* A disk is changed by who is active, at its own client's root.           *)
LEMMA DiskSteps ==
  ASSUME ClientsShaped, NEW p \in Procs, Stepping(p)
  PROVE  \/ disk' = disk
         \/ Active(p) /\ C(p) \in Clients /\ \A c \in Clients \ {C(p)} : disk'[c] = disk[c]
<1>h. Held(proc[p])
  BY DEF ClientsShaped
<1>1. CASE PlaceAgent(p)
  BY <1>1, <1>h DEF PlaceAgent, ClientsShaped, Active, Doing, C, Held
<1>2. CASE TruncateConfig(p)
  BY <1>2, <1>h DEF TruncateConfig, ClientsShaped, Active, Doing, C, Held
<1>3. CASE FillConfig(p)
  BY <1>3, <1>h DEF FillConfig, ClientsShaped, Active, Doing, C, Held
<1>4. CASE Seed(p)
  BY <1>4, <1>h DEF Seed, ClientsShaped, Active, Doing, C, Held
<1>5. CASE EndLoop(p)
  BY <1>5, <1>h DEF EndLoop, ClientsShaped, Active, Doing, C, Held
<1>6. CASE Request(p) \/ Elicit(p) \/ Bundle(p) \/ ReadConfig(p) \/ Again(p) \/ Baseline(p) \/ Grade(p) \/ LoopRaises(p) \/ Dies(p)
  BY <1>6 DEF Request, Elicit, Bundle, ReadConfig, Again, Baseline, Grade, LoopRaises, Dies
<1>7. CASE Begin(p) \/ Answer(p)
  BY <1>7 DEF Begin, Answer
<1> QED BY <1>1, <1>2, <1>3, <1>4, <1>5, <1>6, <1>7 DEF Stepping

(* Another process's record, as far as the root is concerned.              *)
LEMMA OtherIs ==
  ASSUME ClientsShaped, NEW p \in Procs, OthersKept(p), NEW q \in Procs \ {p}
  PROVE  /\ proc'[q].pc = proc[q].pc
         /\ \A k \in DOMAIN proc[q] \ {"alone"} : proc'[q][k] = proc[q][k]
         /\ Active(q) /\ proc'[q].alone => proc[q].alone
<1>h. Held(proc[q]) /\ "pc" \in DOMAIN proc[q]
  BY DEF ClientsShaped, Held
<1>1. CASE proc'[q] = proc[q]
  BY <1>1
<1>2. CASE proc'[q] = Updated(proc[q], [alone |-> FALSE])
  BY <1>2, <1>h DEF Updated
<1> QED BY <1>1, <1>2 DEF OthersKept

Keeps(p) == \A k \in {"client", "profiles", "spec", "surface", "alone"} : k \in DOMAIN proc[p] /\ proc'[p][k] = proc[p][k]

LEMMA GoKeeps ==
  ASSUME ClientsShaped, NEW p \in Procs, Active(p), NEW fields, Go(p, fields),
         DOMAIN fields \cap {"client", "profiles", "spec", "surface", "alone"} = {}
  PROVE  Keeps(p)
<1>1. {"client", "profiles", "spec", "surface", "alone"} \subseteq DOMAIN proc[p]
  BY DEF ClientsShaped, Held, Active, Doing
<1>2. proc'[p] = Updated(proc[p], fields)
  BY GoIs DEF ClientsShaped
<1>3. \A k \in DOMAIN proc[p] \ DOMAIN fields : Updated(proc[p], fields)[k] = proc[p][k]
  BY UpdatedIs
<1> QED BY <1>1, <1>2, <1>3 DEF Keeps

(* The record a step goes on with. *)
LEMMA GoesTo ==
  ASSUME ClientsShaped, NEW p \in Procs, NEW fields, Go(p, fields), NEW k \in DOMAIN fields
  PROVE  proc'[p][k] = fields[k]
<1>1. proc'[p] = Updated(proc[p], fields)
  BY GoIs DEF ClientsShaped
<1>2. \A f \in DOMAIN fields : Updated(proc[p], fields)[f] = fields[f]
  BY UpdatedIs, ZenonT(30)
<1> QED BY <1>1, <1>2

LEMMA GoesOnAt ==
  ASSUME ClientsShaped, NEW p \in Procs, NEW fields, Go(p, fields), "pc" \notin DOMAIN fields
  PROVE  proc'[p].pc = proc[p].pc
<1>1. "pc" \in DOMAIN proc[p]
  BY DEF ClientsShaped, Held
<1>2. proc'[p] = Updated(proc[p], fields)
  BY GoIs DEF ClientsShaped
<1>3. \A k \in DOMAIN proc[p] \ DOMAIN fields : Updated(proc[p], fields)[k] = proc[p][k]
  BY UpdatedIs
<1> QED BY <1>1, <1>2, <1>3

-----------------------------------------------------------------------------
(* What a user keeps in opencode.json.                                     *)
LEMMA UserStays ==
  ASSUME ClientsShaped, NEW p \in Procs, Stepping(p),
         ~(ReadConfig(p) \/ TruncateConfig(p) \/ FillConfig(p))
  PROVE  /\ user' = user /\ \A c \in Clients : disk'[c].config = disk[c].config
         /\ proc'[p].pc \notin {"truncate", "fill"}
<1>h. DOMAIN proc = Procs /\ Held(proc[p])
  BY DEF ClientsShaped
<1>f. ASSUME NEW stage \in {"failed", "answered", "idle"}, proc' = [proc EXCEPT ![p] = [pc |-> stage]]
      PROVE  proc'[p].pc \notin {"truncate", "fill"}
  BY <1>h, <1>f
<1>g. ASSUME NEW fields, Go(p, fields), IF "pc" \in DOMAIN fields THEN fields["pc"] \notin {"truncate", "fill"}
                                        ELSE proc[p].pc \notin {"truncate", "fill"}
      PROVE  proc'[p].pc \notin {"truncate", "fill"}
  <2>1. CASE "pc" \in DOMAIN fields
    <3>1. proc'[p]["pc"] = fields["pc"]
      BY <1>g, <2>1, GoesTo
    <3> QED BY <3>1, <1>g, <2>1
  <2>2. CASE "pc" \notin DOMAIN fields
    BY <1>g, <2>2, GoesOnAt
  <2> QED BY <2>1, <2>2
<1>1. CASE Request(p)
  <2>1. \E r : proc'[p] = Updated(r, [pc |-> "elicit", kind |-> proc'[p].kind, client |-> proc'[p].client])
    <3>1. PICK kind \in {"intake", "optimize", "serve"}, c \in Clients, with \in Connections :
            proc' = [proc EXCEPT ![p] = Updated(with, [pc |-> "elicit", kind |-> kind, client |-> c])]
      BY <1>1 DEF Request
    <3>2. proc'[p] = Updated(with, [pc |-> "elicit", kind |-> kind, client |-> c])
      BY <1>h, <3>1
    <3>3. proc'[p].kind = kind /\ proc'[p].client = c
      BY <3>2 DEF Updated
    <3> QED BY <3>2, <3>3
  <2>2. proc'[p].pc = "elicit"
    BY <2>1 DEF Updated
  <2> QED BY <1>1, <2>2 DEF Request
<1>2. CASE Elicit(p)
  <2>1. Fail(p) \/ proc' = [proc EXCEPT ![p] = [pc |-> "answered"]] \/ \E x : Go(p, [pc |-> "bundle", spec |-> x])
    BY <1>2 DEF Elicit
  <2>2. CASE Fail(p) \/ proc' = [proc EXCEPT ![p] = [pc |-> "answered"]]
    BY <1>2, <2>2, <1>f DEF Fail, Elicit
  <2>3. CASE \E x : Go(p, [pc |-> "bundle", spec |-> x])
    BY <1>2, <2>3, <1>g DEF Elicit
  <2> QED BY <2>1, <2>2, <2>3
<1>3. CASE Bundle(p)
  <2>1. Fail(p) \/ \E x1, x2, x3 : Go(p, [pc |-> "begin", profiles |-> x1, bundle |-> x2, surface |-> x3, graded |-> {}, slot |-> Nothing])
    BY <1>3 DEF Bundle
  <2>2. CASE Fail(p)
    BY <1>3, <2>2, <1>f DEF Fail, Bundle
  <2>3. CASE \E x1, x2, x3 : Go(p, [pc |-> "begin", profiles |-> x1, bundle |-> x2, surface |-> x3, graded |-> {}, slot |-> Nothing])
    BY <1>3, <2>3, <1>g DEF Bundle
  <2> QED BY <2>1, <2>2, <2>3
<1>4. CASE Begin(p)
  <2>1. proc'[p] = Updated(proc[p], [pc |-> "agent", at |-> 1, served |-> FALSE, alone |-> Others(p) = {}])
    BY <1>4 DEF Begin
  <2>2. proc'[p].pc = "agent"
    BY <2>1 DEF Updated
  <2> QED BY <1>4, <2>2 DEF Begin
<1>5. CASE PlaceAgent(p)
  <2>1. proc[p].pc = "agent" /\ (Go(p, [at |-> proc[p].at + 1]) \/ Go(p, [pc |-> "read"]))
    BY <1>5 DEF PlaceAgent
  <2>2. proc'[p].pc \notin {"truncate", "fill"}
    BY <2>1, <1>g
  <2> QED BY <1>5, <2>2 DEF PlaceAgent, ClientsShaped, ClientFiles
<1>9. CASE Again(p)
  <2>1. Go(p, [pc |-> "agent", at |-> 1, served |-> TRUE])
    BY <1>9 DEF Again
  <2> QED BY <1>9, <2>1, <1>g DEF Again
<1>10. CASE Baseline(p)
  <2>1. \E x : Go(p, [pc |-> "seed", prompt |-> x])
    BY <1>10 DEF Baseline
  <2> QED BY <1>10, <2>1, <1>g DEF Baseline
<1>11. CASE Seed(p)
  <2>1. \E x : Go(p, [pc |-> "grade", probes |-> x])
    BY <1>11 DEF Seed
  <2>2. proc'[p].pc \notin {"truncate", "fill"}
    BY <2>1, <1>g
  <2> QED BY <1>11, <2>2 DEF Seed, ClientsShaped, ClientFiles
<1>12. CASE Grade(p)
  <2>1. proc[p].pc = "grade" /\ \E x : Go(p, [graded |-> x])
    BY <1>12 DEF Grade
  <2> QED BY <1>12, <2>1, <1>g DEF Grade
<1>13. CASE EndLoop(p)
  <2>1. (\E x : Go(p, [pc |-> "again", graded |-> {}, slot |-> x])) \/ Go(p, [pc |-> "again", graded |-> {}])
    BY <1>13 DEF EndLoop
  <2>2. proc'[p].pc \notin {"truncate", "fill"}
    BY <2>1, <1>g
  <2> QED BY <1>13, <2>2 DEF EndLoop, ClientsShaped, ClientFiles
<1>14. CASE LoopRaises(p)
  <2>1. Go(p, [pc |-> "again", graded |-> {}])
    BY <1>14 DEF LoopRaises
  <2> QED BY <1>14, <2>1, <1>g DEF LoopRaises
<1>15. CASE Answer(p)
  BY <1>15, <1>f DEF Answer
<1>16. CASE Dies(p)
  BY <1>16, <1>f DEF Dies
<1> QED BY <1>1, <1>2, <1>3, <1>4, <1>5, <1>9, <1>10, <1>11, <1>12, <1>13, <1>14, <1>15, <1>16 DEF Stepping

LEMMA StaysUsers ==
  ASSUME ClientsShaped, UsersHold, NEW p \in Procs, Stepping(p)
  PROVE  UsersHold'
<1>o. OthersKept(p) /\ Held(proc[p]) /\ DOMAIN proc' = Procs
  BY StaysShaped DEF ClientsShaped, OthersKept
(* What another process read still stands. *)
<1>q. ASSUME NEW q \in Procs \ {p}, user' \subseteq user, proc'[q].pc \in {"truncate", "fill"}, C(q)' \in user'
      PROVE  proc'[q].base
  <2>1. /\ proc'[q].pc = proc[q].pc
        /\ \A k \in DOMAIN proc[q] \ {"alone"} : proc'[q][k] = proc[q][k]
    BY <1>o, OtherIs
  <2>2. {"client", "base"} \subseteq DOMAIN proc[q] \ {"alone"}
    BY <1>q, <2>1 DEF ClientsShaped, Held
  <2>3. proc'[q].base = proc[q].base /\ C(q) = C(q)'
    BY <2>1, <2>2 DEF C
  <2> QED BY <1>q, <2>1, <2>3 DEF UsersHold
<1>1. CASE ReadConfig(p)
  <2>1. /\ proc[p].pc = "read" /\ Go(p, [pc |-> "truncate", base |-> Kept(disk[C(p)].config)]) /\ disk' = disk
        /\ user' = IF disk[C(p)].config.is = "torn" THEN user \ {C(p)} ELSE user
    BY <1>1 DEF ReadConfig
  <2>2. proc'[p].base = Kept(disk[C(p)].config) /\ C(p)' = C(p)
    <3>1. proc'[p] = Updated(proc[p], [pc |-> "truncate", base |-> Kept(disk[C(p)].config)])
      BY <2>1, GoIs DEF ClientsShaped
    <3>2. "client" \in DOMAIN proc[p]
      BY <2>1, <1>o DEF Held
    <3> QED BY <3>1, <3>2 DEF Updated, C
  <2>3. C(p)' \in user' => proc'[p].base
    BY <2>1, <2>2 DEF UsersHold, Kept
  <2>4. user' \subseteq user
    BY <2>1
  <2>5. \A q \in Procs : proc'[q].pc \in {"truncate", "fill"} /\ C(q)' \in user' => proc'[q].base
    BY <2>3, <2>4, <1>q
  <2>6. /\ user' \subseteq Clients
        /\ \A c \in user' : disk'[c].config.is = "torn" \/ (disk'[c].config.is = "whole" /\ disk'[c].config.other)
    BY <2>1, <2>4 DEF UsersHold
  <2> QED BY <2>5, <2>6 DEF UsersHold, C
<1>2. CASE TruncateConfig(p)
  <2>1. /\ proc[p].pc = "truncate" /\ Go(p, [pc |-> "fill"]) /\ user' = user
        /\ disk' = [disk EXCEPT ![C(p)].config = ConfigFile("torn", FALSE, {}, {})]
    BY <1>2 DEF TruncateConfig
  <2>2. proc'[p].base = proc[p].base /\ C(p)' = C(p)
    <3>1. proc'[p] = Updated(proc[p], [pc |-> "fill"])
      BY <2>1, GoIs DEF ClientsShaped
    <3>2. {"client", "base"} \subseteq DOMAIN proc[p]
      BY <2>1, <1>o DEF Held
    <3> QED BY <3>1, <3>2 DEF Updated, C
  <2>3. C(p)' \in user' => proc'[p].base
    BY <2>1, <2>2 DEF UsersHold
  <2>5. \A q \in Procs : proc'[q].pc \in {"truncate", "fill"} /\ C(q)' \in user' => proc'[q].base
    BY <2>1, <2>3, <1>q
  <2>6. ASSUME NEW c \in user' PROVE disk'[c].config.is = "torn" \/ (disk'[c].config.is = "whole" /\ disk'[c].config.other)
    <3>1. c \in Clients /\ c \in user
      BY <2>1, <2>6 DEF UsersHold
    <3>2. CASE c = C(p)
      <4>1. disk'[c].config = ConfigFile("torn", FALSE, {}, {})
        BY <2>1, <3>1, <3>2 DEF ClientsShaped, ClientFiles
      <4> QED BY <4>1 DEF ConfigFile
    <3>3. CASE c # C(p)
      BY <2>1, <3>1, <3>3 DEF UsersHold, ClientsShaped
    <3> QED BY <3>2, <3>3
  <2>7. user' \subseteq Clients
    BY <2>1 DEF UsersHold
  <2> QED BY <2>5, <2>6, <2>7 DEF UsersHold, C
<1>3. CASE FillConfig(p)
  <2>1. /\ proc[p].pc = "fill" /\ user' = user
        /\ disk' = [disk EXCEPT ![C(p)].config = Config(proc[p].base, proc[p].surface)]
        /\ \E stage \in {"answer", "baseline", "again"} : Go(p, [pc |-> stage])
    BY <1>3 DEF FillConfig
  <2>2. proc'[p].pc \notin {"truncate", "fill"}
    <3>1. PICK stage \in {"answer", "baseline", "again"} : Go(p, [pc |-> stage])
      BY <2>1
    <3>2. proc'[p] = Updated(proc[p], [pc |-> stage])
      BY <3>1, GoIs DEF ClientsShaped
    <3>3. proc'[p].pc = stage
      BY <3>2 DEF Updated
    <3> QED BY <3>3
  <2>5. \A q \in Procs : proc'[q].pc \in {"truncate", "fill"} /\ C(q)' \in user' => proc'[q].base
    BY <2>1, <2>2, <1>q
  <2>6. ASSUME NEW c \in user' PROVE disk'[c].config.is = "torn" \/ (disk'[c].config.is = "whole" /\ disk'[c].config.other)
    <3>1. c \in Clients /\ c \in user
      BY <2>1, <2>6 DEF UsersHold
    <3>2. CASE c = C(p)
      <4>1. disk'[c].config = Config(proc[p].base, proc[p].surface)
        BY <2>1, <3>1, <3>2 DEF ClientsShaped, ClientFiles
      <4>2. proc[p].base
        BY <2>1, <3>1, <3>2 DEF UsersHold
      <4>3. disk'[c].config.is = "whole" /\ disk'[c].config.other = proc[p].base
        BY <4>1 DEF Config, ConfigFile
      <4> QED BY <4>2, <4>3
    <3>3. CASE c # C(p)
      BY <2>1, <3>1, <3>3 DEF UsersHold, ClientsShaped
    <3> QED BY <3>2, <3>3
  <2>7. user' \subseteq Clients
    BY <2>1 DEF UsersHold
  <2> QED BY <2>5, <2>6, <2>7 DEF UsersHold, C
<1>4. CASE ~(ReadConfig(p) \/ TruncateConfig(p) \/ FillConfig(p))
  <2>1. /\ user' = user /\ \A c \in Clients : disk'[c].config = disk[c].config
        /\ proc'[p].pc \notin {"truncate", "fill"}
    BY <1>4, UserStays
  <2>5. \A q \in Procs : proc'[q].pc \in {"truncate", "fill"} /\ C(q)' \in user' => proc'[q].base
    BY <2>1, <1>q
  <2>6. \A c \in user' : disk'[c].config.is = "torn" \/ (disk'[c].config.is = "whole" /\ disk'[c].config.other)
    BY <2>1 DEF UsersHold
  <2>7. user' \subseteq Clients
    BY <2>1 DEF UsersHold
  <2> QED BY <2>5, <2>6, <2>7 DEF UsersHold, C
<1> QED BY <1>1, <1>2, <1>3, <1>4

-----------------------------------------------------------------------------
(* Who works at a root, step by step.                                      *)
(* Before it begins, and once it has answered or died, a process has       *)
(* nothing to do with the root.                                            *)
LEMMA Outside ==
  ASSUME ClientsShaped, NEW p \in Procs, Request(p) \/ Elicit(p) \/ Bundle(p) \/ Answer(p) \/ Dies(p)
  PROVE  proc'[p].pc \notin Doing /\ disk' = disk
<1>h. DOMAIN proc = Procs
  BY DEF ClientsShaped
<1>f. ASSUME NEW stage \in {"failed", "answered", "idle"}, proc' = [proc EXCEPT ![p] = [pc |-> stage]]
      PROVE  proc'[p].pc \notin Doing
  BY <1>h, <1>f DEF Doing
<1>1. CASE Request(p)
  <2>1. PICK kind \in {"intake", "optimize", "serve"}, c \in Clients, with \in Connections :
          proc' = [proc EXCEPT ![p] = Updated(with, [pc |-> "elicit", kind |-> kind, client |-> c])]
    BY <1>1 DEF Request
  <2>2. proc'[p] = Updated(with, [pc |-> "elicit", kind |-> kind, client |-> c])
    BY <1>h, <2>1
  <2>3. proc'[p].pc = "elicit"
    BY <2>2 DEF Updated
  <2> QED BY <1>1, <2>3 DEF Request, Doing
<1>2. CASE Elicit(p)
  <2>1. Fail(p) \/ proc' = [proc EXCEPT ![p] = [pc |-> "answered"]] \/ \E x : Go(p, [pc |-> "bundle", spec |-> x])
    BY <1>2 DEF Elicit
  <2>2. CASE Fail(p) \/ proc' = [proc EXCEPT ![p] = [pc |-> "answered"]]
    BY <1>2, <2>2, <1>f DEF Fail, Elicit
  <2>3. CASE \E x : Go(p, [pc |-> "bundle", spec |-> x])
    <3>1. PICK x : Go(p, [pc |-> "bundle", spec |-> x])
      BY <2>3
    <3>2. proc'[p] = Updated(proc[p], [pc |-> "bundle", spec |-> x])
      BY <3>1, <1>h, GoIs
    <3>3. proc'[p].pc = "bundle"
      BY <3>2 DEF Updated
    <3> QED BY <1>2, <3>3 DEF Elicit, Doing
  <2> QED BY <2>1, <2>2, <2>3
<1>3. CASE Bundle(p)
  <2>1. Fail(p) \/ \E x1, x2, x3 : Go(p, [pc |-> "begin", profiles |-> x1, bundle |-> x2, surface |-> x3, graded |-> {}, slot |-> Nothing])
    BY <1>3 DEF Bundle
  <2>2. CASE Fail(p)
    BY <1>3, <2>2, <1>f DEF Fail, Bundle
  <2>3. CASE \E x1, x2, x3 : Go(p, [pc |-> "begin", profiles |-> x1, bundle |-> x2, surface |-> x3, graded |-> {}, slot |-> Nothing])
    <3>1. PICK x1, x2, x3 : Go(p, [pc |-> "begin", profiles |-> x1, bundle |-> x2, surface |-> x3, graded |-> {}, slot |-> Nothing])
      BY <2>3
    <3>2. proc'[p] = Updated(proc[p], [pc |-> "begin", profiles |-> x1, bundle |-> x2, surface |-> x3, graded |-> {}, slot |-> Nothing])
      BY <3>1, <1>h, GoIs
    <3>3. proc'[p].pc = "begin"
      BY <3>2 DEF Updated
    <3> QED BY <1>3, <3>3 DEF Bundle, Doing
  <2> QED BY <2>1, <2>2, <2>3
<1>4. CASE Answer(p)
  BY <1>4, <1>f DEF Answer
<1>5. CASE Dies(p)
  BY <1>5, <1>f DEF Dies
<1> QED BY <1>1, <1>2, <1>3, <1>4, <1>5

(* The rest goes on with the request it has; only a role's file, or the    *)
(* other files of the root, are written.                                   *)
Inside(p) ==
  \/ PlaceAgent(p) \/ ReadConfig(p) \/ TruncateConfig(p) \/ FillConfig(p) \/ Again(p)
  \/ Baseline(p) \/ Seed(p) \/ Grade(p) \/ EndLoop(p) \/ LoopRaises(p)

LEMMA InsideKeeps ==
  ASSUME ClientsShaped, NEW p \in Procs, Inside(p)
  PROVE  Active(p) /\ Keeps(p) /\ owner' = owner
<1>1. CASE PlaceAgent(p)
  <2>1. proc[p].pc = "agent" /\ (Go(p, [at |-> proc[p].at + 1]) \/ Go(p, [pc |-> "read"]))
    BY <1>1 DEF PlaceAgent
  <2>2. Active(p)
    BY <2>1 DEF Active, Doing
  <2> QED BY <1>1, <2>1, <2>2, GoKeeps DEF PlaceAgent
<1>2. CASE ReadConfig(p)
  <2>1. Active(p) /\ \E x : Go(p, [pc |-> "truncate", base |-> x])
    BY <1>2 DEF ReadConfig, Active, Doing
  <2> QED BY <1>2, <2>1, GoKeeps DEF ReadConfig
<1>3. CASE TruncateConfig(p)
  <2>1. Active(p) /\ Go(p, [pc |-> "fill"])
    BY <1>3 DEF TruncateConfig, Active, Doing
  <2> QED BY <1>3, <2>1, GoKeeps DEF TruncateConfig
<1>4. CASE FillConfig(p)
  <2>1. Active(p) /\ \E x : Go(p, [pc |-> x])
    BY <1>4 DEF FillConfig, Active, Doing
  <2> QED BY <1>4, <2>1, GoKeeps DEF FillConfig
<1>5. CASE Again(p)
  <2>1. Active(p) /\ Go(p, [pc |-> "agent", at |-> 1, served |-> TRUE])
    BY <1>5 DEF Again, Active, Doing
  <2> QED BY <1>5, <2>1, GoKeeps DEF Again
<1>6. CASE Baseline(p)
  <2>1. Active(p) /\ \E x : Go(p, [pc |-> "seed", prompt |-> x])
    BY <1>6 DEF Baseline, Active, Doing
  <2> QED BY <1>6, <2>1, GoKeeps DEF Baseline
<1>7. CASE Seed(p)
  <2>1. Active(p) /\ \E x : Go(p, [pc |-> "grade", probes |-> x])
    BY <1>7 DEF Seed, Active, Doing
  <2> QED BY <1>7, <2>1, GoKeeps DEF Seed
<1>8. CASE Grade(p)
  <2>1. Active(p) /\ \E x : Go(p, [graded |-> x])
    BY <1>8 DEF Grade, Active, Doing
  <2> QED BY <1>8, <2>1, GoKeeps DEF Grade
<1>9. CASE EndLoop(p)
  <2>1. Active(p) /\ ((\E x : Go(p, [pc |-> "again", graded |-> {}, slot |-> x])) \/ Go(p, [pc |-> "again", graded |-> {}]))
    BY <1>9 DEF EndLoop, Active, Doing
  <2> QED BY <1>9, <2>1, GoKeeps DEF EndLoop
<1>10. CASE LoopRaises(p)
  <2>1. Active(p) /\ Go(p, [pc |-> "again", graded |-> {}])
    BY <1>10 DEF LoopRaises, Active, Doing
  <2> QED BY <1>10, <2>1, GoKeeps DEF LoopRaises
<1> QED BY <1>1, <1>2, <1>3, <1>4, <1>5, <1>6, <1>7, <1>8, <1>9, <1>10 DEF Inside

LEMMA RolesInjective ==
  ASSUME NEW i \in 1..Len(Roles), NEW j \in 1..Len(Roles), Roles[i] = Roles[j]
  PROVE  i = j
BY RolesAre, PersonalizeAssumption DEF IsInjective

LEMMA InsidePlaces ==
  ASSUME ClientsShaped, NEW p \in Procs, Inside(p), Placed(p)
  PROVE  Placed(p)'
<1>k. /\ Active(p) /\ Keeps(p) /\ C(p) \in Clients /\ C(p)' = C(p) /\ "pc" \in DOMAIN proc[p] /\ DOMAIN proc = Procs
      /\ proc'[p].profiles = proc[p].profiles /\ proc'[p].spec = proc[p].spec
  <2>1. Active(p) /\ Keeps(p)
    BY InsideKeeps
  <2> QED BY <2>1 DEF Keeps, C, Active, Doing, ClientsShaped, Held
<1>1. CASE PlaceAgent(p)
  <2> DEFINE role == Roles[proc[p].at]
             text == AsAsked(role, proc[p].profiles, proc[p].spec)
  <2>1. /\ proc[p].pc = "agent" /\ proc[p].at \in 1..Len(Roles)
        /\ disk' = [disk EXCEPT ![C(p)].agents[role] = text]
    <3>1. Overlay(FleetPrompt(C(p), role), proc[p].spec, proc[p].profiles) = text
      BY DEF Overlay, FleetPrompt, AsAsked
    <3> QED BY <1>1, <3>1 DEF PlaceAgent, ClientsShaped, Held
  <2>2. role \in ToSet(Roles) /\ DOMAIN disk[C(p)].agents = ToSet(Roles) /\ DOMAIN disk[C(p)] = ClientFiles /\ DOMAIN disk = Clients
    BY <1>k, <2>1, RolesAre DEF ToSet, ClientsShaped
  <2> HIDE DEF text
  <2>3. disk'[C(p)].agents = [disk[C(p)].agents EXCEPT ![role] = text]
    BY <2>1, <2>2, <1>k DEF ClientFiles
  <2>4. ASSUME NEW j \in 1..Len(Roles), j <= proc[p].at
        PROVE  disk'[C(p)].agents[Roles[j]] = AsAsked(Roles[j], proc[p].profiles, proc[p].spec)
    <3>1. CASE j = proc[p].at
      BY <2>2, <2>3, <3>1 DEF text
    <3>2. CASE j # proc[p].at
      <4>1. disk[C(p)].agents[Roles[j]] = AsAsked(Roles[j], proc[p].profiles, proc[p].spec)
        BY <2>1, <2>4, <3>2, RolesAre DEF Placed
      <4>2. Roles[j] # role
        BY <2>1, <3>2, RolesInjective
      <4>3. Roles[j] \in ToSet(Roles)
        BY RolesAre DEF ToSet
      <4> QED BY <2>2, <2>3, <4>1, <4>2, <4>3
    <3> QED BY <3>1, <3>2
  <2>5. ASSUME NEW j \in 1..Len(Roles), proc'[p].pc = "agent" => j < proc'[p].at
        PROVE  j <= proc[p].at
    <3>1. CASE proc[p].at < Len(Roles)
      <4>1. Go(p, [at |-> proc[p].at + 1])
        BY <1>1, <3>1 DEF PlaceAgent
      <4>2. proc'[p] = Updated(proc[p], [at |-> proc[p].at + 1])
        BY <4>1, <1>k, GoIs
      <4>3. proc'[p].pc = "agent" /\ proc'[p].at = proc[p].at + 1
        BY <4>2, <1>k, <2>1 DEF Updated
      <4>4. j < proc[p].at + 1
        BY <4>3, <2>5
      <4> QED BY <4>4, <2>1, RolesAre
    <3>2. CASE ~(proc[p].at < Len(Roles))
      BY <3>2, <2>1, RolesAre
    <3> QED BY <3>1, <3>2
  <2>6. ASSUME NEW j \in 1..Len(Roles), proc'[p].pc = "agent" => j < proc'[p].at
        PROVE  disk'[C(p)].agents[Roles[j]] = AsAsked(Roles[j], proc'[p].profiles, proc'[p].spec)
    BY <2>4, <2>5, <2>6, <1>k
  <2> QED BY <2>6, <1>k DEF Placed, AsAsked, BasePrompt, Layout, Client
<1>2. CASE Again(p)
  <2>1. Go(p, [pc |-> "agent", at |-> 1, served |-> TRUE])
    BY <1>2 DEF Again
  <2>2. proc'[p] = Updated(proc[p], [pc |-> "agent", at |-> 1, served |-> TRUE])
    BY <2>1, <1>k, GoIs
  <2>3. proc'[p].pc = "agent" /\ proc'[p].at = 1
    BY <2>2 DEF Updated
  <2>4. \A j \in 1..Len(Roles) : ~(j < proc'[p].at)
    BY <2>3, RolesAre
  <2> QED BY <2>3, <2>4 DEF Placed
<1>3. CASE ~PlaceAgent(p) /\ ~Again(p)
  <2>1. proc[p].pc # "agent"
    BY <1>3 DEF Inside, ReadConfig, TruncateConfig, FillConfig, Baseline, Seed, Grade, EndLoop, LoopRaises
  <2>2. disk'[C(p)].agents = disk[C(p)].agents
    <3>1. CASE TruncateConfig(p)
      BY <3>1, <1>k DEF TruncateConfig, ClientsShaped, ClientFiles
    <3>2. CASE FillConfig(p)
      BY <3>2, <1>k DEF FillConfig, ClientsShaped, ClientFiles
    <3>3. CASE Seed(p)
      BY <3>3, <1>k DEF Seed, ClientsShaped, ClientFiles
    <3>4. CASE EndLoop(p)
      BY <3>4, <1>k DEF EndLoop, ClientsShaped, ClientFiles
    <3>5. CASE ReadConfig(p) \/ Baseline(p) \/ Grade(p) \/ LoopRaises(p)
      BY <3>5 DEF ReadConfig, Baseline, Grade, LoopRaises
    <3> QED BY <1>3, <3>1, <3>2, <3>3, <3>4, <3>5 DEF Inside
  <2>3. \A j \in 1..Len(Roles) : disk'[C(p)].agents[Roles[j]] = AsAsked(Roles[j], proc'[p].profiles, proc'[p].spec)
    BY <2>1, <2>2, <1>k DEF Placed
  <2> QED BY <2>3, <1>k DEF Placed, AsAsked, BasePrompt, Layout, Client
<1> QED BY <1>1, <1>2, <1>3

LEMMA InsideFills ==
  ASSUME ClientsShaped, NEW p \in Procs, Inside(p)
  PROVE  Filled(p)'
<1>k. /\ Active(p) /\ Keeps(p) /\ C(p) \in Clients /\ C(p)' = C(p) /\ DOMAIN proc = Procs
      /\ proc'[p].surface = proc[p].surface
  <2>1. Active(p) /\ Keeps(p)
    BY InsideKeeps
  <2> QED BY <2>1 DEF Keeps, C, Active, Doing, ClientsShaped, Held
<1>g. ASSUME NEW fields, Go(p, fields), "pc" \in DOMAIN fields, fields["pc"] # "answer"
      PROVE  proc'[p].pc # "answer"
  <2>1. proc'[p]["pc"] = fields["pc"]
    BY <1>g, GoesTo
  <2> QED BY <2>1, <1>g
<1>1. CASE FillConfig(p)
  <2>1. disk' = [disk EXCEPT ![C(p)].config = Config(proc[p].base, proc[p].surface)]
    BY <1>1 DEF FillConfig
  <2>2. disk'[C(p)].config = Config(proc[p].base, proc[p].surface)
    BY <2>1, <1>k DEF ClientsShaped, ClientFiles
  <2>3. /\ disk'[C(p)].config.is = "whole"
        /\ disk'[C(p)].config.tools = proc[p].surface.allow
        /\ disk'[C(p)].config.mcp = proc[p].surface.mcp
    BY <2>2 DEF Config, ConfigFile
  <2> QED BY <2>3, <1>k DEF Filled
<1>2. CASE ~FillConfig(p)
  <2>1. proc'[p].pc # "answer"
    <3>1. CASE PlaceAgent(p)
      <4>1. proc[p].pc = "agent" /\ (Go(p, [at |-> proc[p].at + 1]) \/ Go(p, [pc |-> "read"]))
        BY <3>1 DEF PlaceAgent
      <4>2. CASE Go(p, [at |-> proc[p].at + 1])
        <5>1. proc'[p].pc = proc[p].pc
          BY <4>2, GoesOnAt
        <5> QED BY <4>1, <5>1
      <4>3. CASE Go(p, [pc |-> "read"])
        BY <4>3, <1>g
      <4> QED BY <4>1, <4>2, <4>3
    <3>2. CASE ReadConfig(p)
      <4>1. \E x : Go(p, [pc |-> "truncate", base |-> x])
        BY <3>2 DEF ReadConfig
      <4> QED BY <4>1, <1>g
    <3>3. CASE TruncateConfig(p)
      BY <3>3, <1>g DEF TruncateConfig
    <3>5. CASE Again(p)
      BY <3>5, <1>g DEF Again
    <3>6. CASE Baseline(p)
      <4>1. \E x : Go(p, [pc |-> "seed", prompt |-> x])
        BY <3>6 DEF Baseline
      <4> QED BY <4>1, <1>g
    <3>7. CASE Seed(p)
      <4>1. \E x : Go(p, [pc |-> "grade", probes |-> x])
        BY <3>7 DEF Seed
      <4> QED BY <4>1, <1>g
    <3>8. CASE Grade(p)
      <4>1. proc[p].pc = "grade" /\ \E x : Go(p, [graded |-> x])
        BY <3>8 DEF Grade
      <4>2. proc'[p].pc = proc[p].pc
        BY <4>1, GoesOnAt
      <4> QED BY <4>1, <4>2
    <3>9. CASE EndLoop(p)
      <4>1. (\E x : Go(p, [pc |-> "again", graded |-> {}, slot |-> x])) \/ Go(p, [pc |-> "again", graded |-> {}])
        BY <3>9 DEF EndLoop
      <4> QED BY <4>1, <1>g
    <3>10. CASE LoopRaises(p)
      BY <3>10, <1>g DEF LoopRaises
    <3> QED BY <1>2, <3>1, <3>2, <3>3, <3>5, <3>6, <3>7, <3>8, <3>9, <3>10 DEF Inside
  <2> QED BY <2>1 DEF Filled
<1> QED BY <1>1, <1>2

LEMMA SomeStep ==
  ASSUME NEW p \in Procs, Stepping(p)
  PROVE  (Request(p) \/ Elicit(p) \/ Bundle(p) \/ Answer(p) \/ Dies(p)) \/ Inside(p) \/ Begin(p)
BY DEF Stepping, Inside

(* What beginning does. *)
LEMMA BeginIs ==
  ASSUME ClientsShaped, NEW p \in Procs, Begin(p)
  PROVE  /\ C(p) \in Clients /\ C(p)' = C(p) /\ disk' = disk
         /\ proc'[p].pc = "agent" /\ proc'[p].at = 1 /\ proc'[p].alone = (Others(p) = {})
         /\ owner' = [owner EXCEPT ![C(p)] = Nothing]
         /\ \A q \in Others(p) : proc'[q].alone = FALSE
<1>1. /\ proc[p].pc = "begin" /\ disk' = disk /\ owner' = [owner EXCEPT ![C(p)] = Nothing]
      /\ proc'[p] = Updated(proc[p], [pc |-> "agent", at |-> 1, served |-> FALSE, alone |-> Others(p) = {}])
      /\ \A q \in Procs \ {p} : proc'[q] = IF q \in Others(p) THEN Updated(proc[q], [alone |-> FALSE]) ELSE proc[q]
  BY DEF Begin
<1>2. "client" \in DOMAIN proc[p] /\ C(p) \in Clients
  BY <1>1 DEF ClientsShaped, Held, C
<1>3. proc'[p].pc = "agent" /\ proc'[p].at = 1 /\ proc'[p].alone = (Others(p) = {}) /\ proc'[p].client = proc[p].client
  BY <1>1, <1>2 DEF Updated
<1>4. ASSUME NEW q \in Others(p) PROVE proc'[q].alone = FALSE
  <2>1. proc'[q] = Updated(proc[q], [alone |-> FALSE])
    BY <1>1 DEF Others
  <2> QED BY <2>1 DEF Updated
<1> QED BY <1>1, <1>2, <1>3, <1>4 DEF C

LEMMA OtherRoot ==
  ASSUME ClientsShaped, RootsHold, NEW p \in Procs, Stepping(p), NEW q \in Procs \ {p}, Active(q)'
  PROVE  RootHolds(q)'
<1>o. OthersKept(p) /\ Held(proc[q]) /\ DOMAIN owner = Clients
  BY StaysShaped DEF ClientsShaped
<1>q. /\ Active(q) /\ C(q)' = C(q) /\ C(q) \in Clients /\ proc'[q].pc = proc[q].pc /\ proc'[q].at = proc[q].at
      /\ proc'[q].profiles = proc[q].profiles /\ proc'[q].spec = proc[q].spec /\ proc'[q].surface = proc[q].surface
      /\ proc'[q].alone => proc[q].alone
  <2>1. /\ proc'[q].pc = proc[q].pc
        /\ \A k \in DOMAIN proc[q] \ {"alone"} : proc'[q][k] = proc[q][k]
        /\ Active(q) /\ proc'[q].alone => proc[q].alone
    BY <1>o, OtherIs
  <2>2. Active(q)
    BY <2>1 DEF Active
  <2>3. {"client", "at", "profiles", "spec", "surface"} \subseteq DOMAIN proc[q] \ {"alone"} /\ C(q) \in Clients
    BY <1>o, <2>2 DEF Held, Active, Doing, C
  <2> QED BY <2>1, <2>2, <2>3 DEF C
<1>h. owner[C(q)] = Nothing /\ (proc[q].alone => EachItsRoot(q) /\ Placed(q) /\ Filled(q))
  BY <1>q DEF RootsHold, RootHolds
<1>w. C(q) = C(p) => q \in Others(p)
  BY <1>q DEF Others, Writing, Busy, Active, Doing
<1>1. owner'[C(q)] = Nothing
  <2>1. CASE Begin(p)
    BY <2>1, <1>h, <1>o, <1>q, BeginIs
  <2>2. CASE Answer(p)
    <3>1. C(q) = C(p) => owner'[C(q)] = Nothing
      BY <2>2, <1>w, <1>o, <1>q DEF Answer
    <3>2. C(q) # C(p) => owner'[C(q)] = owner[C(q)]
      BY <2>2, <1>o, <1>q DEF Answer
    <3> QED BY <3>1, <3>2, <1>h
  <2>3. CASE Inside(p)
    BY <2>3, <1>h, InsideKeeps
  <2>4. CASE Request(p) \/ Elicit(p) \/ Bundle(p) \/ Dies(p)
    BY <2>4, <1>h DEF Request, Elicit, Bundle, Dies
  <2> QED BY <2>1, <2>2, <2>3, <2>4, SomeStep
<1>2. ASSUME proc'[q].alone PROVE EachItsRoot(q)' /\ Placed(q)' /\ Filled(q)'
  <2>1. EachItsRoot(q) /\ Placed(q) /\ Filled(q)
    BY <1>2, <1>q, <1>h
  <2>2. ASSUME NEW r \in Procs \ {q}, Active(r)' PROVE C(r)' # C(q)'
    <3>1. CASE r # p
      <4>1. Held(proc[r]) /\ proc'[r].pc = proc[r].pc /\ \A k \in DOMAIN proc[r] \ {"alone"} : proc'[r][k] = proc[r][k]
        BY <1>o, <3>1, OtherIs DEF ClientsShaped
      <4>2. Active(r) /\ C(r)' = C(r)
        BY <4>1, <2>2 DEF Active, Doing, Held, C
      <4> QED BY <4>2, <2>1, <1>q DEF EachItsRoot
    <3>2. CASE r = p
      <4>1. CASE Begin(p)
        BY <4>1, <3>2, <1>2, <1>w, <1>q, BeginIs
      <4>2. CASE Inside(p)
        <5>1. Active(p) /\ Keeps(p)
          BY <4>2, InsideKeeps
        <5>2. C(p)' = C(p)
          BY <5>1 DEF Keeps, C
        <5> QED BY <5>1, <5>2, <3>2, <2>1, <1>q DEF EachItsRoot
      <4>3. CASE Request(p) \/ Elicit(p) \/ Bundle(p) \/ Answer(p) \/ Dies(p)
        BY <4>3, <3>2, <2>2, Outside DEF Active
      <4> QED BY <4>1, <4>2, <4>3, SomeStep
    <3> QED BY <3>1, <3>2
  <2>3. disk'[C(q)] = disk[C(q)]
    <3>1. Active(p) => C(p) # C(q)
      BY <2>1 DEF EachItsRoot
    <3> QED BY <3>1, <1>q, DiskSteps
  <2>4. Placed(q)'
    <3>1. \A j \in 1..Len(Roles) : (proc'[q].pc = "agent" => j < proc'[q].at) =>
            disk'[C(q)].agents[Roles[j]] = AsAsked(Roles[j], proc'[q].profiles, proc'[q].spec)
      BY <2>1, <2>3, <1>q DEF Placed
    <3> QED BY <3>1, <1>q DEF Placed, AsAsked, BasePrompt, Layout, Client
  <2>5. Filled(q)'
    BY <2>1, <2>3, <1>q DEF Filled
  <2>6. EachItsRoot(q)'
    BY <2>2 DEF EachItsRoot
  <2> QED BY <2>4, <2>5, <2>6
<1> QED BY <1>1, <1>2, <1>q DEF RootHolds

LEMMA OwnRoot ==
  ASSUME ClientsShaped, RootsHold, NEW p \in Procs, Stepping(p), Active(p)'
  PROVE  RootHolds(p)'
<1>o. OthersKept(p) /\ DOMAIN owner = Clients
  BY StaysShaped DEF ClientsShaped
<1>r. ASSUME NEW r \in Procs \ {p}, Active(r)' PROVE Active(r) /\ C(r)' = C(r)
  <2>1. Held(proc[r]) /\ proc'[r].pc = proc[r].pc /\ \A k \in DOMAIN proc[r] \ {"alone"} : proc'[r][k] = proc[r][k]
    BY <1>o, OtherIs DEF ClientsShaped
  <2> QED BY <2>1, <1>r DEF Active, Doing, Held, C
<1>1. CASE Request(p) \/ Elicit(p) \/ Bundle(p) \/ Answer(p) \/ Dies(p)
  BY <1>1, Outside DEF Active
<1>2. CASE Inside(p)
  <2>1. Active(p) /\ Keeps(p) /\ owner' = owner
    BY <1>2, InsideKeeps
  <2>2. C(p)' = C(p) /\ proc'[p].alone = proc[p].alone
    BY <2>1 DEF Keeps, C
  <2>3. owner[C(p)] = Nothing /\ (proc[p].alone => EachItsRoot(p) /\ Placed(p) /\ Filled(p))
    BY <2>1 DEF RootsHold, RootHolds
  <2>4. EachItsRoot(p) => EachItsRoot(p)'
    BY <2>2, <1>r DEF EachItsRoot
  <2>5. Placed(p) => Placed(p)'
    BY <1>2, InsidePlaces
  <2>6. Filled(p)'
    BY <1>2, InsideFills
  <2> QED BY <2>1, <2>2, <2>3, <2>4, <2>5, <2>6 DEF RootHolds
<1>3. CASE Begin(p)
  <2>1. /\ C(p) \in Clients /\ C(p)' = C(p) /\ disk' = disk
        /\ proc'[p].pc = "agent" /\ proc'[p].at = 1 /\ proc'[p].alone = (Others(p) = {})
        /\ owner' = [owner EXCEPT ![C(p)] = Nothing]
    BY <1>3, BeginIs
  <2>2. owner'[C(p)'] = Nothing
    BY <2>1, <1>o
  <2>3. ASSUME Others(p) = {} PROVE EachItsRoot(p)'
    <3>1. ASSUME NEW r \in Procs \ {p}, Active(r)' PROVE C(r)' # C(p)'
      <4>1. Active(r) /\ C(r)' = C(r)
        BY <3>1, <1>r
      <4> QED BY <4>1, <2>1, <2>3 DEF Others, Writing, Busy, Active, Doing
    <3> QED BY <3>1 DEF EachItsRoot
  <2>4. Placed(p)'
    <3>1. \A j \in 1..Len(Roles) : ~(j < proc'[p].at)
      BY <2>1, RolesAre
    <3> QED BY <3>1, <2>1 DEF Placed
  <2>5. Filled(p)'
    BY <2>1 DEF Filled
  <2> QED BY <2>1, <2>2, <2>3, <2>4, <2>5 DEF RootHolds
<1> QED BY <1>1, <1>2, <1>3, SomeStep

LEMMA StaysServed ==
  ASSUME ClientsShaped, RootsHold, ServedAsAsked, NEW p \in Procs, Stepping(p)
  PROVE  ServedAsAsked'
<1> DEFINE Serves(c, r, d) ==
             /\ d.config.is = "whole"
             /\ d.config.tools = r.surface.allow
             /\ d.config.mcp = r.surface.mcp
             /\ \A role \in ToSet(Roles) : d.agents[role] = AsAsked(role, r.profiles, r.spec)
<1>o. DOMAIN owner = Clients
  BY DEF ClientsShaped
<1>1. ASSUME NEW c \in Clients, owner'[c] # Nothing PROVE Serves(c, owner'[c], disk'[c])
  <2>1. CASE Answer(p) /\ c = C(p)
    <3>1. /\ proc[p].pc = "answer" /\ disk' = disk
          /\ proc[p].alone
          /\ owner'[c] = Restrict(proc[p], {"spec", "profiles", "surface", "slot"})
      BY <1>1, <1>o, <2>1 DEF Answer
    <3>2. Placed(p) /\ Filled(p)
      BY <3>1 DEF RootsHold, RootHolds, Active, Doing
    <3>3. /\ owner'[c].spec = proc[p].spec /\ owner'[c].profiles = proc[p].profiles
          /\ owner'[c].surface = proc[p].surface
      BY <3>1 DEF Restrict
    <3>4. ASSUME NEW role \in ToSet(Roles) PROVE disk[c].agents[role] = AsAsked(role, proc[p].profiles, proc[p].spec)
      <4>1. PICK j \in 1..Len(Roles) : role = Roles[j]
        BY RolesAre DEF ToSet
      <4> QED BY <4>1, <3>1, <3>2, <2>1 DEF Placed
    <3> QED BY <3>1, <3>2, <3>3, <3>4, <2>1 DEF Filled
  <2>2. CASE ~(Answer(p) /\ c = C(p))
    <3>1. owner'[c] = owner[c]
      <4>1. CASE Begin(p)
        BY <4>1, <1>1, <1>o, BeginIs
      <4>2. CASE Answer(p)
        BY <4>2, <2>2, <1>o DEF Answer
      <4>3. CASE Inside(p)
        BY <4>3, InsideKeeps
      <4>4. CASE Request(p) \/ Elicit(p) \/ Bundle(p) \/ Dies(p)
        BY <4>4 DEF Request, Elicit, Bundle, Dies
      <4> QED BY <4>1, <4>2, <4>3, <4>4, SomeStep
    <3>2. disk'[c] = disk[c]
      <4>1. Active(p) => C(p) # c
        BY <3>1, <1>1 DEF RootsHold, RootHolds
      <4> QED BY <4>1, DiskSteps
    <3> QED BY <3>1, <3>2, <1>1 DEF ServedAsAsked, AsAsked
  <2> QED BY <2>1, <2>2
<1> QED BY <1>1 DEF ServedAsAsked, AsAsked, BasePrompt, Layout, Client

LEMMA RootInitially == PersonalizeInit => UsersHold /\ RootsHold /\ ServedAsAsked
<1> SUFFICES ASSUME PersonalizeInit PROVE UsersHold /\ RootsHold /\ ServedAsAsked
  OBVIOUS
<1>1. \A p \in Procs : proc[p].pc = "idle"
  BY DEF PersonalizeInit
<1>2. PICK other \in [Clients -> BOOLEAN] :
        /\ \A c \in Clients : disk[c].config = ConfigFile(IF other[c] THEN "whole" ELSE "absent", other[c], {}, {})
        /\ user = {c \in Clients : other[c]}
  BY DEF PersonalizeInit
<1>3. ASSUME NEW c \in user PROVE disk[c].config.is = "whole" /\ disk[c].config.other
  <2>1. c \in Clients /\ other[c]
    BY <1>2
  <2>2. disk[c].config = ConfigFile("whole", other[c], {}, {})
    BY <1>2, <2>1
  <2>3. disk[c].config.is = "whole" /\ disk[c].config.other = other[c]
    BY <2>2 DEF ConfigFile
  <2> QED BY <2>1, <2>3
<1>4. UsersHold
  BY <1>1, <1>2, <1>3 DEF UsersHold
<1>5. RootsHold
  BY <1>1 DEF RootsHold, RootHolds, Active, Doing
<1>6. ServedAsAsked
  BY DEF PersonalizeInit, ServedAsAsked
<1> QED BY <1>4, <1>5, <1>6

LEMMA RootStutters ==
  ASSUME ClientsShaped, UsersHold, RootsHold, ServedAsAsked, UNCHANGED personalize
  PROVE  ClientsShaped' /\ UsersHold' /\ RootsHold' /\ ServedAsAsked'
<1> USE DEF personalize
<1>1. ClientsShaped'
  BY DEF ClientsShaped
<1>2. UsersHold'
  BY DEF UsersHold, C
<1>3. RootsHold'
  BY DEF RootsHold, RootHolds, Active, EachItsRoot, Placed, Filled, C
<1>4. ServedAsAsked'
  BY DEF ServedAsAsked
<1> QED BY <1>1, <1>2, <1>3, <1>4

(* A client that no other process worked for is served what its last request *)
(* asked for, in every role and in opencode.json, and no compile but one that *)
(* found opencode.json half written loses what a user keeps there          *)
(* (_OverlayFactory, write_personalized_opencode_json).                    *)
THEOREM RootsStaySound == Specification => []ClientRootSound
<1> DEFINE I == ClientsShaped /\ UsersHold /\ RootsHold /\ ServedAsAsked
<1>1. PersonalizeInit => I
  BY ShapedInitially, RootInitially
<1>2. I /\ [PersonalizeNext]_personalize => I'
  <2>1. ASSUME I, PersonalizeNext PROVE I'
    <3>1. PICK p \in Procs : Stepping(p)
      BY <2>1, StepIs
    <3>2. ClientsShaped' /\ UsersHold'
      BY <2>1, <3>1, StaysShaped, StaysUsers
    <3>3. RootsHold'
      <4>1. ASSUME NEW q \in Procs PROVE RootHolds(q)'
        <5>1. CASE Active(q)' /\ q = p
          BY <2>1, <3>1, <5>1, OwnRoot
        <5>2. CASE Active(q)' /\ q # p
          BY <2>1, <3>1, <5>2, OtherRoot
        <5>3. CASE ~Active(q)'
          BY <5>3 DEF RootHolds
        <5> QED BY <5>1, <5>2, <5>3
      <4> QED BY <4>1 DEF RootsHold
    <3>4. ServedAsAsked'
      BY <2>1, <3>1, StaysServed
    <3> QED BY <3>2, <3>3, <3>4
  <2>2. ASSUME I, UNCHANGED personalize PROVE I'
    BY <2>2, RootStutters
  <2> QED BY <2>1, <2>2
<1>3. I => ClientRootSound
  BY DEF UsersHold, ClientRootSound, UserConfigKept
<1> QED BY <1>1, <1>2, <1>3, PTL DEF Specification

---------------------------------------------------------------------------
(* Compile: the agents' order. *)

-----------------------------------------------------------------------------
(* The order of the agents.  Kahn's algorithm over any finite graph.       *)

LEMMA AlphabetIs == /\ DOMAIN Alphabet = 1..Len(Alphabet) /\ Len(Alphabet) \in Nat
                    /\ \A n \in DOMAIN Alphabet : Alphabet[n] \in Slots
                    /\ \A s \in Slots : \E n \in DOMAIN Alphabet : Alphabet[n] = s
                    /\ \A n, m \in DOMAIN Alphabet : Alphabet[n] = Alphabet[m] => n = m
<1>1. Alphabet \in Seq(Slots) /\ IsInjective(Alphabet)
  BY CompileAssumption
<1>2. DOMAIN Alphabet = 1..Len(Alphabet) /\ Len(Alphabet) \in Nat /\ \A n \in DOMAIN Alphabet : Alphabet[n] \in Slots
  BY <1>1, LenProperties
<1>3. \A n, m \in DOMAIN Alphabet : Alphabet[n] = Alphabet[m] => n = m
  BY <1>1 DEF IsInjective
<1>4. \A s \in Slots : \E n \in DOMAIN Alphabet : Alphabet[n] = s
  BY DEF Slots, ToSet
<1> QED BY <1>2, <1>3, <1>4

(* The slots of a set in alphabetical order: each of them once.            *)
LEMMA SortedIs == \A S : S \subseteq Slots =>
  /\ Sorted(S) \in Seq(S)
  /\ \A s \in S : \E n \in 1..Len(Sorted(S)) : Sorted(S)[n] = s
  /\ \A n, m \in 1..Len(Sorted(S)) : Sorted(S)[n] = Sorted(S)[m] => n = m
<1> SUFFICES ASSUME NEW S, S \subseteq Slots
             PROVE  /\ Sorted(S) \in Seq(S)
                    /\ \A s \in S : \E n \in 1..Len(Sorted(S)) : Sorted(S)[n] = s
                    /\ \A n, m \in 1..Len(Sorted(S)) : Sorted(S)[n] = Sorted(S)[m] => n = m
  OBVIOUS
<1> DEFINE I == {n \in DOMAIN Alphabet : Alphabet[n] \in S}
           a == Arranged(I, Ascending(I))
<1>1. I \subseteq 1..Len(Alphabet) /\ Len(Alphabet) \in Nat
  BY AlphabetIs
<1>2. IsFiniteSet(I) /\ I \subseteq Int
  <2>1. IsFiniteSet(1..Len(Alphabet))
    BY <1>1, FS_Interval
  <2>2. I \subseteq Int
    BY <1>1
  <2> HIDE DEF I
  <2> QED BY <1>1, <2>1, <2>2, FS_Subset
<1>3. \A i \in I : Alphabet[i] \in S
  OBVIOUS
<1>4. \A s \in S : \E i \in I : Alphabet[i] = s
  BY AlphabetIs
<1>5. \A i, j \in I : Alphabet[i] = Alphabet[j] => i = j
  BY AlphabetIs
<1>6. Sorted(S) = Sublist(Alphabet, I)
  BY DEF Sorted
<1> HIDE DEF I
<1>7. Sorted(S) \in Seq(S) /\ Len(Sorted(S)) = Cardinality(I)
  BY <1>2, <1>3, <1>6, SublistIsList
<1>8. TotallyOrders(I, Ascending(I))
  BY <1>2, AscendingOrders
<1>9. /\ Cardinality(I) \in Nat /\ \A n \in 1..Cardinality(I) : a[n] \in I
      /\ \A n, m \in 1..Cardinality(I) : n < m <=> <<a[n], a[m]>> \in Ascending(I)
      /\ \A i \in I : Ahead(I, Ascending(I), i) + 1 \in 1..Cardinality(I) /\ a[Ahead(I, Ascending(I), i) + 1] = i
  BY <1>2, <1>8, ArrangedIs
<1>10. \A n \in 1..Cardinality(I) : Sorted(S)[n] = Alphabet[a[n]]
  BY <1>6 DEF Sublist
<1> HIDE DEF a
<1>11. \A s \in S : \E n \in 1..Cardinality(I) : Sorted(S)[n] = s
  BY <1>4, <1>9, <1>10
<1>12. ASSUME NEW n \in 1..Cardinality(I), NEW m \in 1..Cardinality(I), Sorted(S)[n] = Sorted(S)[m]
       PROVE  n = m
  <2>1. a[n] = a[m]
    BY <1>5, <1>9, <1>10, <1>12
  <2>2. <<a[n], a[m]>> \notin Ascending(I) /\ <<a[m], a[n]>> \notin Ascending(I)
    BY <1>2, <1>9, <2>1 DEF Ascending
  <2>3. n \in Int /\ m \in Int /\ ~(n < m) /\ ~(m < n)
    BY <1>9, <2>2
  <2> QED BY <2>3
<1> QED BY <1>7, <1>11, <1>12

GraphLike(E) == /\ IsFiniteSet(DOMAIN E) /\ DOMAIN E \subseteq Slots
                /\ \A s \in DOMAIN E : E[s] \subseteq DOMAIN E

Acyclic(E) == \A S \in SUBSET DOMAIN E : S # {} => \E s \in S : E[s] \cap S = {}

IsTaken(k, s) == \E a \in 1..Len(k.order) : k.order[a] = s
Waits(k, s)   == \E a \in 1..Len(k.queue) : k.queue[a] = s

(* After any round: the slots that wait for no parent are those taken and  *)
(* those in the queue, each once, and who is taken has its parents before. *)
RoundHolds(E, k) ==
  /\ k.order \in Seq(DOMAIN E) /\ k.queue \in Seq(DOMAIN E) /\ k.incoming \in [DOMAIN E -> Nat]
  /\ \A a, b \in 1..Len(k.order) : k.order[a] = k.order[b] => a = b
  /\ \A a, b \in 1..Len(k.queue) : k.queue[a] = k.queue[b] => a = b
  /\ \A s \in DOMAIN E : ~(IsTaken(k, s) /\ Waits(k, s))
  /\ \A s \in DOMAIN E : k.incoming[s] = Cardinality({p \in DOMAIN E : s \in E[p] /\ ~IsTaken(k, p)})
  /\ \A s \in DOMAIN E : k.incoming[s] = 0 <=> (IsTaken(k, s) \/ Waits(k, s))
  /\ \A b \in 1..Len(k.order), p \in DOMAIN E : k.order[b] \in E[p] => \E a \in 1..b - 1 : k.order[a] = p

LEMMA BegunHolds == \A E : GraphLike(E) => RoundHolds(E, Begun(E)) /\ Len(Begun(E).order) = 0
<1> SUFFICES ASSUME NEW E, GraphLike(E) PROVE RoundHolds(E, Begun(E)) /\ Len(Begun(E).order) = 0
  OBVIOUS
<1> DEFINE D == DOMAIN E
           parents == [s \in D |-> Cardinality({p \in D : s \in E[p]})]
           R == {s \in D : parents[s] = 0}
           k == Begun(E)
<1>1. k.order = <<>> /\ k.incoming = parents /\ k.queue = Sorted(R)
  BY DEF Begun
<1>2. R \subseteq Slots /\ R \subseteq D
  BY DEF GraphLike
<1>3. \A s \in D : Cardinality({p \in D : s \in E[p]}) \in Nat
  BY FS_Subset, FS_CardinalityType DEF GraphLike
<1>4. k.incoming \in [D -> Nat] /\ \A s \in D : k.incoming[s] = Cardinality({p \in D : s \in E[p]})
  BY <1>1, <1>3
<1>r. \A s \in D : s \in R <=> k.incoming[s] = 0
  BY <1>1
<1> HIDE DEF R, parents, k
<1>5. /\ k.queue \in Seq(R) /\ \A s \in R : \E n \in 1..Len(k.queue) : k.queue[n] = s
      /\ \A n, m \in 1..Len(k.queue) : k.queue[n] = k.queue[m] => n = m
  BY <1>1, <1>2, SortedIs
<1>6. k.queue \in Seq(D) /\ \A n \in 1..Len(k.queue) : k.queue[n] \in R
  BY <1>2, <1>5, SeqMonotonic, ElementOfSeq
<1>7. k.order \in Seq(D) /\ Len(k.order) = 0 /\ \A s : ~IsTaken(k, s)
  BY <1>1, EmptySeq DEF IsTaken
<1>8. \A s \in D : k.incoming[s] = Cardinality({p \in D : s \in E[p] /\ ~IsTaken(k, p)})
  <2>1. \A s \in D : {p \in D : s \in E[p] /\ ~IsTaken(k, p)} = {p \in D : s \in E[p]}
    BY <1>7
  <2> QED BY <2>1, <1>4
<1>9. \A s \in D : k.incoming[s] = 0 <=> (IsTaken(k, s) \/ Waits(k, s))
  BY <1>5, <1>6, <1>7, <1>r DEF Waits
<1> QED BY <1>4, <1>5, <1>6, <1>7, <1>8, <1>9 DEF RoundHolds, k
LEMMA TakenHolds == \A E, k : GraphLike(E) /\ RoundHolds(E, k) /\ k.queue # <<>> =>
  RoundHolds(E, Taken(E, k)) /\ Len(Taken(E, k).order) = Len(k.order) + 1
<1> SUFFICES ASSUME NEW E, NEW k, GraphLike(E), RoundHolds(E, k), k.queue # <<>>
             PROVE  RoundHolds(E, Taken(E, k)) /\ Len(Taken(E, k).order) = Len(k.order) + 1
  OBVIOUS
<1> DEFINE D == DOMAIN E
           node == Head(k.queue)
           left == [s \in D |-> IF s \in E[node] THEN k.incoming[s] - 1 ELSE k.incoming[s]]
           R == Ready(E[node], left)
           t == Taken(E, k)
           Lacks(s) == {p \in D : s \in E[p] /\ ~IsTaken(k, p)}
<1>1. t.order = Append(k.order, node) /\ t.incoming = left /\ t.queue = Tail(k.queue) \o Sorted(R)
  BY DEF Taken
<1>k. /\ k.order \in Seq(D) /\ k.queue \in Seq(D) /\ k.incoming \in [D -> Nat]
      /\ \A a, b \in 1..Len(k.order) : k.order[a] = k.order[b] => a = b
      /\ \A a, b \in 1..Len(k.queue) : k.queue[a] = k.queue[b] => a = b
      /\ \A s \in D : ~(IsTaken(k, s) /\ Waits(k, s))
      /\ \A s \in D : k.incoming[s] = Cardinality(Lacks(s))
      /\ \A s \in D : k.incoming[s] = 0 <=> (IsTaken(k, s) \/ Waits(k, s))
      /\ \A b \in 1..Len(k.order), p \in D : k.order[b] \in E[p] => \E a \in 1..b - 1 : k.order[a] = p
  BY DEF RoundHolds
<1>q. Len(k.queue) \in Nat /\ Len(k.queue) > 0 /\ node = k.queue[1] /\ node \in D /\ Len(k.order) \in Nat
  BY <1>k
<1>2. Waits(k, node) /\ k.incoming[node] = 0 /\ ~IsTaken(k, node)
  <2>1. Waits(k, node)
    BY <1>q DEF Waits
  <2> QED BY <2>1, <1>k, <1>q
<1>e. E[node] \subseteq D /\ D \subseteq Slots /\ IsFiniteSet(D)
  BY <1>q DEF GraphLike
<1>l. \A s \in D : left[s] = IF s \in E[node] THEN k.incoming[s] - 1 ELSE k.incoming[s]
  OBVIOUS
<1>d. left = [s \in D |-> left[s]]
  OBVIOUS
<1> HIDE DEF left
<1>r. R = {s \in E[node] : left[s] = 0}
  BY DEF Ready
<1> HIDE DEF node, R, t
<1>3. \A s \in D : IsFiniteSet(Lacks(s)) /\ Cardinality(Lacks(s)) \in Nat
  BY <1>e, FS_Subset, FS_CardinalityType
<1>4. \A p \in D : node \in E[p] => IsTaken(k, p)
  <2>1. Cardinality(Lacks(node)) = 0 /\ IsFiniteSet(Lacks(node))
    BY <1>2, <1>3, <1>k, <1>q
  <2>2. Lacks(node) = {}
    BY <2>1, FS_EmptySet
  <2> QED BY <2>2
<1>5. /\ t.order \in Seq(D) /\ Len(t.order) = Len(k.order) + 1
      /\ \A a \in 1..Len(k.order) : t.order[a] = k.order[a]
      /\ t.order[Len(k.order) + 1] = node
  BY <1>1, <1>k, <1>q
<1>6. \A s : IsTaken(t, s) <=> (IsTaken(k, s) \/ s = node)
  <2> SUFFICES ASSUME NEW s PROVE IsTaken(t, s) <=> (IsTaken(k, s) \/ s = node)
    OBVIOUS
  <2> PICK o, l : o = k.order /\ l = Len(k.order)
    OBVIOUS
  <2>0. l \in Nat /\ Len(t.order) = l + 1 /\ t.order[l + 1] = node /\ \A a \in 1..l : t.order[a] = o[a]
    BY <1>5, <1>q
  <2>1. ASSUME IsTaken(t, s) PROVE IsTaken(k, s) \/ s = node
    <3>1. PICK a \in 1..l + 1 : t.order[a] = s
      BY <2>0, <2>1 DEF IsTaken
    <3>2. CASE a = l + 1
      BY <2>0, <3>1, <3>2
    <3>3. CASE a \in 1..l
      <4>1. k.order[a] = s
        BY <2>0, <3>1, <3>3
      <4> QED BY <3>3, <4>1 DEF IsTaken
    <3> QED BY <2>0, <3>2, <3>3
  <2>2. ASSUME IsTaken(k, s) PROVE IsTaken(t, s)
    <3>1. PICK a \in 1..l : o[a] = s
      BY <2>2 DEF IsTaken
    <3>2. a \in 1..Len(t.order) /\ t.order[a] = s
      BY <2>0, <3>1
    <3> QED BY <3>2 DEF IsTaken
  <2>3. ASSUME s = node PROVE IsTaken(t, s)
    <3>1. l + 1 \in 1..Len(t.order) /\ t.order[l + 1] = s
      BY <2>0, <2>3
    <3> QED BY <3>1 DEF IsTaken
  <2> QED BY <2>1, <2>2, <2>3
<1>7. \A a, b \in 1..Len(t.order) : t.order[a] = t.order[b] => a = b
  <2> SUFFICES ASSUME NEW a \in 1..Len(t.order), NEW b \in 1..Len(t.order), t.order[a] = t.order[b] PROVE a = b
    OBVIOUS
  <2>1. \A c \in 1..Len(k.order) : k.order[c] # node
    BY <1>2 DEF IsTaken
  <2>2. (a \in 1..Len(k.order) \/ a = Len(k.order) + 1) /\ (b \in 1..Len(k.order) \/ b = Len(k.order) + 1)
    BY <1>5, <1>q
  <2>3. CASE a \in 1..Len(k.order) /\ b \in 1..Len(k.order)
    BY <2>3, <1>5, <1>k
  <2>4. CASE a = Len(k.order) + 1 \/ b = Len(k.order) + 1
    BY <2>1, <2>2, <2>4, <1>5
  <2> QED BY <2>2, <2>3, <2>4
<1>8. \A b \in 1..Len(t.order), p \in D : t.order[b] \in E[p] => \E a \in 1..b - 1 : t.order[a] = p
  <2> SUFFICES ASSUME NEW b \in 1..Len(t.order), NEW p \in D, t.order[b] \in E[p] PROVE \E a \in 1..b - 1 : t.order[a] = p
    OBVIOUS
  <2>1. CASE b \in 1..Len(k.order)
    <3>1. PICK a \in 1..b - 1 : k.order[a] = p
      BY <2>1, <1>5, <1>k
    <3> QED BY <3>1, <2>1, <1>5, <1>q
  <2>2. CASE b = Len(k.order) + 1
    <3>1. IsTaken(k, p)
      BY <2>2, <1>4, <1>5
    <3> QED BY <3>1, <2>2, <1>5, <1>q DEF IsTaken
  <2> QED BY <2>1, <2>2, <1>5, <1>q
<1>9. \A s \in E[node] : k.incoming[s] \in Nat \ {0} /\ left[s] = k.incoming[s] - 1
                         /\ left[s] = Cardinality({p \in D : s \in E[p] /\ ~IsTaken(t, p)})
  <2> SUFFICES ASSUME NEW s \in E[node] PROVE k.incoming[s] \in Nat \ {0} /\ left[s] = k.incoming[s] - 1
                         /\ left[s] = Cardinality({p \in D : s \in E[p] /\ ~IsTaken(t, p)})
    OBVIOUS
  <2>1. s \in D /\ node \in Lacks(s) /\ IsFiniteSet(Lacks(s)) /\ Cardinality(Lacks(s)) \in Nat
    BY <1>2, <1>3, <1>e, <1>q
  <2>2. Lacks(s) \ {node} = {p \in D : s \in E[p] /\ ~IsTaken(t, p)}
    BY <1>6
  <2>3. Cardinality(Lacks(s) \ {node}) = Cardinality(Lacks(s)) - 1
    <3> HIDE DEF Lacks
    <3> QED BY <2>1, FS_RemoveElement
  <2>4. Cardinality(Lacks(s) \ {node}) \in Nat
    <3> HIDE DEF Lacks
    <3> QED BY <2>1, FS_RemoveElement, FS_CardinalityType
  <2>5. k.incoming[s] = Cardinality(Lacks(s)) /\ left[s] = k.incoming[s] - 1
    BY <2>1, <1>k, <1>l
  <2> DEFINE c == Cardinality(Lacks(s))
             d == Cardinality(Lacks(s) \ {node})
  <2>6. c \in Nat /\ d \in Nat /\ d = c - 1 /\ k.incoming[s] = c /\ left[s] = k.incoming[s] - 1
    BY <2>1, <2>3, <2>4, <2>5
  <2>7. d = Cardinality({p \in D : s \in E[p] /\ ~IsTaken(t, p)})
    BY <2>2
  <2> HIDE DEF c, d
  <2> QED BY <2>6, <2>7
<1>10. \A s \in D \ E[node] : left[s] = k.incoming[s]
                         /\ left[s] = Cardinality({p \in D : s \in E[p] /\ ~IsTaken(t, p)})
  <2> SUFFICES ASSUME NEW s \in D \ E[node] PROVE left[s] = k.incoming[s]
                         /\ left[s] = Cardinality({p \in D : s \in E[p] /\ ~IsTaken(t, p)})
    OBVIOUS
  <2>1. Lacks(s) = {p \in D : s \in E[p] /\ ~IsTaken(t, p)}
    BY <1>6
  <2> QED BY <2>1, <1>k, <1>l
<1>11. /\ Sorted(R) \in Seq(R) /\ \A s \in R : \E n \in 1..Len(Sorted(R)) : Sorted(R)[n] = s
       /\ \A n, m \in 1..Len(Sorted(R)) : Sorted(R)[n] = Sorted(R)[m] => n = m
  <2>1. R \subseteq Slots
    BY <1>e, <1>r
  <2> QED BY <2>1, SortedIs
<1> DEFINE q == Sorted(R)
<1>12. q \in Seq(D) /\ Len(q) \in Nat /\ \A n \in 1..Len(q) : q[n] \in R
  <2>1. R \subseteq D
    BY <1>e, <1>r
  <2> QED BY <2>1, <1>11, SeqMonotonic, ElementOfSeq, LenProperties
<1> HIDE DEF q
<1>13. /\ t.queue \in Seq(D) /\ Len(t.queue) = Len(k.queue) - 1 + Len(q)
       /\ \A a \in 1..Len(k.queue) - 1 : t.queue[a] = k.queue[a + 1]
       /\ \A a \in 1..Len(q) : t.queue[Len(k.queue) - 1 + a] = q[a]
  <2> DEFINE tl == Tail(k.queue)
             m  == Len(tl)
  <2>1. tl \in Seq(D) /\ m = Len(k.queue) - 1 /\ \A a \in 1..m : tl[a] = k.queue[a + 1]
    BY <1>k, <1>q, HeadTailProperties
  <2>2. t.queue = tl \o q
    BY <1>1 DEF q
  <2> HIDE DEF tl
  <2>3. /\ tl \o q \in Seq(D) /\ Len(tl \o q) = m + Len(q)
        /\ \A i \in 1..m + Len(q) : (tl \o q)[i] = IF i <= m THEN tl[i] ELSE q[i - m]
    BY <2>1, <1>12, ConcatProperties
  <2>m. m \in Nat
    BY <2>1, LenProperties
  <2> HIDE DEF m
  <2>4. \A a \in 1..m : t.queue[a] = k.queue[a + 1]
    <3> SUFFICES ASSUME NEW a \in 1..m PROVE t.queue[a] = k.queue[a + 1]
      OBVIOUS
    <3>1. a \in 1..m + Len(q) /\ a <= m
      BY <2>m, <1>12
    <3> QED BY <2>1, <2>2, <2>3, <3>1
  <2>5. \A a \in 1..Len(q) : t.queue[m + a] = q[a]
    <3> SUFFICES ASSUME NEW a \in 1..Len(q) PROVE t.queue[m + a] = q[a]
      OBVIOUS
    <3> PICK i : i = m + a
      OBVIOUS
    <3>1. i \in 1..m + Len(q) /\ ~(i <= m) /\ i - m = a
      BY <2>m, <1>12
    <3>2. t.queue[i] = q[i - m]
      BY <2>2, <2>3, <3>1
    <3> QED BY <3>1, <3>2
  <2> QED BY <2>1, <2>2, <2>3, <2>4, <2>5
<1>14. \A a \in 1..Len(t.queue) : (a \in 1..Len(k.queue) - 1) \/ (a - (Len(k.queue) - 1) \in 1..Len(q))
  BY <1>12, <1>13, <1>q
<1>15. \A s \in R : s \in D /\ k.incoming[s] # 0 /\ ~IsTaken(k, s) /\ ~Waits(k, s) /\ s # node
  BY <1>2, <1>9, <1>k, <1>r, <1>e, Zenon
<1>16. \A s \in D : Waits(t, s) <=> ((Waits(k, s) /\ s # node) \/ s \in R)
  <2> SUFFICES ASSUME NEW s \in D PROVE Waits(t, s) <=> ((Waits(k, s) /\ s # node) \/ s \in R)
    OBVIOUS
  <2>1. ASSUME Waits(t, s) PROVE (Waits(k, s) /\ s # node) \/ s \in R
    <3>1. PICK a \in 1..Len(t.queue) : t.queue[a] = s
      BY <2>1 DEF Waits
    <3>2. CASE a \in 1..Len(k.queue) - 1
      <4>1. a + 1 \in 1..Len(k.queue) /\ a + 1 # 1 /\ 1 \in 1..Len(k.queue)
        <5>1. Len(k.queue) \in Nat
          BY <1>q
        <5>2. a \in Nat /\ a >= 1 /\ a <= Len(k.queue) - 1
          BY <5>1, <3>2
        <5> QED BY <5>1, <5>2
      <4>3. k.queue[a + 1] = s
        BY <3>1, <3>2, <1>13
      <4>2. s # node
        BY <4>1, <4>3, <1>k, <1>q
      <4> QED BY <4>1, <4>2, <4>3 DEF Waits
    <3>3. CASE a - (Len(k.queue) - 1) \in 1..Len(q)
      <4>1. Len(k.queue) - 1 + (a - (Len(k.queue) - 1)) = a
        BY <1>q
      <4>2. q[a - (Len(k.queue) - 1)] = s
        BY <3>1, <3>3, <4>1, <1>13
      <4> QED BY <3>3, <4>2, <1>12
    <3> QED BY <3>2, <3>3, <1>14
  <2>2. ASSUME Waits(k, s), s # node PROVE Waits(t, s)
    <3>1. PICK a \in 1..Len(k.queue) : k.queue[a] = s
      BY <2>2 DEF Waits
    <3>2. a # 1 /\ a - 1 \in 1..Len(k.queue) - 1 /\ a - 1 + 1 = a
      BY <2>2, <3>1, <1>q
    <3>3. t.queue[a - 1] = s /\ a - 1 \in 1..Len(t.queue)
      BY <3>1, <3>2, <1>12, <1>13, <1>q
    <3> QED BY <3>3 DEF Waits
  <2>3. ASSUME s \in R PROVE Waits(t, s)
    <3>1. PICK n \in 1..Len(q) : q[n] = s
      BY <2>3, <1>11 DEF q
    <3>2. t.queue[Len(k.queue) - 1 + n] = s /\ Len(k.queue) - 1 + n \in 1..Len(t.queue)
      BY <3>1, <1>12, <1>13, <1>q
    <3> QED BY <3>2 DEF Waits
  <2> QED BY <2>1, <2>2, <2>3
<1>17. \A a, b \in 1..Len(t.queue) : t.queue[a] = t.queue[b] => a = b
  <2> SUFFICES ASSUME NEW a \in 1..Len(t.queue), NEW b \in 1..Len(t.queue), t.queue[a] = t.queue[b] PROVE a = b
    OBVIOUS
  <2> DEFINE m == Len(k.queue) - 1
  <2>m. m \in Nat /\ Len(k.queue) = m + 1 /\ a \in Int /\ b \in Int
    BY <1>q
  <2>o. \A c \in 1..m : t.queue[c] = k.queue[c + 1] /\ Waits(k, t.queue[c])
    <3> SUFFICES ASSUME NEW c \in 1..m PROVE t.queue[c] = k.queue[c + 1] /\ Waits(k, t.queue[c])
      OBVIOUS
    <3>1. c + 1 \in 1..Len(k.queue)
      BY <2>m
    <3> QED BY <3>1, <1>13 DEF Waits
  <2>n. \A c \in 1..Len(q) : t.queue[m + c] = q[c] /\ ~Waits(k, t.queue[m + c])
    BY <1>12, <1>13, <1>15
  <2>p. \A c, d \in 1..Len(q) : q[c] = q[d] => c = d
    BY <1>11 DEF q
  <2>x. (a \in 1..m \/ a - m \in 1..Len(q)) /\ (b \in 1..m \/ b - m \in 1..Len(q))
    BY <1>14
  <2> HIDE DEF m
  <2>y. m + (a - m) = a /\ m + (b - m) = b
    BY <2>m
  <2>1. CASE a \in 1..m /\ b \in 1..m
    <3>1. k.queue[a + 1] = k.queue[b + 1] /\ a + 1 \in 1..Len(k.queue) /\ b + 1 \in 1..Len(k.queue)
      BY <2>1, <2>m, <2>o
    <3>2. a + 1 = b + 1
      BY <3>1, <1>k
    <3> QED BY <3>2, <2>m
  <2>2. CASE a - m \in 1..Len(q) /\ b - m \in 1..Len(q)
    <3>1. q[a - m] = q[b - m]
      BY <2>2, <2>n, <2>y
    <3>2. a - m = b - m
      BY <2>2, <2>p, <3>1
    <3> QED BY <3>2, <2>m
  <2>3. CASE a \in 1..m /\ b - m \in 1..Len(q)
    BY <2>3, <2>o, <2>n, <2>y
  <2>4. CASE b \in 1..m /\ a - m \in 1..Len(q)
    BY <2>4, <2>o, <2>n, <2>y
  <2> QED BY <2>x, <2>1, <2>2, <2>3, <2>4
<1>18. t.incoming \in [D -> Nat] /\ \A s \in D : t.incoming[s] = Cardinality({p \in D : s \in E[p] /\ ~IsTaken(t, p)})
  <2>1. \A s \in D : left[s] \in Nat
    <3> SUFFICES ASSUME NEW s \in D PROVE left[s] \in Nat
      OBVIOUS
    <3>1. CASE s \in E[node]
      <4>1. k.incoming[s] \in Nat \ {0} /\ left[s] = k.incoming[s] - 1
        BY <3>1, <1>9
      <4> QED BY <4>1
    <3>2. CASE s \notin E[node]
      <4>1. left[s] = k.incoming[s] /\ k.incoming[s] \in Nat
        BY <3>2, <1>10, <1>k
      <4> QED BY <4>1
    <3> QED BY <3>1, <3>2
  <2>2. left \in [D -> Nat]
    BY <2>1, <1>d
  <2> QED BY <2>2, <1>1, <1>9, <1>10
<1>19. \A s \in D : t.incoming[s] = 0 <=> (IsTaken(t, s) \/ Waits(t, s))
  <2> SUFFICES ASSUME NEW s \in D PROVE t.incoming[s] = 0 <=> (IsTaken(t, s) \/ Waits(t, s))
    OBVIOUS
  <2>1. CASE s \in E[node]
    <3>1. ~IsTaken(k, s) /\ ~Waits(k, s) /\ s # node /\ (left[s] = 0 <=> s \in R)
      <4>1. k.incoming[s] # 0
        BY <2>1, <1>9
      <4> QED BY <4>1, <2>1, <1>k, <1>2, <1>r
    <3> QED BY <3>1, <1>1, <1>6, <1>16
  <2>2. CASE s \notin E[node]
    <3>1. left[s] = k.incoming[s] /\ s \notin R
      BY <2>2, <1>10, <1>r
    <3> QED BY <3>1, <1>1, <1>2, <1>6, <1>16, <1>k
  <2> QED BY <2>1, <2>2
<1>20. \A s \in D : ~(IsTaken(t, s) /\ Waits(t, s))
  BY <1>6, <1>15, <1>16, <1>k
<1> QED BY <1>5, <1>7, <1>8, <1>13, <1>17, <1>18, <1>19, <1>20 DEF RoundHolds, t

(* In a part of an acyclic graph some slot has no parent in that part.     *)
LEMMA SourceExists == \A E, U : GraphLike(E) /\ Acyclic(E) /\ U \subseteq DOMAIN E /\ U # {} =>
  \E s \in U : \A p \in U : s \notin E[p]
<1> SUFFICES ASSUME NEW E, GraphLike(E), Acyclic(E)
             PROVE  \A U : U \subseteq DOMAIN E /\ U # {} => \E s \in U : \A p \in U : s \notin E[p]
  OBVIOUS
<1> DEFINE D == DOMAIN E
           Lost(U) == U \subseteq D /\ U # {} /\ \A s \in U : \E p \in U : s \in E[p]
           Bad == {n \in Nat : \E U : Lost(U) /\ Cardinality(U) = n}
<1>1. \A U : U \subseteq D => IsFiniteSet(U) /\ Cardinality(U) \in Nat
  BY FS_Subset, FS_CardinalityType DEF GraphLike
<1>2. SUFFICES ASSUME NEW U, Lost(U) PROVE FALSE
  BY <1>2
<1>3. Bad # {} /\ Bad \in SUBSET Nat
  BY <1>1, <1>2
<1>4. Min(Bad) \in Bad /\ \A n \in Bad : Min(Bad) <= n
  <2> HIDE DEF Bad
  <2> QED BY <1>3, LeastIn
<1>5. PICK V : Lost(V) /\ Cardinality(V) = Min(Bad)
  BY <1>4
<1>6. PICK s \in V : E[s] \cap V = {}
  BY <1>5 DEF Acyclic
<1> DEFINE W == V \ {s}
<1>7. W \subseteq D /\ W # {} /\ \A x \in W : \E p \in W : x \in E[p]
  <2>1. \A x \in V : \E p \in W : x \in E[p]
    BY <1>5, <1>6
  <2> QED BY <2>1, <1>5
<1>8. Cardinality(W) = Cardinality(V) - 1 /\ Cardinality(V) \in Nat
  <2>1. IsFiniteSet(V) /\ Cardinality(V) \in Nat /\ s \in V
    BY <1>1, <1>5
  <2> QED BY <2>1, FS_RemoveElement
<1>9. Cardinality(W) \in Bad
  BY <1>1, <1>7
<1>10. Min(Bad) <= Cardinality(W)
  BY <1>4, <1>9
<1> HIDE DEF W, Bad
<1> QED BY <1>5, <1>8, <1>10

(* The loop's rounds, one after the other.                                 *)
LEMMA Rounds == \A E : GraphLike(E) =>
  /\ Cardinality(DOMAIN E) \in Nat
  /\ Kahn(E)[0] = Begun(E)
  /\ \A n \in 1..Cardinality(DOMAIN E) : Kahn(E)[n] = Taken(E, Kahn(E)[n - 1])
<1> SUFFICES ASSUME NEW E, GraphLike(E)
             PROVE  /\ Cardinality(DOMAIN E) \in Nat
                    /\ Kahn(E)[0] = Begun(E)
                    /\ \A n \in 1..Cardinality(DOMAIN E) : Kahn(E)[n] = Taken(E, Kahn(E)[n - 1])
  OBVIOUS
<1> DEFINE Good(f, n) == f = [m \in 0..n |-> IF m = 0 THEN Begun(E) ELSE Taken(E, f[m - 1])]
           Bad == {n \in Nat : ~\E f : Good(f, n)}
           N == Cardinality(DOMAIN E)
<1>1. N \in Nat
  BY FS_CardinalityType DEF GraphLike
<1>2. Bad = {}
  <2> SUFFICES ASSUME Bad # {} PROVE FALSE
    OBVIOUS
  <2>1. Min(Bad) \in Bad /\ \A n \in Bad : Min(Bad) <= n
    <3>1. Bad \in SUBSET Nat
      OBVIOUS
    <3> HIDE DEF Bad
    <3> QED BY <3>1, LeastIn
  <2> DEFINE b == Min(Bad)
  <2>2. b \in Nat /\ ~\E f : Good(f, b)
    BY <2>1
  <2>3. b # 0 => \E f : Good(f, b - 1)
    <3> SUFFICES ASSUME b # 0 PROVE \E f : Good(f, b - 1)
      OBVIOUS
    <3>1. b - 1 \in Nat /\ ~(b <= b - 1)
      BY <2>2
    <3> QED BY <2>1, <3>1
  <2> HIDE DEF b
  <2>4. CASE b = 0
    <3> DEFINE f == [m \in 0..0 |-> Begun(E)]
    <3>1. Good(f, 0)
      OBVIOUS
    <3> QED BY <3>1, <2>2, <2>4
  <2>5. CASE b # 0
    <3>1. PICK g : Good(g, b - 1)
      BY <2>3, <2>5
    <3> DEFINE f == [m \in 0..b |-> IF m = b THEN Taken(E, g[b - 1]) ELSE g[m]]
    <3>2. ASSUME NEW m \in 0..b PROVE f[m] = IF m = 0 THEN Begun(E) ELSE Taken(E, f[m - 1])
      <4>1. CASE m = b
        <5>1. b - 1 \in 0..b /\ b - 1 # b
          BY <2>2, <2>5
        <5> QED BY <5>1, <4>1, <2>5
      <4>2. CASE m # b
        <5>1. m \in 0..b - 1 /\ m - 1 # b /\ (m # 0 => m - 1 \in 0..b)
          BY <4>2, <2>2
        <5>2. g[m] = IF m = 0 THEN Begun(E) ELSE Taken(E, g[m - 1])
          BY <3>1, <5>1
        <5>3. f[m] = g[m] /\ (m # 0 => f[m - 1] = g[m - 1])
          BY <5>1, <4>2
        <5> QED BY <5>2, <5>3
      <4> QED BY <4>1, <4>2
    <3>3. DOMAIN f = 0..b /\ f = [m \in 0..b |-> f[m]]
      OBVIOUS
    <3> HIDE DEF f
    <3>4. Good(f, b)
      BY <3>2, <3>3
    <3> QED BY <3>4, <2>2
  <2> QED BY <2>4, <2>5
<1>3. \E f : Good(f, N)
  BY <1>1, <1>2
<1> HIDE DEF N
<1>4. Kahn(E) = [m \in 0..N |-> IF m = 0 THEN Begun(E) ELSE Taken(E, Kahn(E)[m - 1])]
  <2>1. Kahn(E) = CHOOSE f : Good(f, N)
    BY DEF Kahn, N
  <2>2. Good(CHOOSE f : Good(f, N), N)
    BY <1>3
  <2> QED BY <2>1, <2>2
<1>5. Kahn(E)[0] = Begun(E)
  <2>1. 0 \in 0..N
    BY <1>1
  <2> QED BY <2>1, <1>4
<1>6. \A n \in 1..N : Kahn(E)[n] = Taken(E, Kahn(E)[n - 1])
  <2> SUFFICES ASSUME NEW n \in 1..N PROVE Kahn(E)[n] = Taken(E, Kahn(E)[n - 1])
    OBVIOUS
  <2>1. n \in 0..N /\ n # 0
    BY <1>1
  <2> QED BY <2>1, <1>4
<1> QED BY <1>1, <1>5, <1>6 DEF N

(* As long as not all are taken somebody waits in the queue, so that each  *)
(* round takes one.                                                        *)
LEMMA SomebodyWaits == \A E, k : GraphLike(E) /\ Acyclic(E) /\ RoundHolds(E, k) /\ Len(k.order) < Cardinality(DOMAIN E) =>
  k.queue # <<>>
<1> SUFFICES ASSUME NEW E, NEW k, GraphLike(E), Acyclic(E), RoundHolds(E, k), Len(k.order) < Cardinality(DOMAIN E)
             PROVE  k.queue # <<>>
  OBVIOUS
<1> DEFINE D == DOMAIN E
           U == {s \in D : ~IsTaken(k, s)}
           T == D \ U
           f == [a \in 1..Len(k.order) |-> k.order[a]]
<1>1. /\ k.order \in Seq(D) /\ Len(k.order) \in Nat /\ IsFiniteSet(D)
      /\ \A a \in 1..Len(k.order) : k.order[a] \in D
  BY DEF RoundHolds, GraphLike
<1>2. U # {}
  <2> SUFFICES ASSUME U = {} PROVE FALSE
    OBVIOUS
  <2>1. f \in Surjection(1..Len(k.order), D)
    BY <1>1 DEF Surjection, IsTaken
  <2>2. IsFiniteSet(1..Len(k.order)) /\ Cardinality(1..Len(k.order)) = Len(k.order)
    BY <1>1, FS_Interval
  <2> HIDE DEF f
  <2>3. Cardinality(D) <= Len(k.order)
    BY <2>1, <2>2, FS_Surjection
  <2>4. Cardinality(D) \in Nat
    BY <1>1, FS_CardinalityType
  <2> QED BY <1>1, <2>3, <2>4
<1>3. PICK s \in U : \A p \in U : s \notin E[p]
  <2> HIDE DEF U
  <2>1. U \subseteq DOMAIN E
    BY DEF U
  <2> QED BY <1>2, <2>1, SourceExists
<1>4. k.incoming[s] = 0
  <2>1. {p \in D : s \in E[p] /\ ~IsTaken(k, p)} = {}
    BY <1>3
  <2>2. k.incoming[s] = Cardinality({p \in D : s \in E[p] /\ ~IsTaken(k, p)})
    BY <1>3 DEF RoundHolds
  <2> QED BY <2>1, <2>2, FS_EmptySet
<1>5. Waits(k, s)
  BY <1>3, <1>4 DEF RoundHolds
<1> QED BY <1>5, EmptySeq DEF Waits

LEMMA RoundsHold == \A E : GraphLike(E) /\ Acyclic(E) =>
  \A n \in 0..Cardinality(DOMAIN E) : RoundHolds(E, Kahn(E)[n]) /\ Len(Kahn(E)[n].order) = n
<1> SUFFICES ASSUME NEW E, GraphLike(E), Acyclic(E)
             PROVE  \A n \in 0..Cardinality(DOMAIN E) : RoundHolds(E, Kahn(E)[n]) /\ Len(Kahn(E)[n].order) = n
  OBVIOUS
<1> DEFINE N == Cardinality(DOMAIN E)
           r == Kahn(E)
           Bad == {n \in 0..N : ~(RoundHolds(E, r[n]) /\ Len(r[n].order) = n)}
<1>1. N \in Nat /\ r[0] = Begun(E) /\ \A n \in 1..N : r[n] = Taken(E, r[n - 1])
  BY Rounds
<1> HIDE DEF N, r
<1>2. SUFFICES ASSUME Bad # {} PROVE FALSE
  BY <1>2 DEF N, r
<1>3. Min(Bad) \in Bad /\ \A n \in Bad : Min(Bad) <= n
  <2>1. Bad \in SUBSET Nat
    BY <1>1
  <2> HIDE DEF Bad
  <2> QED BY <1>2, <2>1, LeastIn
<1> DEFINE b == Min(Bad)
<1>4. b \in 0..N /\ ~(RoundHolds(E, r[b]) /\ Len(r[b].order) = b)
  BY <1>3
<1>5. b # 0
  BY <1>1, <1>4, BegunHolds
<1>6. b - 1 \in 0..N /\ b \in 1..N /\ b - 1 < N /\ b \in Int /\ ~(b <= b - 1)
  <2> HIDE DEF b
  <2> QED BY <1>1, <1>4, <1>5
<1>7. RoundHolds(E, r[b - 1]) /\ Len(r[b - 1].order) = b - 1
  <2>1. b - 1 \notin Bad
    BY <1>3, <1>6
  <2> QED BY <2>1, <1>6
<1> HIDE DEF b
<1>8. r[b - 1].queue # <<>>
  BY <1>6, <1>7, SomebodyWaits DEF N
<1>9. RoundHolds(E, Taken(E, r[b - 1])) /\ Len(Taken(E, r[b - 1]).order) = b - 1 + 1
  BY <1>7, <1>8, TakenHolds
<1> QED BY <1>1, <1>4, <1>6, <1>9

(* The order of an acyclic graph: all slots, every parent before its       *)
(* children.  The length check after the loop (build_graph.py) never       *)
(* raises.                                                                 *)
LEMMA OrderIs == \A E : GraphLike(E) /\ Acyclic(E) =>
  /\ TopologicalOrder(E) \in Seq(DOMAIN E) /\ Len(TopologicalOrder(E)) = Cardinality(DOMAIN E)
  /\ \A s \in DOMAIN E : \E n \in 1..Len(TopologicalOrder(E)) : TopologicalOrder(E)[n] = s
  /\ \A a, b \in 1..Len(TopologicalOrder(E)) : TopologicalOrder(E)[a] = TopologicalOrder(E)[b] => a = b
  /\ \A n \in 1..Len(TopologicalOrder(E)) : \A s \in E[TopologicalOrder(E)[n]] :
       \E m \in 1..Len(TopologicalOrder(E)) : n < m /\ TopologicalOrder(E)[m] = s
<1> SUFFICES ASSUME NEW E, GraphLike(E), Acyclic(E)
             PROVE  /\ TopologicalOrder(E) \in Seq(DOMAIN E) /\ Len(TopologicalOrder(E)) = Cardinality(DOMAIN E)
                    /\ \A s \in DOMAIN E : \E n \in 1..Len(TopologicalOrder(E)) : TopologicalOrder(E)[n] = s
                    /\ \A a, b \in 1..Len(TopologicalOrder(E)) : TopologicalOrder(E)[a] = TopologicalOrder(E)[b] => a = b
                    /\ \A n \in 1..Len(TopologicalOrder(E)) : \A s \in E[TopologicalOrder(E)[n]] :
                         \E m \in 1..Len(TopologicalOrder(E)) : n < m /\ TopologicalOrder(E)[m] = s
  OBVIOUS
<1> DEFINE D == DOMAIN E
           N == Cardinality(D)
           k == Kahn(E)[N]
           o == TopologicalOrder(E)
<1>1. RoundHolds(E, k) /\ Len(k.order) = N /\ k.order = o
  <2>1. N \in 0..N
    BY Rounds
  <2> QED BY <2>1, RoundsHold DEF TopologicalOrder
<1> HIDE DEF k, o
<1>2. /\ o \in Seq(D) /\ Len(o) = N /\ N \in Nat
      /\ \A a, b \in 1..N : o[a] = o[b] => a = b
      /\ \A b \in 1..N, p \in D : o[b] \in E[p] => \E a \in 1..b - 1 : o[a] = p
  BY <1>1, Rounds DEF RoundHolds
<1>3. \A n \in 1..N : o[n] \in D
  BY <1>2, ElementOfSeq
<1>4. \A s \in D : \E n \in 1..N : o[n] = s
  <2> DEFINE f == [n \in 1..N |-> o[n]]
             A == {o[n] : n \in 1..N}
  <2>1. f \in Surjection(1..N, A) /\ f \in Injection(1..N, A)
    BY <1>2 DEF Surjection, Injection, IsInjective
  <2>2. IsFiniteSet(1..N) /\ Cardinality(1..N) = N
    BY <1>2, FS_Interval
  <2>3. A \subseteq D /\ IsFiniteSet(D)
    BY <1>3 DEF GraphLike
  <2> HIDE DEF f, A
  <2>4. IsFiniteSet(A) /\ Cardinality(A) <= N
    BY <2>1, <2>2, FS_Surjection
  <2>5. N <= Cardinality(A)
    BY <2>1, <2>2, <2>4, FS_Injection
  <2>6. Cardinality(A) = N
    BY <2>4, <2>5, FS_CardinalityType, <1>2
  <2>7. A = D
    BY <2>3, <2>6, FS_Subset DEF N
  <2> QED BY <2>7 DEF A
<1>5. ASSUME NEW n \in 1..N, NEW s \in E[o[n]]
      PROVE  \E m \in 1..N : n < m /\ o[m] = s
  <2>1. o[n] \in D /\ s \in D
    BY <1>3 DEF GraphLike
  <2>2. PICK m \in 1..N : o[m] = s
    BY <1>4, <2>1
  <2>3. PICK a \in 1..m - 1 : o[a] = o[n]
    BY <1>2, <2>1, <2>2
  <2>4. a \in 1..N /\ a < m
    BY <1>2, <2>2, <2>3
  <2>5. a = n
    BY <1>2, <2>3, <2>4
  <2> QED BY <2>2, <2>4, <2>5
<1> QED BY <1>2, <1>4, <1>5 DEF o

(* The list of writes: every slot and every twin of one, parents first.    *)
LEMMA WritesAre == \A i : GraphLike(Graph(i)) /\ Acyclic(Graph(i)) =>
  /\ AgentWrites(i) \in Seq([slot : SlotsOf(i), twin : BOOLEAN])
  /\ \A n \in 1..Len(AgentWrites(i)) : AgentWrites(i)[n].twin => HasTwin(i, AgentWrites(i)[n].slot)
  /\ \A w \in [slot : SlotsOf(i), twin : BOOLEAN] : (w.twin => HasTwin(i, w.slot)) =>
       \E n \in 1..Len(AgentWrites(i)) : AgentWrites(i)[n] = w
  /\ \A n \in 1..Len(AgentWrites(i)) : ~AgentWrites(i)[n].twin =>
       \A s \in Edges(i, AgentWrites(i)[n].slot) :
         \E m \in 1..Len(AgentWrites(i)) : n < m /\ AgentWrites(i)[m] = [slot |-> s, twin |-> FALSE]
<1> SUFFICES ASSUME NEW i, GraphLike(Graph(i)), Acyclic(Graph(i))
    PROVE  /\ AgentWrites(i) \in Seq([slot : SlotsOf(i), twin : BOOLEAN])
           /\ \A n \in 1..Len(AgentWrites(i)) : AgentWrites(i)[n].twin => HasTwin(i, AgentWrites(i)[n].slot)
           /\ \A w \in [slot : SlotsOf(i), twin : BOOLEAN] : (w.twin => HasTwin(i, w.slot)) =>
                \E n \in 1..Len(AgentWrites(i)) : AgentWrites(i)[n] = w
           /\ \A n \in 1..Len(AgentWrites(i)) : ~AgentWrites(i)[n].twin =>
                \A s \in Edges(i, AgentWrites(i)[n].slot) :
                  \E m \in 1..Len(AgentWrites(i)) : n < m /\ AgentWrites(i)[m] = [slot |-> s, twin |-> FALSE]
  OBVIOUS
<1> DEFINE E == Graph(i)
           D == SlotsOf(i)
           W == [slot : D, twin : BOOLEAN]
           o == TopologicalOrder(E)
           all == [n \in 1..2 * Len(o) |-> [slot |-> o[(n + 1) \div 2], twin |-> n % 2 = 0]]
           I == {n \in DOMAIN all : all[n].twin => HasTwin(i, all[n].slot)}
           aw == AgentWrites(i)
<1>1. DOMAIN E = D /\ \A s \in D : E[s] = Edges(i, s)
  BY DEF Graph
<1>2. /\ o \in Seq(D) /\ \A s \in D : \E n \in 1..Len(o) : o[n] = s
      /\ \A n \in 1..Len(o) : \A s \in E[o[n]] : \E m \in 1..Len(o) : n < m /\ o[m] = s
  BY <1>1, OrderIs
<1>3. aw = Sublist(all, I)
  BY DEF AgentWrites
<1> HIDE DEF o, E, aw
<1>4. Len(o) \in Nat /\ \A n \in 1..Len(o) : o[n] \in D
  BY <1>2, LenProperties, ElementOfSeq
<1>5. \A n \in 1..2 * Len(o) : (n + 1) \div 2 \in 1..Len(o)
  BY <1>4
<1>6. DOMAIN all = 1..2 * Len(o) /\ \A n \in 1..2 * Len(o) : all[n] = [slot |-> o[(n + 1) \div 2], twin |-> n % 2 = 0]
  OBVIOUS
<1>7. \A n \in 1..2 * Len(o) : all[n] \in W
  BY <1>4, <1>5, <1>6
<1>8. \A l \in 1..Len(o) : /\ 2 * l - 1 \in 1..2 * Len(o) /\ 2 * l \in 1..2 * Len(o)
                           /\ all[2 * l - 1] = [slot |-> o[l], twin |-> FALSE]
                           /\ all[2 * l] = [slot |-> o[l], twin |-> TRUE]
  <2> SUFFICES ASSUME NEW l \in 1..Len(o)
               PROVE  /\ 2 * l - 1 \in 1..2 * Len(o) /\ 2 * l \in 1..2 * Len(o)
                      /\ all[2 * l - 1] = [slot |-> o[l], twin |-> FALSE]
                      /\ all[2 * l] = [slot |-> o[l], twin |-> TRUE]
    OBVIOUS
  <2>1. 2 * l - 1 \in 1..2 * Len(o) /\ 2 * l \in 1..2 * Len(o)
    BY <1>4
  <2>2. (2 * l - 1 + 1) \div 2 = l /\ (2 * l + 1) \div 2 = l /\ (2 * l - 1) % 2 # 0 /\ (2 * l) % 2 = 0
    BY <1>4
  <2> HIDE DEF all
  <2> QED BY <2>1, <2>2, <1>6
<1>9. \A n \in 1..2 * Len(o) : ~all[n].twin => n = 2 * ((n + 1) \div 2) - 1
  <2> SUFFICES ASSUME NEW n \in 1..2 * Len(o), ~all[n].twin PROVE n = 2 * ((n + 1) \div 2) - 1
    OBVIOUS
  <2>1. n % 2 # 0
    BY <1>6
  <2> QED BY <2>1, <1>4
<1> HIDE DEF all
<1>10. IsFiniteSet(I) /\ I \subseteq Int /\ I \subseteq 1..2 * Len(o)
  <2>1. IsFiniteSet(1..2 * Len(o))
    BY <1>4, FS_Interval
  <2>2. I \subseteq 1..2 * Len(o)
    BY <1>6
  <2>3. I \subseteq Int
    BY <2>2
  <2> HIDE DEF I
  <2> QED BY <2>1, <2>2, <2>3, FS_Subset
<1>11. \A n \in I : all[n] \in W /\ (all[n].twin => HasTwin(i, all[n].slot))
  BY <1>6, <1>7
<1>12. \A l \in 1..Len(o) : 2 * l - 1 \in I /\ (HasTwin(i, o[l]) => 2 * l \in I)
  <2> SUFFICES ASSUME NEW l \in 1..Len(o) PROVE 2 * l - 1 \in I /\ (HasTwin(i, o[l]) => 2 * l \in I)
    OBVIOUS
  <2>1. 2 * l - 1 \in DOMAIN all /\ 2 * l \in DOMAIN all
    BY <1>6, <1>8
  <2>2. ~all[2 * l - 1].twin
    <3>1. all[2 * l - 1] = [slot |-> o[l], twin |-> FALSE]
      BY <1>8
    <3> QED BY <3>1
  <2>3. all[2 * l].slot = o[l]
    <3>1. all[2 * l] = [slot |-> o[l], twin |-> TRUE]
      BY <1>8
    <3> QED BY <3>1
  <2> QED BY <2>1, <2>2, <2>3
<1> HIDE DEF I
<1>13. aw \in Seq(W) /\ Len(aw) = Cardinality(I)
  <2>1. \A n \in I : all[n] \in W
    BY <1>11
  <2> HIDE DEF W
  <2> QED BY <2>1, <1>3, <1>10, SublistIsList
<1>14. /\ \A n \in 1..Cardinality(I) : \E j \in I : aw[n] = all[j]
       /\ \A j \in I : \E n \in 1..Cardinality(I) : aw[n] = all[j]
  BY <1>3, <1>10, SublistHas
<1>15. \A n \in 1..Cardinality(I) :
         \E j \in I : /\ aw[n] = all[j]
                      /\ \A k \in I : j < k => \E m \in 1..Cardinality(I) : n < m /\ aw[m] = all[k]
  <2>1. InOrder(aw, all, I)
    BY <1>3, <1>10, SublistOrdered
  <2> QED BY <2>1 DEF InOrder
<1>16. \A n \in 1..Len(aw) : aw[n].twin => HasTwin(i, aw[n].slot)
  BY <1>11, <1>13, <1>14
<1>17. ASSUME NEW w \in W, w.twin => HasTwin(i, w.slot) PROVE \E n \in 1..Len(aw) : aw[n] = w
  <2>1. PICK l \in 1..Len(o) : o[l] = w.slot
    BY <1>2
  <2>2. w = [slot |-> o[l], twin |-> TRUE] \/ w = [slot |-> o[l], twin |-> FALSE]
    BY <2>1
  <2>3. CASE w = [slot |-> o[l], twin |-> TRUE]
    <3>1. 2 * l \in I /\ all[2 * l] = w
      BY <2>1, <2>3, <1>8, <1>12, <1>17
    <3> QED BY <3>1, <1>13, <1>14
  <2>4. CASE w = [slot |-> o[l], twin |-> FALSE]
    <3>1. 2 * l - 1 \in I /\ all[2 * l - 1] = w
      BY <2>4, <1>8, <1>12
    <3> QED BY <3>1, <1>13, <1>14
  <2> QED BY <2>2, <2>3, <2>4
<1>18. ASSUME NEW n \in 1..Len(aw), ~aw[n].twin, NEW s \in Edges(i, aw[n].slot)
       PROVE  \E m \in 1..Len(aw) : n < m /\ aw[m] = [slot |-> s, twin |-> FALSE]
  <2>1. PICK j \in I : /\ aw[n] = all[j]
                       /\ \A k \in I : j < k => \E m \in 1..Cardinality(I) : n < m /\ aw[m] = all[k]
    BY <1>13, <1>15
  <2> PICK l : l = (j + 1) \div 2
    OBVIOUS
  <2>2. l \in 1..Len(o) /\ j = 2 * l - 1
    BY <2>1, <1>5, <1>9, <1>10, <1>18
  <2>3. aw[n] = [slot |-> o[l], twin |-> FALSE]
    BY <2>1, <2>2, <1>8
  <2>4. s \in E[o[l]]
    BY <2>2, <2>3, <1>1, <1>4, <1>18
  <2>5. PICK m \in 1..Len(o) : l < m /\ o[m] = s
    BY <2>2, <2>4, <1>2
  <2>6. 2 * m - 1 \in I /\ all[2 * m - 1] = [slot |-> s, twin |-> FALSE]
    BY <2>5, <1>8, <1>12
  <2>7. j < 2 * m - 1
    BY <2>2, <2>5, <1>4
  <2> QED BY <2>1, <2>6, <2>7, <1>13
<1> QED BY <1>13, <1>16, <1>17, <1>18 DEF aw


-----------------------------------------------------------------------------
(* The passes of a run, in states it can be in.                            *)

InPass == pc \in {"scripts", "agents", "discard", "move", "index"}

(* Of the agents still to be written, parents stand before their children. *)
Lined ==
  \A n \in 1..Len(agents) : ~agents[n].twin =>
    \A s \in Edges(pass, agents[n].slot) :
      \E m \in 1..Len(agents) : n < m /\ agents[m] = [slot |-> s, twin |-> FALSE]

LineInv ==
  /\ pass \in Nat \ {0}
  /\ pc # "idle" => cmd \in Commands /\ project \in Projects
  /\ pc = "idle" => pass = 1
  /\ InPass => pass \in 1..Passes
  /\ pc = "agents" => agents \in Seq([slot : SlotsOf(pass), twin : BOOLEAN]) /\ Lined

LEMMA SlotsAre ==
  ASSUME cmd \in Commands, project \in Projects, NEW i \in 1..Passes
  PROVE  SlotsOf(i) \subseteq Slots /\ ToSet(Registry(i).slots) = SlotsOf(i) /\ GraphLike(Graph(i))
<1>1. Context(i) \in DOMAIN project
  <2>1. CASE Single
    BY <2>1, CompileAssumption DEF Context
  <2>2. CASE ~Single
    BY <2>2, CompileAssumption DEF Context, Passes, Variant
  <2> QED BY <2>1, <2>2
<1>2. SlotsOf(i) \subseteq Slots /\ ToSet(Registry(i).slots) = SlotsOf(i)
  BY <1>1, CompileAssumption DEF SlotsOf, Registry
<1>3. IsFiniteSet(SlotsOf(i))
  <2> DEFINE f == [n \in 1..Len(Alphabet) |-> Alphabet[n]]
  <2>1. f \in Surjection(1..Len(Alphabet), Slots)
    BY AlphabetIs DEF Surjection
  <2>2. IsFiniteSet(1..Len(Alphabet))
    BY AlphabetIs, FS_Interval
  <2> HIDE DEF f
  <2>3. IsFiniteSet(Slots)
    BY <2>1, <2>2, FS_Surjection
  <2> QED BY <1>2, <2>3, FS_Subset
<1>4. \A s \in SlotsOf(i) : Edges(i, s) \subseteq SlotsOf(i)
  BY <1>2 DEF Edges, ToSet
<1> QED BY <1>2, <1>3, <1>4 DEF GraphLike, Graph

LEMMA AcyclicIs ==
  ASSUME NEW i, ~Cyclic(i)
  PROVE  Acyclic(Graph(i))
BY DEF Cyclic, Acyclic, Graph

LEMMA OrderLines ==
  ASSUME LineInv, Order
  PROVE  LineInv'
<1>1. /\ cmd' = cmd /\ project' = project /\ pc = "scripts"
      /\ cmd \in Commands /\ project \in Projects /\ pass \in 1..Passes
  BY DEF Order, LineInv, InPass
<1>2. CASE Ends("raised")
  BY <1>2 DEF Ends, LineInv, InPass
<1>3. CASE ~Cyclic(pass) /\ agents' = AgentWrites(pass) /\ pc' = "agents" /\ UNCHANGED <<pass, scripts, outcome>>
  <2>1. GraphLike(Graph(pass)) /\ Acyclic(Graph(pass))
    BY <1>1, <1>3, SlotsAre, AcyclicIs
  <2>2. /\ AgentWrites(pass) \in Seq([slot : SlotsOf(pass), twin : BOOLEAN])
        /\ \A n \in 1..Len(AgentWrites(pass)) : ~AgentWrites(pass)[n].twin =>
             \A s \in Edges(pass, AgentWrites(pass)[n].slot) :
               \E m \in 1..Len(AgentWrites(pass)) : n < m /\ AgentWrites(pass)[m] = [slot |-> s, twin |-> FALSE]
    BY <2>1, WritesAre
  <2>3. pass' = pass /\ Passes' = Passes /\ SlotsOf(pass)' = SlotsOf(pass) /\ \A s : Edges(pass, s)' = Edges(pass, s)
    BY <1>1, <1>3 DEF Passes, Single, SlotsOf, Edges, LastOfItsId, Registry, Context, Variant
  <2>4. Lined'
    BY <1>3, <2>2, <2>3 DEF Lined
  <2>5. agents' \in Seq([slot : SlotsOf(pass), twin : BOOLEAN])
    BY <1>3, <2>2
  <2> QED BY <1>1, <1>3, <2>3, <2>4, <2>5 DEF LineInv, InPass
<1> QED BY <1>2, <1>3 DEF Order

LEMMA WriteAgentLines ==
  ASSUME LineInv, WriteAgent
  PROVE  LineInv'
<1>1. /\ cmd' = cmd /\ project' = project /\ pc = "agents" /\ agents # <<>>
      /\ agents \in Seq([slot : SlotsOf(pass), twin : BOOLEAN]) /\ Lined
  BY DEF WriteAgent, LineInv
<1>2. CASE Ends("raised")
  BY <1>2 DEF Ends, LineInv, InPass
<1>3. CASE agents' = Tail(agents) /\ UNCHANGED <<pc, pass, scripts, outcome>>
  <2> DEFINE W == [slot : SlotsOf(pass), twin : BOOLEAN]
  <2>1. /\ agents' \in Seq(W) /\ Len(agents') = Len(agents) - 1 /\ Len(agents) \in Nat
        /\ \A n \in 1..Len(agents') : agents'[n] = agents[n + 1]
    <3>1. agents \in Seq(W)
      BY <1>1
    <3> HIDE DEF W
    <3> QED BY <3>1, <1>1, <1>3, HeadTailProperties, LenProperties
  <2>2. pass' = pass /\ Passes' = Passes /\ SlotsOf(pass)' = SlotsOf(pass) /\ \A s : Edges(pass, s)' = Edges(pass, s)
    BY <1>1, <1>3 DEF Passes, Single, SlotsOf, Edges, LastOfItsId, Registry, Context, Variant
  <2>3. ASSUME NEW n \in 1..Len(agents'), ~agents'[n].twin, NEW s \in Edges(pass, agents'[n].slot)
        PROVE  \E m \in 1..Len(agents') : n < m /\ agents'[m] = [slot |-> s, twin |-> FALSE]
    <3>1. n + 1 \in 1..Len(agents) /\ agents'[n] = agents[n + 1]
      BY <2>1
    <3>2. PICK m \in 1..Len(agents) : n + 1 < m /\ agents[m] = [slot |-> s, twin |-> FALSE]
      BY <1>1, <2>3, <3>1 DEF Lined
    <3>3. m - 1 \in 1..Len(agents') /\ n < m - 1 /\ m - 1 + 1 = m
      BY <2>1, <3>1, <3>2
    <3> QED BY <2>1, <3>2, <3>3
  <2>4. Lined'
    BY <2>2, <2>3 DEF Lined
  <2> QED BY <1>1, <1>3, <2>1, <2>2, <2>4 DEF LineInv, InPass
<1> QED BY <1>2, <1>3 DEF WriteAgent

LEMMA LinesHold == Spec => []LineInv
<1>1. Init => LineInv
  BY DEF Init, LineInv, InPass
<1>2. LineInv /\ [Next]_vars => LineInv'
  <2> SUFFICES ASSUME LineInv, [Next]_vars PROVE LineInv'
    OBVIOUS
  <2>1. CASE Run
    BY <2>1 DEF Run, Ends, LineInv, InPass
  <2>2. CASE StartPass
    BY <2>2 DEF StartPass, Ends, LineInv, InPass, Passes, Single
  <2>3. CASE PrepareTarget \/ AgentsWritten \/ Discard \/ Move
    BY <2>3 DEF PrepareTarget, AgentsWritten, Discard, Move, LineInv, InPass, Passes, Single
  <2>7. CASE CopyScript
    <3>1. /\ pc = "scripts" /\ UNCHANGED <<cmd, project>>
          /\ Ends("raised") \/ UNCHANGED <<pc, pass, agents>>
      BY <2>7 DEF CopyScript
    <3> QED BY <3>1 DEF Ends, LineInv, InPass, Passes, Single
  <2>4. CASE WriteIndex
    BY <2>4 DEF WriteIndex, LineInv, InPass
  <2>5. CASE Finish \/ Die
    BY <2>5 DEF Finish, Die, Ends, LineInv, InPass
  <2>6. CASE UNCHANGED vars
    <3>1. Passes' = Passes /\ SlotsOf(pass)' = SlotsOf(pass) /\ \A n, s : Edges(n, s)' = Edges(n, s)
      BY <2>6 DEF vars, Passes, Single, SlotsOf, Edges, LastOfItsId, Registry, Context, Variant
    <3>2. Lined => Lined'
      BY <2>6, <3>1 DEF vars, Lined
    <3> QED BY <2>6, <3>1, <3>2 DEF vars, LineInv, InPass
  <2> QED BY <2>1, <2>2, <2>3, <2>4, <2>5, <2>6, <2>7, OrderLines, WriteAgentLines DEF Next
<1> QED BY <1>1, <1>2, PTL DEF Spec

(* An agent's file is written only after those of all agents that refer to *)
(* it, whatever the definitions refer to and whoever shares an id.         *)
THEOREM ParentsComeFirst == Spec => []ParentsFirst
<1>1. LineInv => ParentsFirst
  <2> SUFFICES ASSUME LineInv, pc = "agents", NEW parent \in SlotsOf(pass), NEW child \in Edges(pass, parent),
                      [slot |-> parent, twin |-> FALSE] \in ToSet(agents)
               PROVE  [slot |-> child, twin |-> FALSE] \in ToSet(agents)
    BY DEF ParentsFirst
  <2>1. agents \in Seq([slot : SlotsOf(pass), twin : BOOLEAN]) /\ Lined /\ DOMAIN agents = 1..Len(agents)
    BY DEF LineInv
  <2>2. PICK n \in 1..Len(agents) : agents[n] = [slot |-> parent, twin |-> FALSE]
    BY <2>1 DEF ToSet
  <2>3. PICK m \in 1..Len(agents) : agents[m] = [slot |-> child, twin |-> FALSE]
    BY <2>1, <2>2 DEF Lined
  <2> QED BY <2>1, <2>3 DEF ToSet
<1> QED BY <1>1, LinesHold, PTL

-----------------------------------------------------------------------------
(* Compile: the variants side by side.                                      *)
(* The stems of agents' files, by slot, postfix and twin.                  *)
Stem(s, p, twin) == <<s>> \o p \o (IF twin THEN <<"primary">> ELSE <<>>)

StemLen(p, twin) == 1 + Len(p) + (IF twin THEN 1 ELSE 0)

LEMMA StemIs == \A s, p, twin : p \in Seq(STRING) /\ twin \in BOOLEAN =>
  /\ Len(p) \in Nat /\ Len(Stem(s, p, twin)) = StemLen(p, twin)
  /\ Stem(s, p, twin)[1] = s
  /\ \A n \in 1..Len(p) : Stem(s, p, twin)[1 + n] = p[n]
  /\ twin => Stem(s, p, twin)[Len(p) + 2] = "primary"
<1> TAKE s, p, twin
<1> HAVE p \in Seq(STRING) /\ twin \in BOOLEAN
<1> DEFINE S == {s} \cup STRING \cup {"primary"}
           u == <<s>>
           t == IF twin THEN <<"primary">> ELSE <<>>
           l == IF twin THEN 1 ELSE 0
<1>1. p \in Seq(S) /\ Len(p) \in Nat
  <2>1. p \in Seq(STRING) /\ STRING \subseteq S
    OBVIOUS
  <2> QED BY <2>1, SeqMonotonic, LenProperties
<1>2. u \in Seq(S) /\ Len(u) = 1 /\ u[1] = s
  OBVIOUS
<1>3. t \in Seq(S) /\ Len(t) = l /\ (twin => t[1] = "primary") /\ l \in Nat /\ (twin => l = 1)
  <2>1. CASE twin
    BY <2>1
  <2>2. CASE ~twin
    BY <2>2
  <2> QED BY <2>1, <2>2
<1>5. Stem(s, p, twin) = (u \o p) \o t
  BY DEF Stem
<1>9. StemLen(p, twin) = 1 + Len(p) + l
  BY DEF StemLen
<1> HIDE DEF S, u, t, l
<1> DEFINE a == u \o p
<1>4. /\ a \in Seq(S) /\ Len(a) = 1 + Len(p)
      /\ \A n \in 1..1 + Len(p) : a[n] = IF n <= 1 THEN u[n] ELSE p[n - 1]
  <2>1. /\ a \in Seq(S) /\ Len(a) = Len(u) + Len(p)
        /\ \A n \in 1..Len(u) + Len(p) : a[n] = IF n <= Len(u) THEN u[n] ELSE p[n - Len(u)]
    BY <1>1, <1>2, ConcatProperties
  <2> HIDE DEF a
  <2> QED BY <2>1, <1>2
<1> HIDE DEF a
<1> DEFINE b == a \o t
<1>6. /\ b \in Seq(S) /\ Len(b) = 1 + Len(p) + l
      /\ \A n \in 1..1 + Len(p) + l : b[n] = IF n <= 1 + Len(p) THEN a[n] ELSE t[n - (1 + Len(p))]
  <2>1. /\ b \in Seq(S) /\ Len(b) = Len(a) + Len(t)
        /\ \A n \in 1..Len(a) + Len(t) : b[n] = IF n <= Len(a) THEN a[n] ELSE t[n - Len(a)]
    BY <1>3, <1>4, ConcatProperties
  <2> HIDE DEF b
  <2> QED BY <2>1, <1>3, <1>4
<1>10. Stem(s, p, twin) = b
  BY <1>5 DEF a
<1> HIDE DEF b
<1>7. b[1] = s
  <2>1. 1 \in 1..1 + Len(p) + l /\ 1 <= 1 + Len(p) /\ 1 \in 1..1 + Len(p) /\ 1 <= 1
    BY <1>1, <1>3
  <2> QED BY <2>1, <1>2, <1>4, <1>6
<1>8. ASSUME NEW n \in 1..Len(p) PROVE b[1 + n] = p[n]
  <2> PICK m : m = 1 + n
    OBVIOUS
  <2>1. m \in 1..1 + Len(p) + l /\ m <= 1 + Len(p) /\ m \in 1..1 + Len(p) /\ ~(m <= 1) /\ m - 1 = n
    BY <1>1, <1>3
  <2>2. b[m] = p[m - 1]
    BY <2>1, <1>4, <1>6
  <2> QED BY <2>1, <2>2
<1>11. ASSUME twin PROVE b[Len(p) + 2] = "primary"
  <2> PICK m : m = Len(p) + 2
    OBVIOUS
  <2>1. m \in 1..1 + Len(p) + l /\ ~(m <= 1 + Len(p)) /\ m - (1 + Len(p)) = 1
    BY <1>1, <1>3, <1>11
  <2>2. b[m] = t[m - (1 + Len(p))]
    BY <2>1, <1>6
  <2> QED BY <2>1, <2>2, <1>3, <1>11
<1> QED BY <1>1, <1>6, <1>7, <1>8, <1>9, <1>10, <1>11

(* Names without a slot or the mark of a twin in their postfix differ in    *)
(* all their parts.                                                        *)
LEMMA StemsDiffer ==
  ASSUME NEW s, NEW p \in Seq(STRING), NEW twin \in BOOLEAN, NEW s2, NEW p2 \in Seq(STRING), NEW twin2 \in BOOLEAN,
         PlainName(p), PlainName(p2), Stem(s, p, twin) = Stem(s2, p2, twin2)
  PROVE  s = s2 /\ p = p2 /\ twin = twin2
<1>1. /\ Len(p) \in Nat /\ Len(Stem(s, p, twin)) = StemLen(p, twin) /\ Stem(s, p, twin)[1] = s
      /\ \A n \in 1..Len(p) : Stem(s, p, twin)[1 + n] = p[n]
      /\ twin => Stem(s, p, twin)[Len(p) + 2] = "primary"
  BY StemIs
<1>2. /\ Len(p2) \in Nat /\ Len(Stem(s2, p2, twin2)) = StemLen(p2, twin2) /\ Stem(s2, p2, twin2)[1] = s2
      /\ \A n \in 1..Len(p2) : Stem(s2, p2, twin2)[1 + n] = p2[n]
      /\ twin2 => Stem(s2, p2, twin2)[Len(p2) + 2] = "primary"
  BY StemIs
<1>0. DOMAIN p = 1..Len(p) /\ DOMAIN p2 = 1..Len(p2)
  BY LenProperties
<1>3. StemLen(p, twin) = StemLen(p2, twin2)
  BY <1>1, <1>2
<1>4. ~(twin /\ ~twin2)
  <2> SUFFICES ASSUME twin, ~twin2 PROVE FALSE
    OBVIOUS
  <2>1. Len(p2) = Len(p) + 1
    BY <1>1, <1>2, <1>3 DEF StemLen
  <2> PICK n : n = Len(p) + 1
    OBVIOUS
  <2>2. n \in 1..Len(p2) /\ 1 + n = Len(p) + 2
    BY <1>1, <2>1
  <2>3. p2[n] = "primary"
    BY <1>1, <1>2, <2>2
  <2> QED BY <1>0, <2>2, <2>3 DEF PlainName
<1>5. ~(twin2 /\ ~twin)
  <2> SUFFICES ASSUME twin2, ~twin PROVE FALSE
    OBVIOUS
  <2>1. Len(p) = Len(p2) + 1
    BY <1>1, <1>2, <1>3 DEF StemLen
  <2> PICK n : n = Len(p2) + 1
    OBVIOUS
  <2>2. n \in 1..Len(p) /\ 1 + n = Len(p2) + 2
    BY <1>2, <2>1
  <2>3. p[n] = "primary"
    BY <1>1, <1>2, <2>2
  <2> QED BY <1>0, <2>2, <2>3 DEF PlainName
<1>6. twin = twin2
  BY <1>4, <1>5
<1>7. Len(p) = Len(p2)
  BY <1>1, <1>2, <1>3, <1>6 DEF StemLen
<1>8. p = p2
  <2>1. \A n \in 1..Len(p) : p[n] = p2[n]
    BY <1>1, <1>2, <1>7
  <2> QED BY <2>1, <1>7, SeqEqual
<1> QED BY <1>1, <1>2, <1>6, <1>8

(* One sequence ends with another, place by place.                         *)
EndsWith(q, t) == Len(q) <= Len(t) /\ \A n \in 1..Len(q) : q[n] = t[Len(t) - Len(q) + n]

LEMMA SuffixIs ==
  ASSUME NEW q, NEW t, Len(q) \in Nat, Len(t) \in Nat
  PROVE  IsSuffix(q, t) <=> EndsWith(q, t)
<1> DEFINE rq == Reverse(q)
           rt == Reverse(t)
           lq == Len(q)
           lt == Len(t)
<1>1. /\ rq = [i \in 1..lq |-> q[(lq - i) + 1]] /\ rt = [i \in 1..lt |-> t[(lt - i) + 1]]
      /\ Len(rq) = lq /\ Len(rt) = lt
  BY DEF Reverse
<1>2. IsSuffix(q, t) <=> lq <= lt /\ SubSeq(rq, 1, lq) = SubSeq(rt, 1, lq)
  BY <1>1 DEF IsSuffix, IsPrefix
<1>3. /\ \A i \in 1..lq : rq[i] = q[(lq - i) + 1]
      /\ lq <= lt => \A i \in 1..lq : rt[i] = t[(lt - i) + 1]
  BY <1>1
<1>0. lq \in Nat /\ lt \in Nat
  OBVIOUS
<1>9. EndsWith(q, t) <=> lq <= lt /\ \A n \in 1..lq : q[n] = t[lt - lq + n]
  BY DEF EndsWith
<1> HIDE DEF rq, rt, lq, lt
<1>4. ASSUME lq <= lt
      PROVE  SubSeq(rq, 1, lq) = SubSeq(rt, 1, lq) <=> \A i \in 1..lq : rq[i] = rt[i]
  <2> DEFINE S == {rq[i] : i \in 1..lq} \cup {rt[i] : i \in 1..lq}
             a == SubSeq(rq, 1, lq)
             b == SubSeq(rt, 1, lq)
  <2>1. (\A i \in 1..lq : rq[i] \in S) /\ (\A i \in 1..lq : rt[i] \in S)
    OBVIOUS
  <2> HIDE DEF S
  <2>2. a \in Seq(S) /\ Len(a) = lq /\ \A i \in 1..lq : a[i] = rq[i]
    <3>1. a \in Seq(S) /\ Len(a) = (IF 1 <= lq THEN lq - 1 + 1 ELSE 0) /\ \A i \in 1..lq - 1 + 1 : a[i] = rq[1 + i - 1]
      BY <1>0, <2>1, SubSeqProperties
    <3>2. lq - 1 + 1 = lq /\ \A i \in 1..lq : 1 + i - 1 = i
      BY <1>0
    <3> HIDE DEF a
    <3> QED BY <1>0, <3>1, <3>2
  <2>3. b \in Seq(S) /\ Len(b) = lq /\ \A i \in 1..lq : b[i] = rt[i]
    <3>1. b \in Seq(S) /\ Len(b) = (IF 1 <= lq THEN lq - 1 + 1 ELSE 0) /\ \A i \in 1..lq - 1 + 1 : b[i] = rt[1 + i - 1]
      BY <1>0, <2>1, SubSeqProperties
    <3>2. lq - 1 + 1 = lq /\ \A i \in 1..lq : 1 + i - 1 = i
      BY <1>0
    <3> HIDE DEF b
    <3> QED BY <1>0, <3>1, <3>2
  <2> HIDE DEF a, b
  <2>4. ASSUME a = b PROVE \A i \in 1..lq : rq[i] = rt[i]
    BY <2>2, <2>3, <2>4
  <2>5. ASSUME \A i \in 1..lq : rq[i] = rt[i] PROVE a = b
    <3>1. \A i \in 1..Len(a) : a[i] = b[i]
      BY <2>2, <2>3, <2>5
    <3> QED BY <2>2, <2>3, <3>1, SeqEqual
  <2> QED BY <2>4, <2>5 DEF a, b
<1>5. ASSUME lq <= lt, \A i \in 1..lq : rq[i] = rt[i], NEW n \in 1..lq PROVE q[n] = t[lt - lq + n]
  <2> PICK i : i = lq - n + 1
    OBVIOUS
  <2>1. i \in 1..lq /\ (lq - i) + 1 = n /\ (lt - i) + 1 = lt - lq + n
    BY <1>0
  <2>2. q[(lq - i) + 1] = t[(lt - i) + 1]
    BY <1>3, <1>5, <2>1
  <2> QED BY <2>1, <2>2
<1>6. ASSUME lq <= lt, \A n \in 1..lq : q[n] = t[lt - lq + n], NEW i \in 1..lq PROVE rq[i] = rt[i]
  <2> PICK n : n = (lq - i) + 1
    OBVIOUS
  <2>1. n \in 1..lq /\ lt - lq + n = (lt - i) + 1
    BY <1>0
  <2>2. q[n] = t[lt - lq + n]
    BY <1>6, <2>1
  <2> QED BY <1>3, <1>6, <2>1, <2>2
<1> QED BY <1>2, <1>4, <1>5, <1>6, <1>9

(* Without the mark of a twin a name ends with its own postfix.             *)
LEMMA OwnEnds ==
  ASSUME NEW s, NEW p \in Seq(STRING), NEW twin \in BOOLEAN, ~twin
  PROVE  IsSuffix(p, Stem(s, p, twin))
<1> PICK t, n : t = Stem(s, p, twin) /\ n = Len(p)
  OBVIOUS
<1>1. n \in Nat /\ Len(Stem(s, p, twin)) = StemLen(p, twin) /\ \A k \in 1..n : Stem(s, p, twin)[1 + k] = p[k]
  BY StemIs
<1>2. StemLen(p, twin) = 1 + n + 0
  BY DEF StemLen
<1>3. Len(t) = 1 + n
  BY <1>1, <1>2
<1>4. Len(t) \in Nat /\ n <= Len(t) /\ \A k \in 1..n : Len(t) - n + k = 1 + k
  BY <1>1, <1>3
<1>5. EndsWith(p, t)
  BY <1>1, <1>4 DEF EndsWith
<1> QED BY <1>1, <1>4, <1>5, SuffixIs

(* A name ends with a postfix only if the postfix in it does.              *)
LEMMA StemEnds ==
  ASSUME NEW s \in Slots, NEW p \in Seq(STRING), NEW twin \in BOOLEAN, NEW q \in Seq(STRING), PlainName(q), q # <<>>,
         IsSuffix(q, Stem(s, p, twin))
  PROVE  IsSuffix(q, p)
<1> DEFINE t == Stem(s, p, twin)
<1>1. /\ Len(p) \in Nat /\ Len(t) = StemLen(p, twin) /\ t[1] = s
      /\ \A n \in 1..Len(p) : t[1 + n] = p[n]
      /\ twin => t[Len(p) + 2] = "primary"
  BY StemIs
<1>2. Len(q) \in Nat /\ Len(q) > 0 /\ DOMAIN q = 1..Len(q)
  BY LenProperties, EmptySeq
<1>3. Len(t) \in Nat
  BY <1>1 DEF StemLen
<1>4. Len(q) <= Len(t) /\ \A n \in 1..Len(q) : q[n] = t[Len(t) - Len(q) + n]
  <2> HIDE DEF t
  <2>1. IsSuffix(q, t)
    BY DEF t
  <2> QED BY <2>1, <1>2, <1>3, SuffixIs DEF EndsWith
<1> HIDE DEF t
<1>5. ~twin
  <2> SUFFICES ASSUME twin PROVE FALSE
    OBVIOUS
  <2>1. Len(q) \in 1..Len(q) /\ Len(t) - Len(q) + Len(q) = Len(p) + 2
    BY <1>1, <1>2, <1>3 DEF StemLen
  <2>2. q[Len(q)] = "primary"
    BY <1>1, <1>4, <2>1
  <2> QED BY <1>2, <2>1, <2>2 DEF PlainName
<1>6. Len(t) = 1 + Len(p)
  BY <1>1, <1>5 DEF StemLen
<1>7. Len(q) <= Len(p)
  <2>0. Len(q) <= 1 + Len(p) /\ Len(q) \in Nat /\ Len(p) \in Nat
    BY <1>1, <1>2, <1>4, <1>6
  <2> SUFFICES ASSUME Len(q) = 1 + Len(p) PROVE FALSE
    BY <2>0
  <2>1. 1 \in 1..Len(q) /\ Len(t) - Len(q) + 1 = 1
    BY <1>1, <1>2, <1>6
  <2>2. q[1] = s
    BY <1>1, <1>4, <2>1
  <2> QED BY <1>2, <2>1, <2>2 DEF PlainName
<1>8. ASSUME NEW n \in 1..Len(q) PROVE q[n] = p[Len(p) - Len(q) + n]
  <2> PICK m : m = Len(p) - Len(q) + n
    OBVIOUS
  <2>1. m \in 1..Len(p) /\ Len(t) - Len(q) + n = 1 + m
    BY <1>1, <1>2, <1>6, <1>7
  <2>2. q[n] = t[Len(t) - Len(q) + n]
    BY <1>4
  <2> QED BY <1>1, <2>1, <2>2
<1>9. EndsWith(q, p)
  BY <1>7, <1>8 DEF EndsWith
<1> QED BY <1>1, <1>2, <1>9, SuffixIs

-----------------------------------------------------------------------------
(* Files and texts.                                                        *)
AgentDirs == {".opencode", ".codex", ".pi", ".claude"}

TextFields == {"of", "run", "postfix", "model", "served", "mode"}

(* The file of an agent is named as its text says.                         *)
Agentlike(f, text) ==
  /\ f.dir \in AgentDirs /\ text.of \in Slots /\ text.postfix \in Seq(STRING)
  /\ \E twin \in BOOLEAN : f.stem = Stem(text.of, text.postfix, twin)

Files(t) ==
  \A f \in DOMAIN t : /\ f = File(f.dir, f.stem) /\ DOMAIN t[f] = TextFields
                      /\ t[f].mode # "none" => Agentlike(f, t[f])

Writes(i) == {w \in [slot : SlotsOf(i), twin : BOOLEAN] : w.twin => HasTwin(i, w.slot)}

Marked(text, b) == [text EXCEPT !.served = b]

LEMMA MarkedIs ==
  ASSUME NEW text, DOMAIN text = TextFields, NEW b, NEW c
  PROVE  /\ DOMAIN Marked(text, b) = TextFields /\ Marked(text, b).mode = text.mode
         /\ Marked(text, b).of = text.of /\ Marked(text, b).postfix = text.postfix
         /\ Marked(Marked(text, b), c) = Marked(text, c)
         /\ Marked(text, b).served = b
  BY DEF Marked, TextFields

LEMMA DeclaredOnce ==
  /\ AgentDirs \cap {"scripts", "."} = {}
  /\ {"tool/tools", "extensions/tools", "settings"} \cap Slots = {}
  BY CompileAssumption DEF AgentDirs

(* The files beside the agents never have an agent's name.                 *)
LEMMA Elsewhere ==
  ASSUME NEW f, NEW text, Agentlike(f, text)
  PROVE  /\ \A name : f # File("scripts", <<name>>)
         /\ f # ToolFile /\ f # File(".claude", <<"settings">>) /\ f # File(".", <<"AGENTS">>)
<1>1. f.dir \in AgentDirs /\ f.dir # "scripts" /\ f.dir # "."
  BY DEF Agentlike, AgentDirs
<1>2. PICK twin \in BOOLEAN : f.stem = Stem(text.of, text.postfix, twin)
  BY DEF Agentlike
<1>3. f.stem[1] = text.of /\ text.of \in Slots
  <2>1. text.postfix \in Seq(STRING) /\ text.of \in Slots
    BY DEF Agentlike
  <2>2. Stem(text.of, text.postfix, twin)[1] = text.of
    BY <2>1, StemIs
  <2> QED BY <1>2, <2>1, <2>2
<1>4. f.stem # <<"tool/tools">> /\ f.stem # <<"extensions/tools">> /\ f.stem # <<"settings">>
  BY <1>3, DeclaredOnce
<1> QED BY <1>1, <1>4 DEF File, ToolFile

(* Putting a file, removing some, and marking those of Codex.              *)
LEMMA PutIs ==
  ASSUME NEW t, NEW g, NEW x, NEW f \in DOMAIN t, f # g
  PROVE  f \in DOMAIN Put(t, g, x) /\ Put(t, g, x)[f] = t[f]
  BY DEF Put

LEMMA PutFiles ==
  ASSUME NEW t, Files(t), NEW g, g = File(g.dir, g.stem), NEW x, DOMAIN x = TextFields,
         x.mode # "none" => Agentlike(g, x)
  PROVE  Files(Put(t, g, x))
<1> SUFFICES ASSUME NEW f \in DOMAIN Put(t, g, x)
             PROVE  /\ f = File(f.dir, f.stem) /\ DOMAIN Put(t, g, x)[f] = TextFields
                    /\ Put(t, g, x)[f].mode # "none" => Agentlike(f, Put(t, g, x)[f])
  BY DEF Files
<1>1. f \in DOMAIN t \cup {g} /\ Put(t, g, x)[f] = IF f = g THEN x ELSE t[f]
  BY DEF Put
<1>2. CASE f = g
  BY <1>1, <1>2
<1>3. CASE f # g
  <2>1. f \in DOMAIN t /\ Put(t, g, x)[f] = t[f]
    BY <1>1, <1>3
  <2> QED BY <2>1 DEF Files
<1> QED BY <1>2, <1>3

LEMMA DelIs ==
  ASSUME NEW t, NEW F, NEW f \in DOMAIN t, f \notin F
  PROVE  f \in DOMAIN Del(t, F) /\ Del(t, F)[f] = t[f]
  BY DEF Del

LEMMA DelFiles ==
  ASSUME NEW t, Files(t), NEW F
  PROVE  Files(Del(t, F))
  BY DEF Files, Del

LEMMA SharedIs == \A name, i :
  /\ DOMAIN SharedText(name, i) = TextFields /\ SharedText(name, i).mode = "none"
  BY DEF SharedText, TextFields

LEMMA FileIs == \A dir, stem : File(dir, stem) = File(File(dir, stem).dir, File(dir, stem).stem)
                                 /\ File(dir, stem).dir = dir /\ File(dir, stem).stem = stem
  BY DEF File

LEMMA ToolFileIs == ToolFile = File(ToolFile.dir, ToolFile.stem)
  BY DEF ToolFile, File

LEMMA TooledFiles ==
  ASSUME NEW t, Files(t)
  PROVE  Files(Tooled(t))
<1>1. Files(Put(t, ToolFile, SharedText("tools", pass)))
  BY SharedIs, ToolFileIs, PutFiles
<1> QED BY <1>1 DEF Tooled

LEMMA TooledIs ==
  ASSUME NEW t, NEW f \in DOMAIN t, NEW text, Agentlike(f, text)
  PROVE  f \in DOMAIN Tooled(t) /\ Tooled(t)[f] = t[f]
<1>1. f # ToolFile
  BY Elsewhere
<1>2. LET u == Put(t, ToolFile, SharedText("tools", pass)) IN f \in DOMAIN u /\ u[f] = t[f]
  BY <1>1, PutIs
<1> QED BY <1>2 DEF Tooled

LEMMA IndexedFiles ==
  ASSUME NEW t, Files(t)
  PROVE  Files(Indexed(t))
<1>1. Files(Put(t, File(".claude", <<"settings">>), SharedText("settings", pass)))
  BY SharedIs, FileIs, PutFiles
<1>2. Files(Put(t, File(".", <<"AGENTS">>), SharedText("AGENTS", pass)))
  BY SharedIs, FileIs, PutFiles
<1> QED BY <1>1, <1>2 DEF Indexed

LEMMA IndexedIs ==
  ASSUME NEW t, NEW f \in DOMAIN t, NEW text, Agentlike(f, text)
  PROVE  f \in DOMAIN Indexed(t) /\ Indexed(t)[f] = t[f]
<1>1. f # File(".claude", <<"settings">>) /\ f # File(".", <<"AGENTS">>)
  BY Elsewhere
<1>2. LET u == Put(t, File(".claude", <<"settings">>), SharedText("settings", pass)) IN f \in DOMAIN u /\ u[f] = t[f]
  BY <1>1, PutIs
<1>3. LET u == Put(t, File(".", <<"AGENTS">>), SharedText("AGENTS", pass)) IN f \in DOMAIN u /\ u[f] = t[f]
  BY <1>1, PutIs
<1> QED BY <1>2, <1>3 DEF Indexed

LEMMA ServedIs ==
  ASSUME NEW t, NEW f \in DOMAIN t
  PROVE  f \in DOMAIN Served(t)
         /\ Served(t)[f] = IF cmd.dialect = "codex" /\ Native /\ f.dir = ".codex" THEN Marked(t[f], TRUE) ELSE t[f]
  BY DEF Served, Marked

LEMMA AgentlikeMarked ==
  ASSUME NEW f, NEW text, DOMAIN text = TextFields, NEW b, Agentlike(f, text)
  PROVE  Agentlike(f, Marked(text, b))
  BY MarkedIs DEF Agentlike

LEMMA ServedFiles ==
  ASSUME NEW t, Files(t)
  PROVE  Files(Served(t))
<1> SUFFICES ASSUME NEW f \in DOMAIN Served(t)
             PROVE  /\ f = File(f.dir, f.stem) /\ DOMAIN Served(t)[f] = TextFields
                    /\ Served(t)[f].mode # "none" => Agentlike(f, Served(t)[f])
  BY DEF Files
<1>1. f \in DOMAIN t
  BY DEF Served
<1>2. Served(t)[f] = t[f] \/ Served(t)[f] = Marked(t[f], TRUE)
  BY <1>1, ServedIs
<1>3. f = File(f.dir, f.stem) /\ DOMAIN t[f] = TextFields /\ (t[f].mode # "none" => Agentlike(f, t[f]))
  BY <1>1 DEF Files
<1>4. DOMAIN Marked(t[f], TRUE) = TextFields /\ Marked(t[f], TRUE).mode = t[f].mode
  BY <1>3, MarkedIs
<1>5. Agentlike(f, t[f]) => Agentlike(f, Marked(t[f], TRUE))
  BY <1>3, AgentlikeMarked
<1> QED BY <1>2, <1>3, <1>4, <1>5

-----------------------------------------------------------------------------
(* What the rest of a run goes on: nothing but a new run changes what the  *)
(* operators over the script and the project mean.                         *)
LEMMA SameRun ==
  ASSUME UNCHANGED <<cmd, project, runs>>
  PROVE  /\ Passes' = Passes /\ Strategy' = Strategy /\ Single' = Single /\ AgentDir' = AgentDir /\ FinalDir' = FinalDir
         /\ \A i : SlotsOf(i)' = SlotsOf(i) /\ ToolScripts(i)' = ToolScripts(i) /\ Variant(i)' = Variant(i)
         /\ \A i, s : Postfix(i, s)' = Postfix(i, s) /\ HasTwin(i, s)' = HasTwin(i, s)
         /\ \A i, w : AgentText(i, w)' = AgentText(i, w)
<1>1. Passes' = Passes /\ Strategy' = Strategy /\ Single' = Single /\ AgentDir' = AgentDir /\ FinalDir' = FinalDir
  BY DEF Passes, Strategy, Single, AgentDir, FinalDir
<1>2. \A i : Registry(i)' = Registry(i) /\ Variant(i)' = Variant(i)
  BY DEF Registry, Context, Variant, Single
<1>3. \A i : SlotsOf(i)' = SlotsOf(i)
  BY <1>2 DEF SlotsOf
<1>4. \A i : ToolScripts(i)' = ToolScripts(i)
  BY <1>2, <1>3 DEF ToolScripts
<1>5. \A i, s : Unsplit(i, s)' <=> Unsplit(i, s)
  BY <1>1, <1>2 DEF Unsplit
<1>6. \A i, s : Postfix(i, s)' = Postfix(i, s) /\ Model(i, s)' = Model(i, s) /\ HasTwin(i, s)' = HasTwin(i, s)
  BY <1>2, <1>5 DEF Postfix, Model, HasTwin
<1>7. \A i, w : AgentText(i, w)' = AgentText(i, w)
  BY <1>6 DEF AgentText
<1> QED BY <1>1, <1>2, <1>3, <1>4, <1>6, <1>7

LEMMA SameNames ==
  ASSUME UNCHANGED <<cmd, project, runs>>
  PROVE  /\ \A i : Writes(i)' = Writes(i) /\ Postfixes(i)' = Postfixes(i)
         /\ \A p, q : Apart(p, q)' <=> Apart(p, q)
         /\ NamesApart' <=> NamesApart
<1>1. \A i : Writes(i)' = Writes(i)
  BY SameRun DEF Writes
<1>2. \A i : Postfixes(i)' = Postfixes(i)
  BY SameRun DEF Postfixes
<1>3. \A p, q : Apart(p, q)' <=> Apart(p, q)
  BY SameRun DEF Apart
<1>4. NamesApart' <=> NamesApart
  BY <1>2, <1>3, SameRun DEF NamesApart
<1> QED BY <1>1, <1>2, <1>3, <1>4

LEMMA FileOfAgent == \A dir, i, w : AgentFile(dir, i, w) = File(dir, Stem(w.slot, Postfix(i, w.slot), w.twin))
  BY DEF AgentFile, Stem

(* Postfixes are sequences of names.                                       *)
LEMMA PostfixesTyped ==
  ASSUME cmd \in Commands, project \in Projects, NEW i \in 1..Passes
  PROVE  /\ \A s : Postfix(i, s) \in Seq(STRING)
         /\ \A q \in Postfixes(i) : q \in Seq(STRING)
         /\ SlotsOf(i) \subseteq Slots
<1>1. Context(i) \in DOMAIN project
  <2>1. CASE Single
    BY <2>1, CompileAssumption DEF Context
  <2>2. CASE ~Single
    BY <2>2, CompileAssumption DEF Context, Passes, Variant
  <2> QED BY <2>1, <2>2
<1>2. Registry(i).postfix \in Seq(STRING)
  BY <1>1, CompileAssumption DEF Registry
<1>3. ~Single => Variant(i).postfix \in Seq(STRING)
  BY CompileAssumption DEF Variant, Passes
<1>4. \A s : Postfix(i, s) \in Seq(STRING)
  BY <1>2, <1>3 DEF Postfix, Unsplit
<1> QED BY <1>3, <1>4, SlotsAre DEF Postfixes

LEMMA AgentTextIs ==
  ASSUME cmd \in Commands, project \in Projects, NEW i \in 1..Passes, NEW w \in Writes(i), NEW dir \in AgentDirs
  PROVE  /\ DOMAIN AgentText(i, w) = TextFields /\ AgentText(i, w).mode # "none" /\ AgentText(i, w).served = FALSE
         /\ AgentText(i, w).postfix = Postfix(i, w.slot) /\ AgentText(i, w).of = w.slot
         /\ Agentlike(AgentFile(dir, i, w), AgentText(i, w))
         /\ AgentFile(dir, i, w) = File(AgentFile(dir, i, w).dir, AgentFile(dir, i, w).stem)
         /\ AgentFile(dir, i, w).dir = dir
         /\ Postfix(i, w.slot) \in Postfixes(i)
<1>1. /\ DOMAIN AgentText(i, w) = TextFields /\ AgentText(i, w).mode # "none" /\ AgentText(i, w).served = FALSE
      /\ AgentText(i, w).postfix = Postfix(i, w.slot) /\ AgentText(i, w).of = w.slot
  BY DEF AgentText, TextFields
<1>2. w.slot \in SlotsOf(i) /\ w.twin \in BOOLEAN
  BY DEF Writes
<1>3. w.slot \in Slots /\ Postfix(i, w.slot) \in Seq(STRING) /\ Postfix(i, w.slot) \in Postfixes(i)
  BY <1>2, PostfixesTyped DEF Postfixes
<1>4. /\ AgentFile(dir, i, w).dir = dir /\ AgentFile(dir, i, w).stem = Stem(w.slot, Postfix(i, w.slot), w.twin)
      /\ AgentFile(dir, i, w) = File(AgentFile(dir, i, w).dir, AgentFile(dir, i, w).stem)
  BY FileOfAgent, FileIs
<1>5. Agentlike(AgentFile(dir, i, w), AgentText(i, w))
  BY <1>1, <1>2, <1>3, <1>4 DEF Agentlike
<1> QED BY <1>1, <1>3, <1>4, <1>5

-----------------------------------------------------------------------------
(* The files that are there, and where a run is.                           *)
Where ==
  /\ pc = "wipe" => Strategy = "full" /\ pass = 1
  /\ pc \in {"discard", "move"} => cmd.dialect = "claude"
  /\ pc \in {"discard", "move", "index"} => agents = <<>>
  /\ pc = "move" => Under(tree, ".claude") = {}
  /\ pc = "agents" => agents \in Seq(Writes(pass))
  /\ pc = "pass" => pass <= Passes + 1

FileInv == LineInv /\ Files(tree) /\ Files(before) /\ Where

LEMMA PassesIs ==
  ASSUME cmd \in Commands
  PROVE  Passes \in Nat
  BY CompileAssumption DEF Passes

LEMMA AgentDirIs ==
  ASSUME cmd \in Commands
  PROVE  AgentDir \in AgentDirs /\ FinalDir \in AgentDirs
  BY CompileAssumption DEF AgentDir, FinalDir, AgentDirs, Dialects

LEMMA WritesOrdered ==
  ASSUME cmd \in Commands, project \in Projects, NEW i \in 1..Passes, ~Cyclic(i)
  PROVE  AgentWrites(i) \in Seq(Writes(i)) /\ \A w \in Writes(i) : \E n \in 1..Len(AgentWrites(i)) : AgentWrites(i)[n] = w
<1>1. GraphLike(Graph(i)) /\ Acyclic(Graph(i))
  BY SlotsAre, AcyclicIs
<1>2. /\ AgentWrites(i) \in Seq([slot : SlotsOf(i), twin : BOOLEAN])
      /\ \A n \in 1..Len(AgentWrites(i)) : AgentWrites(i)[n].twin => HasTwin(i, AgentWrites(i)[n].slot)
      /\ \A w \in [slot : SlotsOf(i), twin : BOOLEAN] : (w.twin => HasTwin(i, w.slot)) =>
           \E n \in 1..Len(AgentWrites(i)) : AgentWrites(i)[n] = w
  BY <1>1, WritesAre
<1> DEFINE aw == AgentWrites(i)
           W == [slot : SlotsOf(i), twin : BOOLEAN]
<1>3. /\ aw \in Seq(W) /\ \A n \in 1..Len(aw) : aw[n].twin => HasTwin(i, aw[n].slot)
      /\ \A w \in W : (w.twin => HasTwin(i, w.slot)) => \E n \in 1..Len(aw) : aw[n] = w
  BY <1>2
<1>4. Writes(i) = {w \in W : w.twin => HasTwin(i, w.slot)}
  BY DEF Writes
<1> HIDE DEF aw, W
<1>5. \A n \in 1..Len(aw) : aw[n] \in W /\ Len(aw) \in Nat
  BY <1>3, ElementOfSeq, LenProperties
<1>6. \A n \in 1..Len(aw) : aw[n] \in Writes(i)
  BY <1>3, <1>4, <1>5
<1>7. aw \in Seq(Writes(i))
  <2>1. aw = [n \in 1..Len(aw) |-> aw[n]] /\ Len(aw) \in Nat
    BY <1>3, LenProperties
  <2>2. aw \in [1..Len(aw) -> Writes(i)]
    BY <1>6, <2>1
  <2> QED BY <2>1, <2>2, SeqDef
<1> QED BY <1>3, <1>4, <1>7 DEF aw

LEMMA OneFits == \A n \in Nat : 1 <= n + 1
  OBVIOUS

LEMMA MoveIs ==
  ASSUME Files(tree), Under(tree, ".claude") = {}, Move
  PROVE  /\ \A stem : File(".opencode", stem) \in DOMAIN tree =>
              /\ File(".claude", stem) \in DOMAIN tree'
              /\ tree'[File(".claude", stem)] = tree[File(".opencode", stem)]
         /\ Files(tree')
<1>0. tree' = [f \in {Renamed(g) : g \in DOMAIN tree} |->
                 tree[IF f.dir = ".claude" THEN [f EXCEPT !.dir = ".opencode"] ELSE f]]
  BY DEF Move
<1>1. \A stem : /\ Renamed(File(".opencode", stem)) = File(".claude", stem)
                /\ File(".claude", stem).dir = ".claude"
                /\ [File(".claude", stem) EXCEPT !.dir = ".opencode"] = File(".opencode", stem)
  BY DEF Renamed, File
<1>2. \A stem : File(".opencode", stem) \in DOMAIN tree =>
              /\ File(".claude", stem) \in DOMAIN tree'
              /\ tree'[File(".claude", stem)] = tree[File(".opencode", stem)]
  <2> SUFFICES ASSUME NEW stem, File(".opencode", stem) \in DOMAIN tree
               PROVE  /\ File(".claude", stem) \in DOMAIN tree'
                      /\ tree'[File(".claude", stem)] = tree[File(".opencode", stem)]
    OBVIOUS
  <2>1. File(".claude", stem) \in {Renamed(g) : g \in DOMAIN tree}
    BY <1>1
  <2> QED BY <1>0, <1>1, <2>1
<1>3. Files(tree')
  <2> SUFFICES ASSUME NEW f \in DOMAIN tree'
               PROVE  /\ f = File(f.dir, f.stem) /\ DOMAIN tree'[f] = TextFields
                      /\ tree'[f].mode # "none" => Agentlike(f, tree'[f])
    BY DEF Files
  <2>1. PICK g \in DOMAIN tree : f = Renamed(g)
    BY <1>0
  <2>2. /\ g = File(g.dir, g.stem) /\ DOMAIN tree[g] = TextFields
        /\ tree[g].mode # "none" => Agentlike(g, tree[g])
    BY DEF Files
  <2>3. CASE g.dir = ".opencode"
    <3>1. f = File(".claude", g.stem) /\ g = File(".opencode", g.stem)
      BY <1>1, <2>1, <2>2, <2>3
    <3>2. tree'[f] = tree[g]
      BY <1>2, <3>1
    <3>3. f.dir = ".claude" /\ f.stem = g.stem
      BY <3>1, FileIs
    <3>4. Agentlike(g, tree[g]) => Agentlike(f, tree[g])
      BY <3>3 DEF Agentlike, AgentDirs
    <3> QED BY <2>2, <3>1, <3>2, <3>3, <3>4
  <2>4. CASE g.dir # ".opencode"
    <3>1. f = g
      BY <2>1, <2>4 DEF Renamed
    <3>2. f.dir # ".claude"
      BY <3>1 DEF Under
    <3>3. tree'[f] = tree[f]
      BY <1>0, <3>2
    <3> QED BY <2>2, <3>1, <3>3
  <2> QED BY <2>3, <2>4
<1> QED BY <1>2, <1>3

LEMMA HeadIs ==
  ASSUME FileInv, pc = "agents", agents # <<>>
  PROVE  /\ Head(agents) \in Writes(pass) /\ Tail(agents) \in Seq(Writes(pass)) /\ Len(agents) \in Nat /\ Len(agents) > 0
         /\ Head(agents) = agents[1] /\ Len(Tail(agents)) = Len(agents) - 1
         /\ \A n \in 1..Len(Tail(agents)) : Tail(agents)[n] = agents[n + 1]
<1> DEFINE W == Writes(pass)
<1>1. agents \in Seq(W)
  BY DEF FileInv, Where
<1> HIDE DEF W
<1>2. /\ Head(agents) = agents[1] /\ Head(agents) \in W /\ Tail(agents) \in Seq(W) /\ Len(Tail(agents)) = Len(agents) - 1
      /\ \A n \in 1..Len(Tail(agents)) : Tail(agents)[n] = agents[n + 1]
  BY <1>1, HeadTailProperties
<1>3. Len(agents) \in Nat /\ Len(agents) > 0
  BY <1>1, LenProperties, EmptySeq
<1> QED BY <1>2, <1>3 DEF W

(* Every step leaves each file of an agent named as its text says.         *)
LEMMA FilesStep ==
  ASSUME FileInv, LineInv', [Next]_vars
  PROVE  FileInv'
<1>0. /\ LineInv /\ Files(tree) /\ Files(before) /\ Where
      /\ pc # "idle" => cmd \in Commands /\ project \in Projects
      /\ InPass => pass \in 1..Passes
  BY DEF FileInv, LineInv
<1> SUFFICES Files(tree') /\ Files(before') /\ Where'
  BY DEF FileInv
<1>1. CASE Run
  <2>1. Files(tree') /\ Files(before')
    BY <1>0, <1>1 DEF Run
  <2>2. CASE pc' = "idle"
    BY <2>1, <2>2 DEF Where
  <2>3. CASE pc' # "idle"
    <3>1. /\ pass' = 1 /\ cmd' \in Commands /\ pc' \in {"wipe", "pass"} /\ (pc' = "wipe" => Strategy' = "full")
      BY <1>0, <1>1, <2>3 DEF Run, Ends, LineInv, Strategy
    <3>2. Passes' \in Nat
      BY <3>1, CompileAssumption DEF Passes, Single
    <3>3. pass' <= Passes' + 1
      BY <3>1, <3>2, OneFits, Zenon
    <3> QED BY <2>1, <3>1, <3>3 DEF Where
  <2> QED BY <2>1, <2>2, <2>3
<1>2. CASE PrepareTarget
  <2>1. Files(tree') /\ Files(before')
    BY <1>0, <1>2 DEF PrepareTarget, None, Files
  <2>2. pc = "wipe" /\ pc' = "pass" /\ pass' = 1 /\ cmd' = cmd /\ cmd \in Commands
    BY <1>0, <1>2 DEF PrepareTarget, Where
  <2>3. Passes' \in Nat
    BY <2>2, CompileAssumption DEF Passes, Single
  <2>4. pass' <= Passes' + 1
    BY <2>2, <2>3, OneFits, Zenon
  <2> QED BY <2>1, <2>2, <2>4 DEF Where
<1>3. CASE StartPass
  <2>1. Files(tree') /\ Files(before')
    <3>1. Files(Del(tree, VariantArtifacts(Variant(pass).postfix)))
      BY <1>0, DelFiles
    <3> QED BY <1>0, <1>3, <3>1 DEF StartPass, Cleaned
  <2>2. pc' \in {"idle", "scripts"}
    BY <1>3 DEF StartPass, Ends
  <2> QED BY <2>1, <2>2 DEF Where
<1>4. CASE CopyScript
  <2>1. Files(tree') /\ Files(before')
    <3>1. \A s : Files(Put(tree, File("scripts", <<s>>), SharedText(s, pass)))
      BY <1>0, PutFiles, SharedIs, FileIs
    <3> QED BY <1>0, <1>4, <3>1 DEF CopyScript
  <2>2. pc' \in {"idle", "scripts"}
    BY <1>4 DEF CopyScript, Ends
  <2> QED BY <2>1, <2>2 DEF Where
<1>5. CASE Order
  <2>1. Files(tree') /\ Files(before')
    BY <1>0, <1>5, TooledFiles DEF Order
  <2>2. CASE pc' = "idle"
    BY <2>1, <2>2 DEF Where
  <2>3. CASE pc' # "idle"
    <3>1. /\ pc = "scripts" /\ pc' = "agents" /\ ~Cyclic(pass) /\ agents' = AgentWrites(pass) /\ pass' = pass
          /\ UNCHANGED <<cmd, project, runs>>
      BY <1>5, <2>3 DEF Order, Ends
    <3>2. AgentWrites(pass) \in Seq(Writes(pass))
      BY <1>0, <3>1, WritesOrdered DEF InPass
    <3>3. Writes(pass)' = Writes(pass)
      BY <3>1, SameNames
    <3> QED BY <2>1, <3>1, <3>2, <3>3 DEF Where
  <2> QED BY <2>2, <2>3
<1>6. CASE WriteAgent
  <2>0. pc = "agents" /\ agents # <<>> /\ cmd \in Commands /\ project \in Projects /\ pass \in 1..Passes /\ before' = before
    BY <1>0, <1>6 DEF WriteAgent, InPass
  <2>1. Head(agents) \in Writes(pass) /\ Tail(agents) \in Seq(Writes(pass))
    BY <2>0, HeadIs
  <2>2. Files(tree')
    <3> PICK w : w = Head(agents)
      OBVIOUS
    <3>1. AgentDir \in AgentDirs
      BY <2>0, AgentDirIs
    <3>2. /\ DOMAIN AgentText(pass, w) = TextFields
          /\ Agentlike(AgentFile(AgentDir, pass, w), AgentText(pass, w))
          /\ AgentFile(AgentDir, pass, w) = File(AgentFile(AgentDir, pass, w).dir, AgentFile(AgentDir, pass, w).stem)
      BY <2>0, <2>1, <3>1, AgentTextIs
    <3>3. Files(Put(tree, AgentFile(AgentDir, pass, w), AgentText(pass, w)))
      BY <1>0, <3>2, PutFiles
    <3> QED BY <1>0, <1>6, <3>3 DEF WriteAgent
  <2>3. CASE pc' = "idle"
    BY <1>0, <2>0, <2>2, <2>3 DEF Where
  <2>4. CASE pc' # "idle"
    <3>1. pc' = "agents" /\ agents' = Tail(agents) /\ pass' = pass /\ UNCHANGED <<cmd, project, runs>>
      BY <1>6, <2>0, <2>4 DEF WriteAgent, Ends
    <3>2. Writes(pass)' = Writes(pass)
      BY <3>1, SameNames
    <3> QED BY <1>0, <2>0, <2>1, <2>2, <3>1, <3>2 DEF Where
  <2> QED BY <2>3, <2>4
<1>7. CASE AgentsWritten
  BY <1>0, <1>7 DEF AgentsWritten, Where
<1>8. CASE Discard
  <2>1. Files(tree') /\ Files(before')
    BY <1>0, <1>8, DelFiles DEF Discard
  <2>2. Under(tree', ".claude") = {}
    BY <1>8 DEF Discard, Under, Del
  <2>3. pc = "discard" /\ pc' = "move" /\ agents' = agents /\ cmd' = cmd
    BY <1>8 DEF Discard
  <2> QED BY <1>0, <2>1, <2>2, <2>3 DEF Where
<1>9. CASE Move
  <2>1. Files(tree') /\ before' = before /\ pc = "move" /\ pc' = "index" /\ agents' = agents
    <3>1. Under(tree, ".claude") = {}
      BY <1>0, <1>9 DEF Where, Move
    <3> QED BY <1>0, <1>9, <3>1, MoveIs DEF Move
  <2> QED BY <1>0, <2>1 DEF Where
<1>10. CASE WriteIndex
  <2>1. Files(tree')
    <3>1. Files(Served(tree))
      BY <1>0, ServedFiles
    <3>2. Files(Served(Tooled(Indexed(tree))))
      BY <1>0, IndexedFiles, TooledFiles, ServedFiles
    <3> QED BY <1>10, <3>1, <3>2 DEF WriteIndex
  <2>2. before' = before /\ pc' = "pass" /\ pass' = pass + 1 /\ pc = "index" /\ cmd' = cmd
    BY <1>10 DEF WriteIndex
  <2>3. pass \in 1..Passes /\ Passes \in Nat /\ Passes' = Passes
    BY <1>0, <2>2, PassesIs DEF InPass, Passes, Single
  <2> QED BY <1>0, <2>1, <2>2, <2>3 DEF Where
<1>11. CASE Finish
  BY <1>0, <1>11 DEF Finish, Ends, Where
<1>12. CASE Die
  <2>1. Files(tree') /\ before' = before /\ pc' = "idle"
    BY <1>0, <1>12, DelFiles DEF Die, Ends
  <2> QED BY <1>0, <2>1 DEF Where
<1>13. CASE UNCHANGED vars
  <2>1. UNCHANGED <<cmd, project, runs>> /\ tree' = tree /\ before' = before /\ pc' = pc /\ pass' = pass /\ agents' = agents
    BY <1>13 DEF vars
  <2>2. Writes(pass)' = Writes(pass) /\ Passes' = Passes /\ Strategy' = Strategy
    BY <2>1, SameNames, SameRun
  <2> QED BY <1>0, <2>1, <2>2 DEF Where
<1> QED BY <1>1, <1>2, <1>3, <1>4, <1>5, <1>6, <1>7, <1>8, <1>9, <1>10, <1>11, <1>12, <1>13 DEF Next

(* What has an agent's name apart from a pass's is neither cleaned away nor *)
(* written over by it.                                                     *)
LEMMA ApartIs ==
  ASSUME cmd \in Commands, project \in Projects, pass \in 1..Passes, NEW f, NEW text, Agentlike(f, text),
         \A q \in Postfixes(pass) : Apart(text.postfix, q)
  PROVE  /\ Strategy = "per_variant" /\ ~Single => f \notin VariantArtifacts(Variant(pass).postfix)
         /\ \A w \in Writes(pass), dir \in AgentDirs : f # AgentFile(dir, pass, w)
<1>1. PICK twin \in BOOLEAN : f.stem = Stem(text.of, text.postfix, twin)
  BY DEF Agentlike
<1>2. text.of \in Slots /\ text.postfix \in Seq(STRING)
  BY DEF Agentlike
<1>3. ASSUME Strategy = "per_variant", ~Single, f \in VariantArtifacts(Variant(pass).postfix) PROVE FALSE
  <2> PICK q : q = Variant(pass).postfix
    OBVIOUS
  <2>1. q \in Postfixes(pass) /\ q # <<>> /\ IsSuffix(q, f.stem)
    BY <1>3 DEF Postfixes, VariantArtifacts
  <2>2. q \in Seq(STRING) /\ Apart(text.postfix, q)
    BY <2>1, PostfixesTyped
  <2>3. PlainName(q) /\ ~IsSuffix(q, text.postfix)
    BY <1>3, <2>1, <2>2 DEF Apart
  <2>4. IsSuffix(q, Stem(text.of, text.postfix, twin))
    BY <1>1, <2>1
  <2> QED BY <1>2, <2>2, <2>1, <2>3, <2>4, StemEnds
<1>4. ASSUME NEW w \in Writes(pass), NEW dir \in AgentDirs, f = AgentFile(dir, pass, w) PROVE FALSE
  <2>1. Postfix(pass, w.slot) \in Postfixes(pass) /\ w.twin \in BOOLEAN
    BY AgentTextIs DEF Writes
  <2>2. Postfix(pass, w.slot) \in Seq(STRING) /\ Apart(text.postfix, Postfix(pass, w.slot))
    BY <2>1, PostfixesTyped
  <2>3. f.stem = Stem(w.slot, Postfix(pass, w.slot), w.twin)
    BY <1>4, FileOfAgent, FileIs
  <2>4. PlainName(text.postfix) /\ PlainName(Postfix(pass, w.slot)) /\ text.postfix # Postfix(pass, w.slot)
    BY <2>2 DEF Apart
  <2>5. Stem(text.of, text.postfix, twin) = Stem(w.slot, Postfix(pass, w.slot), w.twin)
    BY <1>1, <2>3
  <2> QED BY <1>2, <2>1, <2>2, <2>4, <2>5, StemsDiffer
<1> QED BY <1>3, <1>4

LEMMA CopyKeeps ==
  ASSUME CopyScript, NEW f \in DOMAIN tree, NEW text, Agentlike(f, text)
  PROVE  f \in DOMAIN tree' /\ tree'[f] = tree[f]
<1>1. \A s : f # File("scripts", <<s>>)
  BY Elsewhere
<1>2. ASSUME NEW s, NEW u, u = Put(tree, File("scripts", <<s>>), SharedText(s, pass))
      PROVE  f \in DOMAIN u /\ u[f] = tree[f]
  BY <1>1, <1>2, PutIs
<1> QED BY <1>2 DEF CopyScript

LEMMA OrderKeeps ==
  ASSUME Order, NEW f \in DOMAIN tree, NEW text, Agentlike(f, text)
  PROVE  f \in DOMAIN tree' /\ tree'[f] = tree[f]
<1>1. f \in DOMAIN Tooled(tree) /\ Tooled(tree)[f] = tree[f]
  BY TooledIs
<1> QED BY <1>1 DEF Order

LEMMA CleanKeeps ==
  ASSUME StartPass, NEW f \in DOMAIN tree,
         Strategy = "per_variant" /\ ~Single => f \notin VariantArtifacts(Variant(pass).postfix)
  PROVE  f \in DOMAIN tree' /\ tree'[f] = tree[f]
<1>1. f \in DOMAIN Cleaned /\ Cleaned[f] = tree[f]
  BY DelIs DEF Cleaned
<1> QED BY <1>1 DEF StartPass

LEMMA WriteKeeps ==
  ASSUME WriteAgent, NEW f \in DOMAIN tree, f # AgentFile(AgentDir, pass, Head(agents))
  PROVE  f \in DOMAIN tree' /\ tree'[f] = tree[f]
<1>1. LET u == Put(tree, AgentFile(AgentDir, pass, Head(agents)), AgentText(pass, Head(agents)))
      IN  f \in DOMAIN u /\ u[f] = tree[f]
  BY PutIs
<1> QED BY <1>1 DEF WriteAgent

LEMMA IndexKeeps ==
  ASSUME WriteIndex, NEW f \in DOMAIN tree, NEW text, Agentlike(f, text)
  PROVE  f \in DOMAIN tree'
         /\ tree'[f] = IF cmd.dialect = "codex" /\ Native /\ f.dir = ".codex" THEN Marked(tree[f], TRUE) ELSE tree[f]
<1> PICK t, u : t = (IF cmd.dialect = "pi" THEN tree ELSE Tooled(u)) /\ u = Indexed(tree)
  OBVIOUS
<1>1. f \in DOMAIN u /\ u[f] = tree[f]
  BY IndexedIs
<1>2. f \in DOMAIN Tooled(u) /\ Tooled(u)[f] = u[f]
  BY <1>1, TooledIs
<1>3. f \in DOMAIN t /\ t[f] = tree[f]
  BY <1>1, <1>2
<1>4. tree' = Served(t)
  BY DEF WriteIndex
<1> QED BY <1>3, <1>4, ServedIs

(* Other variants' agents are kept.                                        *)
Spared(f) == f \in DOMAIN tree /\ Marked(tree[f], FALSE) = Marked(before[f], FALSE)

Foreign(f) == /\ f \in DOMAIN before /\ before[f].mode # "none"
              /\ \A i \in 1..Passes : \A q \in Postfixes(i) : Apart(before[f].postfix, q)

KeptInv == Strategy # "full" /\ cmd.dialect # "claude" => \A f : Foreign(f) => Spared(f)

LEMMA MarkedOver == \A text : DOMAIN text = TextFields => Marked(Marked(text, TRUE), FALSE) = Marked(text, FALSE)
  BY DEF Marked, TextFields

LEMMA KeptStep ==
  ASSUME FileInv, KeptInv, [Next]_vars
  PROVE  KeptInv'
<1>0. /\ LineInv /\ Files(tree) /\ Files(before) /\ Where
      /\ pc # "idle" => cmd \in Commands /\ project \in Projects
      /\ InPass => pass \in 1..Passes
      /\ pass \in Nat \ {0}
  BY DEF FileInv, LineInv
<1>1. CASE Run
  <2>1. tree' = tree /\ before' = tree
    BY <1>1 DEF Run
  <2>2. \A f : Foreign(f)' => Spared(f)'
    BY <2>1 DEF Foreign, Spared
  <2> QED BY <2>2 DEF KeptInv
<1>2. CASE UNCHANGED <<cmd, project, runs, before>> /\ ~Run
  <2> SUFFICES ASSUME Strategy # "full", cmd.dialect # "claude", NEW f, Foreign(f), Spared(f)
               PROVE  Spared(f)'
    <3>1. Strategy' = Strategy /\ cmd' = cmd
      BY <1>2 DEF Strategy
    <3>2. ASSUME NEW f, Foreign(f)' PROVE Foreign(f)
      <4>1. Passes' = Passes /\ \A i : Postfixes(i)' = Postfixes(i)
        BY <1>2, SameRun, SameNames
      <4>2. \A p, q : Apart(p, q)' <=> Apart(p, q)
        BY <1>2, SameNames
      <4> QED BY <1>2, <3>2, <4>1, <4>2 DEF Foreign
    <3> QED BY <3>1, <3>2 DEF KeptInv
  <2>1. /\ f \in DOMAIN tree /\ f \in DOMAIN before /\ DOMAIN tree[f] = TextFields /\ DOMAIN before[f] = TextFields
        /\ Agentlike(f, before[f]) /\ Marked(tree[f], FALSE) = Marked(before[f], FALSE)
    BY <1>0 DEF Foreign, Spared, Files
  <2> SUFFICES f \in DOMAIN tree' /\ (tree'[f] = tree[f] \/ tree'[f] = Marked(tree[f], TRUE))
    <3>1. Marked(Marked(tree[f], TRUE), FALSE) = Marked(tree[f], FALSE)
      BY <2>1, MarkedOver
    <3> QED BY <1>2, <2>1, <3>1 DEF Spared
  <2>2. ASSUME pass \in 1..Passes, pc # "idle"
        PROVE  /\ Strategy = "per_variant" /\ ~Single => f \notin VariantArtifacts(Variant(pass).postfix)
               /\ \A w \in Writes(pass), dir \in AgentDirs : f # AgentFile(dir, pass, w)
    <3>1. \A q \in Postfixes(pass) : Apart(before[f].postfix, q)
      BY <2>2 DEF Foreign
    <3> QED BY <1>0, <2>1, <2>2, <3>1, ApartIs
  <2>3. CASE PrepareTarget
    BY <1>0, <2>3 DEF PrepareTarget, Where
  <2>4. CASE StartPass
    <3>1. pass \in 1..Passes /\ pc # "idle"
      <4>1. pass <= Passes /\ pc = "pass" /\ cmd \in Commands
        BY <1>0, <2>4 DEF StartPass
      <4>2. Passes \in Nat
        BY <4>1, PassesIs
      <4> QED BY <1>0, <4>1, <4>2
    <3> QED BY <2>1, <2>2, <2>4, <3>1, CleanKeeps
  <2>5. CASE CopyScript
    BY <2>1, <2>5, CopyKeeps
  <2>6. CASE Order
    BY <2>1, <2>6, OrderKeeps
  <2>7. CASE WriteAgent
    <3>1. pc = "agents" /\ agents # <<>>
      BY <2>7 DEF WriteAgent
    <3>2. Head(agents) \in Writes(pass) /\ AgentDir \in AgentDirs /\ pass \in 1..Passes
      BY <1>0, <3>1, HeadIs, AgentDirIs DEF InPass
    <3>3. f # AgentFile(AgentDir, pass, Head(agents))
      BY <2>2, <3>1, <3>2
    <3> QED BY <2>1, <2>7, <3>3, WriteKeeps
  <2>8. CASE AgentsWritten \/ Finish
    BY <2>1, <2>8 DEF AgentsWritten, Finish
  <2>9. CASE Discard \/ Move
    BY <1>0, <2>9 DEF Discard, Move, Where
  <2>10. CASE WriteIndex
    BY <2>1, <2>10, IndexKeeps
  <2>11. CASE Die
    <3>1. pc \notin {"wipe", "discard"}
      BY <1>0, <2>11 DEF Where
    <3>2. PICK gone \in SUBSET {} : tree' = Del(tree, gone)
      BY <2>11, <3>1 DEF Die
    <3>3. f \notin gone
      BY <3>2
    <3> QED BY <2>1, <3>2, <3>3, DelIs
  <2>12. CASE UNCHANGED vars
    BY <2>1, <2>12 DEF vars
  <2> QED BY <1>2, <2>3, <2>4, <2>5, <2>6, <2>7, <2>8, <2>9, <2>10, <2>11, <2>12 DEF Next
<1>3. Run \/ UNCHANGED <<cmd, project, runs, before>>
  BY DEF Next, PrepareTarget, StartPass, CopyScript, Order, WriteAgent, AgentsWritten, Discard, Move, WriteIndex, Finish, Die, vars
<1> QED BY <1>1, <1>2, <1>3

-----------------------------------------------------------------------------
(* The agents a run has written so far.                                    *)
Moved == cmd.dialect = "claude" /\ (pc = "index" \/ pass > 1)

DirNow == IF Moved THEN ".claude" ELSE AgentDir

Written(i, w) == \/ i < pass
                 \/ /\ i = pass /\ pc \in {"agents", "discard", "move", "index"}
                    /\ \A n \in 1..Len(agents) : agents[n] # w

Registered(i) == cmd.native /\ cmd.dialect = "codex" /\ \E j \in i..pass - 1 : ToolScripts(j) # {}

Stands(i, w) == LET f == AgentFile(DirNow, i, w)
                IN  f \in DOMAIN tree /\ tree[f] = Marked(AgentText(i, w), Registered(i))

Fits == NamesApart /\ (cmd.dialect = "claude" => Passes = 1)

Standing == pc \notin {"idle", "wipe"} /\ Fits =>
              \A i \in 1..Passes : \A w \in Writes(i) : Written(i, w) => Stands(i, w)

LEMMA DirNowIs ==
  ASSUME cmd \in Commands
  PROVE  DirNow \in AgentDirs
  BY AgentDirIs DEF DirNow, AgentDirs

LEMMA SameFile ==
  ASSUME UNCHANGED <<cmd, project, runs>>
  PROVE  \A dir, i, w : AgentFile(dir, i, w)' = AgentFile(dir, i, w)
  BY SameRun DEF AgentFile

(* What stays where it is.                                                 *)
LEMMA StandsStill ==
  ASSUME UNCHANGED <<cmd, project, runs>>, NEW i, NEW w, DirNow' = DirNow, Registered(i)' = Registered(i),
         LET f == AgentFile(DirNow, i, w) IN f \in DOMAIN tree' /\ tree'[f] = Marked(AgentText(i, w), Registered(i))
  PROVE  Stands(i, w)'
<1>1. AgentFile(DirNow, i, w)' = AgentFile(DirNow, i, w)
  <2> PICK d : d = DirNow
    OBVIOUS
  <2>1. AgentFile(d, i, w)' = AgentFile(d, i, w)
    BY SameFile
  <2>2. DirNow' = d
    OBVIOUS
  <2>3. AgentFile(DirNow, i, w)' = AgentFile(d, i, w)
    BY <2>1, <2>2, SameRun DEF AgentFile
  <2> QED BY <2>3
<1>2. AgentText(i, w)' = AgentText(i, w)
  BY SameRun
<1>3. Marked(AgentText(i, w), Registered(i))' = Marked(AgentText(i, w), Registered(i))
  BY <1>2 DEF Marked
<1> QED BY <1>1, <1>3 DEF Stands

LEMMA SamePass ==
  ASSUME cmd \in Commands, project \in Projects, NEW i \in 1..Passes, NEW w \in Writes(i), NEW w2 \in Writes(i),
         NEW dir, NEW dir2, AgentFile(dir, i, w) = AgentFile(dir2, i, w2)
  PROVE  w = w2
<1>1. w = [slot |-> w.slot, twin |-> w.twin] /\ w2 = [slot |-> w2.slot, twin |-> w2.twin]
      /\ w.twin \in BOOLEAN /\ w2.twin \in BOOLEAN
  BY DEF Writes
<1>2. Stem(w.slot, Postfix(i, w.slot), w.twin) = Stem(w2.slot, Postfix(i, w2.slot), w2.twin)
  BY FileOfAgent DEF File
<1>3. \A s : Postfix(i, s) \in Seq(STRING)
  BY PostfixesTyped
<1> PICK p, q : p = Postfix(i, w.slot) /\ q = Postfix(i, w2.slot)
  OBVIOUS
<1>4. /\ Len(p) \in Nat /\ Len(Stem(w.slot, p, w.twin)) = StemLen(p, w.twin) /\ Stem(w.slot, p, w.twin)[1] = w.slot
      /\ Len(q) \in Nat /\ Len(Stem(w2.slot, q, w2.twin)) = StemLen(q, w2.twin) /\ Stem(w2.slot, q, w2.twin)[1] = w2.slot
  BY <1>1, <1>3, StemIs
<1>5. w.slot = w2.slot /\ p = q
  BY <1>2, <1>4
<1>6. StemLen(p, w.twin) = StemLen(p, w2.twin)
  BY <1>2, <1>4, <1>5
<1>7. w.twin <=> w2.twin
  BY <1>4, <1>6 DEF StemLen
<1>8. w.twin = w2.twin
  BY <1>1, <1>7
<1> QED BY <1>1, <1>5, <1>8

LEMMA AgentsFile ==
  ASSUME cmd \in Commands, project \in Projects, NEW i \in 1..Passes, NEW w \in Writes(i)
  PROVE  Agentlike(AgentFile(DirNow, i, w), AgentText(i, w))
  BY DirNowIs, AgentTextIs

(* A step within a pass that moves nothing and lists no agent anew.        *)
LEMMA PassGoesOn ==
  ASSUME FileInv, Standing, UNCHANGED <<cmd, project, runs, pass>>, pc \notin {"idle", "wipe"},
         DirNow' = DirNow,
         \A i \in 1..Passes : \A w \in Writes(i) : Written(i, w)' /\ Fits =>
            /\ Written(i, w)
            /\ Stands(i, w) => LET f == AgentFile(DirNow, i, w) IN f \in DOMAIN tree' /\ tree'[f] = tree[f]
  PROVE  Standing'
<1> SUFFICES ASSUME Fits', NEW i \in (1..Passes)', NEW w \in Writes(i)', Written(i, w)'
             PROVE  Stands(i, w)'
  BY DEF Standing
<1>1. Fits
  BY SameNames, SameRun DEF Fits
<1>2. i \in 1..Passes /\ w \in Writes(i)
  BY SameNames, SameRun
<1>3. Written(i, w) /\ Stands(i, w)
  BY <1>1, <1>2 DEF Standing
<1>4. LET f == AgentFile(DirNow, i, w) IN f \in DOMAIN tree' /\ tree'[f] = tree[f]
  BY <1>1, <1>2, <1>3
<1>5. Registered(i)' = Registered(i)
  BY SameRun DEF Registered
<1>6. LET f == AgentFile(DirNow, i, w) IN f \in DOMAIN tree' /\ tree'[f] = Marked(AgentText(i, w), Registered(i))
  BY <1>3, <1>4 DEF Stands
<1> QED BY <1>5, <1>6, StandsStill

LEMMA DirStays ==
  ASSUME UNCHANGED <<cmd, pass>>, cmd.dialect = "claude" => (pc = "index" <=> pc' = "index")
  PROVE  DirNow' = DirNow
<1>1. AgentDir' = AgentDir
  BY DEF AgentDir
<1>2. Moved' <=> Moved
  BY DEF Moved
<1> QED BY <1>1, <1>2 DEF DirNow

LEMMA MarkedSame ==
  ASSUME NEW t, t = [x \in TextFields |-> t[x]], t.served = FALSE
  PROVE  Marked(t, FALSE) = t
  BY DEF Marked, TextFields

LEMMA AgentTextUnmarked == \A i, w : Marked(AgentText(i, w), FALSE) = AgentText(i, w)
<1> TAKE i, w
<1> PICK o, r, p, m, md, t :
                       /\ o = w.slot /\ r = runs /\ p = Postfix(i, w.slot) /\ m = Model(i, w.slot)
                       /\ md = (IF w.twin \/ w.slot = "primary" THEN "primary" ELSE "subagent")
                       /\ t = AgentText(i, w)
  OBVIOUS
<1>1. t = [of |-> o, run |-> r, postfix |-> p, model |-> m, served |-> FALSE, mode |-> md]
  BY DEF AgentText
<1>2. t = [x \in TextFields |-> t[x]] /\ t.served = FALSE
  BY <1>1 DEF TextFields
<1>3. Marked(t, FALSE) = t
  BY <1>2, MarkedSame
<1> QED BY <1>3

LEMMA StandsCleaned ==
  ASSUME FileInv, Standing, StartPass, pc' # "idle"
  PROVE  Standing'
<1>0. /\ pc = "pass" /\ pc' = "scripts" /\ UNCHANGED <<cmd, project, runs, pass>> /\ pass <= Passes
      /\ cmd \in Commands /\ project \in Projects /\ pass \in Nat \ {0} /\ Passes \in Nat
  <2>1. pc = "pass" /\ pc' = "scripts" /\ UNCHANGED <<cmd, project, runs, pass>> /\ pass <= Passes
    BY DEF StartPass, Ends
  <2>2. cmd \in Commands /\ project \in Projects /\ pass \in Nat \ {0}
    BY <2>1 DEF FileInv, LineInv
  <2> QED BY <2>1, <2>2, PassesIs
<1>p. pass \in 1..Passes
  BY <1>0
<1>1. DirNow' = DirNow
  BY <1>0, DirStays
<1>2. ASSUME NEW i \in 1..Passes, NEW w \in Writes(i), Written(i, w)', Fits
      PROVE  /\ Written(i, w)
             /\ Stands(i, w) => LET f == AgentFile(DirNow, i, w) IN f \in DOMAIN tree' /\ tree'[f] = tree[f]
  <2>1. i < pass
    BY <1>0, <1>2 DEF Written
  <2>2. Written(i, w)
    BY <2>1 DEF Written
  <2>3. \A q \in Postfixes(pass) : Apart(AgentText(i, w).postfix, q)
    <3>1. AgentText(i, w).postfix = Postfix(i, w.slot) /\ w.slot \in SlotsOf(i)
      BY <1>0, DirNowIs, AgentTextIs DEF Writes
    <3> QED BY <1>2, <1>p, <2>1, <3>1 DEF Fits, NamesApart
  <2>4. Agentlike(AgentFile(DirNow, i, w), AgentText(i, w))
    BY <1>0, AgentsFile
  <2>5. Strategy = "per_variant" /\ ~Single => AgentFile(DirNow, i, w) \notin VariantArtifacts(Variant(pass).postfix)
    BY <1>0, <1>p, <2>3, <2>4, ApartIs
  <2>6. ASSUME Stands(i, w)
        PROVE  LET f == AgentFile(DirNow, i, w) IN f \in DOMAIN tree' /\ tree'[f] = tree[f]
    <3>1. AgentFile(DirNow, i, w) \in DOMAIN tree
      BY <2>6 DEF Stands
    <3> QED BY <2>5, <3>1, CleanKeeps
  <2> QED BY <2>2, <2>6
<1> QED BY <1>0, <1>1, <1>2, PassGoesOn

LEMMA StandsCopied ==
  ASSUME FileInv, Standing, CopyScript \/ Order, pc' # "idle"
  PROVE  Standing'
<1>0. /\ pc = "scripts" /\ UNCHANGED <<cmd, project, runs, pass>> /\ pass \in 1..Passes
      /\ cmd \in Commands /\ project \in Projects
      /\ \/ pc' = "scripts" /\ CopyScript
         \/ pc' = "agents" /\ agents' = AgentWrites(pass) /\ ~Cyclic(pass) /\ Order
  <2>1. /\ pc = "scripts" /\ UNCHANGED <<cmd, project, runs, pass>>
        /\ \/ pc' = "scripts" /\ CopyScript
           \/ pc' = "agents" /\ agents' = AgentWrites(pass) /\ ~Cyclic(pass) /\ Order
    BY DEF CopyScript, Order, Ends
  <2> QED BY <2>1 DEF FileInv, LineInv, InPass
<1>1. DirNow' = DirNow
  BY <1>0, DirStays
<1>2. ASSUME NEW i \in 1..Passes, NEW w \in Writes(i), Written(i, w)', Fits
      PROVE  /\ Written(i, w)
             /\ Stands(i, w) => LET f == AgentFile(DirNow, i, w) IN f \in DOMAIN tree' /\ tree'[f] = tree[f]
  <2>1. Written(i, w)
    <3>1. CASE i < pass
      BY <3>1 DEF Written
    <3>2. CASE ~(i < pass)
      <4>1. i = pass /\ pc' = "agents" /\ \A n \in 1..Len(agents') : agents'[n] # w
        BY <1>0, <1>2, <3>2 DEF Written
      <4>2. agents' = AgentWrites(i) /\ ~Cyclic(i)
        BY <1>0, <4>1
      <4> QED BY <1>0, <4>1, <4>2, WritesOrdered
    <3> QED BY <3>1, <3>2
  <2>2. Agentlike(AgentFile(DirNow, i, w), AgentText(i, w))
    BY <1>0, AgentsFile
  <2>3. ASSUME Stands(i, w)
        PROVE  LET f == AgentFile(DirNow, i, w) IN f \in DOMAIN tree' /\ tree'[f] = tree[f]
    <3>1. AgentFile(DirNow, i, w) \in DOMAIN tree
      BY <2>3 DEF Stands
    <3> QED BY <1>0, <2>2, <3>1, CopyKeeps, OrderKeeps
  <2> QED BY <2>1, <2>3
<1> QED BY <1>0, <1>1, <1>2, PassGoesOn

LEMMA StandsWritten ==
  ASSUME FileInv, Standing, WriteAgent, pc' # "idle"
  PROVE  Standing'
<1>0. /\ pc = "agents" /\ pc' = "agents" /\ agents # <<>> /\ agents' = Tail(agents)
      /\ UNCHANGED <<cmd, project, runs, pass>> /\ pass \in 1..Passes
      /\ cmd \in Commands /\ project \in Projects
      /\ tree' = Put(tree, AgentFile(AgentDir, pass, Head(agents)), AgentText(pass, Head(agents)))
  <2>1. /\ pc = "agents" /\ pc' = "agents" /\ agents # <<>> /\ agents' = Tail(agents)
        /\ UNCHANGED <<cmd, project, runs, pass>>
        /\ tree' = Put(tree, AgentFile(AgentDir, pass, Head(agents)), AgentText(pass, Head(agents)))
    BY DEF WriteAgent, Ends
  <2> QED BY <2>1 DEF FileInv, LineInv, InPass
<1> PICK a : a = Head(agents)
  OBVIOUS
<1>1. DirNow' = DirNow
  BY <1>0, DirStays
<1>2. /\ a \in Writes(pass) /\ Len(agents) \in Nat /\ Len(agents) > 0 /\ a = agents[1] /\ Len(agents') = Len(agents) - 1
      /\ \A n \in 1..Len(agents') : agents'[n] = agents[n + 1]
  BY <1>0, HeadIs
<1>3. Fits => DirNow = AgentDir
  BY <1>0 DEF Fits, DirNow, Moved
<1> SUFFICES ASSUME Fits', NEW i \in (1..Passes)', NEW w \in Writes(i)', Written(i, w)'
             PROVE  Stands(i, w)'
  BY DEF Standing
<1>4. Fits
  BY <1>0, SameNames, SameRun DEF Fits
<1>5. i \in 1..Passes /\ w \in Writes(i)
  BY <1>0, SameNames, SameRun
<1>6. Registered(i)' = Registered(i)
  BY <1>0, SameRun DEF Registered
<1>7. CASE i = pass /\ w = a
  <2>1. Registered(i) = FALSE
    BY <1>0, <1>7 DEF Registered
  <2>2. Marked(AgentText(i, w), FALSE) = AgentText(i, w)
    BY AgentTextUnmarked
  <2>3. Marked(AgentText(i, w), Registered(i)) = AgentText(i, w)
    BY <2>1, <2>2
  <2>4. tree' = Put(tree, AgentFile(DirNow, i, w), AgentText(i, w))
    BY <1>0, <1>3, <1>4, <1>7
  <2>5. LET f == AgentFile(DirNow, i, w) IN f \in DOMAIN tree' /\ tree'[f] = AgentText(i, w)
    BY <2>4 DEF Put
  <2> QED BY <1>0, <1>1, <1>6, <2>3, <2>5, StandsStill
<1>8. CASE ~(i = pass /\ w = a)
  <2>1. Written(i, w)
    <3>1. CASE i < pass
      BY <3>1 DEF Written
    <3>2. CASE ~(i < pass)
      <4>1. i = pass /\ \A n \in 1..Len(agents') : agents'[n] # w
        BY <1>0, <3>2 DEF Written
      <4>2. ASSUME NEW n \in 1..Len(agents) PROVE agents[n] # w
        <5>1. CASE n = 1
          BY <1>2, <1>8, <4>1, <5>1
        <5>2. CASE n # 1
          <6> PICK m : m = n - 1
            OBVIOUS
          <6>1. m \in 1..Len(agents') /\ m + 1 = n
            BY <1>2, <5>2
          <6> QED BY <1>2, <4>1, <6>1
        <5> QED BY <5>1, <5>2
      <4> QED BY <1>0, <4>1, <4>2 DEF Written
    <3> QED BY <3>1, <3>2
  <2>2. Stands(i, w)
    BY <1>0, <1>4, <1>5, <2>1 DEF Standing
  <2>3. AgentFile(DirNow, i, w) # AgentFile(AgentDir, pass, a)
    <3>1. CASE i = pass
      BY <1>0, <1>2, <1>5, <1>8, <3>1, SamePass
    <3>2. CASE i # pass
      <4>1. i < pass
        BY <2>1, <3>2 DEF Written
      <4>2. \A q \in Postfixes(pass) : Apart(AgentText(i, w).postfix, q)
        <5>1. AgentText(i, w).postfix = Postfix(i, w.slot) /\ w.slot \in SlotsOf(i)
          BY <1>0, <1>5, DirNowIs, AgentTextIs DEF Writes
        <5> QED BY <1>0, <1>4, <1>5, <4>1, <5>1 DEF Fits, NamesApart
      <4>3. Agentlike(AgentFile(DirNow, i, w), AgentText(i, w))
        BY <1>0, <1>5, AgentsFile
      <4>4. AgentDir \in AgentDirs
        BY <1>0, AgentDirIs
      <4> QED BY <1>0, <1>2, <4>2, <4>3, <4>4, ApartIs
    <3> QED BY <3>1, <3>2
  <2>4. LET f == AgentFile(DirNow, i, w) IN f \in DOMAIN tree' /\ tree'[f] = Marked(AgentText(i, w), Registered(i))
    <3>1. AgentFile(DirNow, i, w) \in DOMAIN tree
      BY <2>2 DEF Stands
    <3>2. LET f == AgentFile(DirNow, i, w) IN f \in DOMAIN tree' /\ tree'[f] = tree[f]
      BY <2>3, <3>1, WriteKeeps
    <3> QED BY <2>2, <3>2 DEF Stands
  <2> QED BY <1>0, <1>1, <1>6, <2>4, StandsStill
<1> QED BY <1>7, <1>8

LEMMA StandsListed ==
  ASSUME FileInv, Standing, AgentsWritten \/ Discard
  PROVE  Standing'
<1>0. /\ UNCHANGED <<cmd, project, runs, pass, agents>> /\ pc \in {"agents", "discard"} /\ agents = <<>> /\ pass \in 1..Passes
      /\ cmd \in Commands /\ project \in Projects
      /\ pc' \in {"discard", "move", "index"}
      /\ pc' = "index" => tree' = tree /\ (cmd.dialect = "claude" => Under(tree, ".opencode") = {})
      /\ tree' = tree \/ (tree' = Del(tree, Under(tree, ".claude")) /\ cmd.dialect = "claude")
  <2>1. /\ UNCHANGED <<cmd, project, runs, pass, agents>> /\ pc \in {"agents", "discard"} /\ agents = <<>>
        /\ pc' \in {"discard", "move", "index"}
        /\ pc' = "index" => tree' = tree /\ (cmd.dialect = "claude" => Under(tree, ".opencode") = {})
        /\ tree' = tree \/ (tree' = Del(tree, Under(tree, ".claude")) /\ cmd.dialect = "claude")
    BY DEF AgentsWritten, Discard, FileInv, Where
  <2> QED BY <2>1 DEF FileInv, LineInv, InPass
<1>e. Len(agents) = 0
  BY <1>0
<1>1. ASSUME NEW i \in 1..Passes, NEW w \in Writes(i), Written(i, w)' PROVE Written(i, w)
  BY <1>0, <1>e, <1>1 DEF Written
<1>2. CASE cmd.dialect = "claude" /\ Fits
  <2>1. pass = 1 /\ Passes = 1 /\ DirNow = ".opencode"
    BY <1>0, <1>2 DEF Fits, DirNow, Moved, AgentDir
  <2>2. \A i \in 1..Passes : \A w \in Writes(i) : Stands(i, w)
    <3>1. \A i \in 1..Passes : \A w \in Writes(i) : Written(i, w)
      BY <1>0, <1>e, <2>1 DEF Written
    <3> QED BY <1>0, <1>2, <3>1 DEF Standing
  <2>3. \A i \in 1..Passes : \A w \in Writes(i) : AgentFile(DirNow, i, w) \in Under(tree, ".opencode")
    BY <2>1, <2>2, FileOfAgent, FileIs DEF Stands, Under
  <2>4. CASE pc' = "index"
    <3>1. \A i \in 1..Passes : Writes(i) = {}
      BY <1>0, <1>2, <2>3, <2>4
    <3>2. \A i \in (1..Passes)' : Writes(i)' = {}
      BY <1>0, <3>1, SameNames, SameRun
    <3> QED BY <3>2 DEF Standing
  <2>5. CASE pc' # "index"
    <3>1. DirNow' = DirNow
      BY <1>0, <2>5, DirStays
    <3>2. ASSUME NEW i \in 1..Passes, NEW w \in Writes(i), Stands(i, w)
          PROVE  LET f == AgentFile(DirNow, i, w) IN f \in DOMAIN tree' /\ tree'[f] = tree[f]
      <4>1. AgentFile(DirNow, i, w) \in DOMAIN tree /\ AgentFile(DirNow, i, w).dir = ".opencode"
        BY <2>1, <3>2, FileOfAgent, FileIs DEF Stands
      <4>2. AgentFile(DirNow, i, w) \notin Under(tree, ".claude")
        BY <4>1 DEF Under
      <4> QED BY <1>0, <4>1, <4>2, DelIs
    <3> QED BY <1>0, <1>1, <3>1, <3>2, PassGoesOn
  <2> QED BY <2>4, <2>5
<1>3. CASE ~(cmd.dialect = "claude" /\ Fits)
  <2>1. CASE ~Fits
    <3>1. ~Fits'
      BY <1>0, <2>1, SameNames, SameRun DEF Fits
    <3> QED BY <3>1 DEF Standing
  <2>2. CASE cmd.dialect # "claude"
    <3>1. DirNow' = DirNow
      BY <1>0, <2>2, DirStays
    <3>2. tree' = tree
      BY <1>0, <2>2
    <3>3. ASSUME NEW i \in 1..Passes, NEW w \in Writes(i), Stands(i, w)
          PROVE  LET f == AgentFile(DirNow, i, w) IN f \in DOMAIN tree' /\ tree'[f] = tree[f]
      BY <3>2, <3>3 DEF Stands
    <3> QED BY <1>0, <1>1, <3>1, <3>3, PassGoesOn
  <2> QED BY <1>3, <2>1, <2>2
<1> QED BY <1>2, <1>3

LEMMA StandsMoved ==
  ASSUME FileInv, Standing, Move
  PROVE  Standing'
<1>0. /\ pc = "move" /\ pc' = "index" /\ UNCHANGED <<cmd, project, runs, pass, agents>> /\ agents = <<>>
      /\ pass \in 1..Passes /\ cmd \in Commands /\ project \in Projects /\ cmd.dialect = "claude"
      /\ Files(tree) /\ Under(tree, ".claude") = {}
  <2>1. pc = "move" /\ pc' = "index" /\ UNCHANGED <<cmd, project, runs, pass, agents>>
    BY DEF Move
  <2> QED BY <2>1 DEF FileInv, LineInv, InPass, Where
<1> SUFFICES ASSUME Fits', NEW i \in (1..Passes)', NEW w \in Writes(i)', Written(i, w)'
             PROVE  Stands(i, w)'
  BY DEF Standing
<1>1. Fits
  BY <1>0, SameNames, SameRun DEF Fits
<1>2. i \in 1..Passes /\ w \in Writes(i)
  BY <1>0, SameNames, SameRun
<1>3. pass = 1 /\ Passes = 1 /\ i = 1
  BY <1>0, <1>1, <1>2 DEF Fits
<1>4. DirNow = ".opencode" /\ DirNow' = ".claude"
  BY <1>0, <1>3 DEF DirNow, Moved, AgentDir
<1>5. Stands(i, w)
  <2>1. Written(i, w)
    <3>1. Len(agents) = 0
      BY <1>0
    <3> QED BY <1>0, <1>3, <3>1 DEF Written
  <2> QED BY <1>0, <1>1, <1>2, <2>1 DEF Standing
<1> PICK stem : stem = Stem(w.slot, Postfix(i, w.slot), w.twin)
  OBVIOUS
<1>6. AgentFile(".opencode", i, w) = File(".opencode", stem) /\ AgentFile(".claude", i, w) = File(".claude", stem)
  BY FileOfAgent
<1>7. /\ AgentFile(".claude", i, w) \in DOMAIN tree'
      /\ tree'[AgentFile(".claude", i, w)] = tree[AgentFile(".opencode", i, w)]
  <2>1. File(".opencode", stem) \in DOMAIN tree
    BY <1>4, <1>5, <1>6 DEF Stands
  <2> QED BY <1>0, <1>6, <2>1, MoveIs
<1>8. Registered(i)' = Registered(i)
  BY <1>0, SameRun DEF Registered
<1>9. AgentText(i, w)' = AgentText(i, w)
  BY <1>0, SameRun
<1>10. AgentFile(DirNow, i, w)' = AgentFile(".claude", i, w)
  <2>1. AgentFile(".claude", i, w)' = AgentFile(".claude", i, w)
    BY <1>0, SameFile
  <2> QED BY <1>4, <2>1 DEF AgentFile
<1>11. tree[AgentFile(".opencode", i, w)] = Marked(AgentText(i, w), Registered(i))
  BY <1>4, <1>5 DEF Stands
<1>12. Marked(AgentText(i, w), Registered(i))' = Marked(AgentText(i, w), Registered(i))
  BY <1>8, <1>9 DEF Marked
<1> QED BY <1>7, <1>10, <1>11, <1>12 DEF Stands

LEMMA StandsIndexed ==
  ASSUME FileInv, Standing, WriteIndex
  PROVE  Standing'
<1>0. /\ pc = "index" /\ pc' = "pass" /\ pass' = pass + 1 /\ UNCHANGED <<cmd, project, runs, agents>> /\ agents = <<>>
      /\ pass \in 1..Passes /\ cmd \in Commands /\ project \in Projects /\ pass \in Nat \ {0}
  <2>1. pc = "index" /\ pc' = "pass" /\ pass' = pass + 1 /\ UNCHANGED <<cmd, project, runs, agents>>
    BY DEF WriteIndex
  <2> QED BY <2>1 DEF FileInv, LineInv, InPass, Where
<1> SUFFICES ASSUME Fits', NEW i \in (1..Passes)', NEW w \in Writes(i)', Written(i, w)'
             PROVE  Stands(i, w)'
  BY DEF Standing
<1>1. Fits
  BY <1>0, SameNames, SameRun DEF Fits
<1>2. i \in 1..Passes /\ w \in Writes(i)
  BY <1>0, SameNames, SameRun
<1>3. i \in 1..pass
  BY <1>0, <1>2 DEF Written
<1>4. DirNow' = DirNow
  <2>1. AgentDir' = AgentDir
    BY <1>0, SameRun
  <2>2. Moved' <=> Moved
    BY <1>0 DEF Moved
  <2> QED BY <2>1, <2>2 DEF DirNow
<1>5. Stands(i, w)
  <2>1. Len(agents) = 0
    BY <1>0
  <2>2. Written(i, w)
    BY <1>0, <1>3, <2>1 DEF Written
  <2> QED BY <1>0, <1>1, <1>2, <2>2 DEF Standing
<1> PICK f, t : f = AgentFile(DirNow, i, w) /\ t = AgentText(i, w)
  OBVIOUS
<1>6. f \in DOMAIN tree /\ tree[f] = Marked(t, Registered(i)) /\ Agentlike(f, t) /\ DOMAIN t = TextFields
  BY <1>0, <1>2, <1>5, AgentsFile, DirNowIs, AgentTextIs DEF Stands
<1>7. f.dir = ".codex" <=> cmd.dialect = "codex"
  <2>1. f.dir = DirNow
    BY FileOfAgent, FileIs
  <2>2. DirNow = ".codex" <=> cmd.dialect = "codex"
    <3>1. cmd.dialect \in Dialects
      BY <1>0, CompileAssumption
    <3> QED BY <3>1 DEF DirNow, Moved, AgentDir, Dialects
  <2> QED BY <2>1, <2>2
<1>8. f \in DOMAIN tree'
      /\ tree'[f] = IF cmd.dialect = "codex" /\ Native /\ f.dir = ".codex" THEN Marked(tree[f], TRUE) ELSE tree[f]
  BY <1>6, IndexKeeps
<1>9. AgentFile(DirNow, i, w)' = f
  <2> PICK d : d = DirNow
    OBVIOUS
  <2>2. AgentFile(d, i, w)' = AgentFile(d, i, w)
    BY <1>0, SameFile
  <2> QED BY <1>4, <2>2, SameRun, <1>0 DEF AgentFile
<1>10. AgentText(i, w)' = t
  BY <1>0, SameRun
<1>11. tree'[f] = Marked(t, Registered(i)')
  <2>1. CASE cmd.dialect = "codex" /\ Native
    <3>1. ToolScripts(pass) # {} /\ cmd.native
      BY <2>1 DEF Native
    <3>2. Registered(i)' = TRUE
      <4> PICK last : last = pass
        OBVIOUS
      <4>1. last \in i..pass' - 1 /\ ToolScripts(last)' # {}
        BY <1>0, <1>3, <3>1, SameRun
      <4> QED BY <1>0, <2>1, <3>1, <4>1 DEF Registered
    <3>3. Marked(Marked(t, Registered(i)), TRUE) = Marked(t, TRUE)
      <4> PICK b : b = Registered(i)
        OBVIOUS
      <4>1. Marked(Marked(t, b), TRUE) = Marked(t, TRUE)
        BY <1>6 DEF Marked, TextFields
      <4> QED BY <4>1
    <3> QED BY <1>6, <1>7, <1>8, <2>1, <3>2, <3>3
  <2>2. CASE ~(cmd.dialect = "codex" /\ Native)
    <3>1. Registered(i)' = Registered(i)
      <4>1. Registered(i)' <=> Registered(i)
        <5>1. (cmd.native /\ cmd.dialect = "codex") => ToolScripts(pass) = {}
          BY <2>2 DEF Native
        <5>2. \A j : ToolScripts(j)' = ToolScripts(j)
          BY <1>0, SameRun
        <5>3. ASSUME NEW j \in i..pass' - 1, ToolScripts(j) # {}, cmd.native, cmd.dialect = "codex" PROVE j \in i..pass - 1
          BY <1>0, <1>3, <5>1, <5>3
        <5>4. \A j \in i..pass - 1 : j \in i..pass' - 1
          BY <1>0, <1>3
        <5> QED BY <1>0, <5>2, <5>3, <5>4 DEF Registered
      <4> QED BY <4>1 DEF Registered
    <3> QED BY <1>6, <1>8, <2>2, <3>1
  <2> QED BY <2>1, <2>2
<1>12. Marked(AgentText(i, w), Registered(i))' = Marked(t, Registered(i)')
  BY <1>10 DEF Marked
<1> QED BY <1>8, <1>9, <1>11, <1>12 DEF Stands

LEMMA StandingStep ==
  ASSUME FileInv, Standing, [Next]_vars
  PROVE  Standing'
<1>1. CASE pc' \in {"idle", "wipe"}
  BY <1>1 DEF Standing
<1>2. CASE pc' \notin {"idle", "wipe"}
  <2>1. CASE Run \/ PrepareTarget
    <3>1. pass' = 1 /\ pc' = "pass"
      BY <1>2, <2>1 DEF Run, PrepareTarget, Ends, FileInv, LineInv, Where
    <3>2. \A i, w : i \in (1..Passes)' => ~Written(i, w)'
      BY <3>1 DEF Written
    <3> QED BY <3>2 DEF Standing
  <2>2. CASE StartPass
    BY <1>2, <2>2, StandsCleaned
  <2>3. CASE CopyScript \/ Order
    BY <1>2, <2>3, StandsCopied
  <2>4. CASE WriteAgent
    BY <1>2, <2>4, StandsWritten
  <2>5. CASE AgentsWritten \/ Discard
    BY <2>5, StandsListed
  <2>6. CASE Move
    BY <2>6, StandsMoved
  <2>7. CASE WriteIndex
    BY <2>7, StandsIndexed
  <2>8. CASE Finish \/ Die
    BY <1>2, <2>8 DEF Finish, Die, Ends
  <2>9. CASE UNCHANGED vars
    <3>1. UNCHANGED <<cmd, project, runs, pass, pc, tree, agents>>
      BY <2>9 DEF vars
    <3>2. DirNow' = DirNow
      BY <3>1, DirStays
    <3>3. ASSUME NEW i, NEW w, Written(i, w)' PROVE Written(i, w)
      BY <3>1, <3>3 DEF Written
    <3>4. ASSUME NEW i, NEW w, Stands(i, w)
          PROVE  LET f == AgentFile(DirNow, i, w) IN f \in DOMAIN tree' /\ tree'[f] = tree[f]
      BY <3>1, <3>4 DEF Stands
    <3> QED BY <1>2, <3>1, <3>2, <3>3, <3>4, PassGoesOn
  <2> QED BY <2>1, <2>2, <2>3, <2>4, <2>5, <2>6, <2>7, <2>8, <2>9 DEF Next
<1> QED BY <1>1, <1>2

LEMMA BesideSame ==
  ASSUME UNCHANGED <<cmd, project, runs, tree>>, Beside
  PROVE  Beside'
<1> SUFFICES ASSUME NEW i \in (1..Passes)', NEW slot \in SlotsOf(i)',
                    NEW twin \in ({FALSE} \cup (IF HasTwin(i, slot) THEN {TRUE} ELSE {}))'
             PROVE  (LET w == [slot |-> slot, twin |-> twin]
                         f == AgentFile(FinalDir, i, w)
                         registered == /\ cmd.native /\ cmd.dialect = "codex"
                                       /\ \E j \in i..Passes : ToolScripts(j) # {}
                     IN  /\ f \in DOMAIN tree
                         /\ tree[f] = [AgentText(i, w) EXCEPT !.served = registered])'
  BY DEF Beside
<1> PICK w : w = [slot |-> slot, twin |-> twin]
  OBVIOUS
<1> DEFINE registered == /\ cmd.native /\ cmd.dialect = "codex"
                         /\ \E j \in i..Passes : ToolScripts(j) # {}
           f == AgentFile(FinalDir, i, w)
<1>1. i \in 1..Passes /\ slot \in SlotsOf(i) /\ twin \in {FALSE} \cup (IF HasTwin(i, slot) THEN {TRUE} ELSE {})
  BY SameRun
<1>2. f \in DOMAIN tree /\ tree[f] = [AgentText(i, w) EXCEPT !.served = registered]
  <2> DEFINE v == [slot |-> slot, twin |-> twin]
  <2>1. /\ AgentFile(FinalDir, i, v) \in DOMAIN tree
        /\ tree[AgentFile(FinalDir, i, v)]
             = [AgentText(i, v) EXCEPT !.served = /\ cmd.native /\ cmd.dialect = "codex"
                                                  /\ \E j \in i..Passes : ToolScripts(j) # {}]
    BY <1>1, ZenonT(30) DEF Beside
  <2>2. v = w
    OBVIOUS
  <2> HIDE DEF v
  <2>3. /\ AgentFile(FinalDir, i, w) \in DOMAIN tree
        /\ tree[AgentFile(FinalDir, i, w)]
             = [AgentText(i, w) EXCEPT !.served = /\ cmd.native /\ cmd.dialect = "codex"
                                                  /\ \E j \in i..Passes : ToolScripts(j) # {}]
    BY <2>1, <2>2, ZenonT(30)
  <2> QED BY <2>3
<1>3. AgentText(i, w)' = AgentText(i, w)
  BY SameRun
<1>4. registered' = registered
  <2>1. Passes' = Passes /\ \A j : ToolScripts(j)' = ToolScripts(j)
    BY SameRun
  <2>2. registered' <=> registered
    BY <2>1
  <2> QED BY <2>2
<1>5. f' = f
  <2> PICK d : d = FinalDir
    OBVIOUS
  <2>1. AgentFile(d, i, w)' = AgentFile(d, i, w)
    BY SameFile
  <2> QED BY <2>1, SameRun DEF AgentFile
<1> HIDE DEF registered, f
<1>6. f' \in DOMAIN tree' /\ tree'[f'] = [AgentText(i, w)' EXCEPT !.served = registered']
  BY <1>2, <1>3, <1>4, <1>5
<1> QED BY <1>6 DEF registered, f

(* When the last pass is over, all its agents and those of the earlier ones *)
(* stand where the dialect keeps them.                                     *)
LEMMA FinishBeside ==
  ASSUME FileInv, Standing, Finish
  PROVE  SideBySide'
<1>0. /\ pc = "pass" /\ pass > Passes /\ UNCHANGED <<cmd, project, runs, tree>>
      /\ cmd \in Commands /\ project \in Projects /\ pass \in Nat \ {0} /\ Passes \in Nat /\ pass = Passes + 1
  <2>1. pc = "pass" /\ pass > Passes /\ UNCHANGED <<cmd, project, runs, tree>>
    BY DEF Finish
  <2>2. cmd \in Commands /\ project \in Projects /\ pass \in Nat \ {0} /\ pass <= Passes + 1
    BY <2>1 DEF FileInv, LineInv, Where
  <2>3. Passes \in Nat
    BY <2>2, PassesIs
  <2>4. \A n \in Nat, m \in Nat : m > n /\ m <= n + 1 => m = n + 1
    OBVIOUS
  <2>5. pass = Passes + 1
    BY <2>1, <2>2, <2>3, <2>4
  <2> QED BY <2>1, <2>2, <2>3, <2>5
<1> SUFFICES ASSUME NamesApart', (cmd.dialect = "claude" => Passes = 1)' PROVE Beside'
  BY DEF SideBySide
<1>1. Fits
  BY <1>0, SameNames, SameRun DEF Fits
<1>2. DirNow = FinalDir
  BY <1>0, <1>1 DEF Fits, DirNow, Moved, FinalDir
<1>3. ASSUME NEW i \in 1..Passes, NEW w \in Writes(i) PROVE Stands(i, w)
  <2>1. Written(i, w)
    BY <1>0 DEF Written
  <2> QED BY <1>0, <1>1, <2>1 DEF Standing
<1>4. Beside
  <2> SUFFICES ASSUME NEW i \in 1..Passes, NEW slot \in SlotsOf(i),
                      NEW twin \in {FALSE} \cup (IF HasTwin(i, slot) THEN {TRUE} ELSE {})
               PROVE  LET w == [slot |-> slot, twin |-> twin]
                          f == AgentFile(FinalDir, i, w)
                          registered == /\ cmd.native /\ cmd.dialect = "codex"
                                        /\ \E j \in i..Passes : ToolScripts(j) # {}
                      IN  /\ f \in DOMAIN tree
                          /\ tree[f] = [AgentText(i, w) EXCEPT !.served = registered]
    BY DEF Beside
  <2> PICK w : w = [slot |-> slot, twin |-> twin]
    OBVIOUS
  <2>1. w \in Writes(i)
    BY DEF Writes
  <2>2. Stands(i, w)
    BY <1>3, <2>1
  <2>3. pass - 1 = Passes
    BY <1>0
  <2>4. Registered(i) = (/\ cmd.native /\ cmd.dialect = "codex"
                         /\ \E j \in i..Passes : ToolScripts(j) # {})
    BY <2>3 DEF Registered
  <2> QED BY <1>2, <2>2, <2>4 DEF Stands, Marked
<1>5. Beside'
  BY <1>0, <1>4, BesideSame
<1> QED BY <1>5

LEMMA BesideStays ==
  ASSUME UNCHANGED vars, SideBySide
  PROVE  SideBySide'
<1>0. UNCHANGED <<cmd, project, runs, tree, pc, outcome>>
  BY DEF vars
<1>1. Beside => Beside'
  BY <1>0, BesideSame
<1>2. (NamesApart' <=> NamesApart) /\ Passes' = Passes
  BY <1>0, SameNames, SameRun
<1> QED BY <1>0, <1>1, <1>2 DEF SideBySide, Done

(* When a run is done every slot of every variant has the file its pass     *)
(* rendered, and a run that rebuilds some variants without a full clean    *)
(* never touches the agents of the others: whatever the tree held before,  *)
(* in any number of passes, wherever it is killed.                         *)
THEOREM VariantsCoexist == Spec => []PassesCoexist
<1> DEFINE Inv == FileInv /\ Standing /\ SideBySide /\ KeptInv
<1>1. Init => Inv
  <2> SUFFICES ASSUME Init PROVE Inv
    OBVIOUS
  <2>1. LineInv
    BY DEF Init, LineInv, InPass
  <2>2. Files(tree) /\ Files(before) /\ Where
    BY DEF Init, Files, None, Where
  <2>3. Standing /\ SideBySide
    BY DEF Init, Standing, SideBySide, Done
  <2>4. KeptInv
    BY DEF Init, KeptInv, Foreign, None
  <2> QED BY <2>1, <2>2, <2>3, <2>4 DEF FileInv
<1>2. LineInv' /\ Inv /\ [Next]_vars => Inv'
  <2> SUFFICES ASSUME LineInv', Inv, [Next]_vars PROVE Inv'
    OBVIOUS
  <2>1. FileInv'
    BY FilesStep
  <2>2. Standing'
    BY StandingStep
  <2>3. KeptInv'
    BY KeptStep
  <2>4. SideBySide'
    <3>1. CASE Finish
      BY <3>1, FinishBeside
    <3>2. CASE UNCHANGED vars
      BY <3>2, BesideStays
    <3>3. CASE ~Finish /\ ~UNCHANGED vars
      <4>1. ~Done'
        BY <3>3 DEF Next, Run, PrepareTarget, StartPass, CopyScript, Order, WriteAgent, AgentsWritten, Discard, Move,
                    WriteIndex, Die, Ends, Done
      <4> QED BY <4>1 DEF SideBySide
    <3> QED BY <3>1, <3>2, <3>3
  <2> QED BY <2>1, <2>2, <2>3, <2>4
<1>3. Inv => PassesCoexist
  <2> SUFFICES ASSUME SideBySide, KeptInv PROVE OtherVariantsKept
    BY DEF PassesCoexist
  <2> QED BY DEF KeptInv, Foreign, Spared, OtherVariantsKept, Marked
<1>4. Spec => []LineInv
  BY LinesHold
<1> HIDE DEF Inv
<1> QED BY <1>1, <1>2, <1>3, <1>4, PTL DEF Spec

(* Every file is named as its text says, in every state.                   *)
LEMMA FilesNamed == Spec => []FileInv
<1>1. Init => FileInv
  BY DEF Init, LineInv, InPass, Files, None, Where, FileInv
<1>2. LineInv' /\ FileInv /\ [Next]_vars => FileInv'
  BY FilesStep
<1>3. Spec => []LineInv
  BY LinesHold
<1> QED BY <1>1, <1>2, <1>3, PTL DEF Spec

(* After a full clean nothing but this run's texts is left; after a         *)
(* per_variant one, of the agents rendered earlier for one of its variants *)
(* nothing but primary twins.                                               *)
THEOREM CleanBuildsAreFresh == Spec => []NothingStale
<1>1. IInv /\ FileInv => NothingStale
  <2> SUFFICES ASSUME IInv, FileInv, Done, NEW f \in DOMAIN tree, tree[f].run # runs
               PROVE  /\ Strategy # "full"
                      /\ Strategy = "per_variant" /\ ~Single =>
                           \A i \in 1..Passes :
                             /\ Variant(i).postfix # <<>>
                             /\ tree[f].mode # "none" /\ tree[f].postfix = Variant(i).postfix
                             => IsTwin(f, tree[f])
    BY DEF NothingStale
  <2>1. CleanedPasses = 1..Passes
    BY DEF CleanedPasses, Done
  <2>2. MayBeOld(f.stem)
    BY DEF IInv, Fresh
  <2>3. ASSUME Strategy = "per_variant", ~Single, NEW i \in 1..Passes, Variant(i).postfix # <<>>,
               tree[f].mode # "none", tree[f].postfix = Variant(i).postfix
        PROVE  IsTwin(f, tree[f])
    <3>1. ~IsSuffix(tree[f].postfix, f.stem)
      BY <2>1, <2>2, <2>3 DEF MayBeOld
    <3>2. Agentlike(f, tree[f])
      BY <2>3 DEF FileInv, Files
    <3>3. PICK twin \in BOOLEAN : f.stem = Stem(tree[f].of, tree[f].postfix, twin)
      BY <3>2 DEF Agentlike
    <3>4. twin
      BY <3>1, <3>2, <3>3, OwnEnds DEF Agentlike
    <3>5. Stem(tree[f].of, tree[f].postfix, TRUE) = <<tree[f].of>> \o tree[f].postfix \o <<"primary">>
      BY DEF Stem
    <3> QED BY <3>3, <3>4, <3>5 DEF IsTwin
  <2> QED BY <2>2, <2>3 DEF MayBeOld
<1>2. Spec => []FileInv
  BY FilesNamed
<1> QED BY <1>1, <1>2, Inductive, PTL
=============================================================================
