---------------------------- MODULE Personalize ----------------------------
(***************************************************************************)
(* The per-client personalization of the saas template: the operators of   *)
(* personalization/ and of the capability bundle, and the generated        *)
(* service that runs them (scaffold/files/personalized.py).  Every client  *)
(* has a project root on disk.  The API process serves one request after   *)
(* the other (its handlers never await); the CLI is a process of its own,  *)
(* so two requests for one client can overlap, step by step.               *)
(*                                                                         *)
(* A prompt is the sequence of the blocks it was composed from; a task is  *)
(* a model value; a tool name is the sequence of its parts, a list of them *)
(* the set; the score of a session is what the judge gave it, in tenths.   *)
(***************************************************************************)
EXTENDS Datasource, Functions

CONSTANTS
  Procs,        \* the API server and the CLI's processes
  Clients,
  Roles,        \* the fleet's roles, the personalized one first
  Builtins,     \* the platform's tool names
  Connections,  \* the MCP servers and datasources a request may name
  Structures,   \* what an adapter may enumerate
  Replies,      \* what the teacher may answer to a chat
  Scores,       \* what the judge may give a session, 0..10
  Target,       \* the target a request asks for
  Error,        \* the outcome of a session that errored
  MaxRequests,  \* requests issued in all
  MaxRewrites,  \* candidates a run evaluates besides the baseline
  MaxDeaths     \* processes that die before they are done

ASSUME PersonalizeAssumption ==
  /\ Roles \in Seq(STRING) \ {<<>>} /\ IsInjective(Roles)
  /\ \A with \in Connections :
       /\ DOMAIN with = {"servers", "sources"}
       /\ IsFiniteSet(with.servers)
       /\ \A s \in with.servers : IsFiniteSet(s.tools) /\ s.tools \subseteq Seq(STRING)
       /\ with.sources \in Seq([slug : STRING, adapter : BOOLEAN])
  /\ Scores \subseteq 0..10 /\ Target \in 1..10
  /\ MaxRequests \in Nat /\ MaxRewrites \in Nat /\ MaxDeaths \in Nat

VARIABLES
  disk,      \* client -> its project root
  proc,      \* process -> what it does
  issued,    \* requests issued
  deaths,
  user,      \* history: the clients whose config holds what a user wrote there, as far as no compile read it torn
  owner      \* history: client -> the last request answered, if nothing touched its root since

personalize == <<disk, proc, issued, deaths, user, owner>>

Planner == Roles[1]

---------------------------------------------------------------------------
(* From a chat to a spec. *)

(* Example tasks: blank entries are skipped, one of a wrong type is an     *)
(* error.                                                                  *)
Tasks(reply) == SelectSeq(reply.tasks, LAMBDA t : t # "blank")

(* parse_client_spec. *)
Malformed(reply) == \/ ~reply.object \/ reply.goal = "blank" \/ "wrong" \in ToSet(reply.tasks)
SpecOf(reply)      == [goal |-> reply.goal, tasks |-> Tasks(reply), criteria |-> reply.criteria]

Usable(spec) == DOMAIN spec.tasks # {} /\ spec.criteria # {}

---------------------------------------------------------------------------
(* merge_capabilities. *)

Policies == {"namespace_client", "client_overrides", "builtin_wins", "error"}

(* A server is [name, enabled, tools], a datasource [slug, tools]. *)
ClientTools(bundle) ==
  UNION ({s.tools : s \in {s \in bundle.servers : s.enabled}} \cup {s.tools : s \in ToSet(bundle.sources)})

Alias(name) == <<"client">> \o name

(* Mutant: the alias is recorded, but the bare name is what is allowed. *)
Exposed_Bare(name, policy) ==
  IF name \in Builtins /\ policy \in {"builtin_wins", "client_overrides"} THEN {} ELSE {name}

(* What the allow-list gains for a tool of the client. *)
Exposed(name, policy) ==
  IF name \notin Builtins THEN {name}
  ELSE IF policy = "namespace_client" THEN {Alias(name)} ELSE {}

Collisions(bundle) == ClientTools(bundle) \cap Builtins
Refuses(bundle, policy) == policy = "error" /\ Collisions(bundle) # {}

Merge(bundle, policy) ==
  LET clash == Collisions(bundle)
  IN  [allow   |-> Builtins \cup UNION {Exposed(t, policy) : t \in ClientTools(bundle)},
       aliases |-> IF policy = "namespace_client" THEN [t \in clash |-> Alias(t)] ELSE <<>>,
       dropped |-> IF policy \in {"builtin_wins", "client_overrides"} THEN clash ELSE {},
       mcp     |-> {s.name : s \in bundle.servers}]

---------------------------------------------------------------------------
(* The client's overlay and the project it is compiled into. *)

BasePrompt(role)      == [kind |-> "base", of |-> role]
Layout(profile) == [kind |-> "datasource", of |-> profile]
Client(spec)    == [kind |-> "client", of |-> spec]
Tuned(n)        == [kind |-> "tuned", of |-> n]

(* Mutant: the factory passes the client's id on, as its comment says. *)
FleetPrompt_OfClient(c, role) ==
  IF role = Planner /\ disk[c].promoted # Nothing THEN disk[c].promoted.prompt ELSE <<BasePrompt(role)>>

(* build_fleet_registry reads the promotions of the base project, where    *)
(* this service promotes nothing.                                          *)
FleetPrompt(c, role) == <<BasePrompt(role)>>

(* ClientOverlay.assemble_prompt: the base is immutable, the rest stable   *)
(* in this order.                                                          *)
Overlay(prompt, spec, profiles) ==
  prompt \o [i \in DOMAIN profiles |-> Layout(profiles[i])] \o <<Client(spec)>>

(* What is at the path of opencode.json, and in it what a user keeps there *)
(* and what a compile wrote; a torn file is truncated and not filled yet.  *)
ConfigFile(is, other, mcp, tools) == [is |-> is, other |-> other, mcp |-> mcp, tools |-> tools]
Config(other, surface)      == ConfigFile("whole", other, surface.mcp, surface.allow)

PersonalizeInit ==
  /\ \E other \in [Clients -> BOOLEAN] :
       /\ disk = [c \in Clients |->
                [config   |-> ConfigFile(IF other[c] THEN "whole" ELSE "absent", other[c], {}, {}),
                 agents   |-> [r \in ToSet(Roles) |-> <<>>],
                 probes   |-> <<>>,
                 promoted |-> Nothing]]
       /\ user = {c \in Clients : other[c]}
  /\ proc = [p \in Procs |-> [pc |-> "idle"]]
  /\ issued = 0 /\ deaths = 0
  /\ owner = [c \in Clients |-> Nothing]

Busy(p)      == proc[p].pc \notin {"idle", "answered", "failed"}
Writing(p)   == Busy(p) /\ proc[p].pc \notin {"elicit", "bundle"}
Updated(at, fields) == [k \in DOMAIN at \cup DOMAIN fields |-> IF k \in DOMAIN fields THEN fields[k] ELSE at[k]]
Go(p, fields) == proc' = [proc EXCEPT ![p] = Updated(@, fields)]
Fail(p)      == proc' = [proc EXCEPT ![p] = [pc |-> "failed"]]
C(p)         == proc[p].client

(* POST /personalize/{intake,optimize,serve} and the CLI, which has no     *)
(* intake of its own.                                                      *)
Request(p) ==
  /\ ~Busy(p) /\ issued < MaxRequests
  /\ \E kind \in {"intake", "optimize", "serve"}, c \in Clients, with \in Connections :
       proc' = [proc EXCEPT ![p] = Updated(with, [pc |-> "elicit", kind |-> kind, client |-> c])]
  /\ issued' = issued + 1
  /\ UNCHANGED <<disk, deaths, user, owner>>

(* elicit_spec(require_usable=True): a teacher that raises, a reply that   *)
(* is no spec and one that cannot be used all end the request.             *)
Elicit(p) ==
  /\ proc[p].pc = "elicit"
  /\ \/ Fail(p)
     \/ \E reply \in Replies :
          IF Malformed(reply) \/ ~Usable(SpecOf(reply)) THEN Fail(p)
          ELSE IF proc[p].kind = "intake" THEN proc' = [proc EXCEPT ![p] = [pc |-> "answered"]]
          ELSE Go(p, [pc |-> "bundle", spec |-> SpecOf(reply)])
  /\ UNCHANGED <<disk, issued, deaths, user, owner>>

(* build_client_bundle: sources with an adapter are profiled and get their *)
(* tools; an adapter may raise.                                            *)
Bundle(p) ==
  /\ proc[p].pc = "bundle"
  /\ \/ \E s \in ToSet(proc[p].sources) : s.adapter /\ Fail(p)
     \/ \E structure \in Structures :
          LET sources  == proc[p].sources
              profiled == SelectSeq(sources, LAMBDA s : s.adapter)
              bundle   == [servers |-> proc[p].servers,
                           sources |-> [i \in DOMAIN sources |->
                                         [slug  |-> sources[i].slug,
                                          tools |-> IF sources[i].adapter THEN Derived(sources[i].slug) ELSE {}]]]
          IN  Go(p, [pc       |-> "begin",
                     profiles |-> [i \in DOMAIN profiled |-> ProfileOf(profiled[i].slug, structure)],
                     bundle   |-> bundle,
                     surface  |-> Merge(bundle, "namespace_client"),
                     graded   |-> {}, slot |-> Nothing])
  /\ UNCHANGED <<disk, issued, deaths, user, owner>>

---------------------------------------------------------------------------
(* compile_personalized, run once before a loop and once to serve. *)

Others(p) == {q \in Procs \ {p} : Writing(q) /\ C(q) = C(p)}

(* Two processes at one root from here on know no more what is in it. *)
Begin(p) ==
  /\ proc[p].pc = "begin"
  /\ LET others == Others(p)
     IN  proc' = [q \in Procs |->
                   IF q = p THEN Updated(proc[p], [pc |-> "agent", at |-> 1, served |-> FALSE, alone |-> others = {}])
                   ELSE IF q \in others THEN Updated(proc[q], [alone |-> FALSE]) ELSE proc[q]]
  /\ owner' = [owner EXCEPT ![C(p)] = Nothing]
  /\ UNCHANGED <<disk, issued, deaths, user>>

(* One agent file after the other. *)
PlaceAgent(p) ==
  /\ proc[p].pc = "agent"
  /\ LET role == Roles[proc[p].at]
     IN  /\ disk' = [disk EXCEPT ![C(p)].agents[role] =
                       Overlay(FleetPrompt(C(p), role), proc[p].spec, proc[p].profiles)]
         /\ Go(p, IF proc[p].at < Len(Roles) THEN [at |-> proc[p].at + 1] ELSE [pc |-> "read"])
  /\ UNCHANGED <<issued, deaths, user, owner>>

(* Mutant: an existing opencode.json is not read. *)
Kept_Nothing(file) == FALSE

(* An existing opencode.json is the base of the new one; one that cannot   *)
(* be parsed is not.                                                       *)
Kept(file) == file.is = "whole" /\ file.other

ReadConfig(p) ==
  /\ proc[p].pc = "read"
  /\ Go(p, [pc |-> "truncate", base |-> Kept(disk[C(p)].config)])
  /\ user' = IF disk[C(p)].config.is = "torn" THEN user \ {C(p)} ELSE user
  /\ UNCHANGED <<disk, issued, deaths, owner>>

(* write_text truncates the file, then fills it. *)
TruncateConfig(p) ==
  /\ proc[p].pc = "truncate"
  /\ disk' = [disk EXCEPT ![C(p)].config = ConfigFile("torn", FALSE, {}, {})]
  /\ Go(p, [pc |-> "fill"])
  /\ UNCHANGED <<issued, deaths, user, owner>>

FillConfig(p) ==
  /\ proc[p].pc = "fill"
  /\ disk' = [disk EXCEPT ![C(p)].config = Config(proc[p].base, proc[p].surface)]
  /\ Go(p, [pc |-> IF proc[p].served THEN "answer"
                   ELSE IF proc[p].kind = "optimize" THEN "baseline" ELSE "again"])
  /\ UNCHANGED <<issued, deaths, user, owner>>

(* serve_personalized_agent compiles the client's fleet once more. *)
Again(p) ==
  /\ proc[p].pc = "again"
  /\ Go(p, [pc |-> "agent", at |-> 1, served |-> TRUE])
  /\ UNCHANGED <<disk, issued, deaths, user, owner>>

---------------------------------------------------------------------------
(* PersonalizationRun.run. *)

(* The baseline is the compiled prompt of the personalized role. *)
Baseline(p) ==
  /\ proc[p].pc = "baseline"
  /\ Go(p, [pc |-> "seed", prompt |-> disk[C(p)].agents[Planner]])
  /\ UNCHANGED <<disk, issued, deaths, user, owner>>

(* seed_probes_from_spec: what the client's probes.json holds is kept.     *)
(* (Threads and torn files are in ProbeCache.)                             *)
Probes(file, tasks) == [k \in DOMAIN file \cup DOMAIN tasks |-> IF k \in DOMAIN file THEN file[k] ELSE tasks[k]]

Seed(p) ==
  /\ proc[p].pc = "seed"
  /\ LET cache == Probes(disk[C(p)].probes, proc[p].spec.tasks)
     IN  /\ disk' = [disk EXCEPT ![C(p)].probes = cache]
         /\ Go(p, [pc |-> "grade", probes |-> Restrict(cache, DOMAIN proc[p].spec.tasks)])
  /\ UNCHANGED <<issued, deaths, user, owner>>

(* Mutant: a session that errors is left out of the floor. *)
Floor_Completed(results) == Min({10} \cup (Range(results) \ {Error}))

(* The worst probe's score; a session that errors scores 0. *)
Floor(results) == Min({IF results[k] = Error THEN 0 ELSE results[k] : k \in DOMAIN results})

(* The joint mutators: the teacher's rewrite of a prompt, or a mutation of *)
(* the tools, which keeps the prompt of its parent.                        *)
Rewrites(versions) == {v.prompt : v \in versions} \cup {<<Tuned(Cardinality(versions))>>}

(* One version of the loop, the baseline first; every probe is a session   *)
(* of its own.                                                             *)
Grade(p) ==
  /\ proc[p].pc = "grade"
  /\ Cardinality(proc[p].graded) <= MaxRewrites
  /\ \E results \in [DOMAIN proc[p].probes -> Scores \cup {Error}] :
       LET n       == Cardinality(proc[p].graded)
           prompts == IF n = 0 THEN {proc[p].prompt} ELSE Rewrites(proc[p].graded)
       IN  \E prompt \in prompts :
             LET version == [n |-> n, prompt |-> prompt, floor |-> Floor(results), results |-> Range(results)]
             IN  Go(p, [graded |-> proc[p].graded \cup {version}])
  /\ UNCHANGED <<disk, issued, deaths, user, owner>>

(* Mutant: any winner is promoted. *)
Promotable_Any(version) == TRUE

(* run_fleet promotes a winner whose aggregate reaches the target; the     *)
(* aggregate is the floor's share of the target, at most 1.                *)
Credit(version)     == Min({version.floor, Target})
Promotable(version) == 10 * Credit(version) >= Target * Target

(* The first of the best by the aggregate. *)
Best(versions) ==
  CHOOSE v \in versions : \A w \in versions : Credit(w) < Credit(v) \/ (Credit(w) = Credit(v) /\ v.n <= w.n)

EndLoop(p) ==
  /\ proc[p].pc = "grade" /\ proc[p].graded # {}
  /\ LET best == Best(proc[p].graded)
     IN  IF Promotable(best)
         THEN /\ disk' = [disk EXCEPT ![C(p)].promoted = best]
              /\ Go(p, [pc |-> "again", graded |-> {}, slot |-> best])
         ELSE Go(p, [pc |-> "again", graded |-> {}]) /\ UNCHANGED disk
  /\ UNCHANGED <<issued, deaths, user, owner>>

(* A loop that raises is the unit's error: nothing is promoted, and the    *)
(* agent is served.                                                        *)
LoopRaises(p) ==
  /\ proc[p].pc = "grade"
  /\ Go(p, [pc |-> "again", graded |-> {}])
  /\ UNCHANGED <<disk, issued, deaths, user, owner>>

Answer(p) ==
  /\ proc[p].pc = "answer"
  /\ proc' = [proc EXCEPT ![p] = [pc |-> "answered"]]
  /\ owner' = [owner EXCEPT ![C(p)] = IF proc[p].alone /\ Others(p) = {} THEN Restrict(proc[p], {"spec", "profiles", "surface", "slot"}) ELSE Nothing]
  /\ UNCHANGED <<disk, issued, deaths, user>>

Dies(p) ==
  /\ Busy(p) /\ deaths < MaxDeaths
  /\ proc' = [proc EXCEPT ![p] = [pc |-> "idle"]] /\ deaths' = deaths + 1
  /\ UNCHANGED <<disk, issued, user, owner>>

PersonalizeNext == \E p \in Procs :
  \/ Request(p) \/ Elicit(p) \/ Bundle(p) \/ Begin(p) \/ PlaceAgent(p) \/ ReadConfig(p)
  \/ TruncateConfig(p) \/ FillConfig(p) \/ Again(p) \/ Baseline(p) \/ Seed(p)
  \/ Grade(p) \/ EndLoop(p) \/ LoopRaises(p) \/ Answer(p) \/ Dies(p)

Specification == PersonalizeInit /\ [][PersonalizeNext]_personalize

---------------------------------------------------------------------------
(* Properties. *)

(* What a client is served is what its last request asked for: the answer's *)
(* tools and servers are those of opencode.json, every role carries the     *)
(* client's spec and its sources' layouts once, after the platform's own    *)
(* prompt.  Unless another process worked at the root, or died there.       *)
ServedAsAsked ==
  \A c \in Clients : owner[c] # Nothing =>
    LET r == owner[c]
    IN  /\ disk[c].config.is = "whole"
        /\ disk[c].config.tools = r.surface.allow
        /\ disk[c].config.mcp = r.surface.mcp
        /\ \A role \in ToSet(Roles) :
             disk[c].agents[role] =
               <<BasePrompt(role)>> \o [i \in DOMAIN r.profiles |-> Layout(r.profiles[i])] \o <<Client(r.spec)>>

(* A recompile preserves what else a user keeps in opencode.json: it is    *)
(* lost only to a compile that found the file half written.                *)
UserConfigKept ==
  \A c \in user : disk[c].config.is # "torn" => disk[c].config.other

ClientRootSound == ServedAsAsked /\ UserConfigKept

(* Of the version a slot holds no session failed, and none scored less than *)
(* the gate run_fleet applies, however high the others are.  That gate is  *)
(* the square of the target, not the target a version "must clear" by     *)
(* judge.py:78: the criterion is a soft one, so the aggregate is the       *)
(* floor's share of the target, and a version below the target may stand   *)
(* in a slot.  That it clears the target is not claimed.                   *)
PromotionEarned ==
  \A c \in Clients : disk[c].promoted # Nothing =>
    \A score \in disk[c].promoted.results : score # Error /\ 10 * score >= Target * Target

(* The merged surface loses no tool of the platform and none of the client *)
(* unreported: a name both have is aliased or told as dropped, every other *)
(* tool has its own name, and an alias hides nothing, when no tool but an  *)
(* alias is named like one.  Under client_overrides nothing is said of the *)
(* names both have: by capability_bundle.py:44-46 they leave the           *)
(* allow-list, in the code they stay in it.                                *)
NothingShadowed ==
  \A p \in Procs, policy \in Policies : "bundle" \in DOMAIN proc[p] =>
    LET bundle  == proc[p].bundle
        surface == Merge(bundle, policy)
        theirs  == ClientTools(bundle)
        clash   == theirs \cap Builtins
        added   == surface.allow \ Builtins
        kept    == IF policy = "client_overrides" THEN Builtins \ clash ELSE Builtins
    IN  Refuses(bundle, policy) \/
        /\ kept \subseteq surface.allow
        /\ theirs \ clash \subseteq added
        /\ DOMAIN surface.aliases \cup surface.dropped = clash
        /\ (\A t \in theirs \cup Builtins : Head(t) # "client") => Cardinality(added) = Cardinality(theirs \ surface.dropped)

IsTuned(prompt) == \E i \in DOMAIN prompt : prompt[i].kind = "tuned"

(* "A re-compile picks up .oac/promoted/<client_id>/ automatically"        *)
(* (serve_personalized_agent): a role that was tuned is served tuned.      *)
ServedIsTuned ==
  \A c \in Clients :
    (owner[c] # Nothing /\ owner[c].slot # Nothing /\ IsTuned(disk[c].promoted.prompt)) =>
      IsTuned(disk[c].agents[Planner])
=============================================================================
