--------------------------- MODULE PromptContext ---------------------------
(***************************************************************************)
(* Prompts assembled from blocks that change at different rates, the part  *)
(* of a prompt that may be cached, and the tables that measure, over the   *)
(* recorded runs, how often blocks change and tools fail.  A prompt is a   *)
(* sequence of <<block name, version of its content>>.                     *)
(***************************************************************************)
EXTENDS Integers, Sequences, SequencesExt, FiniteSets, FiniteSetsExt, Arrangement

CONSTANTS
  Blocks,       \* [name, tier, position, breakpoint]: position is Unpinned or a number
  Assemblies,   \* what a PromptAssembler is constructed from
  Unpinned,
  Agents,       \* whose runs are recorded
  ToolNames,
  Built,        \* names of blocks whose content a builder makes; the others are text
  MaxBlocks,    \* bounds on an assembly, the turns, the versions of a content and
  MaxTurns,     \* the recorded tool calls
  MaxVersions,
  MaxCalls

Tiers == <<"immutable", "stable", "fluid", "volatile">>

NotPinned == 1000000  \* sorts behind every position

ASSUME PromptAssumption ==
  /\ {MaxBlocks, MaxTurns, MaxVersions, MaxCalls} \subseteq Nat
  /\ \A a \in Assemblies : a \in Seq(ToSet(a))
  /\ \A b \in Blocks \cup UNION {ToSet(a) : a \in Assemblies} :
       /\ b.tier \in ToSet(Tiers)
       /\ b.position # Unpinned => b.position \in Int /\ b.position < NotPinned

VARIABLES
  assembler,  \* the registered blocks, in registration order
  contents,    \* name -> version its content has now
  turns,      \* [agent, blocks, content, prompt, prefix, recorded], one per run
  tracked,    \* runs with a row in the runs table
  observed,   \* rows of context_block_versions
  calls       \* rows of tool_calls

context == <<assembler, contents, turns, tracked, observed, calls>>

Rank(tier) == CHOOSE i \in DOMAIN Tiers : Tiers[i] = tier

NamesOf(bs) == {bs[i].name : i \in DOMAIN bs}
Distinct(bs) == Cardinality(NamesOf(bs)) = Len(bs)

ContextInit ==
  /\ assembler \in {a \in Assemblies : Distinct(a)}
  /\ contents = [n \in {b.name : b \in Blocks} \cup UNION {NamesOf(a) : a \in Assemblies} |-> 0]
  /\ turns = <<>> /\ tracked = {} /\ observed = <<>> /\ calls = <<>>

---------------------------------------------------------------------------
(* Order: pinned blocks by position, then the others; ties by tier, then by *)
(* registration.                                                           *)

SortKey(b) == <<IF b.position = Unpinned THEN NotPinned ELSE b.position, Rank(b.tier)>>

(* Mutant: of equal keys, the later registration goes first. *)
Precedes_Latest(bs, i, j) ==
  LET k == SortKey(bs[i])  l == SortKey(bs[j]) IN
  k[1] < l[1] \/ (k[1] = l[1] /\ (k[2] < l[2] \/ (k[2] = l[2] /\ i > j)))

Precedes(bs, i, j) ==
  LET k == SortKey(bs[i])  l == SortKey(bs[j]) IN
  k[1] < l[1] \/ (k[1] = l[1] /\ (k[2] < l[2] \/ (k[2] = l[2] /\ i < j)))

Before(bs) == {ij \in (DOMAIN bs) \X (DOMAIN bs) : Precedes(bs, ij[1], ij[2])}

BlockOrder(bs) == Arranged(DOMAIN bs, Before(bs))

SortedBlocks(bs) == LET order == BlockOrder(bs) IN [n \in DOMAIN bs |-> bs[order[n]]]

Pieces(bs, content) == [n \in DOMAIN bs |-> <<bs[n].name, content[bs[n].name]>>]

(* Mutant: only a breakpoint ends what is cacheable. *)
Uncacheable_Break(bs, i) == i > 1 /\ bs[i - 1].breakpoint

(* The first volatile block, or the one after a breakpoint, ends it.       *)
Uncacheable(bs, i) == bs[i].tier = "volatile" \/ (i > 1 /\ bs[i - 1].breakpoint)

CacheablePrefix(bs, content) ==
  LET sorted == SortedBlocks(bs)
      stop   == Min({n \in DOMAIN sorted : Uncacheable(sorted, n)} \cup {Len(sorted) + 1})
  IN Pieces(SubSeq(sorted, 1, stop - 1), content)

---------------------------------------------------------------------------
(* The names are checked when an assembler is constructed, not when a block *)
(* is added to it.                                                         *)
WithBlock ==
  /\ Len(assembler) < MaxBlocks
  /\ \E b \in Blocks : assembler' = Append(assembler, b)
  /\ UNCHANGED <<contents, turns, tracked, observed, calls>>

ContentChanges ==
  /\ \E n \in Built : contents[n] < MaxVersions /\ contents' = [contents EXCEPT ![n] = @ + 1]
  /\ UNCHANGED <<assembler, turns, tracked, observed, calls>>

(* A turn of an agent, as a run of its own; its row may not have made it   *)
(* into the table.                                                         *)
Compose ==
  /\ Len(turns) < MaxTurns
  /\ \E a \in Agents, row \in BOOLEAN :
       /\ turns' = Append(turns, [agent |-> a, blocks |-> assembler, content |-> contents,
                                  recorded |-> FALSE,
                                  prompt |-> Pieces(SortedBlocks(assembler), contents),
                                  prefix |-> CacheablePrefix(assembler, contents)])
       /\ tracked' = IF row THEN tracked \cup {Len(turns) + 1} ELSE tracked
  /\ UNCHANGED <<assembler, contents, observed, calls>>

BlockRows(r) ==
  [i \in DOMAIN turns[r].prompt |-> [run |-> r, what |-> turns[r].prompt[i][1], tells |-> turns[r].prompt[i][2]]]

(* One statement inserts all blocks of a run; a run without a row is a     *)
(* foreign key that fails.                                                 *)
RecordBlocks ==
  /\ \E r \in DOMAIN turns :
       /\ ~turns[r].recorded
       /\ turns' = [turns EXCEPT ![r].recorded = TRUE]
       /\ observed' = IF r \in tracked THEN observed \o BlockRows(r) ELSE observed
  /\ UNCHANGED <<assembler, contents, tracked, calls>>

RecordCall ==
  /\ Len(calls) < MaxCalls
  /\ \E r \in tracked, t \in ToolNames, ok \in BOOLEAN :
       calls' = Append(calls, [run |-> r, what |-> t, tells |-> ok])
  /\ UNCHANGED <<assembler, contents, turns, tracked, observed>>

(* An operator deletes a run; its rows go with it.                         *)
DeleteRun ==
  /\ \E r \in tracked :
       /\ tracked' = tracked \ {r}
       /\ observed' = Sublist(observed, {i \in DOMAIN observed : observed[i].run # r})
       /\ calls' = Sublist(calls, {i \in DOMAIN calls : calls[i].run # r})
  /\ UNCHANGED <<assembler, contents, turns>>

ContextNext == WithBlock \/ ContentChanges \/ Compose \/ RecordBlocks \/ RecordCall \/ DeleteRun

ContextSpec == ContextInit /\ [][ContextNext]_context

---------------------------------------------------------------------------
(* The metrics, over the runs of some agents.                              *)

(* Mutant: the agent asked for is not in the where clause. *)
Seen_All(rows, what, who) == {i \in DOMAIN rows : rows[i].what = what}

Seen(rows, what, who) == {i \in DOMAIN rows : rows[i].what = what /\ turns[rows[i].run].agent \in who}

(* What a metric can be asked for: every agent's runs, or one's.           *)
Asked == {Agents} \cup {{a} : a \in Agents}

Volatility(block, who) ==
  LET seen == Seen(observed, block, who)
  IN [total |-> Cardinality(seen), distinct |-> Cardinality({observed[i].tells : i \in seen})]

FailureRate(tool, who) ==
  LET seen == Seen(calls, tool, who)
  IN [total |-> Cardinality(seen), failures |-> Cardinality({i \in seen : ~calls[i].tells})]

---------------------------------------------------------------------------
(* Properties. *)

(* What is marked cacheable starts the prompt, and as long as the blocks    *)
(* stay the same it changes only when a block that is not volatile does.    *)
PrefixIsSafe ==
  \A i, j \in DOMAIN turns :
    /\ IsPrefix(turns[i].prefix, turns[i].prompt)
    /\ /\ turns[i].blocks = turns[j].blocks
       /\ \A k \in DOMAIN turns[i].blocks :
            LET b == turns[i].blocks[k] IN
            b.tier # "volatile" => turns[i].content[b.name] = turns[j].content[b.name]
       => turns[i].prefix = turns[j].prefix

(* A block added to an assembler, no more stable than what is cached and    *)
(* not pinned, goes behind it: the next prompt still starts with it.        *)
AddedBehindCache ==
  \A i, j \in DOMAIN turns :
    LET old == turns[i].blocks  new == turns[j].blocks IN
    ( /\ IsPrefix(old, new) /\ turns[i].content = turns[j].content
      /\ \A k \in Len(old) + 1..Len(new) :
           /\ new[k].position = Unpinned
           /\ \A l \in DOMAIN old :
                old[l].position = Unpinned /\ (\E m \in DOMAIN turns[i].prefix : turns[i].prefix[m][1] = old[l].name)
                  => Rank(old[l].tier) <= Rank(new[k].tier) )
    => IsPrefix(turns[i].prefix, turns[j].prompt)

(* A block's measured rate is that of its agent's recorded runs: one        *)
(* observation for each, and one distinct value for each content it had -   *)
(* while the assembler names it once; a tool call counts for one agent, so  *)
(* the counts of agents add up.                                            *)
MetricsTell ==
  /\ \A n \in DOMAIN contents, as \in Asked :
       LET sent == {r \in tracked : /\ turns[r].recorded /\ turns[r].agent \in as
                                    /\ n \in NamesOf(turns[r].blocks)}
           told == Volatility(n, as)
       IN (\A r \in sent : Distinct(turns[r].blocks)) =>
            /\ told.total = Cardinality(sent)
            /\ told.distinct = Cardinality({turns[r].content[n] : r \in sent})
  /\ \A t \in ToolNames, as \in SUBSET Agents : \A bs \in SUBSET (Agents \ as) :
       LET both == FailureRate(t, as \cup bs) IN
       /\ both.total = FailureRate(t, as).total + FailureRate(t, bs).total
       /\ both.failures = FailureRate(t, as).failures + FailureRate(t, bs).failures

ContextHolds == PrefixIsSafe /\ AddedBehindCache /\ MetricsTell
=============================================================================
