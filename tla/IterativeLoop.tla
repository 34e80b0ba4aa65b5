--------------------------- MODULE IterativeLoop ---------------------------
(***************************************************************************)
(* One optimisation run (improvement/loop.py): rounds of mutate, evaluate, *)
(* register and rank over an in-memory ComponentRegistry (version.py),     *)
(* with every step recorded in the run store (store.py).  The loop is one  *)
(* thread; evaluators and transactions may raise, the process may die, and *)
(* a loop object may be run again on the registry it has.                  *)
(***************************************************************************)
EXTENDS Integers, Sequences, FiniteSets, SequencesExt

CONSTANTS
  Hashes,        \* content hashes of the definitions mutators may produce
  Baseline,      \* the hash the loop starts from
  AggregateScores,        \* aggregate scores
  Mutators,      \* how many mutators the loop has
  FrontierSize,  \* frontier_size
  MaxRounds,     \* max_rounds
  MaxRuns,       \* how often run() is called
  StoreFails     \* whether a transaction of the store may raise

ASSUME LoopAssumption ==
  /\ Baseline \in Hashes /\ AggregateScores \subseteq Int
  /\ Mutators \in Nat /\ FrontierSize \in Nat \ {0} /\ MaxRounds \in Nat \ {0}
  /\ MaxRuns \in Nat /\ StoreFails \in BOOLEAN

(* A version in the registry: its parent, its aggregate score, and whether *)
(* it passes every hard criterion.                                         *)
Nobody  == "none"
Version == [parent : Hashes \cup {Nobody}, score : AggregateScores, hard : BOOLEAN]

VARIABLES
  stage,          \* where run() is
  order,       \* the registry's hashes, oldest first
  registry,    \* hash -> version
  frontier,    \* the versions this round mutates
  at,          \* how many (parent, mutator) pairs of the round are done
  candidates,  \* the round's new versions
  survivors,   \* those that go on to the next round
  winners,     \* LoopResult.winners
  rounds,      \* LoopResult.rounds
  saved,       \* how many of the survivors or winners have been recorded
  run,         \* the run row in use: how many runs have begun
  rows,        \* the store: run -> hash -> candidate row
  finished,    \* the store: run -> finished_at and its counts
  evaluations  \* history: evaluator results by hash, since the process began

loop  == <<order, registry, frontier, at, candidates, survivors, winners, rounds>>
store == <<run, rows, finished>>
improving  == <<stage, loop, saved, store, evaluations>>

NewRow     == [round |-> 0, survived |-> FALSE, winner |-> FALSE]
Unfinished == [rounds |-> -1, candidates |-> -1, winners |-> -1]

LoopInit ==
  /\ stage = "idle" /\ order = <<>> /\ registry = <<>>
  /\ frontier = <<>> /\ at = 0 /\ candidates = <<>> /\ survivors = <<>>
  /\ winners = <<>> /\ rounds = <<>> /\ saved = 0
  /\ run = 0 /\ rows = <<>> /\ finished = <<>>
  /\ evaluations = [h \in Hashes |-> 0]

-----------------------------------------------------------------------------
(* The stable sort by aggregate score, best first, cut to frontier_size.   *)
Score(h) == registry[h].score

Before(s, i, j) ==
  \/ Score(s[i]) > Score(s[j])
  \/ Score(s[i]) = Score(s[j]) /\ i < j

Cut(I) == IF Cardinality(I) < FrontierSize THEN Cardinality(I) ELSE FrontierSize

(* Where the version at i comes among those at I. *)
Standing(s, I, i) == 1 + Cardinality({j \in I : Before(s, j, i)})

(* Mutant: the sort is ascending. *)
Top_Worst(s, I) ==
  [k \in 1..Cut(I) |-> s[CHOOSE i \in I : Standing(s, I, i) = 1 + Cardinality(I) - k]]

(* The best of those s has at I. *)
Top(s, I) == [k \in 1..Cut(I) |-> s[CHOOSE i \in I : Standing(s, I, i) = k]]

Register(h, v) ==
  /\ registry' = [x \in DOMAIN registry \cup {h} |->
                    IF x = h THEN v ELSE registry[x]]
  /\ order' = Append(order, h)

(* Mutant: the newer flags replace the older ones. *)
Upsert_Replace(h, row) == rows' =
  [rows EXCEPT ![run] = [x \in DOMAIN @ \cup {h} |-> IF x = h THEN row ELSE @[x]]]

(* Mutant: a row that is there already is left alone (DO NOTHING). *)
Upsert_InsertOnly(h, row) == rows' =
  [rows EXCEPT ![run] = [x \in DOMAIN @ \cup {h} |-> IF x \in DOMAIN @ THEN @[x] ELSE row]]

(* record_candidate: a flag once set stays set, the round is the first's. *)
Upsert(h, row) ==
  LET old == rows[run] IN rows' =
    [rows EXCEPT ![run] = [x \in DOMAIN old \cup {h} |->
       IF x # h THEN old[x] ELSE IF h \notin DOMAIN old THEN row ELSE
         [round    |-> old[h].round,
          survived |-> old[h].survived \/ row.survived,
          winner   |-> old[h].winner \/ row.winner]]]

(* A transaction raised: run() is left where it is. *)
StoreRaises == StoreFails /\ stage' = "raised" /\ UNCHANGED <<rows, finished>>

-----------------------------------------------------------------------------
(* begin_run, then the baseline is evaluated unless the registry has it. *)
BeginRun ==
  /\ stage \in {"idle", "done", "raised"} /\ run < MaxRuns
  /\ \/ /\ run' = run + 1 /\ stage' = "baseline"
        /\ rows' = Append(rows, <<>>) /\ finished' = Append(finished, Unfinished)
     \/ StoreRaises /\ UNCHANGED run
  /\ candidates' = <<>> /\ survivors' = <<>> /\ winners' = <<>> /\ rounds' = <<>>
  /\ at' = 0 /\ saved' = 0 /\ frontier' = <<>>
  /\ UNCHANGED <<order, registry, evaluations>>

EvaluateBaseline ==
  /\ stage = "baseline" /\ Baseline \notin DOMAIN registry
  /\ \/ \E s \in AggregateScores, ok \in BOOLEAN :
          /\ Register(Baseline, [parent |-> Nobody, score |-> s, hard |-> ok])
          /\ evaluations' = [evaluations EXCEPT ![Baseline] = @ + 1]
          /\ UNCHANGED stage
     \/ stage' = "raised" /\ UNCHANGED <<order, registry, evaluations>>
  /\ UNCHANGED <<frontier, at, candidates, survivors, winners, rounds, saved>>
  /\ UNCHANGED store

RecordBaseline ==
  /\ stage = "baseline" /\ Baseline \in DOMAIN registry
  /\ \/ /\ Upsert(Baseline, [NewRow EXCEPT !.round = -1])
        /\ stage' = "round" /\ UNCHANGED finished
     \/ StoreRaises
  /\ frontier' = <<Baseline>>
  /\ UNCHANGED <<order, registry, at, candidates, survivors, winners, rounds,
                 saved, run, evaluations>>

(* Mutant: the registry is not asked first. *)
Registered_Never(h) == FALSE

Registered(h) == h \in DOMAIN registry

(* The next (parent, mutator) pair: nothing to propose, a definition seen  *)
(* before, an exception of the mutator or the evaluator, or a candidate.   *)
Parent == frontier[(at \div Mutators) + 1]

Try ==
  /\ stage = "round" /\ at < Len(frontier) * Mutators
  /\ at' = at + 1
  /\ \/ UNCHANGED <<stage, order, registry, candidates, rows, finished, evaluations>>
     \/ /\ stage' = "raised"
        /\ UNCHANGED <<order, registry, candidates, rows, finished, evaluations>>
     \/ \E h \in Hashes, s \in AggregateScores, ok \in BOOLEAN :
          /\ ~Registered(h)
          /\ evaluations' = [evaluations EXCEPT ![h] = @ + 1]
          /\ Register(h, [parent |-> Parent, score |-> s, hard |-> ok])
          /\ candidates' = Append(candidates, h)
          /\ \/ Upsert(h, [NewRow EXCEPT !.round = Len(rounds)])
                /\ UNCHANGED <<stage, finished>>
             \/ StoreRaises
  /\ UNCHANGED <<frontier, survivors, winners, rounds, saved, run>>

(* Mutant: candidates that fail a hard criterion survive. *)
Qualified_All == DOMAIN candidates

Qualified == {i \in DOMAIN candidates : registry[candidates[i]].hard}

RoundDone == at = Len(frontier) * Mutators

(* Every pair is done: without a candidate the loop stops, otherwise the   *)
(* best qualified ones are recorded as survivors.                          *)
EndRound ==
  /\ stage = "round" /\ RoundDone
  /\ survivors' = Top(candidates, Qualified)
  /\ rounds' = Append(rounds, [candidates |-> candidates, survivors |-> survivors'])
  /\ stage' = IF candidates = <<>> THEN "rank" ELSE "survivors"
  /\ UNCHANGED <<order, registry, frontier, at, candidates, winners, saved,
                 evaluations>>
  /\ UNCHANGED store

RecordSurvivor ==
  /\ stage = "survivors" /\ saved < Len(survivors)
  /\ \/ /\ Upsert(survivors[saved + 1], [NewRow EXCEPT !.round = Len(rounds) - 1,
                                                       !.survived = TRUE])
        /\ saved' = saved + 1 /\ UNCHANGED <<stage, finished>>
     \/ StoreRaises /\ UNCHANGED saved
  /\ UNCHANGED <<loop, run, evaluations>>

Over == survivors = <<>> \/ Len(rounds) = MaxRounds

NextRound ==
  /\ stage = "survivors" /\ saved = Len(survivors)
  /\ saved' = 0
  /\ IF Over
     THEN stage' = "rank" /\ UNCHANGED <<frontier, at, candidates, survivors>>
     ELSE /\ stage' = "round" /\ frontier' = survivors /\ at' = 0
          /\ candidates' = <<>> /\ survivors' = <<>>
  /\ UNCHANGED <<order, registry, winners, rounds, evaluations>>
  /\ UNCHANGED store

(* Winners are the best of everything in the registry, hard criteria aside. *)
Rank ==
  /\ stage = "rank"
  /\ winners' = Top(order, DOMAIN order)
  /\ stage' = "winners"
  /\ UNCHANGED <<order, registry, frontier, at, candidates, survivors, rounds,
                 saved, evaluations>>
  /\ UNCHANGED store

RecordWinner ==
  /\ stage = "winners" /\ saved < Len(winners)
  /\ \/ /\ Upsert(winners[saved + 1], [NewRow EXCEPT !.round = -2, !.winner = TRUE])
        /\ saved' = saved + 1 /\ UNCHANGED <<stage, finished>>
     \/ StoreRaises /\ UNCHANGED saved
  /\ UNCHANGED <<loop, run, evaluations>>

(* The candidates of all rounds, each by its place. *)
AllProposed == UNION {{k} \X DOMAIN rounds[k].candidates : k \in DOMAIN rounds}

FinishRun ==
  /\ stage = "winners" /\ saved = Len(winners)
  /\ \/ /\ finished' = [finished EXCEPT ![run] =
             [rounds |-> Len(rounds), candidates |-> Cardinality(AllProposed),
              winners |-> Len(winners)]]
        /\ stage' = "done" /\ UNCHANGED rows
     \/ StoreRaises
  /\ UNCHANGED <<loop, saved, run, evaluations>>

(* The process dies; the next one builds a new loop on the same store. *)
LoopCrash ==
  /\ stage \notin {"idle", "done"} /\ run < MaxRuns
  /\ stage' = "idle" /\ order' = <<>> /\ registry' = <<>>
  /\ frontier' = <<>> /\ at' = 0 /\ candidates' = <<>> /\ survivors' = <<>>
  /\ winners' = <<>> /\ rounds' = <<>> /\ saved' = 0
  /\ evaluations' = [h \in Hashes |-> 0]
  /\ UNCHANGED store

LoopStep == EvaluateBaseline \/ RecordBaseline \/ Try \/ EndRound \/ RecordSurvivor
        \/ NextRound \/ Rank \/ RecordWinner \/ FinishRun

LoopNext == BeginRun \/ LoopStep \/ LoopCrash

LoopSpec == LoopInit /\ [][LoopNext]_improving

-----------------------------------------------------------------------------
(* An evaluation is paid for once: no definition is evaluated twice while  *)
(* the process lives, whatever mutators propose in whatever round.         *)
EvaluatedOnce == \A h \in Hashes : evaluations[h] <= 1

(* Every version descends from the baseline through versions registered    *)
(* before it, and every parent but the baseline passed the hard criteria   *)
(* ("Drop candidates failing any hard criterion").                         *)
Lineage ==
  \A i \in DOMAIN order : LET p == registry[order[i]].parent IN
    IF order[i] = Baseline THEN p = Nobody
    ELSE /\ \E j \in 1..(i - 1) : order[j] = p
         /\ p # Baseline => registry[p].hard

(* Both, over every run of the process: a loop's search is sound.          *)
LoopSound == EvaluatedOnce /\ Lineage

(* The run ends with its best: no version left out of the winners scores   *)
(* more than one of them, so the best winner is no worse than the baseline. *)
WinnersAreBest ==
  stage = "done" =>
    /\ \A w \in ToSet(winners), h \in DOMAIN registry \ ToSet(winners) :
         registry[w].score >= registry[h].score
    /\ registry[winners[1]].score >= registry[Baseline].score
    /\ Len(winners) = FrontierSize \/ ToSet(winners) = DOMAIN registry

(* What the store tells of a finished run is what run() returned: the      *)
(* winners, the survivors and the candidates of each round, and the counts. *)
StoreTellsRun ==
  stage = "done" =>
    LET row == rows[run] IN
    /\ {h \in DOMAIN row : row[h].winner} = ToSet(winners)
    /\ {h \in DOMAIN row : row[h].survived}
         = UNION {ToSet(rounds[k].survivors) : k \in DOMAIN rounds}
    /\ \A k \in DOMAIN rounds :
         {h \in DOMAIN row : row[h].round = k - 1} = ToSet(rounds[k].candidates)
    /\ finished[run].candidates = Cardinality({h \in DOMAIN row : row[h].round >= 0})

(* Both: what was searched and what was stored of it. *)
LoopTold == LoopSound /\ WinnersAreBest /\ StoreTellsRun

(* The record of a run only grows: a candidate keeps its flags, and a run  *)
(* that has finished is not touched again.                                 *)
RecordsGrow == [][
  \A n \in 1..run :
    /\ \A h \in DOMAIN rows[n] :
         /\ rows'[n][h].round = rows[n][h].round
         /\ rows[n][h].survived => rows'[n][h].survived
         /\ rows[n][h].winner => rows'[n][h].winner
    /\ finished[n] # Unfinished => rows'[n] = rows[n] /\ finished'[n] = finished[n]
  ]_improving
=============================================================================
