# A verification project for open-agent-compiler

open-agent-compiler (`src/open_agent_compiler/`) turns Python definitions of
agents into trees of files for a coding harness (OpenCode, Claude Code, Codex,
Pi), scaffolds the services that run them, and improves them in loops of
mutation and evaluation whose winners are promoted back into what the next
compile reads. This directory holds TLA+ modules of the parts of it that are
hard to test, the TLC configurations that check them, and theorems proved with
TLAPS. `PROJECT.json` maps every definition to the lines it models.

Paths below are relative to `src/open_agent_compiler/`.

## 1. The system

| Part | State it keeps | Operations | Meets | What is hard |
|---|---|---|---|---|
| compile pipeline (`compiler/`) | the target directory | `CompileScript.run`: clean, one pass per variant, render, index | promotions (reads), harnesses (read the tree) | a pass overwriting another, leftovers, a run that dies after the wipe, parents before children |
| definitions, registry, access profiles, prompt blocks (`model/core/`) | agents, presets, templates, configurations, profiles; blocks | register, resolve, validate; compose | promotions (reads), the compile pipeline, run metrics | ids made of names, what was validated and then added to, promotions read one by one |
| permissions and renderers (`compiler/dialects/`) | none | definition to text, per dialect | the harness, capability tests | that a text allows what the definition grants and nothing else |
| run service (scaffolded `app/`, `scaffold/files/{app,dispatch,runs,db}.py`) | the `RUNS` dict, the `runs` table | post a run in three modes, retry walk, callback, await, detail | cron, chat bot, MCP server, spawn tool | coroutines interleaving at transactions, crash, faults between them, two views of one run |
| drivers of the service (`scaffold/files/{cron,telegram_bot,mcp_server,batch}.py`) | events seen, chat histories | fire, relay, expose | run service | missed minutes, replies out of order |
| improvement loop (`improvement/{loop,version,scoring,store}.py`) | registry of versions, store of runs | mutate, evaluate, rank, record | evaluators, mutators, probe cache, store | exceptions in the middle of a round, repeated proposals, rows written several times |
| probe cache (`improvement/probe_cache.py`) | dict, set of fallbacks, a JSON file | get, prewarm, save, load | teacher model | threads outside the lock, writes in place, crash |
| promotion (`improvement/snapshot.py`, `cli/commands/{promote,versions}.py`) | slot files, promotions table | promote, load, unload, rollback, resolve | compile pipeline, fleet | check-then-write, torn files, a history that is not the file's |
| fleet (`improvement/fleet.py`) | snapshots, outcomes | run loops on a pool, export, promote | loop, promotion | one unit's failure, order of results |
| derived loops, evaluators, mutators (`improvement/`) | per target results | split, target, branch, autoresearch | loop, compile | state shared between runs |
| interactive runtime (`interactive/`) | transcript, records, event queue | one user turn with tools | model client, tools, sink | full queue, tool failures, round cap |
| workflow runtime (`workflow/`) | shared state, records | gate, attempt, route | runners, sink | cycles, retries, stale outputs |
| test harness (`testing/`) | JSONL artifacts, green index | discover, decide, run, judge, emit | compile, tools, judges | a stale pass that skips a broken test |
| personalization (`personalization/`) | client specs | elicit, compile over the base, judge | loop, compile, promotion | one client's results reaching another |
| scaffold engine (`scaffold/{engine,manifest}.py`) | the manifest | write files, keep edited ones | the user | overwriting an edit |
| bundled scripts, spawn tool (`scripts/`, `runtime*.py`) | todo files, PID file, workspace | a process per call | agents | lost updates, two servers |
| evolve (`evolve/`) | a git copy of a repository, references | package, replay commits, grade against a teacher | loop, git, harness | separate git calls over one dirty tree, scripts that die |
| datasource, skills, cli | a source, texts | reads, emits | the above | mostly sequential |

What makes each correct, in a sentence:

* compile: after a run that is done, every variant has its files as its own pass
  rendered them, nothing older passes for new, and other variants are untouched.
* run service: every accepted run ends, its table row only moves forward and
  tells what the caller was told, and the two views of a run never contradict.
* loop: a definition is evaluated once, lineage is closed, winners are the best
  by the criterion, and the store tells the same story as the result.
* probe cache: the file holds only real probes and loses none.
* promotion: nothing is overwritten unasked, a compile finds the most specific
  slot, a rollback undoes the last change.
* fleet: one unit's failing loop fails nobody else, only qualified winners are
  promoted, the result says what happened.
* workflow and turn: records and transcript retell the walk, events arrive in
  order, every call is answered, everything ends within its budget.
* permissions: what a prompt tells an agent to do its files let it do, what an
  agent was not given nothing opens, and no sibling takes away what it was given.

* test harness: a test is skipped only if this very composite passed, and the
  artifacts tell every run that was made.
* scaffold: a file the user edited is not overwritten unless forced, and a
  failed or killed init does not make his text pass for the framework's.
* evaluators, derived loops: a score is earned by the candidate it is written
  to, one target's export never stands in another's place.
* personalization: a client's root holds his compile and no one else's, and a
  promotion was earned by graded sessions.
* evolve: a candidate is graded for its own edits, and the user's checkout is
  restored.
* registry: what was validated stays valid, an agent runs on the preset it names.

`PROJECT.json` lists every component and the hazards, each at its line with the
properties that cover it.

## 2. Modules

| Module | Models | State and steps |
|---|---|---|
| `RunDispatch` | `dispatch.py`, `record_run`, `run_agent` | per request `at`, `step`, `chain`, `runId`; shared `state` (run objects), `RUNS`, `table`. One action per stretch between two awaits: insert, mark, spawn, wait, reap what was killed when its time was up, commit, callback. `Crash` empties memory and keeps `table` |
| `RunLifecycle` | what the runs table promises | the abstract specification: a row moves absent, pending, running, success or failure, and stays |
| `RunAwait` | `GET /runs/{id}/await` | `RunDispatch` plus long-polling readers |
| `ProbeCache` | `ProbeCache` | the dict, the fallback marks, the file; callers with a pool; lock-held steps are atomic, teacher calls and the two halves of a write are steps of their own |
| `IterativeLoop` | `IterativeLoop.run`, `ComponentRegistry`, `RunStore` | the registry with lineage, the frontier, the candidates of the round, the store's tables; one action per call that may raise |
| `Evaluation` | installing a candidate, warm-up, a harness run with its retry, probe scores, metrics, contract gate | loops (graders) sharing agent directories; one action per file or subprocess step |
| `Mutations` | every mutator, prompt sections, the improvement agent's patch, the merge of a promoted definition | a definition and what any chain of mutations proposes from it; operators of pure code |
| `DerivedLoops` | per-class, per-target, single and branch loops, their exports, the starter's promotion | jobs, the snapshot directory with half-written files, `LATEST.json`, slots |
| `SourceApply` | `apply-source` | a text before the literal, the literal and the rest, in characters; bytes and lines as `ast` counts them, characters and `splitlines`' lines as the splice does. What `ast` accepts is a parameter |
| `Promotion` | `promote`, `load`, `unload`, `rollback`, `find_promotion` | slot files (absent, torn, a version), the promotions table, commands of several processes, a compile that reads |
| `Fleet` | `run_fleet` | extends `Promotion`: threads whose `promote()` are Promotion's steps |
| `EventStream` | `EventEmitter`, `QueueSink` | the queue, sequence numbers, a consumer |
| `AgentTurn` | `run_interactive` | transcript, tool rounds, records; extends `EventStream` |
| `WorkflowRun` | `run_workflow`, `WorkflowSpec` | cursor, shared state, records; extends `EventStream` |
| `Session` | a runner that calls an agent | composes the two over one queue |
| `Compile` | `CompileScript.run`, the factory's passes, build graph, what the four dialects write | the tree (file to what it was rendered from), the pass, the agents yet to write |
| `Permissions` | `generate_permissions`, Claude's settings, `map_tools_for_pi`, `derive_sandbox_mode`; of the prompts the calls they order and the actions they list as allowed | the variants of a pass, the files written so far, the settings file. One action per agent written, one for the settings |
| `Registry` | agents, presets, templates, configurations, `register_with_improvements`, access profiles | the registry's dictionaries; an improved registration reads one promotion per step while others promote |
| `PromptContext` | context blocks, the prompt assembler, `context_block_versions`, `tool_calls` and their metrics | an assembler, contents that change, one run per composed prompt, its rows in one transaction |
| `Personalize`, `Datasource` | a client's bundle, overlay and compile, probes, grading, the promotion gate, the personalized service and its command line; profiles and tools of datasources | per client the root (`opencode.json`, agents, promotions), per process its request |
| `TestHarness`, `Evaluators` | discovery, filters, green index, artifact file; evaluators and runners | two test processes over one JSONL file and a definition that is edited |
| `Scaffold` | `oac init`, the manifest, skill bundles | the directory, the manifest, an init step by step, the user, deaths |
| `TodoList` | `subagent_todo.py` | processes that load, change and save one file per run and agent |
| `ServerManager` | `opencode_manager.py`, the spawn tool | PID file, operating-system processes, commands that overlap |
| `StreamedRun` | the streamed long-running task | the pipe, the reader task, the tap, waits, exit |
| `Drivers` | the cron loop, the chat bot's history | minutes and posts; rows with integer seconds |
| `Evolve` | `oac evolve`, the replay and the teacher scripts it writes | git's working tree, index and head; a replay as its separate git calls; references on disk |
| `Arrangement` | Python's `sorted` and the filters of a list | operators shared by others: `Arranged`, `Sublist` |
| `FileStates` | - | the names of the states a file can be in, shared by others |

`MCRunDispatch`, `MCOperations` (`Fleet` and `Promotion`, `Session`, `RunAwait`
over the instances of `MCRunDispatch`), `MCBuild` (`Compile`, `Permissions`, `Personalize`, `Registry`,
`PromptContext`), `MCImprove` (`ProbeCache`, `IterativeLoop`, `Mutations`,
`Evaluation`, `DerivedLoops`, `SourceApply`) and `MCWorkspace` (`Scaffold`,
`TodoList`, `ServerManager`, `StreamedRun`, `Drivers`, `TestHarness`, `Evolve`)
hold the small instances. Machines that share no state are put side by side in
one MC module: its variable `part` says which of them a behaviour is about, so
their state spaces add up instead of multiplying. `*_proofs` hold the theorems. A definition
called `X_Y` next to `X` is a mutant: a plausible bug in `X`, used to see that a
property notices it.

How data are abstracted: a text is what it was rendered from (slot, run, model,
postfix), and in `Permissions` the variant and the rules in it; a command is a
path and a pattern a prefix of it; a file name is the sequence of its hyphenated parts, so that
`str.endswith` is `IsSuffix`; an id or wildcard is a sequence of words, so that
`fnmatch` with a trailing star is `IsPrefix`; a probe is real or a fallback; a version is its
content hash; a workflow value is its type and what `str()` gives; a prompt is a
sequence of blocks with the version of their content. Models,
subprocesses, databases and file systems are the outcomes they may have.

## 3. Runs

| Run | Instance | Shows |
|---|---|---|
| `service_pair` | two requests (a plain one, one under a caller's id, a retry walk with a callback, one that ends with a skip), one crash, failing transactions, log directories and log files, with and without the database | `TypeOK`; `RunsTellsOutcome` (the dict agrees with the table, an own run is visible); `CallbackTellsOutcome` (what is posted is the outcome, what a lost POST carried stands in `RUNS`) |
| `operations` | two processes on three slots with deaths and a compile that resolves; a fleet of an agent and its branch on two threads; two workflows with an agent that asks for up to two tools over a queue of two; one request of the service over all bodies (mode, id, three policies of up to three steps, callback) with a reader of two polls, every fault and one crash | `AnswersHold` (chains tell the walk, results are persisted, an awaited answer is final); `RowLifecycle`: the table implements `RunLifecycle`; `NobodyWaitsForever`; `SlotsTellHistory`, `ResolvesMostSpecific`, `NoSilentClobber`; `FleetPromotesEarned`; `SessionTold` (records, outputs and transcripts retell the walk), `InOrder`; `WhatBeginsEnds` |
| `build` | nine scripts in four dialects over six states of the registry, two runs, either killed; 1,320 trees of agents; one client served by the API and the command line; registries of presets whose names coincide; prompts of up to three blocks in two recorded runs | `PassesCoexist`, `NothingStale`, `ParentsFirst`; `PromptIsDeliverable`, `LeastPrivilege`, `NobodyLockedOut`; `ClientRootSound`, `PromotionEarned`, `NothingShadowed`; `RegistryHolds`; `ContextHolds` |
| `workspace` | inits over an edited directory; todo calls that overlap, with a clock; server commands over recycled ids and checks a server does not answer; a streamed run; a slow cron and a bot; two test runs around an edit; a repository of commits with candidates, a teacher and deaths | `ScaffoldKeepsWord`, `TasksKept`, `OneServerKnown`, `StreamComplete`, `DriversKeepWord`, `TestsKeepWord`, `ReplaysApart` |
| `improve` | two callers of a probe cache with failing writes; two runs of a loop with a raising store; mutators over three sources; five graders, two of them in one directory; four kinds of derived loop that die between writes; sources with wide characters, quotes before the prompt and form feeds | `DiskRealOnly`, `CacheHolds`, `PrewarmEnds`; `LoopTold`, `RecordsGrow`; `EditsSound`, `PromptLands`; `EvaluationSound`; `TargetsApart` |
| `lands_supplied`, `rollback`, `compile_claude`, `served_tuned`, `latest`, `splice`, `edits` | see section 6 | what a doc or comment says and the code does not do |

Many of these are conjunctions of named parts, one for each thing that could go
wrong; the parts stand, with their comments, at the end of the module.

### Bounds

* Service: two requests are enough for every pairwise interference, because
  requests share only `RUNS` and the table, by id; so that every fault fits in,
  a pair takes four bodies and at most two steps. Alone, a request takes every
  body; three steps are enough for a skipped step between two attempts. One crash: memory is empty after it, and a
  second differs only in the table's rows, which it does not touch.
* Probe cache: a key is told apart from another only by being another; two
  callers can miss one key together and save together.
* Loop: two rounds let a survivor be a parent, two runs let a run find the
  registry of another, also after an exception. Three hashes let proposals
  repeat.
* Evaluation: of five graders, one for each way to install a candidate, two
  share a directory, so that one cleans what the other has just installed.
* Promotion: `MaxCommands` bounds the commands issued, `MaxDuring` those that
  run while a compile reads. Three commands are needed to see a rollback that
  undoes something.
* Session: `QueueSize` 2 lets each of the places that emit find it full;
  `MaxToolRounds` 1 reaches the cap; `maxSteps` 4 lets a cycle be taken.
  A tool reports progress at most once per call.
* DerivedLoops: winners have a `floor` (what `best()` compares) next to their
  aggregate, in another order. SourceApply: four heads (the header's quotes, wide
  characters before and on the literal's line, a form feed), three literals and
  three rests, one of them with a quoted argument; `MCParsable` takes the texts
  whose quotes and parentheses are paired and that end the call. The theorem
  takes any parser.
* Compile: one run leaves something behind, one builds over it. A kill during
  an `rmtree` removes any part of what it was removing.
* Permissions: agents meet only in Claude's settings, where an agent and one
  sibling decide every rule; every other file depends on one agent. The two
  agents of a tree differ in role, and each in turn takes all combinations of
  what a rule reads.
* Personalize: `MaxRequests` 2 puts a request of the service and one of the
  command line side by side on one root; `MaxDeaths` 1 leaves one of them torn.
* Registry: `MaxPromoted` 2 lets one promotion stand before an improved
  registration and one land in the middle of it. PromptContext: two turns are
  what its properties compare; `MaxBlocks` 3 lets a block be added behind two.
* Workspace: two processes wherever two can overlap. Three inits with one edit
  and one death: one writes, one meets the edit, one repeats after a death.
  Three server commands on two process ids let an id be recycled; `MaxFaults` 1
  is one process that dies or appears, or one killed command. `DayLength` 2 and
  `MaxTime` 4 put a list's write at either half of a day and let more than a day
  pass over it. Evolve: `nested` is a new file under a harness name further down;
  `MaxReplays` 2 lets a replay find what another left, `MaxScripts` 2 lets one
  follow a teacher run or a script that died, `MaxTries` 2 bounds the candidates
  and answers over both scripts, `MaxLog` 3 the commits of the copy; `MaxFiles`
  3 is the program's cut-off for commits that touch too much, and a history has
  one below and one above it.

`CHECK_DEADLOCK FALSE` is set where bounded commands run out or the program may
simply stop.

### Fairness

Liveness is checked under the weakest fairness the code gives. A coroutine of
the service whose wait is bounded goes on (`WF` of `Owed`, per request): an agent
exits or its time is up, a callback is answered or times out. Nothing is owed at
the waits that have no limit (`Unbounded`): the database, to which `db.py:50`
gives no command timeout, and `communicate()` after the kill (`app.py:347-349`),
which a child that holds the pipe keeps waiting. So `RunsEnd` concludes that a
run ends or stays in one of these for ever, and `EveryWaiterAnswered` has the
premise that the database answers the waiter's reads (`WF` of `Poll`). Callers
need not post and the server need not crash. The callers of the probe cache go
on, assuming that teacher calls return. A compile
that resolves promotions goes on, the commands need not. Fleet threads and the
collecting caller go on. In a session only the workflow's thread is fair: the
consumer may never take an event, and the session still ends. The other
components state no liveness: what they do is commands somebody may or may not
issue, or a process that may be killed.

## 4. Proofs

Each theorem holds for every value of the constants under the named
assumptions of its module.

* `RunDispatch_proofs`: `TableImplementsLifecycle`, the refinement of
  `RunLifecycle`, from `DispatchInvariant`. The inductive invariant is `Shape`
  (program counters and steps fit), `RequestsApart` (no request bears a row's
  id), `RowsReached` (a row exists only for an attempt that was begun) and
  `OwnRow` (what a request's control state says of its row). It needs the
  assumption `SuppliedApart`: no caller sends an id of the form the table
  generates. The code does not enforce that; section 5 says what happens
  otherwise. A second invariant, `Told`: a walk under way has one chain entry
  for each step behind it, none of them "completed", and the last attempt with a
  result is the one its entry tells of; an answered walk's chain and answer fit;
  the row of a synchronous request of one attempt is its own, and after the end
  it tells what the caller was told. Each step is shown to leave the other
  requests what they know (`OthersTold`), then to keep the request's own part.
  `TypesHold`: the types are not inductive alone, because the counters are
  bounded by the policy a request was sent with; `Within` relates them to the
  control state.
  `AnswersStayTrue` (`AnswersHold` of every behaviour of
  `AwaitSpec`), from both invariants and from the fact that no step of the
  service changes a row that has an outcome (`OutcomeStays`), which is what an
  answered waiter relies on. Assumption: `SuppliedApart`. Then `RunsAreFound`
  (`RunsTellsOutcome`) and `CallersAreTold` (`CallbackTellsOutcome`). The third
  invariant, `Seen`: under a row's id the dict leads to the attempt of that row
  (`Objects`), an attempt's id is its request's own or one a caller chose
  (`IdKnown`), and its row has no outcome while the attempt is under way, so
  run_agent may change the object freely; a completed attempt is answered as
  such, unless its transaction failed or its log could not be written, which its
  object records (`CallHolds`); and what a lost POST carried is what the dict
  leads to. It needs `SuppliedCallers`: a caller's ids are told apart from all of
  the service's.
* `PromptAndProbe_proofs`: `OnlyRealProbes`, the file never holds a fallback. A
  fallback is in the dict exactly when it is marked (`MarksExact`), and every
  snapshot a save holds is without them; both must be known together, because
  the snapshot is written long after it was taken. `CacheKeepsPromises`
  (`CacheHolds`) adds what the snapshots leave out and what a prewarm has done,
  both as long as nothing was `disturbed`.
  `ContextsHold` (`ContextHolds` of every behaviour of `ContextSpec`), from
  `ContextInv`: every turn tells the prompt and the prefix of what was composed
  then, and a recorded run that is kept has a row for each piece of its prompt
  and no others (`RowsTold`). A block's place is given by how many precede it, so
  a block that precedes none of the cached ones moves none of them
  (`PlacesStay`). Assumption (`PromptAssumption`): explicit positions are below
  1,000,000, which `sort_key` takes for blocks without one and nobody checks.
* `IterativeLoop_proofs`: `LoopTellsTruly` (`LoopTold`) and `RecordsOnlyGrow`
  (`RecordsGrow`). The invariant says of every candidate where it came from and
  what it was compared with when it was judged, and of a round under way which
  of its candidates have their rows; a descent is followed along parents that
  are older than their children.
  `LoopsStayApart` (`TargetsApart` of every behaviour of `DerivedSpec`), from
  `DerivedInv`: each directory holds what was tuned for it; a winner of the
  target under way that a caller will be told of (the first without a store, with
  one the winner `best()` picks by `score_floor`) is still to be written or
  written whole, and is never overwritten, since bodies differ; the directories
  that have results differ from those of the targets to come. Assumption: a job's
  targets are distinct, and a store comes only with jobs of the kinds that take one.
  `GradingsAreSound` (`EvaluationSound` of every behaviour of `EvaluationSpec`),
  from `EvalInv`: a step of a loop touches only the warm-up file, the leftovers
  and the files of its own names in its own directory (`Changes`), and names of
  two loops differ unless both compile trees; so the file of a candidate under
  way is its own (`OwnFile`), every answer is the candidate's or says that no
  agent was found, and the answer that called for a retry is the second one
  (`AnswerTold`). Assumptions (`EvaluationAssumption`): loops side by side that
  compile trees have a build directory each, which `compiled_eval` asks of its
  callers and does not check; only the interactive harness needs no file.
  `FrozenSectionsSurvive` (`EditsSound` of every chain of mutations), from `MInv`:
  every definition `Descends`, that is, it is well shaped, its steps and sections
  are in order, and it is kin to one of the sources and, as long as nobody edited
  the source, holds the frozen sections as they were declared; and a version is
  what its author says of it (`Told`). What a merge takes and what a mutator leaves is followed field
  by field. Assumption: the sources are well shaped. That their prompt is rendered
  from their sections is not assumed, since nothing in `AgentDefinition` does it:
  the compiled prompt is shown to hold the frozen sections from the first
  promotion on, before that only of a source that was rendered.
  `PromptsLand` (`PromptLands` of every run of `SourceNext`), from `SpliceInv`:
  the file parses, and a text about to be written is one the parser took; where
  bytes are characters, and lines `splitlines`' lines, up to the end of the literal
  (`Aligned`), the text is the head, the new prompt and the rest, of which a second
  splice makes the same. The lemmas are about positions: where the n-th line of a
  text starts (`SplitStart`) and that the offsets of the splice are the lengths of
  what precedes them. Nothing is assumed of the parser or of the texts, but that
  what a user saves parses.
* `Arrangement_proofs`: lemmas that components share. A finite set in the order of
  a relation (`Arranged`, Python's `sorted`) has every element at the place given
  by how many come before it (`ArrangedIs`); an order-keeping filter (`Sublist`)
  has the elements at its places and no others (`SublistIs`, `SublistIsList`). They
  take the place of the community modules' `SelectSeq` and `SetToSortSeq`, which
  are defined by recursion.
* `Workspace_proofs`: `OneServerIsKnown` (`OneServerKnown`), from `ManagerInv`:
  an orderly start holds the only server there is from the spawn to the PID
  file, and a recycled process id is only ever in a file no orderly command
  wrote. A start beside a server that did not answer its check (slow, or a 5xx)
  ends the order, like two commands at once or a killed one. `TasksStay` (`TasksKept` of every behaviour of `TodoSpec`), from
  `TodoInv`: what a call has read stays what the list holds until it writes,
  while nobody else shares the list and it is written once in 24 hours. Assumption: `SafeApart`, no two agents'
  names become one file name (the code replaces characters, it does not check).
  `StreamsComplete` (`StreamComplete` of every behaviour of `StreamSpec`), from
  `StreamInv`: the tap holds the events of the lines read so far; a reader that
  ended has read all of them; the verdict that the process exited is reached
  only after the reader ended.
  `ScaffoldsKeepWord` (`ScaffoldKeepsWord` of every behaviour of `ScaffoldSpec`),
  from `ScaffoldInv`: a whole manifest tells what the files held when it was
  written (`ManifestTells`); of an init under way, which files it may have
  changed, which it has still to visit untouched, and that the hashes collected
  so far are those of the files behind it (`FilesVisited`); of a configuration
  every init had, what its files and manifest hold at each place of the next one
  (`RegularHolds`); no sidecar is of a later version than the installed one, and
  a bundle being written for the first time is not fresh yet (`BundlesHold`). Assumption:
  versions are numbers, other than the value of an absent file.
  `DriversHold` (`DriversKeepWord` of every behaviour of `DriversSpec`), from
  `CronInv`: of the pass under way, the events behind it are posted, the minutes
  before its own are over, and if a POST was slow every minute up to the one the
  sleep may reach has lapsed (`PassHolds`), so that the sleep passes over none;
  and `BotInv`: what a turn chose is among the rows before its own. Assumption:
  the driver polls more than once a minute (the default is every half minute; a
  longer `CRON_POLL_SECONDS` misses minutes).
  `ReplaysStayApart` (`ReplaysApart` of every behaviour of `EvolveSpec`): while a
  task runs, `Underlies` says what of the tree is as found and which paths are the
  agent's, `Grades` that a fair replay stands on the commit's parent, `Tidy` that
  only what is noted as foreign makes the tree differ from HEAD outside the
  harness, and `Rooted` that a path the branch never held is in no commit a script
  can check out, so that no checkout takes the compiled harness away
  (`Compiles`). What `git clean -e` leaves of a failed run further down (`Litter`)
  is followed too: only such leftovers are graded beside an agent's own edits.
  Lemmas about the git operators carry it (`CheckoutIs`,
  `CheckoutKeeps`, `CheckoutMoves`, `ResetCleans`, `PutBackIs`). The attempt
  showed that the harness's names must be free in the replayed commit too, not
  only at HEAD and on the branch: after two agents' commits on a detached HEAD a
  checkout back that fails leaves a tree a later replay cannot leave. Assumptions:
  repositories are sequences of trees over the same paths, a compile and the
  promotion write only what a replay excludes, and no agent edits its own
  compiled harness.
  `TestsStand` (`TestsKeepWord` of every behaviour of `TestHarness!Spec`), from
  `HarnessInv`: what the file calls green was earned; a skip has the key of an
  earned pass (`RunHolds`), and a key tells the test, its mocks and the
  definition, not the mode the variant compiles it in (`KeysTell`); of a run under way, its counts and what it has still to do add up
  to what it discovered, and each test it has behind it that passes now is green
  in the file or in its buffer, unless somebody edits (`TestHolds`), so that what
  the last complete run saw is green when the next one starts (`WorldHolds`); and
  of a run nobody disturbs, the file with its buffer behind it can be read
  (`CalmHolds`), a line in two chunks included (`ReadableSplits`). For the path of
  a branch, the greedy match is shown to be the longest beginning of the path that
  is embedded in the dispatches (`GreedyIsBest`). Assumptions
  (`HarnessAssumption`): the tests of one definition have different names, which the
  code does not check (of two capability tests of one name the second is skipped
  for the first one's pass, of two tool tests it is not discovered); an agent
  is no tool.
* `Promotion_proofs`: `UnforcedNeverClobbers`. Between the look at a slot and the
  write, `LookedHolds` keeps that the slot was empty unless another command
  touched it since, which the history variable `raced` records.
  `HistoriesAreTrue` (`SlotsTellHistory`): of a place whose every change was
  recorded in order, `PlaceTold` says at each step of its command what file,
  table and past have in common; the last two rows of the table are the last
  two versions of the past, one step late while a version is written and not
  recorded. A row that is appended becomes the last one: `LeastOf` (every set of
  numbers has a least one, from the well-founded order of the naturals) gives
  `MaxOf`, and with it `Max` and `Previous` can be reasoned about.
  `CompilesResolve` (`ResolvesMostSpecific`), from `SearchInv`: the chain of
  places still to look at goes from the more specific to the less (`Ordered`),
  and every untouched place that holds a version is still in it (`Ahead`). Both
  hold of the chain a search begins with (`ChainsOrdered`), whichever of client,
  target and class are given; what commands change meanwhile is `touched`.
* `Operations_proofs`: `FleetsPromoteEarned` (`FleetPromotesEarned` of every behaviour
  of `FleetSpec`). The two conjuncts speak of units that are done; the invariant
  says what holds on the way there. A unit is in the queue, with one thread, or
  has its outcome (`Apart`), so a thread's steps disturb nobody else
  (`OthersUndisturbed`); the thread's own progress is `ThreadHolds`: the slot is
  untouched until the promotion truncates it, and the promotion under way is of
  the best winner, which qualifies and whose snapshot is the latest. `InTurn`
  says that the caller has passed over no outcome that raised. It rests on
  `FleetAssumption`: winners were just evaluated and written, so none is a
  version whose file carries a stale hash.
  `SessionsTellTruly` (`SessionTold` of every behaviour of `SessionSpec`), from
  two invariants. `WalkInv` says at each place of the walk what the last record
  has to do with the cursor: it led there, or is the failed attempt that is being
  retried; and how many of the counted visits have their first record. `TurnInv`
  follows a round of tools: the message that asked for them is followed by the
  answers given so far, the calls left are the rest (`AskedAt`), and the records
  are one ahead between a tool's end and its message (`RecordsTell`). Assumptions
  (`WalkAssumption`): edges end at steps, which `WorkflowSpec` validates, and no
  state variable has the name of a step's output. The code does not enforce the
  latter: a dict with such a key overwrites the output.
  `EventsInOrder` (`InOrder` of `SessionSpec`), from `StreamInv`: of each source,
  the last event taken and those in the queue follow one another, one seq left out
  only after a tool's start (`Ordered`), and are older than what its emitter counts
  (`Counted`); what the last of them is and how many seqs its emitter has counted
  since fit the place the turn or walk is at (`LastTold`, `Expected`), so that the
  next put may follow it.
* `Build_proofs`: `RegistriesHold` (`RegistryHolds` of every behaviour of
  `RegistrySpec`), from `RegInv`: ids occur once, so adding an agent changes
  neither what an id finds nor the first one a wildcard matches
  (`ResolutionStays`); a profile that is added is in nobody's chain, and of the
  profiles of a chain that bind a resource there is a nearest one
  (`NearestExists`, by sets closed under `extends` in place of induction), so
  bindings stay; of an improved registration under way, every place behind it
  that refers to a component promoted at the start has a promoted text.
  Assumption: the parts of an enrolment are a list.
  `PromptsDeliver` (`PromptIsDeliverable`), `PrivilegesStay` (`LeastPrivilege`) and
  `EveryoneKeepsTheirs` (`NobodyLockedOut`) are about what `PermInv` says of the
  files: each is rendered from an agent of the tree or its twin, and the
  settings are those of all of them. The rest is about the operators: the rule
  that decides a call is the longest that covers it, so that of calls with one,
  two and three parts the candidates can be listed (`RuleOne`, `RuleTwo`,
  `RuleThree`), and each rule is the agent's own, which allow, or a tool's
  (`RulesKnown`). Assumptions (`PermissionsAssumption`): toggles and modes have
  the values their types have; commands are not empty and none is the bundled
  manager; no tool is called `bash`, `skill` or `mcp`, whose blocks such a name
  would replace (the code does not check that).
  `CleanBuildsAreFresh` (`NothingStale` for every registry, script and dialect). A
  file's text says what rendered it, so a leftover of a variant is told by the text
  and not by the name the cleaning goes by. The invariant `Fresh` is about names:
  of the passes already cleaned for, no older file has one the cleaning looks for.
  Every step of a pass is shown to only `Renews` a tree (what it adds is of this run,
  what it keeps or moves keeps its stem and its run), and renewing preserves the
  invariant; only `StartPass`, which moves on to the next pass, needs what it has
  just removed. `FileInv` (below) leads from names to texts: an agent's file that the
  cleaning of its variant passes over is a primary twin.
  Personalization, whose steps touch one client's root each: `ClientsShaped` says
  what a process's record holds at each place, and that a step of one process
  takes from another at most that it is alone (`OthersKept`). `PromotionsAreEarned`
  (`PromotionEarned`), from `GradesHold`: what a process knows of a candidate it
  graded is true of it, over tasks and probes that exist. `MergesShadowNothing` (`NothingShadowed`), from `BundlesHold`: the tools
  of a bundle are finitely many names, so an overlay can be compared with them.
  `RootsStaySound` (`ClientRootSound`), from `UsersHold` (a config that holds what its
  user wrote is whole or torn, and who is about to write it has read that) and
  `RootsHold`: who is alone at a root has placed the agents of the roles behind it
  as asked, and, once it answers, the config. Assumption
  (`PersonalizeAssumption`): the roles are distinct.
  `ParentsComeFirst` (`ParentsFirst` for every registry, variant, preset and dialect).
  Kahn's rounds are a recursive function of the number of the round, so what holds
  of a round (`RoundHolds`: what is taken is taken once, and after those it waited
  for) is shown by a least counterexample. A graph without the edges of a
  depth-first search's back references has a slot that waits for nobody
  (`SourceExists`), so every slot is taken: the code's last check, that the
  order holds every slot, never fires. From there, `WritesAre` says what the list of
  writes holds and `LineInv` how far the pass has come in it.
  `VariantsCoexist` (`PassesCoexist`), from `FileInv` (an agent's file has the name
  its text gives it), `KeptInv` and `Standing` (what the passes behind have written
  is still there, as they wrote it): names of two passes, or of two slots, differ
  (`StemsDiffer`), and a cleaning that looks for one postfix finds no file of
  another (`StemEnds`). That led to a third condition on names, which the code does not check
  either: a postfix has no slot's name and no `-primary` in it (`PlainName`).
  Assumptions (`CompileAssumption`): postfixes of variants are distinct, as the
  validator of `CompileScript` asks; a registry has its slots once; every context a
  script names is there.

Only model-checked: the liveness properties (out of the prover's reach, like
`ENABLED`). Induction theorems that take an
operator cannot be used; where a fact about one concrete predicate needs
induction, `LeastOf` and `LeastIn` do (a least counterexample). `SelectSeq` and the
folds are defined by recursion inside an operator, and no lemma on them can be
proved; where a proof has to know what is selected, the models use sets, `Sublist`
or a recursive function instead, elsewhere it holds whatever is.

## 5. What the checks say about the code

Properties that hold hold as stated; some are stated for less than one would
like, because the code does not do more:

* `RunsTellsOutcome`, `RowLifecycle`, `AnswersHold`: as long as no caller sends a
  row's id as its own (an update under it would write another run's row); runs that
  share an id their callers chose hide one another in `RUNS`. Dict and table agree
  but for a run whose log could not be written: with the directory unwritable
  `RUNS` says running for ever, with the file unwritable it says what the agent
  did, and either way the row says failure.
* `CallbackTellsOutcome`: a result lost in a failing transaction is called back
  as failed although the agent completed. A POST that is lost is not repeated;
  its outcome is left in `RUNS` until the server dies.
* `NobodyWaitsForever`: but for the waits without a limit (section 3, Fairness).
* `NothingStale`: after a `per_variant` clean primary twins of earlier runs may be
  left, because the cleaning looks at the end of the name (`script.py:221`) and a
  twin's name ends with `-primary`. A twin whose slot is gone stays for good.
* `CacheHolds` (that the file loses no probe): as long as two misses of a key,
  or two saves, do not overlap (`disturbed`).
* `NoSilentClobber`: as long as no other command changes the slot in between.
* `PassesCoexist`: when names are apart (`NamesApart`). The
  validator asks for distinct postfixes; that is not enough when an agent opts
  out of a split (its file is the default variant's) or, under `per_variant`,
  when one postfix ends with another (`-v2` removes `-fast-v2`), or when a postfix
  has `-primary` or the name of a slot in it: such a file can bear the name of
  another agent's.
* `PromptIsDeliverable`: for delegations, the policy's list and the todo tools of
  primary agents; not for the bundled scripts and the step texts of section 6,
  and unless a tool that bears a built-in's name is itself not allowed.
  `NobodyLockedOut`: but for `opencode_manager.py`, which Claude's settings have
  no rule for.

* `TasksKept`: while a run's calls do not overlap, none is killed, no other run
  of its agent has its id and somebody writes the list once in 24 hours; the code
  has no lock, and prunes by the file's time, not by the day of the run id.
  `OneServerKnown`: while commands do not overlap, none is killed and no server
  that runs leaves a check unanswered before a start. A server that takes over two
  seconds, or answers with a 5xx, gets a second one beside it
  (`opencode_manager.py:54-60, 84`).
* `DriversKeepWord`: an event is missed only in a minute during which posts were
  slow, and a chat's history is in order only across seconds.
* `StreamComplete`: for a caller whose wait says that the process exited; a wait
  for an event may miss one that is in the tap a moment later.
* `EvaluationSound`: for loops that do not share a build directory.
* `ReplaysApart`: while no file of the branch, of HEAD or of the replayed commit
  has a name of the harness; otherwise the checkout back is blocked by a file the
  clean leaves alone. But for new files a failed run made under such a name in a
  directory further down: `git clean -fd -e scripts` (`replay.py:149-150`) leaves
  `pkg/scripts/new.py`, `:(exclude)scripts` (`141-142`) stages it, so the next replay is graded
  for it. And for candidates after the first, when the developer skills
  were deployed over a tracked `CLAUDE.md` (see section 6).
* `RegistryHolds`: a component named twice in one agent has the same text in both
  places unless it was promoted in the middle of the registration.
* `TestsKeepWord`: of the definition, mocks and variant a test ran on; a change of
  the script behind a tool is in no hash, so a test it breaks is still skipped.
  Nor is the `agent_mode` of the slot: `compile_permissions.py:90-98` reads it, the
  key hashes `variant.agent_definition` alone (`orchestrate.py:48-49, 96`), and a
  capability test that passed on the agent in one mode is skipped in the other.
* `EditsSound`: that the compiled prompt holds the frozen sections, once something
  is promoted or where the source's author rendered the prompt. `PromptLands`: where
  bytes are characters and `ast` and `splitlines` agree on lines, up to the end of
  the literal; elsewhere only that the file parses.
* `TargetsApart`: a snapshot for every winner only without a store; with one, the
  best by `score_floor` alone is written.
* `PromotionEarned`: with the gate `run_fleet` applies, the square of the target.
  `NothingShadowed`: of a name the client takes over under `client_overrides`
  nothing is said (section 6, both).
* `ScaffoldKeepsWord`: the first init after an edit keeps it, and records its hash;
  `edits` shows the next forced one overwriting it.
* `ContextHolds`: the metrics count runs while an assembler names a block once;
  `with_block` does not check that, the constructor does.

## 6. Findings

Checked by runs that expect a violation:

* `lands_supplied`: with a caller-supplied id the row is inserted under one id
  and updated under another, so the result never lands in the table.
* `rollback`: a rollback can restore something else than the previous promotion.
* `compile_claude`: each pass of the Claude dialect removes the tree of the one
  before, so of several variants only the last survives.
* `served_tuned`: an optimize request promotes into the client's root, the agents
  served afterwards read the base project's promotions.
* `latest`: `LATEST.json` is written once per winner, best first, so it names the
  worst.
* `edits`: an init that preserves an edited file records the hash of the edit as
  the framework's (`scaffold/engine.py:224`), so the next `--force-overwrite` takes
  the file for unedited and overwrites it, against `config.py:80-87` and
  `manifest.py:13-15`.
* `splice`: `apply-source` takes byte columns for characters and rewrites text
  beside the literal.

Met while modelling, without a run of their own:

* After the first, a retry step with `when="on_timeout"` is always skipped: the
  trigger (`scaffold/files/dispatch.py:169`) reads a status that a timeout does
  not set (`scaffold/files/app.py:350`, against the comment at line 55).
* Nothing allows `subagent_todo.py` and `workspace_io.py`, which the prompts of
  subagents and of agents with a workspace order (`compile_permissions.py:84-87`
  says they are allowed automatically). A step tells the agent to call each of
  its subagents via the Task tool, primary ones too (`step_block.py:60-78`).
  Inline skills print commands even when only the JSON contract was chosen.
* The security policy and the enforced rules differ (`agent_model.py:53-55`
  speaks of keeping them in sync): a workspace with the write toggle on, edit
  without write, `inline_skills` with skills allowed, servers without the mcp
  toggle.
* Claude's settings allow a command whatever its tool's permission value or
  contract. Pi's and Codex's prompts order a todo file even when writing is
  disallowed.
* Prompts name subagents without the postfix their files carry.
* A run whose agent was killed waits for its output without a limit
  (`app.py:347-349`), and every transaction for the database (`db.py:50`).
* The row of a retried run never holds the fallback chain its caller is told.
* `runtime_spawn.py` hands out `/runs/<id>/await` for an id it never tells the
  service, so the await endpoint answers 404.
* The fleet considers only the first winner for promotion although
  `fleet.py:14-15` speaks of any winner that qualifies; `LATEST.json` ends as
  the lowest-ranked one. An export or a promotion that raises fails the fleet.
* `written_files` is what is new by name, so it is empty for a clean rebuild.
* Leftovers in `.opencode` are moved into `.claude` with a pass's own files.
  Codex raises for slots with `/`. Missing scripts and cycles are found after
  the target was wiped.
* An id containing `__` shares its slot file with another id's slot.
* Gates compare texts, routes compare values (`dag.py:100`,
  `executor.py:113-119`). A workflow whose sink raises loses its records.

Tests: tests run before the green index is consulted, so a failing test of an
edited script is reported as skipped; a torn line of the artifact file makes
every later `oac test` raise (`testing/artifact.py:226`); tests are told apart by
tool and test name only; tests of tools in workflow steps are not discovered;
same-named capability tests of one agent share a green key; `llm_judge` without a
judge counts as passed; `run_tool_test` keeps no mock state, so a sequence always
gives its first answer.

Evaluation: a harness run that times out with partial text is graded as if it had
ended; `clear_candidates` removes the candidates of other loops; the contract
gate judges another run than the one graded; `RunOutcome.from_run_result` leaves
`tool_calls` empty, so `require_tool_called` always fails on it; two loops with
one `build_dir` grade each other's candidate.

Mutators and promotions: `Route.goto_step` is not rewritten when steps are
renumbered; what a promotion says of workflow, tools, format, temperature and
subagents is never applied (a merge takes texts, `todo_mode` and `model_class`);
a flat edit of the prompt of an agent with sections is lost at the next
rendering; after an edit of the source a promotion keeps the earlier frozen
sections; `system_prompt` is "DERIVED" from the sections by `agent_model.py:171-176`
and `prompt_sections.py:34-36`, but nothing derives it before a promotion does, and
`compose.py:27-40` compiles what the author wrote; the improvement agent's temperature is not clamped; skills, tools and
agents of one name share their promotions; a promotion in the middle of a
registration can give one tool two texts in one agent.

Derived loops: `LATEST.json` ends as the worst winner and `improve_starter.py:203-208`
promotes whatever it names, so that its "no winner cleared the floor" is never
printed; `split_loop.py:40` changes the baseline's nested metadata in place; `oac
improve` passes no model, so its rewriter does nothing; an exception in one
class's loop loses the results of all. Source edits normalise line ends, and a
`SyntaxError` escapes the command's `except`.

Personalization: the gate is in effect the target squared, where
`judge.py:78-79` ("must clear `target`") and `personalization/run.py:14` say the
target; probes are keyed by
position, so a new list of examples is answered from old probes; `client_overrides`
removes nothing from the allow-list, where `capability_bundle.py:44-46, 275-276`
say the built-in is dropped from it; a tool alias may be another's prefixed name;
two datasources with one slug share tools; the teacher never sees failures (the
list is copied by pydantic, `personalization/run.py:354-357`); `opencode.json` is
truncated before it is filled, and a torn file loses the user's settings.

Scaffold and skills: a re-init without force drops skipped framework files from the manifest; the
`CLAUDE.md` of `emit_claude` is rewritten unconditionally; a skill rewrite that
dies leaves a truncated `SKILL.md` with a fresh sidecar.

Scripts and drivers: the generated STEP 0 gives no `--run-id`, so runs of one day
share a todo file although "each run gets a unique id"; agents `a/b` and `a_b`
share one too; a server start that takes over 30 s leaves a server nobody knows;
a recycled process id is signalled; a detached spawn never registers its run id;
a blocking timeout leaves the run going; a line above 64 KiB ends the reader of a
streamed run; rows of one chat turn carry equal integer seconds; a failed cron
POST counts as fired, and a restart may fire twice.

Evolve: an implementer compiles as a subagent, because no slot of the synthesized
harness is called `primary`; a failed student scores 1.0 against an empty
reference ("A failed student run scores 0"); the exit code of `git checkout` of
the parent is not read; deploying skills overwrites `CLAUDE.md`, which is not
among the excluded paths, so the first replay is graded with it ("Stage everything
except the harness itself"); a history that adds a file under an excluded path
can block the checkout back ("The original checkout is restored after every
probe"); edits under `scripts/` at the root are never counted, new files of a failed run
under one further down are left and counted for the next candidate; the loader of the synthesized
project neither attaches extra tools nor merges promotions, so no winner ships;
torn or empty references are never made again; a workspace with a remote scores
every candidate 0. Two scripts at once in one workspace are not modelled.

Registry and metrics: presets `a/b` and `a_b` give one agent id; a preset is kept
although its agent's id is refused. `/metrics/context-volatility` reports as
"declared (last seen)" the alphabetical maximum (`db.py`, `MAX(declared_volatility)`);
`cacheable_prefix` stops at the first breakpoint where its class speaks of the
highest; `/metrics/tool-failures` is said to be read by the improvement loop, which
has no such option; nothing in the generated application writes either table.

## 7. Plan

Done, in order of importance: the run service and its abstract specification,
the probe cache, the loop, promotion and fleet, the interactive and workflow
runtimes, the compile pipeline, the permissions; then personalization, the test
harness, the scaffold, scripts and drivers, the evaluators and mutators, the
derived loops, harness evolution, the registry and the prompt blocks.

Left open: abstract specifications of promotion and the test harness with the
refinement that shows they are kept.

Partly modelled, with what is left out named in `PROJECT.json`: the personalized
service's serving adapters and multi-step variant, the charts of derived loops,
the diagnostics an evaluator reads out of a run's events, workspace and log
files of the bundled scripts, the validators of workflow specs.

Not modelled: texts without behaviour (skills' contents, static scaffold files),
pydantic types without operations, argument parsing, parsers of one rendered
file, and the bindings to other libraries: their correctness is in wording, in
one call, or in the libraries they call.
