------------------------------- MODULE Evolve -------------------------------
(***************************************************************************)
(* `oac evolve` clones a repository, takes its remotes away and compiles a *)
(* harness of coding agents into the copy.  Two scripts left there evolve  *)
(* it: evolve_loop.py replays the repository's commits with every          *)
(* candidate, teacher_eval.py compares its answers with a teacher's.  All  *)
(* of them share one working tree, which agents edit and processes leave   *)
(* behind when they die.                                                   *)
(***************************************************************************)
EXTENDS Naturals, Sequences, SequencesExt, FiniteSets, FiniteSetsExt

CONSTANTS
  Histories,      \* what may be cloned: sequences of trees, from path to content
  Excluded,       \* paths a replay neither stages nor cleans (_HARNESS_EXCLUDES)
  Nested,         \* paths further down that hold such a name, as pkg/scripts/new.py
  Compiled,       \* the excluded paths a compile writes
  Skills,         \* paths a deployment of developer skills writes (CLAUDE.md)
  Editable,       \* paths an agent may edit
  Definitions,    \* what a loop may try: <<prompt, workflow, extra tools>>
  Ours, Teacher,  \* the harness as synthesized, and on the stronger model
  Tasks,          \* the sequence of a teacher's example tasks
  MaxFiles,       \* a commit that touches more is not replayed
  MaxReplays, MaxTries, MaxScripts, MaxLog

ASSUME EvolveAssumption ==
  /\ MaxFiles \in Nat /\ MaxReplays \in Nat /\ MaxTries \in Nat /\ MaxScripts \in Nat /\ MaxLog \in Nat
  /\ Compiled \subseteq Excluded /\ Compiled \cap Editable = {} /\ Skills \cap Excluded = {} /\ Nested \cap Excluded = {} /\ "improved" \in Excluded

VARIABLES
  clone,       \* the copy: [stage, working, connected, profile, tip, at, detached, tree, staged]
  replayer,    \* the script at work
  references,  \* reference_outputs.json: [state, answers], answers from tasks to [by, blank, failed]
  archive,     \* what the zip holds: <<>> or <<[connected, tree]>>
  foreign      \* the tree holds what no replay has put there or taken away since

evolution == <<clone, replayer, references, archive, foreign>>

NoFile  == <<>>
Mine  == <<"agent">>
Bundle == <<"skills">>
RepoPaths == DOMAIN Head(CHOOSE h \in Histories : TRUE)
Contents(t) == {t[p] : p \in DOMAIN t}

ASSUME RepositoryAssumption ==
  /\ \A h \in Histories : h # <<>> /\ h \in Seq([RepoPaths -> UNION {Contents(h[i]) : i \in DOMAIN h}])
  /\ Compiled \cup Editable \subseteq RepoPaths

NoClone == [stage |-> "none", working |-> TRUE, connected |-> FALSE, profile |-> <<>>, tip |-> <<>>,
            at |-> <<>>, detached |-> FALSE, tree |-> <<>>, staged |-> {}]

Asleep(n, tries) == [pc |-> "idle", started |-> n, script |-> "none", commits |-> {}, tried |-> tries, left |-> {},
              commit |-> <<>>, next |-> 1, definition |-> Ours, total |-> 0, best |-> <<>>, found |-> NoClone, edits |-> {}, changed |-> {},
              score |-> 0, own |-> FALSE, fair |-> FALSE, failed |-> FALSE, committed |-> FALSE, ran |-> FALSE,
              answers |-> <<>>, gap |-> <<>>]

EvolveInit ==
  clone = NoClone /\ replayer = Asleep(0, 0) /\ references = [state |-> "none", answers |-> <<>>] /\ archive = <<>> /\ foreign = FALSE

---------------------------------------------------------------------------
(* Git.  A commit is the sequence of trees up to it.                       *)

Tree(c) == c[Len(c)]
TouchedBy(c) == {p \in RepoPaths : Tree(c)[p] # Tree(Front(c))[p]}

(* `git log`, newest first.                                                *)
Log(c) == [i \in 1..Len(c) |-> SubSeq(c, 1, Len(c) - i + 1)]

(* The most recent commits with a parent and few files.                    *)
Small(c) == {x \in {SubSeq(c, 1, n) : n \in 2..Len(c)} : Cardinality(TouchedBy(x)) \in 1..MaxFiles}
Selected(c) == {x \in Small(c) : Cardinality({y \in Small(c) : Len(y) > Len(x)}) < MaxReplays}

(* An edited path is carried along, unless the commits differ in one: then *)
(* nothing moves, and the exit code is not looked at.                      *)
Checkout(g, target, detach) ==
  LET edited == {p \in RepoPaths : g.tree[p] # Tree(g.at)[p]} IN
  IF \E p \in edited : Tree(target)[p] # Tree(g.at)[p] THEN g
  ELSE [g EXCEPT !.at = target, !.detached = detach,
                 !.tree = [p \in RepoPaths |-> IF p \in edited THEN g.tree[p] ELSE Tree(target)[p]]]

(* Mutant: the harness's own files are staged too. *)
Staged_All(g) == {p \in RepoPaths : g.tree[p] # Tree(g.at)[p]}

(* `git add -A` but for the harness, whose names are anchored at the root,  *)
(* then `git diff --cached`.                                               *)
Staged(g) == {p \in RepoPaths \ Excluded : g.tree[p] # Tree(g.at)[p]}

(* Mutant: an agent's edits are carried back to the branch. *)
Reset_Not(g) == g.tree

(* `git reset --hard`: paths HEAD has, and paths in the index, are HEAD's.  *)
Reset(g) ==
  [p \in RepoPaths |-> IF Tree(g.at)[p] = NoFile /\ p \notin g.staged THEN g.tree[p] ELSE Tree(g.at)[p]]

(* Mutant: the harness is cleaned away. *)
AfterClean_All(g, tree) == [p \in RepoPaths |-> IF Tree(g.at)[p] = NoFile THEN NoFile ELSE tree[p]]

(* `git clean -fd -e ...`: untracked paths go, but for those with a name of *)
(* the harness at any depth.                                               *)
AfterClean(g, tree) ==
  [p \in RepoPaths |-> IF p \notin Excluded \cup Nested /\ Tree(g.at)[p] = NoFile THEN NoFile ELSE tree[p]]

(* What a detached run committed is left behind.                           *)
PutBack(g, found) ==
  Checkout([g EXCEPT !.tree = AfterClean(g, Reset(g)), !.staged = {}], IF found.detached THEN found.at ELSE g.tip, found.detached)

(* An agent edits, and may commit what it edited.                          *)
Edited(g, edits) == [g EXCEPT !.tree = [p \in RepoPaths |-> IF p \in edits THEN Mine ELSE g.tree[p]]]
Committed(g, edits) ==
  LET c == Append(g.at, [p \in RepoPaths |-> IF p \in edits THEN Mine ELSE Tree(g.at)[p]]) IN
  [Edited(g, edits) EXCEPT !.at = c, !.tip = IF g.detached THEN g.tip ELSE c]

(* Mutant: the loader only takes over the prompt. *)
Loaded_Prompt(d) == <<d[1]>>

(* agents.py builds the registry from a definition's prompt and workflow.  *)
Loaded(d) == <<d[1], d[2]>>

CompiledInto(g, d) == [g EXCEPT !.tree = [p \in RepoPaths |-> IF p \in Compiled THEN Loaded(d) ELSE g.tree[p]]]

---------------------------------------------------------------------------
(* `oac evolve`.                                                           *)

Isolate ==
  /\ clone.stage = "none"
  /\ \E h \in Histories :
       clone' = [NoClone EXCEPT !.stage = "cloned", !.connected = TRUE, !.tip = h, !.at = h, !.tree = Tree(h)]
  /\ UNCHANGED <<replayer, references, archive, foreign>>

StripRemotes ==
  /\ clone.stage = "cloned" /\ clone.working
  /\ clone' = [clone EXCEPT !.stage = "isolated", !.connected = FALSE]
  /\ UNCHANGED <<replayer, references, archive, foreign>>

Profile ==
  /\ clone.stage = "isolated" /\ clone.working
  /\ clone' = [clone EXCEPT !.stage = "profiled", !.profile = Log(clone.at)]
  /\ UNCHANGED <<replayer, references, archive, foreign>>

Synthesize ==
  /\ clone.stage = "profiled" /\ clone.working
  /\ \E deployed \in {{}, Skills} :
       LET g == CompiledInto(clone, Ours) IN
       /\ clone' = [g EXCEPT !.stage = "ready", !.tree = [p \in RepoPaths |-> IF p \in deployed THEN Bundle ELSE g.tree[p]]]
       /\ foreign' = (deployed # {})
  /\ UNCHANGED <<replayer, references, archive>>

Package ==
  /\ clone.stage = "ready" /\ clone.working
  /\ archive' = <<[connected |-> clone.connected, tree |-> clone.tree]>>
  /\ clone' = [clone EXCEPT !.working = FALSE]
  /\ UNCHANGED <<replayer, references, foreign>>

(* With --no-zip, or dead.  A second run refuses a clone that is there.    *)
EndEvolve ==
  /\ clone.working /\ clone.stage # "none"
  /\ clone' = [clone EXCEPT !.working = FALSE]
  /\ UNCHANGED <<replayer, references, archive, foreign>>

AddRemote ==
  /\ replayer.pc = "idle" /\ clone.stage = "ready" /\ ~clone.working /\ ~clone.connected
  /\ clone' = [clone EXCEPT !.connected = TRUE]
  /\ UNCHANGED <<replayer, references, archive, foreign>>

Startable == replayer.pc = "idle" /\ replayer.started < MaxScripts /\ clone.stage = "ready" /\ ~clone.working

---------------------------------------------------------------------------
(* Both scripts: candidates one after another, then the best is promoted.  *)

Try ==
  /\ replayer.pc = "pick" /\ replayer.tried < MaxTries
  /\ \E d \in Definitions :
       /\ replayer' = [replayer EXCEPT !.pc = IF replayer.script = "replay" THEN "replay" ELSE "student",
                                       !.tried = @ + 1, !.left = replayer.commits, !.next = 1, !.definition = d,
                                       !.total = 0]
       /\ clone' = CompiledInto(clone, d)
  /\ UNCHANGED <<references, archive, foreign>>

(* score_mean: every candidate has the same number of scores.              *)
BestSoFar(best, d, total) ==
  IF best = <<>> \/ best[1].total < total THEN <<[definition |-> d, total |-> total]>> ELSE best

Evaluated ==
  /\ \/ replayer.pc = "replay" /\ replayer.left = {}
     \/ replayer.pc = "student" /\ replayer.next > Len(Tasks)
  /\ replayer' = [Asleep(replayer.started, replayer.tried) EXCEPT
                    !.pc = "pick", !.script = replayer.script, !.commits = replayer.commits,
                    !.best = BestSoFar(replayer.best, replayer.definition, replayer.total), !.gap = replayer.gap]
  /\ UNCHANGED <<clone, references, archive, foreign>>

(* The winner goes to improved/; the compiled harness stays the last one.  *)
PromoteEvolved ==
  /\ replayer.pc = "pick" /\ replayer.best # <<>>
  /\ clone' = [clone EXCEPT !.tree = [@ EXCEPT !["improved"] = replayer.best[1].definition]]
  /\ replayer' = Asleep(replayer.started, replayer.tried)
  /\ UNCHANGED <<references, archive, foreign>>

EvolveDies ==
  /\ replayer.pc # "idle"
  /\ replayer' = Asleep(replayer.started, replayer.tried)
  /\ foreign' = (foreign \/ replayer.pc \in {"task", "diff", "restore"})
  /\ UNCHANGED <<clone, references, archive>>

---------------------------------------------------------------------------
(* evolve_loop.py: a candidate replays every selected commit.              *)

StartReplays ==
  /\ Startable /\ Selected(clone.at) # {}
  /\ replayer' = [Asleep(replayer.started + 1, replayer.tried) EXCEPT !.pc = "pick", !.script = "replay", !.commits = Selected(clone.at)]
  /\ UNCHANGED <<clone, references, archive, foreign>>

Replaying(c) == replayer.pc = "replay" /\ c \in replayer.left /\ \A d \in replayer.left : Len(d) <= Len(c)

(* assert_isolated raises, and the evaluator scores 0.                     *)
RefuseReplay ==
  /\ clone.connected
  /\ \E c \in replayer.left : Replaying(c) /\ replayer' = [replayer EXCEPT !.left = @ \ {c}, !.ran = FALSE]
  /\ UNCHANGED <<clone, references, archive, foreign>>

(* The names of the harness are the harness's own in these commits.        *)
Untracked(cs) == \A c \in cs : \A i \in DOMAIN c, p \in Excluded \cap RepoPaths : c[i][p] = NoFile

BeginReplay ==
  /\ ~clone.connected
  /\ \E c \in replayer.left :
       LET own == Untracked({clone.tip, clone.at, c}) IN
       /\ Replaying(c)
       /\ clone' = Checkout(clone, Front(c), TRUE)
       /\ replayer' = [replayer EXCEPT !.pc = "task", !.left = @ \ {c}, !.commit = c, !.found = clone, !.own = own,
                                       !.fair = own /\ ~foreign, !.ran = TRUE, !.edits = {}, !.changed = {},
                                       !.score = 0, !.failed = FALSE, !.committed = FALSE]
  /\ UNCHANGED <<references, archive, foreign>>

(* The task says "do not commit", but an agent may; a run that fails is    *)
(* not diffed, and is taken not to have committed.                          *)
RunTask ==
  /\ replayer.pc = "task"
  /\ \E edits \in SUBSET Editable, failed, commits \in BOOLEAN :
       /\ commits => edits # {} /\ ~failed /\ Len(clone.at) < MaxLog
       /\ clone' = IF commits THEN Committed(clone, edits) ELSE Edited(clone, edits)
       /\ replayer' = [replayer EXCEPT !.pc = IF failed THEN "restore" ELSE "diff", !.edits = edits,
                                       !.failed = failed, !.committed = commits]
  /\ UNCHANGED <<references, archive, foreign>>

(* File overlap, and likeness of the texts: 0 (none), 1 (some), 2 (all).   *)
Overlap(real, changed) ==
  IF real = changed THEN 2 ELSE IF real \cap changed = {} THEN 0 ELSE 1
Likeness(real, changed) ==
  IF real = {} /\ changed = {} THEN 2 ELSE IF real = {} \/ changed = {} THEN 0 ELSE 1

GradeDiff ==
  /\ replayer.pc = "diff"
  /\ LET real == TouchedBy(replayer.commit)  changed == Staged(clone) IN
     replayer' = [replayer EXCEPT !.pc = "restore", !.changed = changed,
                                  !.score = Overlap(real, changed) + Likeness(real, changed)]
  /\ clone' = [clone EXCEPT !.staged = Staged(clone)]
  /\ UNCHANGED <<references, archive, foreign>>

Restore ==
  /\ replayer.pc = "restore"
  /\ clone' = PutBack(clone, replayer.found)
  /\ replayer' = [replayer EXCEPT !.pc = "replay", !.commit = <<>>, !.total = @ + replayer.score]
  /\ foreign' = FALSE
  /\ UNCHANGED <<references, archive>>

---------------------------------------------------------------------------
(* teacher_eval.py: the teacher answers once, the candidates every time,   *)
(* and nothing they edit is taken back.                                    *)

StartTeacher ==
  /\ Startable /\ references.state # "torn"
  /\ IF references.state = "none" THEN clone' = CompiledInto(clone, Teacher) ELSE UNCHANGED clone
  /\ replayer' = [Asleep(replayer.started + 1, replayer.tried) EXCEPT !.pc = IF references.state = "none" THEN "teach" ELSE "pick",
                                                      !.script = "teacher"]
  /\ UNCHANGED <<references, archive, foreign>>

Harness == [p \in Compiled |-> clone.tree[p]]

(* Mutant: a teacher's failed run becomes a reference. *)
Reference_Any(answers, task, answer) == [t \in DOMAIN answers \cup {task} |-> IF t = task THEN answer ELSE answers[t]]

Reference(answers, task, answer) ==
  IF answer.failed THEN answers
  ELSE [t \in DOMAIN answers \cup {task} |-> IF t = task THEN answer ELSE answers[t]]

Teach ==
  /\ replayer.pc = "teach" /\ replayer.next <= Len(Tasks)
  /\ \E edits \in SUBSET Editable, failed, blank \in BOOLEAN :
       /\ clone' = Edited(clone, edits) /\ foreign' = (foreign \/ edits # {})
       /\ replayer' = [replayer EXCEPT
            !.next = @ + 1,
            !.answers = Reference(@, Tasks[replayer.next], [by |-> Harness, blank |-> blank, failed |-> failed])]
  /\ UNCHANGED <<references, archive>>

OpenReferences ==
  /\ replayer.pc = "teach" /\ replayer.next > Len(Tasks)
  /\ references' = [state |-> "torn", answers |-> <<>>] /\ replayer' = [replayer EXCEPT !.pc = "write"]
  /\ UNCHANGED <<clone, archive, foreign>>

FillReferences ==
  /\ replayer.pc = "write"
  /\ references' = [state |-> "whole", answers |-> replayer.answers] /\ replayer' = [replayer EXCEPT !.pc = "pick", !.answers = <<>>]
  /\ UNCHANGED <<clone, archive, foreign>>

(* A failed run is an empty answer; two empty answers are alike.           *)
Alike(reference, blank) ==
  IF reference.blank /\ blank THEN 2 ELSE IF reference.blank \/ blank THEN 0 ELSE 1

(* The worst of a candidate's answers is left for the rewriters.           *)
Study ==
  /\ replayer.pc = "student" /\ replayer.next <= Len(Tasks)
  /\ LET task == Tasks[replayer.next] IN
     IF task \notin DOMAIN references.answers
     THEN replayer' = [replayer EXCEPT !.next = @ + 1] /\ UNCHANGED <<clone, foreign>>
     ELSE \E edits \in SUBSET Editable, blank \in BOOLEAN :
            LET score == Alike(references.answers[task], blank) IN
            /\ clone' = Edited(clone, edits) /\ foreign' = (foreign \/ edits # {})
            /\ replayer' = [replayer EXCEPT
                 !.next = @ + 1, !.total = @ + score,
                 !.gap = IF replayer.total = 0 \/ @ = <<>> \/ score < @[1].score
                         THEN <<[task |-> task, score |-> score]>> ELSE @]
  /\ UNCHANGED <<references, archive>>

EvolveNext ==
  \/ Isolate \/ StripRemotes \/ Profile \/ Synthesize \/ Package \/ EndEvolve \/ AddRemote
  \/ StartReplays \/ StartTeacher \/ Try \/ Evaluated \/ PromoteEvolved \/ EvolveDies
  \/ RefuseReplay \/ BeginReplay \/ RunTask \/ GradeDiff \/ Restore
  \/ Teach \/ OpenReferences \/ FillReferences \/ Study

EvolveSpec == EvolveInit /\ [][EvolveNext]_evolution

---------------------------------------------------------------------------
(* Properties. *)

(* Nested paths that are not HEAD's. *)
Litter(g) == {p \in Nested \cap RepoPaths : g.tree[p] # Tree(g.at)[p]}

(* "The original checkout is restored after every probe, and untracked      *)
(* harness files are preserved", also after a failed one: HEAD is where the *)
(* replay found it, tracked files are HEAD's and the excluded paths are as  *)
(* found but for what the agent did to them.  No new file is left but a     *)
(* nested one of a failed run, which was not staged and is not cleaned; and *)
(* where the branch tracks a file of that name, that one keeps git from     *)
(* checking the branch out again.                                           *)
CheckoutRestored ==
  replayer.pc = "replay" /\ replayer.ran /\ replayer.own /\ ~replayer.committed =>
    LET found == replayer.found
        litter == Litter(clone)
        Left(p) == IF p \in replayer.edits THEN Mine ELSE found.tree[p]
    IN
    /\ clone.tip = found.tip
    /\ litter # {} => replayer.failed /\ litter \subseteq replayer.edits \cup Litter(found)
    /\ \A p \in litter : Tree(clone.at)[p] = NoFile
    /\ (\A p \in litter : Tree(found.at)[p] = NoFile) =>
         /\ clone.at = found.at /\ clone.detached = found.detached
         /\ \A p \in RepoPaths : clone.tree[p] = IF p \in Excluded \cup litter THEN Left(p) ELSE Tree(found.at)[p]

(* Whatever earlier candidates, failures and agents did, a replay on a tree *)
(* that only replays have touched is graded by the candidate's own harness, *)
(* for exactly what its agent edited and for the nested new files an        *)
(* earlier failed run left; and against the commit's parent, unless that    *)
(* tracks such a file.                                                      *)
GradedForOwnEdits ==
  replayer.pc = "restore" /\ replayer.fair /\ ~replayer.failed /\ ~replayer.committed =>
    LET found == replayer.found
        litter == Litter(found)
        Left(p) == IF p \in replayer.edits THEN Mine ELSE found.tree[p]
    IN
    /\ (\A p \in litter : Tree(Front(replayer.commit))[p] = NoFile) => clone.at = Front(replayer.commit)
    /\ replayer.changed = {p \in (replayer.edits \cup litter) \ Excluded : Tree(clone.at)[p] # Left(p)}
    /\ \A p \in Compiled : clone.tree[p] = <<replayer.definition[1], replayer.definition[2]>>

(* What can be read as the teacher's answers are the teacher's, none of     *)
(* them of a failed run, across deaths of the script.                       *)
ReferencesAreTeachers ==
  \A t \in DOMAIN references.answers :
    LET answer == references.answers[t] IN
    ~answer.failed /\ \A p \in Compiled : answer.by[p] = <<Teacher[1], Teacher[2]>>

(* No replay runs in a tree with a way back to the repository, and no such *)
(* tree is handed out.                                                      *)
NoWayBack ==
  /\ replayer.pc \in {"task", "diff", "restore"} => ~clone.connected
  /\ \A i \in DOMAIN archive : ~archive[i].connected

(* The replays of a shared working tree keep apart from one another, from   *)
(* the teacher's runs and from the repository itself.                       *)
ReplaysApart == CheckoutRestored /\ GradedForOwnEdits /\ ReferencesAreTeachers /\ NoWayBack
=============================================================================
