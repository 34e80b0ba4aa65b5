----------------------------- MODULE Promotion -----------------------------
(***************************************************************************)
(* The promotion slots of a project, .oac/promoted/[<client>/]<id>         *)
(* [__<slot>].json, between the commands that change them (oac promote,    *)
(* oac versions load, unload and rollback, each a process of its own) and  *)
(* the compile that resolves them (improvement/snapshot.py,                *)
(* cli/commands/versions.py, cli/commands/promote.py).  Slot files are     *)
(* rewritten in place: truncated, then filled.  The store's promotions     *)
(* table is written after the file.  Any command may die between two of    *)
(* its steps, which also stands for an exception of the file system or of  *)
(* the store at that step.                                                 *)
(***************************************************************************)
EXTENDS Integers, Sequences, FiniteSets, SequencesExt

CONSTANTS
  Procs,     \* the processes that run commands
  Versions,  \* versions of the component and of its branch
  Score,     \* the score recorded with each version
  Recorded,  \* versions that are candidates of the run store
  Stale,     \* versions whose snapshot files carry a stale content hash
  Clients,   \* client buckets
  Slots,     \* target keys and model classes
  Targets,   \* the (place, version) pairs commands are given
  Queries,   \* the (client, target, class) a compile may ask for
  Stored,    \* whether promote() is given a store: a subset of BOOLEAN
  CanDie,    \* whether commands may die
  MaxCommands, \* bound on the commands issued
  MaxDuring    \* bound on those issued before a compile ends

None   == "none"
Absent == "absent"
Torn   == "torn"

Place == [id : {"own", "branch"}, client : Clients \cup {None},
          slot : Slots \cup {None}]

ASSUME PromotionAssumption ==
  /\ Score \in [Versions -> Int] /\ Recorded \subseteq Versions
  /\ Stale \subseteq Versions \ Recorded
  /\ None \notin Versions \cup Clients \cup Slots /\ {Absent, Torn} \cap Versions = {}
  /\ Targets \subseteq Place \X Versions
  /\ Queries \subseteq [client : Clients \cup {None}, target : Slots \cup {None},
                        class : Slots \cup {None}]
  /\ Stored \subseteq BOOLEAN /\ CanDie \in BOOLEAN /\ MaxCommands \in Nat /\ MaxDuring \in Nat


VARIABLES
  files,    \* place -> what its file holds
  history,  \* the promotions table: <<place, version or None>>, oldest first
  pc, job,  \* the command of each process: where it is and what it was given
  reader,   \* the compile: query, chain left, what the ids resolved to
  issued,   \* commands issued so far
  past,     \* history: the versions each place has held, oldest first
  told,     \* history: places whose every change has been recorded in order
  raced,    \* history: processes whose place was changed by another one
            \* since they looked at it
  touched   \* history: places changed since the compile began

command == <<pc, job, issued>>
ghosts  == <<past, told, raced, touched>>
vars    == <<files, history, pc, job, reader, issued, past, told, raced, touched>>

NoJob    == [op |-> None]
NoReader == [pc |-> "idle"]

Init ==
  /\ files \in [Place -> {Absent} \cup Stale]
  /\ \A p \in Place : files[p] # Absent => <<p, files[p]>> \in Targets
  /\ history = <<>>
  /\ pc = [p \in Procs |-> "idle"] /\ job = [p \in Procs |-> NoJob]
  /\ reader = NoReader /\ issued = 0
  /\ past = [l \in Place |-> <<>>] /\ told = Place
  /\ raced = {} /\ touched = {}

-----------------------------------------------------------------------------
(* A command starts.  Two commands on one place at a time, or one that is  *)
(* not given the store, leave the place's record unreliable.               *)
Running(p) == pc[p] # "idle"
On(l)      == {p \in Procs : Running(p) /\ job[p].place = l}

Start(p, at, j) ==
  /\ pc[p] = "idle"
  /\ issued < (IF reader = NoReader THEN MaxCommands ELSE MaxDuring)
  /\ issued' = issued + 1
  /\ pc' = [pc EXCEPT ![p] = at] /\ job' = [job EXCEPT ![p] = j]
  /\ raced' = raced \ {p}
  /\ told' = IF On(j.place) # {} \/ ~j.stored THEN told \ {j.place} ELSE told
  /\ UNCHANGED <<files, history, reader, past, touched>>

(* promote(): the snapshot is read strictly, so a stale hash is refused.   *)
(* oac promote and a fleet give it no store.                               *)
Promote(p) == \E t \in Targets, force \in BOOLEAN, stored \in Stored :
  /\ t[2] \notin Stale
  /\ Start(p, "check", [op |-> "promote", place |-> t[1], version |-> t[2],
                        force |-> force, stored |-> stored])

(* oac versions load: a recorded candidate is written into the slot.       *)
Load(p) == \E t \in Targets, force \in BOOLEAN :
  /\ t[2] \in Recorded
  /\ Start(p, "check", [op |-> "load", place |-> t[1], version |-> t[2],
                        force |-> force, stored |-> TRUE])

(* oac versions unload: the place must hold something.  There is a store   *)
(* if a loop has recorded candidates.                                      *)
StoreExists == Recorded # {}

Unload(p) == \E l \in {t[1] : t \in Targets} :
  /\ files[l] # Absent
  /\ Start(p, "unlink", [op |-> "unload", place |-> l, version |-> None,
                         force |-> FALSE, stored |-> StoreExists])

(* Where the history holds promotions of the slot, unload markers aside,   *)
(* and all of them but the last.                                           *)
Promotions(l) == {i \in DOMAIN history : history[i][1] = l /\ history[i][2] # None}
Earlier(l)    == {i \in Promotions(l) : \E j \in Promotions(l) : i < j}

(* Mutant: the last promotion instead of the one before it. *)
Previous_Last(l) == history[Max(Promotions(l))][2]

Previous(l) == history[Max(Earlier(l))][2]

(* oac versions rollback: the promotion before the last one recorded for   *)
(* the slot is forced into it.                                             *)
Rollback(p) == \E l \in {t[1] : t \in Targets} :
  /\ Earlier(l) # {} /\ Previous(l) \in Recorded
  /\ Start(p, "check", [op |-> "rollback", place |-> l, version |-> Previous(l),
                        force |-> TRUE, stored |-> TRUE])

-----------------------------------------------------------------------------
Go(p, at) == pc' = [pc EXCEPT ![p] = at]

End(p) == Go(p, "idle") /\ job' = [job EXCEPT ![p] = NoJob]

(* p changes the file of its place; others that looked at it are raced.    *)
Change(p, c) ==
  LET l == job[p].place IN
  /\ files' = [files EXCEPT ![l] = c]
  /\ raced' = raced \cup {q \in On(l) : q # p}
  /\ touched' = IF reader = NoReader THEN {} ELSE touched \cup {l}

(* Mutant: nothing is refused. *)
Refused_Never(p) == FALSE

(* The place is taken and the command was not told to replace it. *)
Refused(p) == files[job[p].place] # Absent /\ ~job[p].force

Check(p) ==
  /\ pc[p] = "check"
  /\ IF Refused(p) THEN End(p) ELSE Go(p, "truncate") /\ UNCHANGED job
  /\ UNCHANGED <<files, history, reader, issued, ghosts>>

Truncate(p) ==
  /\ pc[p] = "truncate"
  /\ Change(p, Torn) /\ Go(p, "write")
  /\ UNCHANGED <<history, job, reader, issued, past, told>>

Write(p) ==
  /\ pc[p] = "write"
  /\ Change(p, job[p].version)
  /\ past' = [past EXCEPT ![job[p].place] = Append(@, job[p].version)]
  /\ IF job[p].stored THEN Go(p, "record") /\ UNCHANGED job ELSE End(p)
  /\ UNCHANGED <<history, reader, issued, told>>

(* Unlinking a file another process has removed meanwhile raises. *)
Unlink(p) ==
  /\ pc[p] = "unlink"
  /\ IF files[job[p].place] = Absent
     THEN End(p) /\ UNCHANGED <<files, raced, touched>>
     ELSE /\ Change(p, Absent)
          /\ IF job[p].stored THEN Go(p, "record") /\ UNCHANGED job ELSE End(p)
  /\ UNCHANGED <<history, reader, issued, past, told>>

(* Mutant: an unload leaves no marker. *)
Row_OnlyVersions(p) ==
  IF job[p].version = None THEN <<>> ELSE <<<<job[p].place, job[p].version>>>>

Row(p) == <<<<job[p].place, job[p].version>>>>

Record(p) ==
  /\ pc[p] = "record"
  /\ history' = history \o Row(p)
  /\ End(p)
  /\ UNCHANGED <<files, reader, issued, ghosts>>

Die(p) ==
  /\ CanDie /\ Running(p)
  /\ End(p)
  /\ told' = told \ {job[p].place}
  /\ UNCHANGED <<files, history, reader, issued, past, raced, touched>>

-----------------------------------------------------------------------------
(* Where a compile looks for an id: the client's bucket, then the base; in *)
(* each the target's slot, the class's, the default.                       *)
Bucket(id, client, q) ==
  LET in(s)    == <<[id |-> id, client |-> client, slot |-> s]>>
      given(s) == IF s = None THEN <<>> ELSE in(s)
  IN  given(q.target) \o given(q.class) \o in(None)

(* Mutant: the client's bucket hides the base. *)
Chain_ClientOnly(id, q) == Bucket(id, q.client, q)

Chain(id, q) ==
  (IF q.client # None THEN Bucket(id, q.client, q) ELSE <<>>) \o Bucket(id, None, q)

Compile == \E q \in Queries :
  /\ reader = NoReader /\ issued <= MaxDuring
  /\ reader' = [pc |-> "look", id |-> "own", query |-> q, chain |-> Chain("own", q),
                own |-> None, branch |-> None, result |-> None]
  /\ touched' = {}
  /\ UNCHANGED <<files, history, command, past, told, raced>>

(* The higher score wins, the branch on a tie. *)
Better(own, branch) ==
  IF branch = None THEN own
  ELSE IF own = None \/ Score[branch] >= Score[own] THEN branch ELSE own

(* An id is resolved: the branch comes after the agent's own, then the two *)
(* are compared.                                                           *)
Resolved(v) ==
  IF reader.id = "own"
  THEN reader' = [reader EXCEPT !.pc = "look", !.own = v, !.id = "branch",
                                !.chain = Chain("branch", reader.query)]
  ELSE reader' = [reader EXCEPT !.pc = "done", !.branch = v, !.chain = <<>>,
                                !.result = Better(reader.own, v)]

PassOver ==
  IF Len(reader.chain) = 1 THEN Resolved(None)
  ELSE reader' = [reader EXCEPT !.pc = "look", !.chain = Tail(@)]

Readable == Head(reader.chain)

(* The next file of the chain.  One that does not parse is read again, to  *)
(* heal a stale hash.                                                      *)
Look ==
  /\ reader.pc = "look"
  /\ LET c == files[Readable] IN
     CASE c = Absent -> PassOver
       [] c = Torn \/ c \in Stale -> reader' = [reader EXCEPT !.pc = "heal"]
       [] OTHER -> Resolved(c)
  /\ UNCHANGED <<files, history, command, ghosts>>

(* Mutant: a file that cannot be healed is read again. *)
Unhealed_Retry == UNCHANGED reader

Unhealed == PassOver

Heal ==
  /\ reader.pc = "heal"
  /\ IF files[Readable] \in Versions THEN Resolved(files[Readable]) ELSE Unhealed
  /\ UNCHANGED <<files, history, command, ghosts>>

CompileEnds ==
  /\ reader.pc = "done" /\ reader' = NoReader
  /\ touched' = {}
  /\ UNCHANGED <<files, history, command, past, told, raced>>

-----------------------------------------------------------------------------
Command(p) ==
  \/ Promote(p) \/ Load(p) \/ Unload(p) \/ Rollback(p)
  \/ Check(p) \/ Truncate(p) \/ Write(p) \/ Unlink(p) \/ Record(p) \/ Die(p)

Resolve == Look \/ Heal

Next == (\E p \in Procs : Command(p)) \/ Compile \/ Resolve \/ CompileEnds

Spec     == Init /\ [][Next]_vars
FairSpec == Spec /\ WF_vars(Resolve)

-----------------------------------------------------------------------------
(* "Refuses to overwrite an existing promotion unless force=True": without *)
(* force a command truncates a file only where it found none, whatever     *)
(* else runs, unless another command wrote the place since it looked.      *)
ClobbersKnowingly ==
  \A p \in Procs :
    /\ pc[p] = "truncate" /\ pc'[p] = "write" /\ ~job[p].force /\ p \notin raced
    => files[job[p].place] = Absent

NoSilentClobber == [][ClobbersKnowingly]_vars

Rows(l) == {i \in DOMAIN history : history[i][1] = l}
Left(v) == IF v = None THEN Absent ELSE v

(* Where every change was recorded and no command is at work, the table's  *)
(* last row for a place tells what its file holds.                         *)
HistoryTellsFile ==
  \A l \in told :
    On(l) = {} /\ Rows(l) # {} => files[l] = Left(history[Max(Rows(l))][2])

(* "rollback re-loads the previously promoted version": a rollback puts    *)
(* back the version that was promoted before the last one, where           *)
(* every change of the place has been recorded.                            *)
Restores(l) == LET h == past[l] IN Len(h) >= 3 => h[Len(h)] = h[Len(h) - 2]

RolledBack(p) == pc[p] = "record" /\ job[p].op = "rollback"

RollbackUndoes ==
  \A p \in Procs : RolledBack(p) /\ job[p].place \in told => Restores(job[p].place)

(* Both: what the slots hold is what their history says. *)
SlotsTellHistory == HistoryTellsFile /\ RollbackUndoes

(* The same of every rollback, as the command's documentation has it.      *)
RollbackRestoresPrevious ==
  \A p \in Procs : RolledBack(p) /\ On(job[p].place) = {p} => Restores(job[p].place)

(* The places an id may be resolved from, and which of two goes before:    *)
(* the client's bucket before the base, in each the target's slot before   *)
(* the class's before the default.                                         *)
SearchPlaces(id) ==
  [id : {id}, client : {reader.query.client, None},
   slot : {reader.query.target, reader.query.class, None}]

BucketRank(l) == IF l.client = reader.query.client THEN 0 ELSE 1
SlotRank(l)   == IF l.slot = None THEN 2 ELSE IF l.slot = reader.query.target THEN 0 ELSE 1

MoreSpecific(l, k) ==
  \/ BucketRank(l) < BucketRank(k)
  \/ BucketRank(l) = BucketRank(k) /\ SlotRank(l) < SlotRank(k)

(* A compile takes the most specific promotion there is for an id: of the  *)
(* places nobody changed meanwhile, none that is more specific than the    *)
(* one it took holds a version, and it finds nothing only if none does.    *)
MostSpecific(id, v) ==
  \A l \in SearchPlaces(id) \ touched :
    files[l] \in Versions =>
      \/ files[l] = v
      \/ \E k \in SearchPlaces(id) : MoreSpecific(k, l) /\ (files[k] = v \/ k \in touched)

ResolvesMostSpecific ==
  reader.pc = "done" =>
    /\ MostSpecific("own", reader.own) /\ MostSpecific("branch", reader.branch)
    /\ \A v \in {reader.own, reader.branch} \ {None} :
         reader.result # None /\ Score[reader.result] >= Score[v]

(* A corrupt promotion does not stop a compile: every resolution ends. *)
ResolveEnds == reader.pc = "look" ~> reader.pc = "done"
=============================================================================
