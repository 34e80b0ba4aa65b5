---------------------------- MODULE DerivedLoops ----------------------------
(***************************************************************************)
(* One IterativeLoop after another, per class (split_loop), per target     *)
(* (target_loop), for one component (oac improve) or for a branch          *)
(* (branch), and the snapshots its winners are exported to.  IterativeLoop *)
(* is taken as what its runs show: it raises, or it returns winners, the   *)
(* best aggregate score first.  A process may die between any two writes.  *)
(***************************************************************************)
EXTENDS Naturals, Sequences, FiniteSets, FiniteSetsExt, SequencesExt

CONSTANTS
  Jobs,        \* [kind, component, targets, store] an improvement may be asked for
  Bodies,      \* what mutators make of a definition
  LoopScores,
  Frontier,    \* how many winners a loop returns at most
  MaxJobs      \* how many jobs are started

ASSUME DerivedAssumption ==
  /\ Frontier \in Nat \ {0} /\ MaxJobs \in Nat /\ LoopScores \subseteq Nat
  /\ \A j \in Jobs :
       /\ j.kind \in {"split", "target", "starter", "single", "branch"}
       /\ j.targets \in Seq(Range(j.targets)) /\ IsInjective(j.targets) /\ j.targets # <<>>
       /\ j.store => j.kind \in {"target", "starter", "single"}

VARIABLES
  exports,   \* directory -> file name -> a version or "torn": a partial function
  slots,     \* promotion slot -> a version: a partial function
  job        \* the process at work: [at, started, job, left, winners, write, results]

derived == <<exports, slots, job>>

Torn   == [stamp |-> "torn", body |-> "torn", score |-> 0, floor |-> 0]
Latest == <<"LATEST">>
NoJob  == [kind |-> "none", component |-> "none", targets |-> <<>>, store |-> FALSE]

Resting(n) == [at |-> "idle", started |-> n, job |-> NoJob, left |-> <<>>, winners |-> <<>>,
               write |-> <<>>, results |-> <<>>]

DerivedInit == exports = <<>> /\ slots = <<>> /\ job = Resting(0)

---------------------------------------------------------------------------
(* A branch's loop has an id of its own (branch_component_id).             *)
ComponentId(j) == IF j.kind = "branch" THEN <<"branch", j.component>> ELSE <<j.component>>

(* Mutant: the loops of one component share its directory. *)
ExportDir_Shared(j, t) == <<ComponentId(j), "all">>

ExportDir(j, t) == <<ComponentId(j), t>>

(* The baseline of a loop is stamped with its target, so what mutators     *)
(* derive from it is too; the hash covers the stamp, but not the score.    *)
FileName(v) == <<v.stamp, v.body>>

(* Mutant: the baseline every loop starts from is the caller's. *)
Stamped_Caller(j, t) == <<ComponentId(j), "all">>

Stamped(j, t) == <<ComponentId(j), t>>

(* Its aggregate score, and its score_floor: 0 is a version without one.   *)
Versions(stamp) == [stamp : {stamp}, body : Bodies, score : LoopScores, floor : LoopScores]

IsResult(w) ==
  \A x, y \in DOMAIN w : x < y => w[x].score >= w[y].score /\ w[x].body # w[y].body

Results(stamp) == {w \in UNION {[1..n -> Versions(stamp)] : n \in 1..Frontier} : IsResult(w)}

---------------------------------------------------------------------------
StartJob ==
  /\ job.at = "idle" /\ job.started < MaxJobs
  /\ \E j \in Jobs :
       job' = [Resting(job.started + 1) EXCEPT !.at = "loop", !.job = j, !.left = j.targets]
  /\ UNCHANGED <<exports, slots>>

(* Winner k is best(): the first one of the highest score_floor, which     *)
(* need not be the one of the highest aggregate score.                     *)
IsBest(winners, k) ==
  /\ \A i \in DOMAIN winners : winners[i].floor <= winners[k].floor
  /\ \A i \in 1..(k - 1) : winners[i].floor < winners[k].floor

(* With a store only best() is exported.                                   *)
ExportsOne(j) == j.store /\ j.kind \in {"target", "starter"}

(* Mutant: with a store every winner is exported as well. *)
ToWrite_All(j, winners) == {winners}

ToWrite(j, winners) ==
  IF ExportsOne(j) THEN {<<winners[k]>> : k \in {k \in DOMAIN winners : IsBest(winners, k)}} ELSE {winners}

LoopReturns ==
  /\ job.at = "loop" /\ job.left # <<>>
  /\ \E w \in Results(Stamped(job.job, Head(job.left))) : \E u \in ToWrite(job.job, w) :
       job' = [job EXCEPT !.at = "snapshot", !.winners = w, !.write = u]
  /\ UNCHANGED <<exports, slots>>

(* An exception of one loop loses the results of all of them.              *)
LoopRaises ==
  /\ job.at = "loop" /\ job.left # <<>>
  /\ job' = Resting(job.started)
  /\ UNCHANGED <<exports, slots>>

---------------------------------------------------------------------------
(* write_text truncates before it writes.                                  *)
InDir(d, name, v) ==
  LET files == IF d \in DOMAIN exports THEN exports[d] ELSE <<>> IN
  exports' = [e \in DOMAIN exports \cup {d} |->
                IF e # d THEN exports[e]
                ELSE [n \in DOMAIN files \cup {name} |-> IF n = name THEN v ELSE files[n]]]

Dir == ExportDir(job.job, Head(job.left))

OpenSnapshot ==
  /\ job.at = "snapshot" /\ job.write # <<>>
  /\ InDir(Dir, FileName(Head(job.write)), Torn)
  /\ job' = [job EXCEPT !.at = "fill_snapshot"] /\ UNCHANGED slots

FillSnapshot ==
  /\ job.at = "fill_snapshot"
  /\ InDir(Dir, FileName(Head(job.write)), Head(job.write))
  /\ job' = [job EXCEPT !.at = "latest"] /\ UNCHANGED slots

OpenLatest ==
  /\ job.at = "latest"
  /\ InDir(Dir, Latest, Torn)
  /\ job' = [job EXCEPT !.at = "fill_latest"] /\ UNCHANGED slots

FillLatest ==
  /\ job.at = "fill_latest"
  /\ InDir(Dir, Latest, Head(job.write))
  /\ job' = [job EXCEPT !.at = "snapshot", !.write = Tail(@)] /\ UNCHANGED slots

(* The next target; after the last one the results are the caller's.       *)
EndTarget ==
  /\ job.at = "snapshot" /\ job.write = <<>>
  /\ LET results == Append(job.results, [dir |-> Dir, winners |-> job.winners]) IN
     job' = [job EXCEPT !.at = IF Len(job.left) > 1 THEN "loop" ELSE "returned",
                        !.left = Tail(@), !.winners = <<>>, !.results = results]
  /\ UNCHANGED <<exports, slots>>

(* improve.py promotes the LATEST of every target it has a result for.     *)
PromoteLatest ==
  /\ job.at = "returned" /\ job.job.kind = "starter" /\ job.results # <<>>
  /\ LET d == Head(job.results).dir IN
     slots' = [s \in DOMAIN slots \cup {d} |-> IF s = d THEN exports[d][Latest] ELSE slots[s]]
  /\ job' = [job EXCEPT !.results = Tail(@)] /\ UNCHANGED exports

JobDone ==
  /\ job.at = "returned" /\ (job.job.kind = "starter" => job.results = <<>>)
  /\ job' = Resting(job.started) /\ UNCHANGED <<exports, slots>>

JobDies ==
  /\ job.at # "idle"
  /\ job' = Resting(job.started) /\ UNCHANGED <<exports, slots>>

Exports == OpenSnapshot \/ FillSnapshot \/ OpenLatest \/ FillLatest \/ EndTarget

DerivedNext == StartJob \/ LoopReturns \/ LoopRaises \/ Exports \/ PromoteLatest \/ JobDone \/ JobDies

DerivedSpec == DerivedInit /\ [][DerivedNext]_derived

---------------------------------------------------------------------------
(* Properties. *)

Files(d) == {n \in DOMAIN exports[d] : exports[d][n] # Torn}

(* The winner a caller is told the files of: with a store the one best()    *)
(* picks, without one the first.                                           *)
IsTold(winners, k) == IF ExportsOne(job.job) THEN IsBest(winners, k) ELSE k = 1

(* Whatever died on the way: a directory and a slot only hold versions that *)
(* were tuned for their own component and target, so branch, class and      *)
(* target loops of one agent never mix; a LATEST that can be read has its    *)
(* snapshot beside it; and a caller who gets results finds one winner of     *)
(* each whole in the result's directory: without a store its first, with a   *)
(* store the one of the highest score_floor, which LATEST then is too.       *)
TargetsApart ==
  /\ \A d \in DOMAIN exports : \A n \in Files(d) :
       exports[d][n].stamp = d /\ (n = Latest => FileName(exports[d][n]) \in DOMAIN exports[d])
  /\ \A s \in DOMAIN slots : slots[s].stamp = s
  /\ job.at = "returned" => \A i \in DOMAIN job.results :
       LET r == job.results[i] IN
       \E k \in DOMAIN r.winners :
         /\ IsTold(r.winners, k) /\ exports[r.dir][FileName(r.winners[k])] = r.winners[k]
         /\ ExportsOne(job.job) => exports[r.dir][Latest] = r.winners[k]

(* "Winners are snapshotted ... plus a LATEST.json pointer": what LATEST     *)
(* names, and a promotion brings in, is the best of a returned run, by its   *)
(* aggregate score or by best().                                            *)
LatestIsBest ==
  job.at = "returned" => \A i \in DOMAIN job.results :
    LET r == job.results[i] IN
    \E k \in DOMAIN r.winners :
      /\ r.winners[k].score = r.winners[1].score \/ IsBest(r.winners, k)
      /\ exports[r.dir][Latest] = r.winners[k]
=============================================================================
