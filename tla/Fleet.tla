------------------------------- MODULE Fleet -------------------------------
(***************************************************************************)
(* run_fleet (improvement/fleet.py): the loops of several units on a pool  *)
(* of threads; each thread exports its winners as snapshots and promotes   *)
(* the best one.  Composed with Promotion, whose commands a thread's       *)
(* promote() runs step by step.  The units are an agent and its branch.    *)
(***************************************************************************)
EXTENDS Promotion

CONSTANTS
  Units,      \* the units in the order they were given
  Namespace,  \* the namespace or client_id, or None
  Threshold,  \* promote_threshold
  Aggregate,  \* aggregate_score of each version under the loop's criterion
  Hard,       \* whether a version passes every hard criterion
  Results     \* the winners a loop may return, best first; a version just
              \* evaluated is written with the hash of its content

ASSUME FleetAssumption ==
  /\ Units \in Seq({"own", "branch"}) /\ IsInjective(Units)
  /\ Namespace \in Clients \cup {None} /\ Threshold \in Int
  /\ Aggregate \in [Versions -> Int] /\ Hard \in [Versions -> BOOLEAN]
  /\ Results \subseteq Seq(Versions \ Stale)
  /\ \A w \in Results : w # <<>> /\ \A i, j \in DOMAIN w :
       i < j => Aggregate[w[i]] >= Aggregate[w[j]]

VARIABLES
  queue,     \* units no thread has taken
  phase,     \* what each thread does
  unit,      \* the unit it works on
  winners,   \* what its loop returned
  exported,  \* how many of them it has written
  snapshots, \* unit -> its snapshot files and LATEST.json
  outcome,   \* unit -> its UnitOutcome
  collected, \* how many outcomes the caller has taken, in order
  fleet      \* "running", "returned" or "raised"

work      == <<queue, unit, winners, exported, snapshots>>
fleetvars == <<work, phase, outcome, collected, fleet>>
promotion == vars
allvars   == <<vars, fleetvars>>

Ids     == ToSet(Units)
Pending == [kind |-> "pending"]

FleetInit ==
  /\ Init
  /\ queue = Units /\ collected = 0 /\ fleet = "running"
  /\ phase = [p \in Procs |-> "idle"] /\ unit = [p \in Procs |-> None]
  /\ winners = [p \in Procs |-> <<>>] /\ exported = [p \in Procs |-> 0]
  /\ snapshots = [u \in Ids |-> [names |-> {}, latest |-> None]]
  /\ outcome = [u \in Ids |-> Pending]

Slot(u) == [id |-> u, client |-> Namespace, slot |-> None]

(* A thread is done with its unit. *)
Outcome(p, o) ==
  /\ outcome' = [outcome EXCEPT ![unit[p]] = o]
  /\ phase' = [phase EXCEPT ![p] = "idle"]

(* Mutant: only some exceptions of a loop are caught. *)
Error_Propagates == [kind |-> "raised", by |-> "loop"]

Error  == [kind |-> "error"]                    \* UnitOutcome.error
Raised == [kind |-> "raised", by |-> "files"]   \* the work item itself raised

Done(p, promoted) == [kind |-> "done", winners |-> winners[p], promoted |-> promoted]

-----------------------------------------------------------------------------
Take(p) ==
  /\ phase[p] = "idle" /\ queue # <<>>
  /\ queue' = Tail(queue) /\ unit' = [unit EXCEPT ![p] = Head(queue)]
  /\ phase' = [phase EXCEPT ![p] = "loop"]
  /\ UNCHANGED <<promotion, winners, exported, snapshots, outcome, collected, fleet>>

(* The loop returns winners, or raises: that is the unit's outcome. *)
LoopReturns(p) ==
  /\ phase[p] = "loop"
  /\ \E w \in Results : winners' = [winners EXCEPT ![p] = w]
  /\ exported' = [exported EXCEPT ![p] = 0]
  /\ phase' = [phase EXCEPT ![p] = "export"]
  /\ UNCHANGED <<promotion, queue, unit, snapshots, outcome, collected, fleet>>

LoopRaises(p) ==
  /\ phase[p] = "loop" /\ Outcome(p, Error)
  /\ UNCHANGED <<promotion, work, collected, fleet>>

(* Mutant: a version that has been written is not written again. *)
Snapshot_NewOnly(u, v) == snapshots' =
  [snapshots EXCEPT ![u].names = @ \cup {v},
                    ![u].latest = IF v \in snapshots[u].names THEN @ ELSE v]

Snapshot(u, v) == snapshots' =
  [snapshots EXCEPT ![u].names = @ \cup {v}, ![u].latest = v]

(* write_round_winners: a file and LATEST.json for each winner in turn. *)
Export(p) ==
  /\ phase[p] = "export" /\ exported[p] < Len(winners[p])
  /\ Snapshot(unit[p], winners[p][exported[p] + 1])
  /\ exported' = [exported EXCEPT ![p] = @ + 1]
  /\ UNCHANGED <<promotion, queue, phase, unit, winners, outcome, collected, fleet>>

Best(p) == winners[p][1]

(* Mutant: the hard criteria are not asked for. *)
Qualifies_ByScore(v) == Aggregate[v] >= Threshold

Qualifies(v) == Aggregate[v] >= Threshold /\ Hard[v]

(* Only the best winner is looked at.  It is written again, which makes it *)
(* the latest, and promoted with force and without the store.              *)
PromoteBest(p) ==
  /\ phase[p] = "export" /\ exported[p] = Len(winners[p]) /\ Qualifies(Best(p))
  /\ Snapshot(unit[p], Best(p))
  /\ Start(p, "check", [op |-> "promote", place |-> Slot(unit[p]),
                        version |-> Best(p), force |-> TRUE, stored |-> FALSE])
  /\ phase' = [phase EXCEPT ![p] = "promote"]
  /\ UNCHANGED <<queue, unit, winners, exported, outcome, collected, fleet>>

KeepBaseline(p) ==
  /\ phase[p] = "export" /\ exported[p] = Len(winners[p]) /\ ~Qualifies(Best(p))
  /\ Outcome(p, Done(p, FALSE))
  /\ UNCHANGED <<promotion, work, collected, fleet>>

PromoteStep(p) ==
  /\ phase[p] = "promote" /\ (Check(p) \/ Truncate(p))
  /\ UNCHANGED fleetvars

Promoted(p) ==
  /\ phase[p] = "promote" /\ Write(p) /\ Outcome(p, Done(p, TRUE))
  /\ UNCHANGED <<work, collected, fleet>>

(* Writing a snapshot or promoting raises, which nothing isolates. *)
ExportRaises(p) ==
  /\ phase[p] = "export" /\ Outcome(p, Raised)
  /\ UNCHANGED <<promotion, work, collected, fleet>>

PromoteRaises(p) ==
  /\ phase[p] = "promote" /\ Die(p) /\ Outcome(p, Raised)
  /\ UNCHANGED <<work, collected, fleet>>

(* The caller takes the outcomes in the order of the units; the first that *)
(* raised is raised, and the units nobody has begun are cancelled.         *)
Collect ==
  /\ fleet = "running" /\ collected < Len(Units)
  /\ LET o == outcome[Units[collected + 1]] IN
     /\ o # Pending
     /\ IF o.kind = "raised"
        THEN fleet' = "raising" /\ queue' = <<>> /\ UNCHANGED collected
        ELSE collected' = collected + 1 /\ UNCHANGED <<fleet, queue>>
  /\ UNCHANGED <<promotion, phase, unit, winners, exported, snapshots, outcome>>

(* The pool is left once its threads are done. *)
Return ==
  /\ \A p \in Procs : phase[p] = "idle"
  /\ \/ fleet = "raising" /\ fleet' = "raised"
     \/ fleet = "running" /\ collected = Len(Units) /\ fleet' = "returned"
  /\ UNCHANGED <<promotion, work, phase, outcome, collected>>

Thread(p) ==
  \/ Take(p) \/ LoopReturns(p) \/ LoopRaises(p) \/ Export(p) \/ PromoteBest(p)
  \/ KeepBaseline(p) \/ PromoteStep(p) \/ Promoted(p) \/ ExportRaises(p) \/ PromoteRaises(p)

FleetNext == (\E p \in Procs : Thread(p)) \/ Collect \/ Return

FleetSpec == FleetInit /\ [][FleetNext]_allvars
             /\ \A p \in Procs : WF_allvars(Thread(p))
             /\ WF_allvars(Collect \/ Return)

-----------------------------------------------------------------------------
(* Over threads, failures and cancelled units: once the fleet is over, a   *)
(* unit's slot holds either what it held, or its best winner, which clears *)
(* the threshold and every hard criterion, or is torn by a promotion that  *)
(* raised, which only a raising fleet leaves behind.                       *)
OnlyQualifiedPromoted ==
  \A u \in Ids : LET c == files[Slot(u)] IN
    outcome[u] # Pending /\ c # Absent =>
      \/ c \in Stale
      \/ c = Torn /\ outcome[u] = Raised /\ fleet # "returned"
      \/ /\ outcome[u].kind = "done" /\ c = outcome[u].winners[1]
         /\ Hard[c] /\ Aggregate[c] >= Threshold

(* The result says what was promoted, and then the latest snapshot is the  *)
(* promoted one.                                                           *)
ReturnTells ==
  fleet = "returned" =>
    \A u \in Ids :
      /\ outcome[u].kind \in {"done", "error"}
      /\ outcome[u].kind = "done" =>
           /\ ToSet(outcome[u].winners) \subseteq snapshots[u].names
           /\ outcome[u].promoted <=> files[Slot(u)] = snapshots[u].latest

(* Both: a slot holds what was earned, and the caller is told so. *)
FleetPromotesEarned == OnlyQualifiedPromoted /\ ReturnTells

(* A loop that raises does not keep the other units from their outcome:    *)
(* the fleet ends, and ends well unless an export or a promotion raised.   *)
FleetEnds ==
  <>(\/ fleet = "returned" /\ \A u \in Ids : outcome[u] # Pending
     \/ fleet = "raised" /\ queue = <<>> /\ \E u \in Ids : outcome[u] = Raised)
=============================================================================
