------------------------ MODULE Operations_proofs ------------------------
(***************************************************************************)
(* Theorems about what runs side by side: the fleet of improvement loops   *)
(* (Fleet), and a workflow with its agent's turns and their events         *)
(* (Session).                                                              *)
(***************************************************************************)
EXTENDS Fleet, Session, FiniteSetTheorems, SequenceTheorems, WellFoundedInduction, TLAPS

Untouched(u) == files[Slot(u)] \in {Absent} \cup Stale

Outcomes ==
  {Pending, Error, Raised}
    \cup [kind : {"done"}, winners : Results, promoted : BOOLEAN]

(* The variables are functions of the threads, of the units and of places. *)
Shapes ==
  /\ files = [l \in Place |-> files[l]]
  /\ pc = [p \in Procs |-> pc[p]] /\ job = [p \in Procs |-> job[p]]
  /\ phase \in [Procs -> {"idle", "loop", "export", "promote"}]
  /\ unit = [p \in Procs |-> unit[p]]
  /\ winners = [p \in Procs |-> winners[p]]
  /\ exported \in [Procs -> Nat]
  /\ snapshots \in [Ids -> [names : SUBSET Versions, latest : Versions \cup {None}]]
  /\ outcome \in [Ids -> Outcomes]

(* A unit is in the queue, or with one thread, or has its outcome. *)
Busy(p) == phase[p] # "idle"

Apart ==
  /\ \A p \in Procs : Busy(p) => unit[p] \in Ids /\ outcome[unit[p]] = Pending
  /\ \A p, q \in Procs : Busy(p) /\ Busy(q) /\ unit[p] = unit[q] => p = q
  /\ queue \in Seq(Ids)
  /\ \A i, j \in 1..Len(queue) : queue[i] = queue[j] => i = j
  /\ \A i \in 1..Len(queue) :
       /\ outcome[queue[i]] = Pending /\ Untouched(queue[i])
       /\ \A p \in Procs : Busy(p) => unit[p] # queue[i]

(* What a thread has done so far of its unit. *)
Written(p, n) ==
  /\ \A i \in 1..n : winners[p][i] \in snapshots[unit[p]].names
  /\ n > 0 => snapshots[unit[p]].latest = winners[p][n]

Exports(p) ==
  /\ winners[p] \in Results
  /\ exported[p] <= Len(winners[p]) /\ Written(p, exported[p])

Promotes(p) ==
  /\ winners[p] \in Results /\ Qualifies(Best(p))
  /\ \A i \in 1..Len(winners[p]) : winners[p][i] \in snapshots[unit[p]].names
  /\ snapshots[unit[p]].latest = Best(p)
  /\ job[p] = [op |-> "promote", place |-> Slot(unit[p]), version |-> Best(p),
               force |-> TRUE, stored |-> FALSE]
  /\ \/ pc[p] \in {"check", "truncate"} /\ Untouched(unit[p])
     \/ pc[p] = "write" /\ files[Slot(unit[p])] = Torn

ThreadHolds(p) ==
  /\ phase[p] # "promote" => pc[p] = "idle"
  /\ phase[p] \in {"loop", "export"} => Untouched(unit[p])
  /\ phase[p] = "export" => Exports(p)
  /\ phase[p] = "promote" => Promotes(p)

(* What an outcome says of the unit's slot and snapshots. *)
OutcomeHolds(u) ==
  LET o == outcome[u]  s == snapshots[u] IN
  /\ o = Error => Untouched(u)
  /\ o = Raised => Untouched(u) \/ files[Slot(u)] = Torn
  /\ o.kind = "done" =>
       /\ \A i \in 1..Len(o.winners) : o.winners[i] \in s.names
       /\ o.promoted => /\ Qualifies(o.winners[1]) /\ files[Slot(u)] = o.winners[1]
                        /\ s.latest = o.winners[1]
       /\ ~o.promoted => Untouched(u) /\ s.latest \in Versions \ Stale

(* The caller has passed over no pending outcome, and none that raised.    *)
InTurn ==
  /\ collected \in 0..Len(Units)
  /\ \A i \in 1..collected : outcome[Units[i]] \notin {Pending, Raised}
  /\ fleet = "returned" => collected = Len(Units)

IInv ==
  /\ Shapes /\ Apart /\ InTurn
  /\ \A p \in Procs : ThreadHolds(p)
  /\ \A u \in Ids : OutcomeHolds(u)

-----------------------------------------------------------------------------
(* Units have slots of their own. *)
LEMMA SlotsApart ==
  /\ \A u \in Ids : Slot(u) \in Place
  /\ \A u, v \in Ids : Slot(u) = Slot(v) => u = v
<1>1. \A u \in Ids : u \in {"own", "branch"}
  BY FleetAssumption DEF FleetAssumption, Ids, ToSet
<1>2. Namespace \in Clients \cup {None}
  BY FleetAssumption DEF FleetAssumption
<1> QED BY <1>1, <1>2 DEF Slot, Place

(* A loop that returns has a best winner, and none of them is stale. *)
LEMMA WinnersFresh ==
  ASSUME NEW w \in Results
  PROVE  /\ w \in Seq(Versions \ Stale) /\ Len(w) \in Nat /\ Len(w) > 0
         /\ \A i \in 1..Len(w) : w[i] \in Versions \ Stale
<1>1. w \in Seq(Versions \ Stale) /\ w # <<>>
  BY FleetAssumption DEF FleetAssumption
<1> QED BY <1>1

LEMMA OutcomeKinds ==
  ASSUME NEW o \in Outcomes
  PROVE  /\ o.kind = "pending" <=> o = Pending
         /\ o.kind = "error" <=> o = Error
         /\ o.kind = "raised" <=> o = Raised
         /\ o.kind = "done" <=> o \in [kind : {"done"}, winners : Results, promoted : BOOLEAN]
         /\ o.kind \in {"pending", "error", "raised", "done"}
BY DEF Outcomes, Pending, Error, Raised

(* A step of a busy thread on its own unit. *)
Only(p) ==
  /\ \A q \in Procs \ {p} :
       /\ phase'[q] = phase[q] /\ pc'[q] = pc[q] /\ job'[q] = job[q]
       /\ winners'[q] = winners[q] /\ exported'[q] = exported[q]
  /\ unit' = unit
  /\ \A u \in Ids \ {unit[p]} :
       /\ files'[Slot(u)] = files[Slot(u)]
       /\ snapshots'[u] = snapshots[u] /\ outcome'[u] = outcome[u]
  /\ UNCHANGED <<queue, collected, fleet>>

LEMMA OthersUndisturbed ==
  ASSUME NEW p \in Procs, IInv, Busy(p), Only(p), Shapes', ThreadHolds(p)',
         \/ phase'[p] # "idle" /\ outcome' = outcome
         \/ phase'[p] = "idle" /\ outcome'[unit[p]] # Pending /\ OutcomeHolds(unit[p])'
  PROVE  IInv'
<1> DEFINE u == unit[p]
<1>1. u \in Ids /\ outcome[u] = Pending
  BY DEF IInv, Apart
<1>2. ASSUME NEW q \in Procs, q # p
      PROVE  ThreadHolds(q)' /\ (Busy(q)' <=> Busy(q))
  <2>1. phase'[q] = phase[q] /\ pc'[q] = pc[q] /\ job'[q] = job[q]
        /\ winners'[q] = winners[q] /\ exported'[q] = exported[q] /\ unit'[q] = unit[q]
    BY <1>2 DEF Only
  <2>2. ThreadHolds(q)
    BY DEF IInv
  <2>3. CASE phase[q] = "idle"
    BY <2>1, <2>2, <2>3 DEF ThreadHolds, Busy
  <2>4. CASE phase[q] # "idle"
    <3>1. unit[q] \in Ids /\ unit[q] # u
      BY <1>2, <2>4 DEF IInv, Apart, Busy
    <3>2. files'[Slot(unit[q])] = files[Slot(unit[q])] /\ snapshots'[unit[q]] = snapshots[unit[q]]
      BY <3>1 DEF Only
    <3> QED BY <2>1, <2>2, <3>2
            DEF ThreadHolds, Busy, Exports, Promotes, Written, Untouched, Qualifies, Best
  <2> QED BY <2>3, <2>4
<1>3. ASSUME NEW v \in Ids PROVE OutcomeHolds(v)'
  <2>1. CASE v = u
    <3>1. CASE phase'[p] = "idle"
      BY <2>1, <3>1 DEF Only, OutcomeHolds, Untouched
    <3>2. CASE phase'[p] # "idle"
      BY <1>1, <2>1, <3>2 DEF OutcomeHolds, Pending, Error, Raised
    <3> QED BY <3>1, <3>2
  <2>2. CASE v # u
    <3>1. files'[Slot(v)] = files[Slot(v)] /\ snapshots'[v] = snapshots[v] /\ outcome'[v] = outcome[v]
      BY <2>2 DEF Only
    <3>2. OutcomeHolds(v)
      BY DEF IInv
    <3> QED BY <3>1, <3>2 DEF OutcomeHolds, Untouched, Qualifies
  <2> QED BY <2>1, <2>2
<1>4. Apart'
  <2>1. \A q \in Procs : Busy(q)' => Busy(q)
    BY <1>2
  <2>2. ASSUME NEW q \in Procs, Busy(q)'
        PROVE  unit'[q] \in Ids /\ outcome'[unit'[q]] = Pending
    BY <1>1, <2>1, <2>2 DEF IInv, Apart, Only, Busy
  <2>3. \A q, r \in Procs : Busy(q)' /\ Busy(r)' /\ unit'[q] = unit'[r] => q = r
    BY <2>1 DEF IInv, Apart, Only
  <2>4. queue' = queue /\ queue \in Seq(Ids)
    BY DEF IInv, Apart, Only
  <2>5. ASSUME NEW i \in 1..Len(queue)
        PROVE  /\ outcome'[queue[i]] = Pending /\ Untouched(queue[i])'
               /\ \A q \in Procs : Busy(q)' => unit'[q] # queue[i]
    <3>1. queue[i] \in Ids /\ queue[i] # u
      BY <2>4 DEF IInv, Apart
    <3> QED BY <2>1, <2>4, <3>1 DEF IInv, Apart, Only, Untouched
  <2> QED BY <2>2, <2>3, <2>4, <2>5 DEF Apart, IInv, Untouched
<1>5. InTurn'
  <2>1. ASSUME NEW i \in 1..collected PROVE outcome'[Units[i]] \notin {Pending, Raised}
    <3>1. Units[i] \in Ids
      BY FleetAssumption DEF FleetAssumption, IInv, InTurn, Ids, ToSet
    <3>2. outcome[Units[i]] \notin {Pending, Raised}
      BY DEF IInv, InTurn
    <3> QED BY <1>1, <3>1, <3>2 DEF Only
  <2> QED BY <2>1 DEF IInv, InTurn, Only
<1> QED BY <1>2, <1>3, <1>4, <1>5 DEF IInv

-----------------------------------------------------------------------------
LEMMA InitHolds ==
  FleetInit => IInv
<1> SUFFICES ASSUME FleetInit PROVE IInv
  OBVIOUS
<1>1. Shapes
  BY DEF FleetInit, Init, Shapes, Outcomes
<1>2. \A u \in Ids : Untouched(u)
  BY SlotsApart DEF FleetInit, Init, Untouched
<1>3. queue \in Seq(Ids) /\ \A i \in 1..Len(queue) : queue[i] \in Ids /\ outcome[queue[i]] = Pending
  BY FleetAssumption DEF FleetInit, FleetAssumption, Ids, ToSet
<1>4. \A i, j \in 1..Len(queue) : queue[i] = queue[j] => i = j
  BY FleetAssumption DEF FleetInit, FleetAssumption, IsInjective
<1>5. Apart
  BY <1>2, <1>3, <1>4 DEF FleetInit, Apart, Busy
<1>6. InTurn
  BY FleetAssumption DEF FleetInit, FleetAssumption, InTurn
<1>7. ASSUME NEW p \in Procs PROVE ThreadHolds(p)
  BY DEF FleetInit, Init, ThreadHolds
<1>8. ASSUME NEW u \in Ids PROVE OutcomeHolds(u)
  BY DEF FleetInit, OutcomeHolds, Pending, Error, Raised
<1> QED BY <1>1, <1>5, <1>6, <1>7, <1>8 DEF IInv

(* A thread takes the first unit of the queue. *)
LEMMA TakeKeeps ==
  ASSUME NEW p \in Procs, Take(p), IInv
  PROVE  IInv'
<1> DEFINE u == Head(queue)
<1>1. /\ queue \in Seq(Ids) /\ Len(queue) > 0 /\ u = queue[1] /\ u \in Ids
      /\ Tail(queue) \in Seq(Ids) /\ Len(Tail(queue)) = Len(queue) - 1
      /\ \A i \in 1..Len(Tail(queue)) : Tail(queue)[i] = queue[i + 1]
  BY DEF Take, IInv, Apart
<1>2. /\ queue' = Tail(queue) /\ phase[p] = "idle"
      /\ phase' = [phase EXCEPT ![p] = "loop"] /\ unit' = [unit EXCEPT ![p] = u]
      /\ UNCHANGED <<files, pc, job, winners, exported, snapshots, outcome, collected, fleet>>
  BY DEF Take, promotion, vars
<1>3. Shapes'
  BY <1>2 DEF IInv, Shapes
<1>4. outcome[u] = Pending /\ Untouched(u) /\ \A q \in Procs : Busy(q) => unit[q] # u
  BY <1>1 DEF IInv, Apart
<1>5. Apart'
  <2>1. \A q \in Procs : q # p => (Busy(q)' <=> Busy(q)) /\ unit'[q] = unit[q]
    BY <1>2 DEF IInv, Shapes, Busy
  <2>2. unit'[p] = u
    BY <1>2 DEF IInv, Shapes
  <2>3. \A q \in Procs : Busy(q)' => unit'[q] \in Ids /\ outcome'[unit'[q]] = Pending
    BY <1>1, <1>2, <1>4, <2>1, <2>2 DEF IInv, Apart
  <2>4. \A q, r \in Procs : Busy(q)' /\ Busy(r)' /\ unit'[q] = unit'[r] => q = r
    BY <1>4, <2>1, <2>2 DEF IInv, Apart
  <2>5. \A i, j \in 1..Len(queue') : queue'[i] = queue'[j] => i = j
    BY <1>1, <1>2 DEF IInv, Apart
  <2>6. ASSUME NEW i \in 1..Len(queue')
        PROVE  /\ outcome'[queue'[i]] = Pending /\ Untouched(queue[i])'
               /\ \A q \in Procs : Busy(q)' => unit'[q] # queue'[i]
    <3>1. i + 1 \in 1..Len(queue) /\ queue'[i] = queue[i + 1] /\ queue[i + 1] # u
      BY <1>1, <1>2 DEF IInv, Apart
    <3>2. outcome[queue[i + 1]] = Pending /\ Untouched(queue[i + 1])
          /\ \A q \in Procs : Busy(q) => unit[q] # queue[i + 1]
      BY <3>1 DEF IInv, Apart
    <3>3. Untouched(queue[i])'
      BY <1>2, <3>1, <3>2 DEF Untouched
    <3>4. ASSUME NEW q \in Procs, Busy(q)' PROVE unit'[q] # queue'[i]
      BY <2>1, <2>2, <3>1, <3>2, <3>4
    <3> QED BY <1>2, <3>1, <3>2, <3>3, <3>4
  <2>7. queue' \in Seq(Ids)
    BY <1>1, <1>2
  <2> QED BY <2>3, <2>4, <2>5, <2>6, <2>7 DEF Apart, Untouched
<1>6. ASSUME NEW q \in Procs PROVE ThreadHolds(q)'
  <2>1. CASE q = p
    BY <1>2, <1>4, <2>1 DEF IInv, Shapes, ThreadHolds, Untouched
  <2>2. CASE q # p
    BY <1>2, <2>2 DEF IInv, Shapes, ThreadHolds, Untouched, Exports, Promotes, Written, Best, Qualifies
  <2> QED BY <2>1, <2>2
<1>7. ASSUME NEW v \in Ids PROVE OutcomeHolds(v)'
  BY <1>2 DEF IInv, OutcomeHolds, Untouched, Qualifies
<1>8. InTurn'
  BY <1>2 DEF IInv, InTurn
<1> QED BY <1>3, <1>5, <1>6, <1>7, <1>8 DEF IInv

LEMMA LoopKeeps ==
  ASSUME NEW p \in Procs, LoopReturns(p) \/ LoopRaises(p), IInv
  PROVE  IInv'
<1>1. Busy(p) /\ unit[p] \in Ids /\ Untouched(unit[p])
  BY DEF LoopReturns, LoopRaises, Busy, IInv, Apart, ThreadHolds
<1>2. CASE LoopReturns(p)
  <2>1. PICK w \in Results : winners' = [winners EXCEPT ![p] = w]
    BY <1>2 DEF LoopReturns
  <2>2. /\ exported' = [exported EXCEPT ![p] = 0] /\ phase' = [phase EXCEPT ![p] = "export"]
        /\ UNCHANGED <<files, pc, job, unit, queue, snapshots, outcome, collected, fleet>>
    BY <1>2 DEF LoopReturns, promotion, vars
  <2>3. Shapes'
    BY <2>1, <2>2 DEF IInv, Shapes
  <2>4. Only(p)
    BY <2>1, <2>2 DEF IInv, Shapes, Only
  <2>5. ThreadHolds(p)'
    <3>1. /\ winners'[p] = w /\ exported'[p] = 0 /\ phase'[p] = "export" /\ pc'[p] = "idle"
          /\ unit'[p] = unit[p]
      BY <1>2, <2>1, <2>2 DEF IInv, Shapes, ThreadHolds, LoopReturns
    <3>2. Len(w) \in Nat
      BY WinnersFresh
    <3>3. Untouched(unit[p])'
      BY <1>1, <2>2 DEF Untouched
    <3>4. Exports(p)'
      BY <3>1, <3>2 DEF Exports, Written
    <3> QED BY <3>1, <3>3, <3>4 DEF ThreadHolds
  <2>6. phase'[p] # "idle"
    BY <2>2 DEF IInv, Shapes
  <2> QED BY <1>1, <2>2, <2>3, <2>4, <2>5, <2>6, OthersUndisturbed
<1>3. CASE LoopRaises(p)
  <2>1. /\ outcome' = [outcome EXCEPT ![unit[p]] = Error] /\ phase' = [phase EXCEPT ![p] = "idle"]
        /\ UNCHANGED <<files, pc, job, unit, queue, winners, exported, snapshots, collected, fleet>>
    BY <1>3 DEF LoopRaises, Outcome, promotion, vars, work
  <2>2. Shapes'
    BY <1>1, <2>1 DEF IInv, Shapes, Outcomes
  <2>3. Only(p)
    BY <2>1 DEF IInv, Shapes, Only
  <2>4. ThreadHolds(p)' /\ phase'[p] = "idle"
    BY <1>3, <2>1 DEF IInv, Shapes, ThreadHolds, LoopRaises
  <2>5. outcome'[unit[p]] # Pending /\ OutcomeHolds(unit[p])'
    BY <1>1, <2>1 DEF IInv, Shapes, OutcomeHolds, Untouched, Error, Raised, Pending
  <2> QED BY <1>1, <2>2, <2>3, <2>4, <2>5, OthersUndisturbed
<1> QED BY <1>2, <1>3

LEMMA SnapshotWrites ==
  ASSUME NEW u \in Ids, NEW v \in Versions, Snapshot(u, v), Shapes
  PROVE  /\ snapshots'[u] = [names |-> snapshots[u].names \cup {v}, latest |-> v]
         /\ \A x \in Ids : x # u => snapshots'[x] = snapshots[x]
         /\ snapshots' \in [Ids -> [names : SUBSET Versions, latest : Versions \cup {None}]]
<1> DEFINE s == [snapshots EXCEPT ![u].names = @ \cup {v}]
<1>1. snapshots' = [s EXCEPT ![u].latest = v]
  BY DEF Snapshot
<1>2. /\ s[u] = [names |-> snapshots[u].names \cup {v}, latest |-> snapshots[u].latest]
      /\ \A x \in Ids : x # u => s[x] = snapshots[x]
      /\ s \in [Ids -> [names : SUBSET Versions, latest : Versions \cup {None}]]
  BY DEF Shapes
<1> HIDE DEF s
<1>3. snapshots' = [s EXCEPT ![u] = [s[u] EXCEPT !.latest = v]]
  BY <1>1
<1>4. ASSUME NEW names, NEW latest
      PROVE  [[names |-> names, latest |-> latest] EXCEPT !.latest = v]
               = [names |-> names, latest |-> v]
  OBVIOUS
<1>5. snapshots' = [s EXCEPT ![u] = [names |-> snapshots[u].names \cup {v}, latest |-> v]]
  <2>1. snapshots' = [s EXCEPT ![u] = [[names |-> snapshots[u].names \cup {v}, latest |-> snapshots[u].latest]
                                         EXCEPT !.latest = v]]
    BY <1>2, <1>3, Zenon
  <2> QED BY <1>4, <2>1, Zenon
<1>6. snapshots[u].names \in SUBSET Versions
  BY DEF Shapes
<1> QED BY <1>2, <1>5, <1>6

(* A winner is written: its snapshot and LATEST.json. *)
LEMMA ExportKeeps ==
  ASSUME NEW p \in Procs, Export(p), IInv
  PROVE  IInv'
<1> DEFINE u == unit[p]
           w == winners[p]
           n == exported[p] + 1
<1>1. /\ Busy(p) /\ u \in Ids /\ Untouched(u) /\ phase[p] = "export" /\ pc[p] = "idle"
      /\ w \in Results /\ Written(p, exported[p])
  BY DEF Export, Busy, IInv, Apart, ThreadHolds, Exports
<1>2. exported[p] \in Nat /\ Len(w) \in Nat /\ n <= Len(w)
  BY <1>1, WinnersFresh DEF Export, IInv, Shapes
<1>3. /\ Snapshot(u, w[n])
      /\ exported' = [exported EXCEPT ![p] = n]
      /\ UNCHANGED <<files, pc, job, phase, unit, winners, queue, outcome, collected, fleet>>
  BY DEF Export, promotion, vars
<1>4. /\ snapshots'[u] = [names |-> snapshots[u].names \cup {w[n]}, latest |-> w[n]]
      /\ \A v \in Ids : v # u => snapshots'[v] = snapshots[v]
      /\ snapshots' \in [Ids -> [names : SUBSET Versions, latest : Versions \cup {None}]]
  <2>1. w[n] \in Versions
    BY <1>1, <1>2, WinnersFresh
  <2> QED BY <1>1, <1>3, <2>1, SnapshotWrites DEF IInv
<1>5. Shapes'
  BY <1>2, <1>3, <1>4 DEF IInv, Shapes
<1>6. Only(p)
  BY <1>3, <1>4 DEF IInv, Shapes, Only
<1>7. Exports(p)'
  <2>1. winners'[p] = w /\ exported'[p] = n /\ unit'[p] = u
    BY <1>3 DEF IInv, Shapes
  <2>2. \A i \in 1..n : w[i] \in snapshots'[u].names
    BY <1>1, <1>2, <1>4 DEF Written
  <2> QED BY <1>1, <1>2, <1>4, <2>1, <2>2 DEF Exports, Written
<1>8. ThreadHolds(p)'
  BY <1>1, <1>3, <1>7 DEF ThreadHolds, Untouched
<1> QED BY <1>1, <1>3, <1>5, <1>6, <1>8, OthersUndisturbed

(* All winners are written: the best one is written again and promoted, or *)
(* the slot is left alone.                                                 *)
LEMMA DecisionKeeps ==
  ASSUME NEW p \in Procs, PromoteBest(p) \/ KeepBaseline(p), IInv
  PROVE  IInv'
<1> DEFINE u == unit[p]
           w == winners[p]
           b == Best(p)
<1>1. /\ Busy(p) /\ u \in Ids /\ Untouched(u) /\ phase[p] = "export" /\ pc[p] = "idle"
      /\ w \in Results /\ Written(p, Len(w)) /\ exported[p] = Len(w)
  BY DEF PromoteBest, KeepBaseline, Busy, IInv, Apart, ThreadHolds, Exports
<1>2. Len(w) \in Nat /\ Len(w) > 0 /\ \A i \in 1..Len(w) : w[i] \in Versions \ Stale
  BY <1>1, WinnersFresh
<1>3. \A i \in 1..Len(w) : w[i] \in snapshots[u].names
  BY <1>1 DEF Written
<1>4. CASE PromoteBest(p)
  <2> DEFINE j == [op |-> "promote", place |-> Slot(u), version |-> b,
                   force |-> TRUE, stored |-> FALSE]
  <2>1. /\ Snapshot(u, b)
        /\ pc' = [pc EXCEPT ![p] = "check"] /\ job' = [job EXCEPT ![p] = j]
        /\ phase' = [phase EXCEPT ![p] = "promote"]
        /\ UNCHANGED <<files, unit, winners, exported, queue, outcome, collected, fleet>>
    BY <1>4 DEF PromoteBest, Start
  <2>2. Qualifies(b)
    BY <1>4 DEF PromoteBest
  <2>3. /\ snapshots'[u] = [names |-> snapshots[u].names \cup {b}, latest |-> b]
        /\ \A v \in Ids : v # u => snapshots'[v] = snapshots[v]
        /\ snapshots' \in [Ids -> [names : SUBSET Versions, latest : Versions \cup {None}]]
    <3>1. b \in Versions
      BY <1>2 DEF Best
    <3> QED BY <1>1, <2>1, <3>1, SnapshotWrites DEF IInv
  <2>4. /\ pc'[p] = "check" /\ job'[p] = j /\ phase'[p] = "promote"
        /\ winners'[p] = w /\ unit'[p] = u
    BY <2>1 DEF IInv, Shapes
  <2>5. Shapes'
    BY <2>1, <2>3 DEF IInv, Shapes
  <2>6. Only(p)
    BY <2>1, <2>3 DEF IInv, Shapes, Only
  <2>7. Promotes(p)'
    <3>1. Best(p)' = b /\ Qualifies(Best(p))'
      BY <2>2, <2>4 DEF Best, Qualifies
    <3>2. Untouched(unit[p])'
      BY <1>1, <2>1 DEF Untouched
    <3>3. \A i \in 1..Len(w) : w[i] \in snapshots'[u].names
      BY <1>3, <2>3
    <3>4. snapshots'[u].latest = b
      BY <2>3
    <3>5. job'[p] = [op |-> "promote", place |-> Slot(unit'[p]), version |-> Best(p)',
                     force |-> TRUE, stored |-> FALSE]
      BY <2>4, <3>1
    <3> QED BY <1>1, <2>4, <3>1, <3>2, <3>3, <3>4, <3>5 DEF Promotes
  <2>8. ThreadHolds(p)'
    BY <2>4, <2>7 DEF ThreadHolds
  <2> QED BY <1>1, <2>1, <2>4, <2>5, <2>6, <2>8, OthersUndisturbed
<1>5. CASE KeepBaseline(p)
  <2> DEFINE o == [kind |-> "done", winners |-> w, promoted |-> FALSE]
  <2>1. /\ outcome' = [outcome EXCEPT ![u] = o] /\ phase' = [phase EXCEPT ![p] = "idle"]
        /\ UNCHANGED <<files, pc, job, unit, winners, exported, queue, snapshots, collected, fleet>>
    BY <1>5 DEF KeepBaseline, Outcome, Done, promotion, vars, work
  <2>2. o \in Outcomes
    BY <1>1 DEF Outcomes
  <2>3. Shapes'
    BY <2>1, <2>2 DEF IInv, Shapes
  <2>4. Only(p)
    BY <2>1 DEF IInv, Shapes, Only
  <2>5. ThreadHolds(p)' /\ phase'[p] = "idle"
    BY <1>1, <2>1 DEF IInv, Shapes, ThreadHolds
  <2>6. outcome'[u] = o /\ unit'[p] = u
    BY <1>1, <2>1 DEF IInv, Shapes
  <2>7. snapshots'[u].latest \in Versions \ Stale
    BY <1>1, <1>2, <2>1 DEF Written
  <2>8. Untouched(u)'
    BY <1>1, <2>1 DEF Untouched
  <2>9. OutcomeHolds(unit[p])' /\ outcome'[u] # Pending
    BY <1>3, <2>1, <2>6, <2>7, <2>8 DEF OutcomeHolds, Untouched, Error, Raised, Pending
  <2> QED BY <1>1, <2>3, <2>4, <2>5, <2>9, OthersUndisturbed
<1> QED BY <1>4, <1>5

(* A promotion under way: a forced command is not refused. *)
LEMMA PromotionKeeps ==
  ASSUME NEW p \in Procs, PromoteStep(p) \/ Promoted(p), IInv
  PROVE  IInv'
<1> DEFINE u == unit[p]
           w == winners[p]
           b == Best(p)
           j == [op |-> "promote", place |-> Slot(u), version |-> b, force |-> TRUE, stored |-> FALSE]
<1>1. /\ Busy(p) /\ u \in Ids /\ phase[p] = "promote" /\ Promotes(p) /\ job[p] = j
      /\ Slot(u) \in Place /\ \A v \in Ids : v # u => Slot(v) # Slot(u)
  BY SlotsApart DEF PromoteStep, Promoted, Busy, IInv, Apart, ThreadHolds, Promotes
<1>2. job[p].place = Slot(u) /\ job[p].version = b /\ job[p].force /\ ~job[p].stored
  BY <1>1
<1>3. CASE PromoteStep(p) /\ Check(p)
  <2>1. /\ pc[p] = "check" /\ pc' = [pc EXCEPT ![p] = "truncate"]
        /\ UNCHANGED <<files, job, phase, unit, winners, exported, queue, snapshots, outcome, collected, fleet>>
    BY <1>2, <1>3 DEF Check, Refused, Go, PromoteStep, fleetvars, work
  <2>2. pc'[p] = "truncate" /\ Shapes' /\ Only(p)
    BY <2>1 DEF IInv, Shapes, Only
  <2>3. Promotes(p)'
    BY <1>1, <2>1, <2>2 DEF Promotes, Untouched, Best, Qualifies
  <2>4. ThreadHolds(p)'
    BY <1>1, <2>1, <2>3 DEF ThreadHolds
  <2> QED BY <1>1, <2>1, <2>2, <2>4, OthersUndisturbed
<1>4. CASE PromoteStep(p) /\ Truncate(p)
  <2>1. /\ files' = [files EXCEPT ![Slot(u)] = Torn] /\ pc' = [pc EXCEPT ![p] = "write"]
        /\ UNCHANGED <<job, phase, unit, winners, exported, queue, snapshots, outcome, collected, fleet>>
    BY <1>2, <1>4 DEF Truncate, Change, Go, PromoteStep, fleetvars, work
  <2>2. pc'[p] = "write" /\ files'[Slot(u)] = Torn /\ Shapes'
    BY <1>1, <2>1 DEF IInv, Shapes
  <2>3. Only(p)
    BY <1>1, <2>1 DEF IInv, Shapes, Only
  <2>4. Promotes(p)'
    BY <1>1, <2>1, <2>2 DEF Promotes, Best, Qualifies
  <2>5. ThreadHolds(p)'
    BY <1>1, <2>1, <2>4 DEF ThreadHolds
  <2> QED BY <1>1, <2>1, <2>2, <2>3, <2>5, OthersUndisturbed
<1>5. CASE Promoted(p)
  <2> DEFINE o == [kind |-> "done", winners |-> w, promoted |-> TRUE]
  <2>1. /\ files' = [files EXCEPT ![Slot(u)] = b] /\ pc' = [pc EXCEPT ![p] = "idle"]
        /\ job' = [job EXCEPT ![p] = NoJob]
        /\ outcome' = [outcome EXCEPT ![u] = o] /\ phase' = [phase EXCEPT ![p] = "idle"]
        /\ UNCHANGED <<unit, winners, exported, queue, snapshots, collected, fleet>>
    BY <1>2, <1>5 DEF Promoted, Write, Change, End, Go, Outcome, Done, work
  <2>2. o \in Outcomes
    BY <1>1 DEF Outcomes, Promotes
  <2>3. /\ pc'[p] = "idle" /\ phase'[p] = "idle" /\ unit'[p] = u
        /\ files'[Slot(u)] = b /\ outcome'[u] = o
    BY <1>1, <2>1 DEF IInv, Shapes
  <2>4. Shapes'
    BY <2>1, <2>2 DEF IInv, Shapes
  <2>5. Only(p)
    BY <1>1, <2>1 DEF IInv, Shapes, Only
  <2>6. ThreadHolds(p)'
    BY <2>3 DEF ThreadHolds
  <2>7. OutcomeHolds(unit[p])' /\ outcome'[u] # Pending
    BY <1>1, <2>1, <2>3 DEF OutcomeHolds, Promotes, Qualifies, Best, Error, Raised, Pending
  <2> QED BY <1>1, <2>3, <2>4, <2>5, <2>6, <2>7, OthersUndisturbed
<1> QED BY <1>3, <1>4, <1>5 DEF PromoteStep

(* A work item raises: before the truncation the slot is untouched. *)
LEMMA RaisingKeeps ==
  ASSUME NEW p \in Procs, ExportRaises(p) \/ PromoteRaises(p), IInv
  PROVE  IInv'
<1> DEFINE u == unit[p]
<1>1. /\ Busy(p) /\ u \in Ids
      /\ \/ phase[p] = "export" /\ pc[p] = "idle" /\ Untouched(u)
         \/ phase[p] = "promote" /\ (Untouched(u) \/ files[Slot(u)] = Torn)
  BY DEF ExportRaises, PromoteRaises, Busy, IInv, Apart, ThreadHolds, Promotes
<1>2. /\ outcome' = [outcome EXCEPT ![u] = Raised] /\ phase' = [phase EXCEPT ![p] = "idle"]
      /\ \/ UNCHANGED <<pc, job>>  /\ pc[p] = "idle"
         \/ pc' = [pc EXCEPT ![p] = "idle"] /\ job' = [job EXCEPT ![p] = NoJob]
      /\ UNCHANGED <<files, unit, winners, exported, queue, snapshots, collected, fleet>>
  <2>1. CASE ExportRaises(p)
    BY <1>1, <2>1 DEF ExportRaises, Outcome, promotion, vars, work
  <2>2. CASE PromoteRaises(p)
    BY <2>2 DEF PromoteRaises, Die, End, Go, Outcome, work
  <2> QED BY <2>1, <2>2
<1>3. pc'[p] = "idle" /\ phase'[p] = "idle" /\ unit'[p] = u /\ outcome'[u] = Raised
  BY <1>1, <1>2 DEF IInv, Shapes
<1>4. Shapes'
  BY <1>2 DEF IInv, Shapes, Outcomes
<1>5. Only(p)
  BY <1>2 DEF IInv, Shapes, Only
<1>6. ThreadHolds(p)'
  BY <1>3 DEF ThreadHolds
<1>7. OutcomeHolds(unit[p])' /\ outcome'[u] # Pending
  BY <1>1, <1>2, <1>3 DEF OutcomeHolds, Untouched, Error, Raised, Pending
<1> QED BY <1>1, <1>3, <1>4, <1>5, <1>6, <1>7, OthersUndisturbed

-----------------------------------------------------------------------------
(* What neither the threads nor the slots notice. *)
LEMMA CallerKeeps ==
  ASSUME IInv, UNCHANGED <<promotion, phase, unit, winners, exported, snapshots, outcome>>,
         queue' = queue \/ queue' = <<>>, InTurn'
  PROVE  IInv'
<1>1. UNCHANGED <<files, pc, job>>
  BY DEF promotion, vars
<1>2. Shapes'
  BY <1>1 DEF IInv, Shapes
<1>3. Apart'
  <2>1. CASE queue' = queue
    BY <1>1, <2>1 DEF IInv, Apart, Busy, Untouched
  <2>2. CASE queue' = <<>>
    BY <2>2 DEF IInv, Apart, Busy
  <2> QED BY <2>1, <2>2
<1>4. \A p \in Procs : ThreadHolds(p)'
  BY <1>1 DEF IInv, ThreadHolds, Exports, Promotes, Written, Untouched, Qualifies, Best
<1>5. \A u \in Ids : OutcomeHolds(u)'
  BY <1>1 DEF IInv, OutcomeHolds, Untouched, Qualifies
<1> QED BY <1>2, <1>3, <1>4, <1>5 DEF IInv

LEMMA CollectKeeps ==
  ASSUME Collect, IInv
  PROVE  IInv'
<1> DEFINE o == outcome[Units[collected + 1]]
<1>1. collected \in Nat /\ collected < Len(Units) /\ Units[collected + 1] \in Ids /\ o # Pending
  BY FleetAssumption DEF Collect, IInv, InTurn, FleetAssumption, Ids, ToSet
<1>2. o.kind = "raised" <=> o = Raised
  BY <1>1, OutcomeKinds DEF IInv, Shapes
<1>3. InTurn'
  <2>1. CASE o = Raised
    BY <1>2, <2>1 DEF Collect, IInv, InTurn
  <2>2. CASE o # Raised
    <3>1. collected' = collected + 1 /\ UNCHANGED <<fleet, outcome>> /\ fleet = "running"
      BY <1>2, <2>2 DEF Collect
    <3>2. ASSUME NEW i \in 1..(collected + 1) PROVE outcome[Units[i]] \notin {Pending, Raised}
      <4>1. CASE i = collected + 1
        BY <1>1, <2>2, <4>1
      <4>2. CASE i # collected + 1
        BY <1>1, <4>2 DEF IInv, InTurn
      <4> QED BY <4>1, <4>2
    <3> QED BY <1>1, <3>1, <3>2, FleetAssumption DEF InTurn, FleetAssumption
  <2> QED BY <2>1, <2>2
<1> QED BY <1>3, CallerKeeps DEF Collect

LEMMA ReturnKeeps ==
  ASSUME Return \/ UNCHANGED allvars, IInv
  PROVE  IInv'
<1>1. UNCHANGED <<promotion, work, phase, outcome, collected>>
  BY DEF Return, allvars, fleetvars, promotion
<1>2. InTurn'
  BY <1>1 DEF Return, allvars, fleetvars, IInv, InTurn
<1> QED BY <1>1, <1>2, CallerKeeps DEF work

LEMMA NextKeeps ==
  IInv /\ [FleetNext]_allvars => IInv'
<1> SUFFICES ASSUME IInv, [FleetNext]_allvars PROVE IInv'
  OBVIOUS
<1>1. ASSUME NEW p \in Procs, Thread(p) PROVE IInv'
  BY <1>1, TakeKeeps, LoopKeeps, ExportKeeps, DecisionKeeps, PromotionKeeps, RaisingKeeps DEF Thread
<1> QED BY <1>1, CollectKeeps, ReturnKeeps DEF FleetNext

LEMMA ReturnedAllDone ==
  ASSUME IInv, fleet = "returned", NEW u \in Ids
  PROVE  outcome[u] \notin {Pending, Raised}
<1>1. PICK i \in 1..Len(Units) : u = Units[i]
  BY FleetAssumption DEF FleetAssumption, Ids, ToSet
<1> QED BY <1>1 DEF IInv, InTurn

(* Over any number of threads, units, failures and cancellations, a slot   *)
(* gets nothing but the best winner of its unit, if that clears the        *)
(* threshold and every hard criterion, and run_fleet's result says so      *)
(* (fleet.py, run_fleet).                                                  *)
THEOREM FleetsPromoteEarned ==
  FleetSpec => []FleetPromotesEarned
<1>1. IInv => OnlyQualifiedPromoted
  <2> SUFFICES ASSUME IInv, NEW u \in Ids, outcome[u] # Pending, files[Slot(u)] # Absent
               PROVE  LET c == files[Slot(u)] IN
                      \/ c \in Stale
                      \/ c = Torn /\ outcome[u] = Raised /\ fleet # "returned"
                      \/ /\ outcome[u].kind = "done" /\ c = outcome[u].winners[1]
                         /\ Hard[c] /\ Aggregate[c] >= Threshold
    BY DEF OnlyQualifiedPromoted
  <2>1. outcome[u] \in Outcomes /\ OutcomeHolds(u)
    BY DEF IInv, Shapes
  <2>2. CASE outcome[u] = Error
    BY <2>1, <2>2 DEF OutcomeHolds, Untouched
  <2>3. CASE outcome[u] = Raised
    BY <2>1, <2>3, ReturnedAllDone DEF OutcomeHolds, Untouched
  <2>4. CASE outcome[u] \in [kind : {"done"}, winners : Results, promoted : BOOLEAN]
    BY <2>1, <2>4 DEF OutcomeHolds, Untouched, Qualifies
  <2> QED BY <2>1, <2>2, <2>3, <2>4 DEF Outcomes
<1>2. IInv => ReturnTells
  <2> SUFFICES ASSUME IInv, fleet = "returned", NEW u \in Ids
               PROVE  /\ outcome[u].kind \in {"done", "error"}
                      /\ outcome[u].kind = "done" =>
                           /\ ToSet(outcome[u].winners) \subseteq snapshots[u].names
                           /\ outcome[u].promoted <=> files[Slot(u)] = snapshots[u].latest
    BY DEF ReturnTells
  <2> DEFINE o == outcome[u]
  <2>1. o \in Outcomes /\ OutcomeHolds(u) /\ o \notin {Pending, Raised}
    BY ReturnedAllDone DEF IInv, Shapes
  <2>2. o.kind \in {"done", "error"}
    BY <2>1, OutcomeKinds
  <2>3. ASSUME o.kind = "done"
        PROVE  ToSet(o.winners) \subseteq snapshots[u].names
    <3>1. o.winners \in Results
      BY <2>1, <2>3, OutcomeKinds
    <3>2. Len(o.winners) \in Nat /\ o.winners \in Seq(Versions \ Stale)
      BY <3>1, WinnersFresh
    <3> QED BY <2>1, <2>3, <3>2 DEF OutcomeHolds, ToSet
  <2>4. ASSUME o.kind = "done"
        PROVE  o.promoted <=> files[Slot(u)] = snapshots[u].latest
    <3>1. o.promoted \in BOOLEAN
      BY <2>1, <2>4, OutcomeKinds
    <3>2. Absent \notin Versions
      BY PromotionAssumption DEF PromotionAssumption
    <3>3. CASE o.promoted
      BY <2>1, <2>4, <3>3 DEF OutcomeHolds
    <3>4. CASE ~o.promoted
      BY <2>1, <2>4, <3>2, <3>4 DEF OutcomeHolds, Untouched
    <3> QED BY <3>1, <3>3, <3>4
  <2> QED BY <2>2, <2>3, <2>4
<1>3. FleetSpec => []IInv
  BY InitHolds, NextKeeps, PTL DEF FleetSpec
<1> QED BY <1>1, <1>2, <1>3, PTL DEF FleetPromotesEarned

---------------------------------------------------------------------------
(* The event stream.  What one source told, in its order: the last event   *)
(* the consumer took, at place 0, and those of the source in the queue.    *)

Kinds == {"none", "message", "progress", "tool.start", "tool.end", "tool.error"}

Event == [source : Sources, kind : Kinds, emitter : Nat, seq : Int]

StreamTyped ==
  /\ events \in Seq(Event)
  /\ emitter \in [Sources -> [id : Nat, seq : Nat]]
  /\ seen \in [Sources -> [kind : Kinds, emitter : Nat, seq : Int]]

Places(s) == {0} \cup {i \in 1..Len(events) : events[i].source = s}

Told(s, i) == IF i = 0 THEN seen[s] ELSE events[i]

Later(x, y) == x.emitter < y.emitter \/ (x.emitter = y.emitter /\ x.seq < y.seq)

(* A kind of event after another, with so many seqs missed between them.   *)
Succeeds(k, kind, missed) ==
  /\ missed = 0 \/ (missed = 1 /\ k = "tool.start" /\ kind \in {"tool.end", "tool.error"})
  /\ k = "tool.start" => kind # "tool.start"
  /\ kind = "tool.end" => k \in {"tool.start", "progress"}

(* What InOrder asks of two events of an emitter, one right after the other. *)
Follows(x, y) ==
  x.emitter = y.emitter => Succeeds(x.kind, y.kind, y.seq - x.seq - 1)

Adjacent(s, i, j) == i < j /\ \A k \in Places(s) : k <= i \/ j <= k

(* What the last event of an emitter may be, and how many seqs the emitter *)
(* has missed since, by where its run is.                                  *)
Expected(s, kind, missed) ==
  IF s = "workflow" THEN kind \notin {"tool.start", "tool.end"} /\ (walk.pc # "end" => missed = 0)
  ELSE /\ turn.pc \in {"complete", "decide", "start"} => kind # "tool.start" /\ missed = 0
       /\ turn.pc = "tool" => kind = "tool.start" /\ missed = 0
       /\ turn.pc \in {"working", "succeeded", "failed"} =>
            /\ kind \in {"tool.start", "progress"}
            /\ missed = 0 \/ (missed = 1 /\ kind = "tool.start")

Ordered(s) ==
  \A i, j \in Places(s) :
    /\ i < j => Later(Told(s, i), Told(s, j))
    /\ Adjacent(s, i, j) => Follows(Told(s, i), Told(s, j))

Counted(s) ==
  \A i \in Places(s) :
    /\ Told(s, i).emitter <= emitter[s].id
    /\ Told(s, i).emitter = emitter[s].id => Told(s, i).seq < emitter[s].seq

LastTold(s) ==
  \A i \in Places(s) :
    (\A j \in Places(s) : j <= i) /\ Told(s, i).emitter = emitter[s].id =>
      Expected(s, Told(s, i).kind, emitter[s].seq - Told(s, i).seq - 1)

(* The queue part of an invariant: what a put may follow is Expected.      *)
Tells(s) == Ordered(s) /\ Counted(s)

StreamInv == StreamTyped /\ \A s \in Sources : Tells(s) /\ LastTold(s)

LEMMA ToldTyped ==
  ASSUME StreamTyped, NEW s \in Sources, NEW i \in Places(s)
  PROVE  /\ i \in Nat /\ i <= Len(events) /\ Len(events) \in Nat
         /\ Told(s, i).emitter \in Nat /\ Told(s, i).seq \in Int /\ Told(s, i).kind \in Kinds
<1>1. Len(events) \in Nat /\ i \in Nat /\ i <= Len(events)
  BY DEF StreamTyped, Places
<1>2. CASE i = 0
  BY <1>1, <1>2 DEF Told, StreamTyped
<1>3. CASE i # 0
  <2>1. events[i] \in Event
    BY <1>1, <1>3 DEF StreamTyped
  <2> QED BY <1>1, <1>3, <2>1 DEF Told, Event
<1> QED BY <1>2, <1>3

(* An emitter has missed a number of seqs since its last event.             *)
LEMMA MissedTyped ==
  ASSUME StreamTyped, NEW s \in Sources, Tells(s), NEW i \in Places(s), Told(s, i).emitter = emitter[s].id
  PROVE  Told(s, i).kind \in Kinds /\ emitter[s].seq - Told(s, i).seq - 1 \in Nat /\ Told(s, i).seq \in Int
<1>1. Told(s, i).kind \in Kinds /\ Told(s, i).seq \in Int /\ Told(s, i).seq < emitter[s].seq
  BY ToldTyped DEF Tells, Counted
<1>2. emitter[s].seq \in Nat
  BY DEF StreamTyped
<1> QED BY <1>1, <1>2

LEMMA PutTold ==
  ASSUME StreamTyped, NEW s \in Sources, NEW kind \in Kinds, Put(s, kind), NEW r \in Sources, NEW n, n = Len(events)
  PROVE  /\ StreamTyped'
         /\ r # s => Places(r)' = Places(r) /\ emitter'[r] = emitter[r]
         /\ r = s => Places(r)' = Places(r) \cup {n + 1}
         /\ \A i \in Places(r) : Told(r, i)' = Told(r, i) /\ i <= n /\ i \in Nat
         /\ emitter'[s].id = emitter[s].id /\ emitter'[s].seq = emitter[s].seq + 1
         /\ Told(s, n + 1)' = [source |-> s, kind |-> kind, emitter |-> emitter[s].id, seq |-> emitter[s].seq]
<1> PICK e : e = [source |-> s, kind |-> kind, emitter |-> emitter[s].id, seq |-> emitter[s].seq]
  OBVIOUS
<1>1. n \in Nat /\ e \in Event
  BY DEF StreamTyped, Event
<1>2. events' = Append(events, e) /\ seen' = seen /\ emitter' = [emitter EXCEPT ![s].seq = emitter[s].seq + 1]
  BY DEF Put, Count, Stamped
<1>3. /\ events' \in Seq(Event) /\ Len(events') = n + 1 /\ events'[n + 1] = e
      /\ \A i \in 1..n : events'[i] = events[i]
  BY <1>1, <1>2 DEF StreamTyped
<1>4. StreamTyped'
  BY <1>2, <1>3 DEF StreamTyped
<1>5. r # s => Places(r)' = Places(r)
  BY <1>1, <1>3 DEF Places
<1>6. r = s => Places(r)' = Places(r) \cup {n + 1}
  BY <1>1, <1>3 DEF Places
<1>7. \A i \in Places(r) : Told(r, i)' = Told(r, i) /\ i <= n /\ i \in Nat
  BY <1>1, <1>2, <1>3 DEF Places, Told
<1>8. Told(s, n + 1)' = e
  BY <1>1, <1>3 DEF Told
<1>9. /\ emitter'[s].id = emitter[s].id /\ emitter'[s].seq = emitter[s].seq + 1
      /\ r # s => emitter'[r] = emitter[r]
  BY <1>2 DEF StreamTyped
<1> QED BY <1>4, <1>5, <1>6, <1>7, <1>8, <1>9

(* A put keeps the order, when its event may follow the last one.          *)
LEMMA PutTells ==
  ASSUME StreamTyped, NEW s \in Sources, NEW kind \in Kinds, Put(s, kind), \A r \in Sources : Tells(r),
         \A i \in Places(s) : (\A j \in Places(s) : j <= i) /\ Told(s, i).emitter = emitter[s].id =>
           Follows(Told(s, i), [kind |-> kind, emitter |-> emitter[s].id, seq |-> emitter[s].seq]),
         NEW r \in Sources
  PROVE  Tells(r)'
<1> PICK n, e : n = Len(events) /\ e = [source |-> s, kind |-> kind, emitter |-> emitter[s].id, seq |-> emitter[s].seq]
  OBVIOUS
<1>1. /\ n \in Nat /\ Tells(r) /\ emitter[s].id \in Nat /\ emitter[s].seq \in Nat
  BY DEF StreamTyped
<1>2. /\ StreamTyped'
      /\ r # s => Places(r)' = Places(r) /\ emitter'[r] = emitter[r]
      /\ r = s => Places(r)' = Places(r) \cup {n + 1}
      /\ \A i \in Places(r) : Told(r, i)' = Told(r, i) /\ i <= n /\ i \in Nat
      /\ emitter'[s].id = emitter[s].id /\ emitter'[s].seq = emitter[s].seq + 1
      /\ Told(s, n + 1)' = e
  BY PutTold
<1>3. CASE r # s
  BY <1>1, <1>2, <1>3 DEF Tells, Ordered, Counted, Adjacent
<1>4. CASE r = s
  <2>1. ASSUME NEW i \in Places(s) PROVE Later(Told(s, i), e)
    <3>1. Told(s, i).emitter \in Nat /\ Told(s, i).seq \in Int
      BY ToldTyped
    <3> QED BY <1>1, <1>4, <3>1 DEF Tells, Counted, Later
  <2>2. ASSUME NEW i \in Places(s), Adjacent(s, i, n + 1)' PROVE Follows(Told(s, i), e)
    <3>1. \A j \in Places(s) : j <= i
      BY <1>1, <1>2, <1>4, <2>2 DEF Adjacent
    <3> QED BY <3>1 DEF Follows
  <2>3. ASSUME NEW i \in Places(s), NEW j \in Places(s), Adjacent(s, i, j)' PROVE Adjacent(s, i, j)
    BY <1>2, <1>4, <2>3 DEF Adjacent
  <2>4. Ordered(s)'
    <3> SUFFICES ASSUME NEW i \in Places(s)', NEW j \in Places(s)', i < j
                 PROVE  /\ Later(Told(s, i)', Told(s, j)')
                        /\ Adjacent(s, i, j)' => Follows(Told(s, i)', Told(s, j)')
      BY DEF Ordered, Later, Follows, Adjacent
    <3>1. i \in Places(s)
      BY <1>1, <1>2, <1>4
    <3>2. CASE j = n + 1
      BY <1>2, <1>4, <2>1, <2>2, <3>1, <3>2
    <3>3. CASE j # n + 1
      BY <1>1, <1>2, <1>4, <2>3, <3>1, <3>3 DEF Tells, Ordered
    <3> QED BY <3>2, <3>3
  <2>5. Counted(s)'
    <3> SUFFICES ASSUME NEW i \in Places(s)'
                 PROVE  /\ Told(s, i)'.emitter <= emitter'[s].id
                        /\ Told(s, i)'.emitter = emitter'[s].id => Told(s, i)'.seq < emitter'[s].seq
      BY DEF Counted
    <3>1. CASE i = n + 1
      BY <1>1, <1>2, <3>1
    <3>2. CASE i # n + 1
      <4>1. i \in Places(s) /\ Told(s, i)' = Told(s, i) /\ Told(s, i).seq \in Int
        BY <1>1, <1>2, <1>4, <3>2, ToldTyped
      <4> QED BY <1>1, <1>2, <1>4, <4>1 DEF Tells, Counted
    <3> QED BY <3>1, <3>2
  <2> QED BY <1>4, <2>4, <2>5 DEF Tells
<1> QED BY <1>3, <1>4

(* A put that raises, and a new emitter, add nothing that was told.        *)
LEMMA FullTells ==
  ASSUME StreamTyped, NEW s \in Sources, Full(s) \/ NewEmitter(s), NEW r \in Sources, Tells(r)
  PROVE  /\ StreamTyped' /\ Tells(r)' /\ Places(r)' = Places(r) /\ \A i \in Places(r) : Told(r, i)' = Told(r, i)
         /\ r # s => emitter'[r] = emitter[r]
         /\ Full(s) => emitter'[s].id = emitter[s].id
         /\ NewEmitter(s) => \A i \in Places(s) : Tells(s) => Told(s, i).emitter < emitter'[s].id
<1>1. UNCHANGED <<events, seen>>
  BY DEF Full, NewEmitter
<1>2. emitter[s].id \in Nat /\ emitter[s].seq \in Nat
  BY DEF StreamTyped
<1>3. \/ emitter' = [emitter EXCEPT ![s].seq = emitter[s].seq + 1]
      \/ emitter' = [emitter EXCEPT ![s] = [id |-> emitter[s].id + 1, seq |-> 0]]
  BY DEF Full, NewEmitter, Count, Stamped
<1>4. StreamTyped'
  <2>1. emitter \in [Sources -> [id : Nat, seq : Nat]] /\ emitter[s] \in [id : Nat, seq : Nat]
    BY DEF StreamTyped
  <2>2. \/ emitter' = [emitter EXCEPT ![s] = [id |-> emitter[s].id, seq |-> emitter[s].seq + 1]]
        \/ emitter' = [emitter EXCEPT ![s] = [id |-> emitter[s].id + 1, seq |-> 0]]
    BY <1>3, <2>1
  <2>3. emitter' \in [Sources -> [id : Nat, seq : Nat]]
    BY <1>2, <2>1, <2>2
  <2> QED BY <1>1, <2>3 DEF StreamTyped
<1>5. Places(r)' = Places(r) /\ \A i : Told(r, i)' = Told(r, i)
  BY <1>1 DEF Places, Told
<1>6. \A i \in Places(r) : Told(r, i).emitter \in Nat /\ Told(r, i).seq \in Int
  BY ToldTyped
<1>7. Ordered(r)'
  BY <1>5 DEF Tells, Ordered, Adjacent
<1>8. /\ r # s => emitter'[r] = emitter[r]
      /\ \/ emitter'[s].id = emitter[s].id /\ emitter'[s].seq = emitter[s].seq + 1
         \/ emitter'[s].id = emitter[s].id + 1
  BY <1>3 DEF StreamTyped
<1>9. Counted(r)'
  BY <1>2, <1>5, <1>6, <1>8 DEF Tells, Counted
<1>10. Full(s) => emitter'[s].id = emitter[s].id
  BY <1>2 DEF Full, Count, Stamped, StreamTyped
<1>11. NewEmitter(s) => emitter'[s].id = emitter[s].id + 1
  BY DEF NewEmitter, StreamTyped
<1>12. ASSUME NewEmitter(s), Tells(s), NEW i \in Places(s) PROVE Told(s, i).emitter < emitter'[s].id
  <2>1. Told(s, i).emitter \in Nat /\ Told(s, i).emitter <= emitter[s].id
    BY <1>12, ToldTyped DEF Tells, Counted
  <2> QED BY <1>2, <1>11, <1>12, <2>1
<1> QED BY <1>4, <1>5, <1>7, <1>8, <1>9, <1>10, <1>12 DEF Tells

(* What the consumer takes moves one place forward.                        *)
LEMMA DrainTells ==
  ASSUME StreamTyped, Drain, \A s \in Sources : Tells(s), NEW r \in Sources
  PROVE  /\ StreamTyped' /\ Tells(r)'
         /\ \E g : \A i \in Places(r)' : /\ g[i] \in Places(r) /\ Told(r, i)'.kind = Told(r, g[i]).kind
                                         /\ Told(r, i)'.emitter = Told(r, g[i]).emitter /\ Told(r, i)'.seq = Told(r, g[i]).seq
                                         /\ (\A j \in Places(r)' : j <= i) => \A j \in Places(r) : j <= g[i]
         /\ seen'[r] # seen[r] => Later(seen[r], seen'[r]) /\ Follows(seen[r], seen'[r])
<1>a. PICK n, e : n = Len(events) /\ e = Head(events)
  OBVIOUS
<1>1. /\ n \in Nat /\ n > 0 /\ e = events[1] /\ e \in Event /\ emitter' = emitter
      /\ events' \in Seq(Event) /\ Len(events') = n - 1 /\ \A i \in 1..(n - 1) : events'[i] = events[i + 1]
      /\ seen' = [seen EXCEPT ![e.source] = [kind |-> e.kind, emitter |-> e.emitter, seq |-> e.seq]]
  <2>1. events \in Seq(Event) /\ events # <<>>
    BY DEF Drain, StreamTyped
  <2>2. n \in Nat /\ n > 0 /\ e = events[1] /\ e \in Event
    BY <1>a, <2>1
  <2>3. /\ Tail(events) \in Seq(Event) /\ Len(Tail(events)) = n - 1 /\ \A i \in 1..(n - 1) : Tail(events)[i] = events[i + 1]
    BY <1>a, <2>1, HeadTailProperties
  <2> QED BY <1>a, <2>2, <2>3 DEF Drain
<1>2. StreamTyped'
  BY <1>1 DEF StreamTyped, Event
<1>b. PICK first, g : /\ first = IF r = e.source THEN 1 ELSE 0
                      /\ g = [i \in Nat |-> IF i = 0 THEN first ELSE i + 1]
  OBVIOUS
<1>3. e.source \in Sources /\ first \in {0, 1} /\ Sources = {"workflow", "agent"}
  BY <1>1, <1>b DEF Event, Sources
<1>0. n \in Nat /\ n > 0
  BY <1>1
<1>4. Places(r) = {0} \cup {i \in 1..n : events[i].source = r}
  BY <1>a DEF Places
<1>5. Places(r)' = {0} \cup {i \in 1..(n - 1) : events[i + 1].source = r}
  BY <1>1 DEF Places
<1>6. ASSUME NEW i \in Places(r)'
      PROVE  /\ i \in Nat /\ i <= n - 1 /\ g[i] = (IF i = 0 THEN first ELSE i + 1)
             /\ g[i] \in Nat /\ g[i] \in Places(r)
  <2>1. i \in Nat /\ i <= n - 1
    BY <1>1, <1>5
  <2>2. CASE i = 0
    <3>1. g[i] = first /\ first \in Nat
      BY <1>3, <1>b, <2>2
    <3>2. first \in Places(r)
      BY SMTT(30), <1>0, <1>1, <1>4, <1>b
    <3> QED BY <2>1, <2>2, <3>1, <3>2
  <2>3. CASE i # 0
    <3>1. i \in 1..(n - 1) /\ events[i + 1].source = r
      BY <1>5, <2>3
    <3>2. i + 1 \in 1..n
      BY <1>0, <3>1
    <3>3. g[i] = i + 1
      BY <1>b, <2>1, <2>3
    <3> QED BY <1>4, <2>1, <2>3, <3>1, <3>2, <3>3
  <2> QED BY <2>1, <2>2, <2>3
<1>7. ASSUME NEW j \in Places(r) PROVE j = 0 \/ \E i \in Places(r)' : g[i] = j
  <2>1. CASE j = 1
    <3>1. first = 1 /\ 0 \in Places(r)' /\ g[0] = first
      BY <1>1, <1>4, <1>5, <1>b, <2>1
    <3> QED BY <2>1, <3>1
  <2>2. CASE j # 0 /\ j # 1
    <3>1. j \in 1..n /\ events[j].source = r
      BY <1>4, <2>2
    <3>2. j - 1 \in 1..(n - 1) /\ (j - 1) + 1 = j
      BY <1>0, <2>2, <3>1
    <3>3. j - 1 \in Places(r)' /\ g[j - 1] = j
      BY <1>0, <1>5, <1>6, <3>1, <3>2
    <3> QED BY <3>3
  <2> QED BY <2>1, <2>2
<1>8. ASSUME NEW i \in Places(r)', NEW j \in Places(r)', i < j PROVE g[i] < g[j]
  <2>1. i \in Nat /\ j \in Nat /\ g[i] = (IF i = 0 THEN first ELSE i + 1) /\ g[j] = (IF j = 0 THEN first ELSE j + 1)
    BY <1>6
  <2> QED BY <1>3, <1>8, <2>1
<1>9. ASSUME NEW i \in Places(r)'
      PROVE  /\ Told(r, i)'.kind = Told(r, g[i]).kind /\ Told(r, i)'.emitter = Told(r, g[i]).emitter
             /\ Told(r, i)'.seq = Told(r, g[i]).seq
  <2>1. CASE i # 0
    <3>1. i \in 1..(n - 1) /\ g[i] = i + 1 /\ i + 1 # 0
      <4>1. i \in Nat /\ i <= n - 1 /\ g[i] = i + 1
        BY <1>6, <2>1
      <4> QED BY <1>0, <2>1, <4>1
    <3>2. events'[i] = events[i + 1]
      BY <1>1, <3>1
    <3> QED BY <2>1, <3>1, <3>2 DEF Told
  <2>2. CASE i = 0 /\ r # e.source
    BY <1>1, <1>6, <1>b, <2>2 DEF Told, StreamTyped
  <2>3. CASE i = 0 /\ r = e.source
    <3>1. g[i] = 1 /\ Told(r, g[i]) = e
      BY <1>1, <1>6, <1>b, <2>3 DEF Told
    <3>2. seen'[r] = [kind |-> e.kind, emitter |-> e.emitter, seq |-> e.seq]
      BY <1>1, <1>3, <2>3 DEF StreamTyped
    <3> QED BY <2>3, <3>1, <3>2 DEF Told
  <2> QED BY <2>1, <2>2, <2>3
<1>10. Tells(r)
  BY <1>3, <1>1 DEF Event
<1>11. ASSUME NEW i \in Places(r)', NEW j \in Places(r)', Adjacent(r, i, j)' PROVE Adjacent(r, g[i], g[j])
  <2>1. i < j /\ g[i] < g[j]
    BY <1>8, <1>11 DEF Adjacent
  <2>2. ASSUME NEW k \in Places(r) PROVE k <= g[i] \/ g[j] <= k
    <3>1. CASE k = 0
      <4>1. g[i] \in Nat
        BY <1>6
      <4> QED BY <3>1, <4>1
    <3>2. CASE \E l \in Places(r)' : g[l] = k
      <4>1. PICK l \in Places(r)' : g[l] = k
        BY <3>2
      <4>2. l <= i \/ j <= l
        BY <1>11 DEF Adjacent
      <4>3. l \in Nat /\ i \in Nat /\ j \in Nat /\ g[i] \in Nat /\ g[j] \in Nat /\ g[l] \in Nat
        BY <1>6
      <4>4. l = i \/ l < i \/ j = l \/ j < l
        BY <4>2, <4>3
      <4>5. (l < i => g[l] < g[i]) /\ (j < l => g[j] < g[l])
        BY <1>8
      <4> QED BY <4>1, <4>3, <4>4, <4>5
    <3> QED BY <1>7, <3>1, <3>2
  <2> QED BY <2>1, <2>2 DEF Adjacent
<1>12. Ordered(r)'
  <2> SUFFICES ASSUME NEW i \in Places(r)', NEW j \in Places(r)', i < j
               PROVE  /\ Later(Told(r, i)', Told(r, j)')
                      /\ Adjacent(r, i, j)' => Follows(Told(r, i)', Told(r, j)')
    BY DEF Ordered, Later, Follows, Adjacent
  <2>1. Later(Told(r, g[i]), Told(r, g[j])) /\ (Adjacent(r, g[i], g[j]) => Follows(Told(r, g[i]), Told(r, g[j])))
    BY <1>6, <1>8, <1>10 DEF Tells, Ordered
  <2> QED BY <1>9, <1>11, <2>1 DEF Later, Follows
<1>13. Counted(r)'
  <2> SUFFICES ASSUME NEW i \in Places(r)'
               PROVE  /\ Told(r, i)'.emitter <= emitter'[r].id
                      /\ Told(r, i)'.emitter = emitter'[r].id => Told(r, i)'.seq < emitter'[r].seq
    BY DEF Counted
  <2>1. Told(r, g[i]).emitter <= emitter[r].id /\ (Told(r, g[i]).emitter = emitter[r].id => Told(r, g[i]).seq < emitter[r].seq)
    BY <1>6, <1>10 DEF Tells, Counted
  <2>2. emitter' = emitter
    BY <1>1
  <2> QED BY <1>9, <2>1, <2>2
<1>14. ASSUME NEW i \in Places(r)', \A j \in Places(r)' : j <= i, NEW j \in Places(r) PROVE j <= g[i]
  <2>1. CASE j = 0
    BY <1>6, <2>1
  <2>2. CASE \E l \in Places(r)' : g[l] = j
    <3>1. PICK l \in Places(r)' : g[l] = j
      BY <2>2
    <3>2. l <= i /\ l \in Nat /\ i \in Nat /\ g[l] \in Nat /\ g[i] \in Nat
      BY <1>6, <1>14
    <3>3. l = i \/ l < i
      BY <3>2
    <3>4. l < i => g[l] < g[i]
      BY <1>8
    <3> QED BY <3>1, <3>2, <3>3, <3>4
  <2> QED BY <1>7, <2>1, <2>2
<1>15. ASSUME seen'[r] # seen[r] PROVE Later(seen[r], seen'[r]) /\ Follows(seen[r], seen'[r])
  <2>1. r = e.source
    BY <1>1, <1>15 DEF StreamTyped
  <2>2. 0 \in Places(r) /\ 1 \in Places(r) /\ Adjacent(r, 0, 1)
    BY <1>0, <1>1, <1>4, <2>1 DEF Adjacent
  <2>3. Told(r, 0) = seen[r] /\ Told(r, 1) = e
    BY <1>1 DEF Told
  <2>4. seen'[r] = [kind |-> e.kind, emitter |-> e.emitter, seq |-> e.seq]
    BY <1>1, <1>3, <2>1 DEF StreamTyped
  <2>5. Later(seen[r], e) /\ Follows(seen[r], e)
    BY <1>10, <2>2, <2>3 DEF Tells, Ordered
  <2> QED BY <2>4, <2>5 DEF Later, Follows
<1> QED BY <1>2, <1>6, <1>9, <1>12, <1>13, <1>14, <1>15 DEF Tells

(* Whatever may have been told last, an event of this kind may follow.      *)
MayFollow(s, kind) ==
  \A k \in Kinds, missed \in Nat : Expected(s, k, missed) => Succeeds(k, kind, missed)

Passes(r) == \A k \in Kinds, missed \in Nat : Expected(r, k, missed) => Expected(r, k, missed)'

(* It stands a miss of its own.                                            *)
Spares(s) == \A k \in Kinds, missed \in Nat : Expected(s, k, missed) => Expected(s, k, missed + 1)'

(* An event that may come next, and is Expected afterwards, is put.        *)
LEMMA PutKeeps ==
  ASSUME StreamInv, NEW s \in Sources, NEW kind \in Kinds, Put(s, kind), \A r \in Sources : r # s => Passes(r),
         MayFollow(s, kind),
         Expected(s, kind, 0)'
  PROVE  StreamInv'
<1>a. PICK n : n = Len(events)
  OBVIOUS
<1>1. StreamTyped /\ \A r \in Sources : Tells(r) /\ LastTold(r)
  BY DEF StreamInv
<1>2. ASSUME NEW i \in Places(s), \A j \in Places(s) : j <= i, Told(s, i).emitter = emitter[s].id
      PROVE  Follows(Told(s, i), [kind |-> kind, emitter |-> emitter[s].id, seq |-> emitter[s].seq])
  <2>1. Expected(s, Told(s, i).kind, emitter[s].seq - Told(s, i).seq - 1)
    BY <1>1, <1>2 DEF LastTold
  <2>2. Told(s, i).kind \in Kinds /\ emitter[s].seq - Told(s, i).seq - 1 \in Nat
    BY <1>1, <1>2, MissedTyped
  <2> QED BY <2>1, <2>2 DEF Follows, MayFollow
<1>3. \A r \in Sources : Tells(r)'
  BY <1>1, <1>2, PutTells
<1>4. ASSUME NEW r \in Sources PROVE LastTold(r)'
  <2>1. /\ r # s => Places(r)' = Places(r) /\ emitter'[r] = emitter[r]
        /\ r = s => Places(r)' = Places(r) \cup {n + 1}
        /\ \A i \in Places(r) : Told(r, i)' = Told(r, i) /\ i <= n /\ i \in Nat
        /\ Told(s, n + 1)' = [source |-> s, kind |-> kind, emitter |-> emitter[s].id, seq |-> emitter[s].seq]
    BY <1>1, <1>a, PutTold
  <2>2. n \in Nat
    BY <1>1, <1>a DEF StreamTyped
  <2> SUFFICES ASSUME NEW i \in Places(r)', \A j \in Places(r)' : j <= i, Told(r, i)'.emitter = emitter'[r].id
               PROVE  \A k, missed : k = Told(r, i)'.kind /\ missed = emitter'[r].seq - Told(r, i)'.seq - 1 => Expected(r, k, missed)'
    BY DEF LastTold, Expected
  <2>3. CASE r = s
    <3>1. i = n + 1
      BY <2>1, <2>2, <2>3
    <3>2. emitter'[s].seq = emitter[s].seq + 1 /\ emitter[s].seq \in Nat
      BY <1>1, PutTold DEF StreamTyped
    <3> QED BY <2>1, <2>3, <3>1, <3>2
  <2>4. CASE r # s
    <3>1. /\ i \in Places(r) /\ Told(r, i)' = Told(r, i) /\ Told(r, i).emitter = emitter[r].id
          /\ Expected(r, Told(r, i).kind, emitter[r].seq - Told(r, i).seq - 1)
      BY <1>1, <2>1, <2>4 DEF LastTold
    <3>2. Told(r, i).kind \in Kinds /\ emitter[r].seq - Told(r, i).seq - 1 \in Nat
      BY <1>1, <3>1, MissedTyped
    <3>3. emitter'[r] = emitter[r]
      BY <2>1, <2>4
    <3> QED BY <2>4, <3>1, <3>2, <3>3 DEF Passes
  <2> QED BY <2>3, <2>4
<1>5. StreamTyped'
  BY <1>1, <1>a, PutTold
<1> QED BY <1>3, <1>4, <1>5 DEF StreamInv

LEMMA FullKeeps ==
  ASSUME StreamInv, NEW s \in Sources, Full(s), \A r \in Sources : r # s => Passes(r), Spares(s)
  PROVE  StreamInv'
<1>1. StreamTyped /\ \A r \in Sources : Tells(r) /\ LastTold(r)
  BY DEF StreamInv
<1>2. ASSUME NEW r \in Sources
      PROVE  /\ StreamTyped' /\ Tells(r)' /\ Places(r)' = Places(r) /\ \A i \in Places(r) : Told(r, i)' = Told(r, i)
             /\ emitter'[r].id = emitter[r].id
             /\ emitter'[r].seq = emitter[r].seq + (IF r = s THEN 1 ELSE 0)
  <2>1. emitter'[s].seq = emitter[s].seq + 1 /\ emitter[r].seq \in Nat
    BY <1>1 DEF Full, Count, Stamped, StreamTyped
  <2> QED BY <1>1, <2>1, FullTells
<1>3. ASSUME NEW r \in Sources PROVE LastTold(r)'
  <2> SUFFICES ASSUME NEW i \in Places(r)', \A j \in Places(r)' : j <= i, Told(r, i)'.emitter = emitter'[r].id
               PROVE  \A k, missed : k = Told(r, i)'.kind /\ missed = emitter'[r].seq - Told(r, i)'.seq - 1 => Expected(r, k, missed)'
    BY DEF LastTold, Expected
  <2>1. /\ i \in Places(r) /\ Told(r, i)' = Told(r, i) /\ Told(r, i).emitter = emitter[r].id
        /\ Expected(r, Told(r, i).kind, emitter[r].seq - Told(r, i).seq - 1)
    BY <1>1, <1>2 DEF LastTold
  <2>2. Told(r, i).kind \in Kinds /\ emitter[r].seq - Told(r, i).seq - 1 \in Nat /\ Told(r, i).seq \in Int
    BY <1>1, <2>1, MissedTyped
  <2>3. emitter[r].seq \in Nat
    BY <1>1 DEF StreamTyped
  <2>4. CASE r # s
    BY <1>2, <2>1, <2>2, <2>3, <2>4 DEF Passes
  <2>5. CASE r = s
    <3>1. emitter'[r].seq - Told(r, i)'.seq - 1 = (emitter[r].seq - Told(r, i).seq - 1) + 1
      BY <1>2, <2>1, <2>2, <2>3, <2>5
    <3> QED BY <2>1, <2>2, <2>5, <3>1 DEF Spares
  <2> QED BY <2>4, <2>5
<1>4. "agent" \in Sources
  BY DEF Sources
<1> QED BY <1>2, <1>3, <1>4 DEF StreamInv

LEMMA NewKeeps ==
  ASSUME StreamInv, NewEmitter("agent"), walk.pc # "end"
  PROVE  StreamInv'
<1>1. StreamTyped /\ (\A r \in Sources : Tells(r) /\ LastTold(r)) /\ "agent" \in Sources
  BY DEF StreamInv, Sources
<1>2. ASSUME NEW r \in Sources
      PROVE  /\ StreamTyped' /\ Tells(r)' /\ Places(r)' = Places(r) /\ \A i \in Places(r) : Told(r, i)' = Told(r, i)
             /\ r # "agent" => emitter'[r] = emitter[r]
             /\ \A i \in Places("agent") : Told("agent", i).emitter < emitter'["agent"].id
  BY <1>1, FullTells
<1>3. ASSUME NEW r \in Sources PROVE LastTold(r)'
  <2> SUFFICES ASSUME NEW i \in Places(r)', \A j \in Places(r)' : j <= i, Told(r, i)'.emitter = emitter'[r].id
               PROVE  \A k, missed : k = Told(r, i)'.kind /\ missed = emitter'[r].seq - Told(r, i)'.seq - 1 => Expected(r, k, missed)'
    BY DEF LastTold, Expected
  <2>1. i \in Places(r) /\ Told(r, i)' = Told(r, i)
    BY <1>2
  <2>2. CASE r = "agent"
    <3>1. Told(r, i).emitter \in Nat
      BY <1>1, <2>1, ToldTyped
    <3> QED BY <1>2, <2>1, <2>2, <3>1
  <2>3. CASE r = "workflow"
    <3>1. emitter'[r] = emitter[r] /\ Expected(r, Told(r, i).kind, emitter[r].seq - Told(r, i).seq - 1)
      BY <1>1, <1>2, <2>1, <2>3 DEF LastTold
    <3> QED BY <2>1, <2>3, <3>1 DEF Expected
  <2> QED BY <2>2, <2>3 DEF Sources
<1> QED BY <1>1, <1>2, <1>3 DEF StreamInv

LEMMA DrainKeeps ==
  ASSUME StreamInv, Drain, UNCHANGED <<walk, turn>>
  PROVE  StreamInv'
<1>1. StreamTyped /\ (\A r \in Sources : Tells(r) /\ LastTold(r)) /\ "agent" \in Sources
  BY DEF StreamInv, Sources
<1>2. StreamTyped' /\ \A r \in Sources : Tells(r)'
  BY <1>1, DrainTells
<1>3. ASSUME NEW r \in Sources PROVE LastTold(r)'
  <2> SUFFICES ASSUME NEW i \in Places(r)', \A j \in Places(r)' : j <= i, Told(r, i)'.emitter = emitter'[r].id
               PROVE  \A k, missed : k = Told(r, i)'.kind /\ missed = emitter'[r].seq - Told(r, i)'.seq - 1 => Expected(r, k, missed)'
    BY DEF LastTold, Expected
  <2>1. PICK m \in Places(r) : /\ Told(r, i)'.kind = Told(r, m).kind /\ Told(r, i)'.emitter = Told(r, m).emitter
                               /\ Told(r, i)'.seq = Told(r, m).seq
                               /\ \A j \in Places(r) : j <= m
    BY <1>1, DrainTells
  <2>2. emitter' = emitter
    BY DEF Drain
  <2>3. Expected(r, Told(r, m).kind, emitter[r].seq - Told(r, m).seq - 1)
    BY <1>1, <2>1, <2>2 DEF LastTold
  <2> QED BY <2>1, <2>2, <2>3 DEF Expected
<1> QED BY <1>2, <1>3 DEF StreamInv

LEMMA StillKeeps ==
  ASSUME StreamInv, UNCHANGED stream, \A r \in Sources : Passes(r)
  PROVE  StreamInv'
<1>1. StreamTyped /\ (\A r \in Sources : Tells(r) /\ LastTold(r)) /\ "agent" \in Sources
  BY DEF StreamInv, Sources
<1>2. StreamTyped'
  BY <1>1 DEF StreamTyped, stream
<1>3. ASSUME NEW r \in Sources PROVE Tells(r)' /\ LastTold(r)'
  <2>1. Places(r)' = Places(r) /\ (\A i : Told(r, i)' = Told(r, i)) /\ emitter' = emitter
    BY DEF Places, Told, stream
  <2>2. Tells(r)'
    BY <1>1, <2>1 DEF Tells, Ordered, Counted, Adjacent
  <2> SUFFICES ASSUME NEW i \in Places(r)', \A j \in Places(r)' : j <= i, Told(r, i)'.emitter = emitter'[r].id
               PROVE  \A k, missed : k = Told(r, i)'.kind /\ missed = emitter'[r].seq - Told(r, i)'.seq - 1 => Expected(r, k, missed)'
    BY <2>2 DEF LastTold, Expected
  <2>3. i \in Places(r) /\ Expected(r, Told(r, i).kind, emitter[r].seq - Told(r, i).seq - 1)
    BY <1>1, <2>1 DEF LastTold
  <2>4. Told(r, i).kind \in Kinds /\ emitter[r].seq - Told(r, i).seq - 1 \in Nat
    BY <1>1, <2>1, <2>3, MissedTyped
  <2> QED BY <2>1, <2>3, <2>4 DEF Passes
<1> QED BY <1>2, <1>3 DEF StreamInv

(* The workflow tells progress and failures of its tools.                  *)
LEMMA WalkTells ==
  ASSUME StreamInv, UNCHANGED turn, walk.pc # "end",
         \/ UNCHANGED stream \/ Put("workflow", "progress") \/ Put("workflow", "tool.error")
         \/ Full("workflow") /\ walk'.pc = "end"
  PROVE  StreamInv'
<1>1. \A r \in Sources : Passes(r)
  BY DEF Passes, Expected
<1>2. "workflow" \in Sources /\ MayFollow("workflow", "progress") /\ MayFollow("workflow", "tool.error")
  BY DEF Sources, Expected, MayFollow, Succeeds
<1>3. /\ Expected("workflow", "progress", 0)' /\ Expected("workflow", "tool.error", 0)'
      /\ "progress" \in Kinds /\ "tool.error" \in Kinds
  BY DEF Expected, Kinds
<1>4. CASE UNCHANGED stream
  BY <1>1, <1>4, StillKeeps
<1>5. CASE Full("workflow") /\ walk'.pc = "end"
  <2>1. Spares("workflow")
    BY <1>5 DEF Spares, Expected
  <2> QED BY <1>1, <1>2, <1>5, <2>1, FullKeeps
<1>6. CASE Put("workflow", "progress")
  BY <1>1, <1>2, <1>3, <1>6, PutKeeps
<1>7. CASE Put("workflow", "tool.error")
  BY <1>1, <1>2, <1>3, <1>7, PutKeeps
<1> QED BY <1>4, <1>5, <1>6, <1>7

LEMMA WalkStepTells ==
  ASSUME StreamInv, "pc" \in DOMAIN walk, WalkStep \/ TurnFails \/ TurnAnswers PROVE StreamInv'
<1>0. walk.pc # "end"
  BY DEF WalkStep, TurnFails, TurnAnswers, Answering, WalkAt, Stop, Enter, Skip, Begin, RunnerErrs, RunnerReturns,
         Succeed, GiveUp
<1>1. ASSUME NEW w, "pc" \in DOMAIN w, NEW at, NEW kind \in {"progress", "tool.error"}, Telling(kind, w, at), UNCHANGED turn
      PROVE  StreamInv'
  <2>1. CASE Put("workflow", kind)
    BY <1>0, <1>1, <2>1, WalkTells
  <2>2. CASE Full("workflow") /\ Walks([w EXCEPT !.status = "raised"], "end")
    <3>1. walk'.pc = "end"
      BY <1>1, <2>2 DEF Walks
    <3> QED BY <1>0, <1>1, <2>2, <3>1, WalkTells
  <2> QED BY <1>1, <2>1, <2>2 DEF Telling
<1>2. ASSUME NEW state, Errs(state), UNCHANGED turn PROVE StreamInv'
  <2>1. PICK w, at : "pc" \in DOMAIN w /\ Telling("tool.error", w, at)
    BY <1>2 DEF Errs
  <2> QED BY <1>1, <1>2, <2>1
<1>3. ASSUME NEW output, Returns(output), UNCHANGED turn PROVE StreamInv'
  BY <1>0, <1>3, WalkTells DEF Returns
<1>4. CASE WalkStep
  <2>1. CASE Stop \/ Begin
    BY <1>0, <1>4, <2>1, WalkTells DEF WalkStep, Stop, Begin
  <2>2. CASE Enter \/ Skip \/ Succeed
    <3>1. PICK w, at : "pc" \in DOMAIN w /\ Telling("progress", w, at)
      BY <2>2 DEF Enter, Skip, Succeed
    <3> QED BY <1>1, <1>4, <3>1 DEF WalkStep
  <2>3. CASE RunnerErrs
    BY <1>2, <1>4, <2>3 DEF WalkStep, RunnerErrs
  <2>4. CASE RunnerReturns
    BY <1>3, <1>4, <2>4 DEF WalkStep, RunnerReturns
  <2>5. CASE GiveUp
    <3>1. CASE UNCHANGED stream
      BY <1>0, <1>4, <3>1, WalkTells DEF WalkStep
    <3>2. CASE ~UNCHANGED stream
      <4>1. PICK w, at : "pc" \in DOMAIN w /\ Telling("progress", w, at)
        BY <2>5, <3>2 DEF GiveUp
      <4> QED BY <1>1, <1>4, <4>1 DEF WalkStep
    <3> QED BY <3>1, <3>2
  <2> QED BY <1>4, <2>1, <2>2, <2>3, <2>4, <2>5 DEF WalkStep
<1>5. CASE TurnFails
  BY <1>2, <1>5 DEF TurnFails
<1>6. CASE TurnAnswers
  BY <1>3, <1>6 DEF TurnAnswers
<1> QED BY <1>4, <1>5, <1>6

CallIds  == UNION {Range(calls) : calls \in Asked}
Messages == [role : {"system", "user", "calls", "tool", "assistant"}, of : Seq(CallIds), ok : BOOLEAN]

Serving == {"start", "tool", "working", "succeeded", "failed"}

Turns == [pc : Serving \cup {"complete", "decide", "finish", "done", "raised", "none"},
          transcript : Seq(Messages), records : Seq(BOOLEAN), calls : Seq(CallIds),
          rounds : Nat, toolRounds : Nat, error : {"none", "no runner", "max rounds", "parse"},
          structured : BOOLEAN, served : BOOLEAN, schema : BOOLEAN]

TurnTyped == turn \in Turns

(* A turn tells what may come next, and goes on to where that is Expected.  *)
LEMMA EmittingKeeps ==
  ASSUME StreamInv, NEW kind \in Kinds, NEW t, NEW at, "pc" \in DOMAIN t, Emitting(kind, t, at), UNCHANGED walk,
         MayFollow("agent", kind),
         at \in {"complete", "decide", "start"} => kind # "tool.start",
         at = "tool" => kind = "tool.start",
         at \in {"working", "succeeded", "failed"} => kind \in {"tool.start", "progress"}
  PROVE  StreamInv'
<1>1. \A x : Goes(t, x) => turn'.pc = x
  BY DEF Goes
<1>2. "agent" \in Sources /\ Sources = {"agent", "workflow"} /\ Passes("workflow")
  BY DEF Sources, Passes, Expected
<1>3. CASE Put("agent", kind) /\ Goes(t, at)
  <2>1. turn'.pc = at
    BY <1>1, <1>3
  <2>2. Expected("agent", kind, 0)'
    BY <2>1 DEF Expected
  <2> QED BY <1>2, <1>3, <2>2, PutKeeps
<1>4. CASE Full("agent") /\ Goes(t, "raised")
  <2>1. turn'.pc = "raised"
    BY <1>1, <1>4
  <2>2. Spares("agent")
    BY <2>1 DEF Spares, Expected
  <2> QED BY <1>2, <1>4, <2>2, FullKeeps
<1> QED BY <1>3, <1>4 DEF Emitting

(* It tells nothing, and goes on to where no more is Expected.             *)
LEMMA QuietKeeps ==
  ASSUME StreamInv, NEW t, NEW at, "pc" \in DOMAIN t, Goes(t, at), UNCHANGED <<stream, walk>>, at # "tool",
         at \in {"complete", "decide", "start"} => turn.pc \in {"complete", "decide", "start"},
         at \in {"working", "succeeded", "failed"} => turn.pc \in {"tool", "working", "succeeded", "failed"}
  PROVE  StreamInv'
<1>1. turn'.pc = at
  BY DEF Goes
<1>2. "agent" \in Sources /\ Sources = {"agent", "workflow"} /\ Passes("workflow") /\ Passes("agent")
  BY <1>1 DEF Sources, Passes, Expected
<1>3. \A r \in Sources : Passes(r)
  BY <1>2
<1> QED BY <1>2, <1>3, StillKeeps

LEMMA TurnStepTells == ASSUME StreamInv, TurnTyped, TurnStep \/ CallAgent PROVE StreamInv'
<1>1. "pc" \in DOMAIN turn
  BY DEF TurnTyped, Turns
<1>2. CASE Complete /\ UNCHANGED walk
  <2>1. CASE Goes(turn, "raised") /\ UNCHANGED stream
    BY <1>2, <1>1, <2>1, QuietKeeps
  <2>2. ASSUME NEW calls, NEW t, t = [turn EXCEPT !.rounds = @ + 1, !.calls = calls],
               \/ Goes(t, "decide") /\ UNCHANGED stream
               \/ Emitting("message", t, "decide")
        PROVE  StreamInv'
    <3>1. "pc" \in DOMAIN t /\ turn.pc = "complete"
      BY <1>1, <1>2, <2>2 DEF Complete, At
    <3>2. CASE Goes(t, "decide") /\ UNCHANGED stream
      BY <1>2, <3>1, <3>2, QuietKeeps
    <3>3. CASE Emitting("message", t, "decide")
      <4>1. MayFollow("agent", "message")
        BY <3>1 DEF MayFollow, Expected, Succeeds
      <4> QED BY <1>2, <3>1, <3>3, <4>1, EmittingKeeps DEF Kinds
    <3> QED BY <2>2, <3>2, <3>3
  <2> QED BY <1>2, <2>1, <2>2 DEF Complete
<1>3. CASE Decide /\ UNCHANGED walk
  <2>1. PICK t, at : /\ "pc" \in DOMAIN t /\ Goes(t, at) /\ UNCHANGED stream /\ turn.pc = "decide" /\ at \in {"finish", "start"}
    BY <1>1, <1>3 DEF Decide, At
  <2> QED BY <1>3, <2>1, QuietKeeps
<1>4. CASE ToolStarts /\ UNCHANGED walk
  <2>1. Emitting("tool.start", turn, "tool") /\ turn.pc = "start"
    BY <1>4 DEF ToolStarts, At
  <2>2. MayFollow("agent", "tool.start")
    BY <2>1 DEF MayFollow, Expected, Succeeds
  <2> QED BY <1>4, <1>1, <2>1, <2>2, EmittingKeeps DEF Kinds
<1>5. CASE ToolProgress /\ UNCHANGED walk
  <2>1. turn.pc = "tool" /\ Goes(turn, "working")
    BY <1>5 DEF ToolProgress, At
  <2>2. CASE Put("agent", "progress")
    <3>1. MayFollow("agent", "progress") /\ Emitting("progress", turn, "working")
      BY <2>1, <2>2 DEF MayFollow, Emitting, Expected, Succeeds
    <3> QED BY <1>1, <1>5, <3>1, EmittingKeeps DEF Kinds
  <2>3. CASE Full("agent")
    <3>1. turn'.pc = "working" /\ "agent" \in Sources /\ Sources = {"agent", "workflow"}
      BY <1>1, <2>1 DEF Goes, Sources
    <3>2. Passes("workflow") /\ Spares("agent")
      BY <1>5, <2>1, <3>1 DEF Passes, Spares, Expected
    <3> QED BY <2>3, <3>1, <3>2, FullKeeps
  <2> QED BY <1>5, <2>2, <2>3 DEF ToolProgress
<1>6. CASE ToolReturns /\ UNCHANGED walk
  <2>1. PICK t, at : /\ "pc" \in DOMAIN t /\ Goes(t, at) /\ UNCHANGED stream /\ turn.pc \in {"tool", "working"}
                     /\ at \in {"succeeded", "failed"}
    BY <1>1, <1>6 DEF ToolReturns, At
  <2> QED BY <1>6, <2>1, QuietKeeps
<1>7. CASE ToolEnds /\ UNCHANGED walk
  <2>1. PICK ok \in BOOLEAN : /\ At(IF ok THEN "succeeded" ELSE "failed")
                              /\ LET t == [Answered(turn, ok) EXCEPT !.calls = Tail(@)] IN
                                 Emitting(IF ok THEN "tool.end" ELSE "tool.error", t,
                                          IF t.calls = <<>> THEN "complete" ELSE "start")
    BY <1>7 DEF ToolEnds
  <2>2. PICK t : t = [Answered(turn, ok) EXCEPT !.calls = Tail(@)]
    OBVIOUS
  <2>3. PICK kind, at : kind = (IF ok THEN "tool.end" ELSE "tool.error") /\ at = (IF t.calls = <<>> THEN "complete" ELSE "start")
    OBVIOUS
  <2>4. Emitting(kind, t, at)
    BY <2>1, <2>2, <2>3
  <2>5. "pc" \in DOMAIN t
    BY <1>1, <2>2 DEF Answered
  <2>6. at \in {"complete", "start"} /\ kind \in {"tool.end", "tool.error"} /\ turn.pc \in {"succeeded", "failed"}
    BY <2>1, <2>3 DEF At
  <2>7. MayFollow("agent", kind)
    BY <2>6 DEF MayFollow, Expected, Succeeds
  <2> QED BY <1>7, <2>4, <2>5, <2>6, <2>7, EmittingKeeps DEF Kinds
<1>8. CASE Finish /\ UNCHANGED walk
  <2>1. PICK t : "pc" \in DOMAIN t /\ Goes(t, "done") /\ UNCHANGED stream
    BY <1>1, <1>8 DEF Finish
  <2> QED BY <1>8, <2>1, QuietKeeps
<1>9. CASE CallAgent
  BY <1>9, NewKeeps DEF CallAgent, StartTurn, WalkAt
<1> QED BY <1>2, <1>3, <1>4, <1>5, <1>6, <1>7, <1>8, <1>9 DEF TurnStep

LEMMA StreamStarts == SessionInit => StreamInv
<1> SUFFICES ASSUME SessionInit PROVE StreamInv
  OBVIOUS
<1>1. /\ events = <<>> /\ emitter = [s \in Sources |-> [id |-> 1, seq |-> 0]] /\ seen = [s \in Sources |-> Nothing]
      /\ turn.pc = "none"
  BY DEF SessionInit, StreamInit, NoTurn
<1>2. StreamTyped
  BY <1>1 DEF StreamTyped, Nothing, Kinds
<1>3. ASSUME NEW s \in Sources PROVE Tells(s) /\ LastTold(s)
  <2>1. Places(s) = {0} /\ Told(s, 0) = Nothing /\ emitter[s].id = 1
    BY <1>1 DEF Places, Told
  <2> QED BY <2>1 DEF Tells, Ordered, Counted, LastTold, Adjacent, Nothing
<1> QED BY <1>2, <1>3 DEF StreamInv

---------------------------------------------------------------------------
(* The agent's turn.                                                       *)

(* Every call of the first n messages of a transcript is answered among them. *)
AnsweredTo(T, n) ==
  \A i \in 1..n :
    /\ T[i].role = "system" <=> i = 1
    /\ T[i].role = "calls" => /\ i + Len(T[i].of) <= n
                              /\ \A k \in 1..Len(T[i].of) : T[i + k].role = "tool" /\ T[i + k].of = <<T[i].of[k]>>

(* A message at p asks for calls; those left are the ones not answered yet. *)
AskedAt(T, left, p) ==
  LET ids == T[p].of  n == Len(T) - p IN
  /\ p \in 2..Len(T) /\ AnsweredTo(T, p - 1) /\ T[p].role = "calls"
  /\ \A k \in 1..n : T[p + k].role = "tool" /\ T[p + k].of = <<ids[k]>>
  /\ Len(left) > 0 /\ Len(left) = Len(ids) - n /\ \A k \in 1..Len(left) : left[k] = ids[n + k]

ToolsIn(T, n) == {i \in 1..n : T[i].role = "tool"}

AnswersTo(T, i) == Cardinality(ToolsIn(T, i))

(* The records are the answers of the transcript, and the outcomes after them. *)
RecordsTell(T, records, extra) ==
  /\ Len(records) = AnswersTo(T, Len(T)) + Len(extra)
  /\ \A i \in ToolsIn(T, Len(T)) : records[AnswersTo(T, i)] = T[i].ok
  /\ \A i \in 1..Len(extra) : records[Len(records)] = extra[i]

LastOutcome(t) == CASE t.pc = "succeeded" -> <<TRUE>> [] t.pc = "failed" -> <<FALSE>> [] OTHER -> <<>>

CountsHold(t) ==
  /\ t.toolRounds <= MaxToolRounds
  /\ t.rounds = t.toolRounds + (IF t.pc \in {"decide", "finish", "done"} THEN 1 ELSE 0)
  /\ t.error = "max rounds" => t.toolRounds = MaxToolRounds

ErrorsHold(t) ==
  /\ t.pc \notin {"finish", "done"} => t.error = "none"
  /\ t.structured => t.error = "none"
  /\ t.pc # "done" => ~t.structured

RoundsHold(t) == CountsHold(t) /\ ErrorsHold(t)

CallsHold(t) ==
  /\ t.transcript # <<>>
  /\ IF t.pc \in Serving THEN \E p \in Nat : AskedAt(t.transcript, t.calls, p)
                         ELSE AnsweredTo(t.transcript, Len(t.transcript))

TurnHolds(t) ==
  /\ CallsHold(t) /\ RoundsHold(t)
  /\ RecordsTell(t.transcript, t.records, LastOutcome(t))

TurnInv == TurnTyped /\ (turn.pc \notin {"raised", "none"} => TurnHolds(turn))

LEMMA ToolsCounted ==
  ASSUME NEW T, NEW i \in Nat
  PROVE  /\ IsFiniteSet(ToolsIn(T, i)) /\ AnswersTo(T, i) \in Nat
         /\ \A j \in Nat : j <= i => AnswersTo(T, j) <= AnswersTo(T, i)
         /\ i \in ToolsIn(T, i) => AnswersTo(T, i) >= 1
<1>1. ASSUME NEW j \in Nat PROVE IsFiniteSet(ToolsIn(T, j)) /\ AnswersTo(T, j) \in Nat
  <2>1. IsFiniteSet(1..j) /\ ToolsIn(T, j) \in SUBSET (1..j)
    <3>1. 1 \in Int /\ j \in Int
      OBVIOUS
    <3> QED BY <3>1, FS_Interval DEF ToolsIn
  <2> QED BY <2>1, FS_Subset, FS_CardinalityType DEF AnswersTo
<1>2. ASSUME NEW j \in Nat, j <= i PROVE AnswersTo(T, j) <= AnswersTo(T, i)
  <2>1. ToolsIn(T, j) \in SUBSET ToolsIn(T, i)
    BY <1>2 DEF ToolsIn
  <2> QED BY <1>1, <2>1, FS_Subset DEF AnswersTo
<1>3. ASSUME i \in ToolsIn(T, i) PROVE AnswersTo(T, i) >= 1
  <2>1. AnswersTo(T, i) # 0
    BY <1>1, <1>3, FS_EmptySet DEF AnswersTo
  <2> QED BY <1>1, <2>1
<1> QED BY <1>1, <1>2, <1>3

AppendTold(T, m, n, U) ==
  /\ n \in Nat /\ U \in Seq(Messages) /\ Len(U) = n + 1 /\ U[n + 1] = m /\ \A i \in 1..n : U[i] = T[i]
  /\ \A i \in ToolsIn(T, n) : i \in 1..n /\ AnswersTo(U, i) = AnswersTo(T, i)
  /\ AnswersTo(T, n) \in Nat
  /\ m.role = "tool" => ToolsIn(U, n + 1) = ToolsIn(T, n) \cup {n + 1} /\ AnswersTo(U, n + 1) = AnswersTo(T, n) + 1
  /\ m.role # "tool" => ToolsIn(U, n + 1) = ToolsIn(T, n) /\ AnswersTo(U, n + 1) = AnswersTo(T, n)

(* A message that is appended.                                             *)
LEMMA ToolsAppend ==
  ASSUME NEW T \in Seq(Messages), NEW m \in Messages
  PROVE  AppendTold(T, m, Len(T), Append(T, m))
<1>a. PICK n, U : n = Len(T) /\ U = Append(T, m)
  OBVIOUS
<1>1. n \in Nat /\ U \in Seq(Messages) /\ Len(U) = n + 1 /\ U[n + 1] = m /\ \A i \in 1..n : U[i] = T[i]
  BY <1>a
<1>2. \A i \in ToolsIn(T, n) : i \in 1..n /\ ToolsIn(U, i) = ToolsIn(T, i)
  BY <1>1 DEF ToolsIn
<1>3. AnswersTo(T, n) \in Nat /\ IsFiniteSet(ToolsIn(T, n))
  BY <1>1, ToolsCounted
<1>4. ASSUME m.role = "tool"
      PROVE  ToolsIn(U, n + 1) = ToolsIn(T, n) \cup {n + 1} /\ AnswersTo(U, n + 1) = AnswersTo(T, n) + 1
  <2>1. ToolsIn(U, n + 1) = ToolsIn(T, n) \cup {n + 1} /\ n + 1 \notin ToolsIn(T, n)
    BY <1>1, <1>4 DEF ToolsIn
  <2> QED BY <1>3, <2>1, FS_AddElement DEF AnswersTo
<1>5. ASSUME m.role # "tool"
      PROVE  ToolsIn(U, n + 1) = ToolsIn(T, n) /\ AnswersTo(U, n + 1) = AnswersTo(T, n)
  <2>1. ToolsIn(U, n + 1) = ToolsIn(T, n)
    BY <1>1, <1>5 DEF ToolsIn
  <2> QED BY <2>1 DEF AnswersTo
<1>6. AppendTold(T, m, n, U)
  BY <1>1, <1>2, <1>3, <1>4, <1>5 DEF AppendTold, AnswersTo
<1> QED BY <1>6, <1>a

(* A message that is no answer leaves the records as they are.             *)
LEMMA RecordsStay ==
  ASSUME NEW T \in Seq(Messages), NEW m \in Messages, m.role # "tool", NEW R \in Seq(BOOLEAN), RecordsTell(T, R, <<>>)
  PROVE  RecordsTell(Append(T, m), R, <<>>)
<1>a. PICK n, U : n = Len(T) /\ U = Append(T, m)
  OBVIOUS
<1>0. AppendTold(T, m, n, U)
  BY <1>a, ToolsAppend
<1>1. /\ n \in Nat /\ Len(U) = n + 1 /\ \A i \in 1..n : U[i] = T[i]
      /\ \A i \in ToolsIn(T, n) : i \in 1..n /\ AnswersTo(U, i) = AnswersTo(T, i)
      /\ ToolsIn(U, n + 1) = ToolsIn(T, n) /\ AnswersTo(U, n + 1) = AnswersTo(T, n)
  BY <1>0 DEF AppendTold
<1>2. Len(R) = AnswersTo(T, n) + Len(<<>>) /\ \A i \in ToolsIn(T, n) : R[AnswersTo(T, i)] = T[i].ok
  BY <1>a DEF RecordsTell
<1>3. RecordsTell(U, R, <<>>)
  BY <1>1, <1>2 DEF RecordsTell
<1> QED BY <1>3, <1>a

(* An answer's message takes the outcome in.                               *)
LEMMA RecordsTaken ==
  ASSUME NEW T \in Seq(Messages), NEW m \in Messages, m.role = "tool", NEW R \in Seq(BOOLEAN), RecordsTell(T, R, <<m.ok>>)
  PROVE  RecordsTell(Append(T, m), R, <<>>)
<1>a. PICK n, U : n = Len(T) /\ U = Append(T, m)
  OBVIOUS
<1>0. AppendTold(T, m, n, U)
  BY <1>a, ToolsAppend
<1>1. /\ n \in Nat /\ Len(U) = n + 1 /\ U[n + 1] = m /\ \A i \in 1..n : U[i] = T[i]
      /\ \A i \in ToolsIn(T, n) : i \in 1..n /\ AnswersTo(U, i) = AnswersTo(T, i)
      /\ ToolsIn(U, n + 1) = ToolsIn(T, n) \cup {n + 1} /\ AnswersTo(U, n + 1) = AnswersTo(T, n) + 1
      /\ AnswersTo(T, n) \in Nat
  BY <1>0 DEF AppendTold
<1>2. Len(R) = AnswersTo(T, n) + 1 /\ R[Len(R)] = m.ok /\ \A i \in ToolsIn(T, n) : R[AnswersTo(T, i)] = T[i].ok
  BY <1>a DEF RecordsTell
<1>4. ASSUME NEW i \in ToolsIn(U, n + 1) PROVE R[AnswersTo(U, i)] = U[i].ok
  <2>1. CASE i = n + 1
    BY <1>1, <1>2, <2>1
  <2>2. CASE i # n + 1
    <3>1. i \in ToolsIn(T, n) /\ i \in 1..n
      BY <1>1, <1>4, <2>2
    <3> QED BY <1>1, <1>2, <3>1
  <2> QED BY <2>1, <2>2
<1>5. RecordsTell(U, R, <<>>)
  BY <1>1, <1>2, <1>4 DEF RecordsTell
<1> QED BY <1>5, <1>a

(* A tool that has ended leaves an outcome, whose message is to come.      *)
LEMMA RecordsGrown ==
  ASSUME NEW T \in Seq(Messages), NEW R \in Seq(BOOLEAN), RecordsTell(T, R, <<>>), NEW ok \in BOOLEAN
  PROVE  RecordsTell(T, Append(R, ok), <<ok>>)
<1>a. PICK n, Q : n = Len(T) /\ Q = Append(R, ok)
  OBVIOUS
<1>0. n \in Nat
  BY <1>a
<1>b. PICK c : c = AnswersTo(T, n)
  OBVIOUS
<1>2. c \in Nat /\ \A i \in ToolsIn(T, n) : AnswersTo(T, i) \in 1..c
  <2>1. c \in Nat
    BY <1>0, <1>b, ToolsCounted
  <2>2. ASSUME NEW i \in ToolsIn(T, n) PROVE AnswersTo(T, i) \in 1..c
    <3>1. i \in Nat /\ i <= n /\ i \in ToolsIn(T, i)
      BY <1>0 DEF ToolsIn
    <3>2. AnswersTo(T, i) \in Nat /\ AnswersTo(T, i) >= 1 /\ AnswersTo(T, i) <= c
      BY <1>0, <1>b, <3>1, ToolsCounted
    <3> QED BY <2>1, <3>2
  <2> QED BY <2>1, <2>2
<1>3. Len(R) = c /\ \A i \in ToolsIn(T, n) : R[AnswersTo(T, i)] = T[i].ok
  BY <1>a, <1>b, <1>2 DEF RecordsTell
<1>4. Len(Q) = c + 1 /\ Q[c + 1] = ok /\ \A k \in 1..c : Q[k] = R[k]
  BY <1>a, <1>3
<1>5. \A i \in ToolsIn(T, n) : Q[AnswersTo(T, i)] = T[i].ok
  BY <1>2, <1>3, <1>4
<1>6. Len(<<ok>>) = 1 /\ \A i \in 1..1 : <<ok>>[i] = ok
  OBVIOUS
<1>7. RecordsTell(T, Q, <<ok>>)
  BY <1>a, <1>b, <1>4, <1>5, <1>6 DEF RecordsTell
<1> QED BY <1>7, <1>a

(* An answered transcript stays so when it goes on.                        *)
LEMMA AnsweredOn ==
  ASSUME NEW T, NEW U, NEW n \in Nat, \A i \in 1..n : U[i] = T[i], AnsweredTo(T, n),
         \A i \in 1..n : Len(T[i].of) \in Nat
  PROVE  AnsweredTo(U, n)
<1> SUFFICES ASSUME NEW i \in 1..n
             PROVE  /\ U[i].role = "system" <=> i = 1
                    /\ U[i].role = "calls" =>
                         /\ i + Len(U[i].of) <= n
                         /\ \A k \in 1..Len(U[i].of) : U[i + k].role = "tool" /\ U[i + k].of = <<U[i].of[k]>>
  BY DEF AnsweredTo
<1>1. U[i] = T[i]
  OBVIOUS
<1>2. /\ T[i].role = "system" <=> i = 1
      /\ T[i].role = "calls" =>
           /\ i + Len(T[i].of) <= n
           /\ \A k \in 1..Len(T[i].of) : T[i + k].role = "tool" /\ T[i + k].of = <<T[i].of[k]>>
  BY DEF AnsweredTo
<1>3. ASSUME T[i].role = "calls", NEW k \in 1..Len(T[i].of) PROVE U[i + k] = T[i + k]
  <2>1. i + k \in 1..n
    BY <1>2, <1>3
  <2> QED BY <2>1
<1> QED BY <1>1, <1>2, <1>3

(* A message that asks for calls is appended, or one that asks for none.   *)
LEMMA AskAppended ==
  ASSUME NEW T \in Seq(Messages), T # <<>>, AnsweredTo(T, Len(T)), NEW m \in Messages, m.role \notin {"system", "tool"}
  PROVE  /\ m.role = "calls" /\ m.of # <<>> => AskedAt(Append(T, m), m.of, Len(T) + 1)
         /\ m.role # "calls" => AnsweredTo(Append(T, m), Len(T) + 1)
<1>a. PICK n, U : n = Len(T) /\ U = Append(T, m)
  OBVIOUS
<1>1. n \in Nat /\ n > 0 /\ Len(U) = n + 1 /\ U[n + 1] = m /\ \A i \in 1..n : U[i] = T[i]
  BY <1>a
<1>2. \A i \in 1..n : Len(T[i].of) \in Nat
  BY <1>1, <1>a DEF Messages
<1>3. AnsweredTo(U, n)
  BY <1>1, <1>2, <1>a, AnsweredOn
<1>4. m.of \in Seq(CallIds)
  BY DEF Messages
<1>5. ASSUME m.role = "calls", m.of # <<>> PROVE AskedAt(U, m.of, n + 1)
  <2>1. Len(m.of) \in Nat /\ Len(m.of) > 0
    BY <1>4, <1>5
  <2>2. Len(U) - (n + 1) = 0 /\ n + 1 \in 2..Len(U) /\ (n + 1) - 1 = n
    BY <1>1
  <2> QED BY <1>1, <1>3, <1>5, <2>1, <2>2 DEF AskedAt
<1>6. ASSUME m.role # "calls" PROVE AnsweredTo(U, n + 1)
  <2> SUFFICES ASSUME NEW i \in 1..(n + 1)
               PROVE  /\ U[i].role = "system" <=> i = 1
                      /\ U[i].role = "calls" =>
                           /\ i + Len(U[i].of) <= n + 1
                           /\ \A k \in 1..Len(U[i].of) : U[i + k].role = "tool" /\ U[i + k].of = <<U[i].of[k]>>
    BY DEF AnsweredTo
  <2>1. CASE i = n + 1
    <3>1. U[i] = m /\ i # 1
      BY <1>1, <2>1
    <3> QED BY <1>6, <3>1
  <2>2. CASE i # n + 1
    <3>1. i \in 1..n /\ Len(U[i].of) \in Nat
      BY <1>1, <1>2, <2>2
    <3>2. /\ U[i].role = "system" <=> i = 1
          /\ U[i].role = "calls" =>
               /\ i + Len(U[i].of) <= n
               /\ \A k \in 1..Len(U[i].of) : U[i + k].role = "tool" /\ U[i + k].of = <<U[i].of[k]>>
      BY <1>3, <3>1 DEF AnsweredTo
    <3>3. i + Len(U[i].of) <= n => i + Len(U[i].of) <= n + 1
      BY <1>1, <3>1
    <3> QED BY <3>2, <3>3
  <2> QED BY <2>1, <2>2
<1> QED BY <1>5, <1>6, <1>a

(* The first of the calls left is answered.                                *)
LEMMA AnswerAppended ==
  ASSUME NEW T \in Seq(Messages), NEW left \in Seq(CallIds), NEW p \in Nat, AskedAt(T, left, p),
         NEW m \in Messages, m.role = "tool", m.of = <<Head(left)>>
  PROVE  /\ Tail(left) # <<>> => AskedAt(Append(T, m), Tail(left), p)
         /\ Tail(left) = <<>> => AnsweredTo(Append(T, m), Len(T) + 1)
<1>a. PICK q, U, n, ids, rest : /\ q = Len(T) /\ U = Append(T, m) /\ n = Len(T) - p /\ ids = T[p].of /\ rest = Tail(left)
  OBVIOUS
<1>1. q \in Nat /\ Len(U) = q + 1 /\ U[q + 1] = m /\ \A i \in 1..q : U[i] = T[i]
  BY <1>a
<1>b. p \in 2..q /\ q = p + n /\ n \in Nat
  BY <1>1, <1>a DEF AskedAt
<1>2. /\ p \in 2..q /\ AnsweredTo(T, p - 1) /\ T[p].role = "calls" /\ q = p + n /\ n \in Nat
      /\ \A k \in 1..n : T[p + k].role = "tool" /\ T[p + k].of = <<ids[k]>>
      /\ Len(left) > 0 /\ Len(left) = Len(ids) - n /\ \A k \in 1..Len(left) : left[k] = ids[n + k]
  BY <1>b, <1>a DEF AskedAt
<1>3. \A i \in 1..q : Len(T[i].of) \in Nat
  BY <1>1, <1>a DEF Messages
<1>4. /\ rest \in Seq(CallIds) /\ Len(rest) = Len(left) - 1 /\ \A k \in 1..Len(rest) : rest[k] = left[k + 1]
      /\ Head(left) = left[1] /\ Len(left) \in Nat /\ (rest = <<>> <=> Len(rest) = 0)
  <2>1. left # <<>>
    BY <1>2
  <2>2. rest \in Seq(CallIds) /\ Len(rest) = Len(left) - 1 /\ \A k \in 1..Len(rest) : rest[k] = left[k + 1]
    BY <1>a, <2>1, HeadTailProperties
  <2>3. Head(left) = left[1] /\ Len(left) \in Nat
    BY <2>1
  <2>4. rest = <<>> <=> Len(rest) = 0
    BY <2>2, EmptySeq
  <2> QED BY <2>2, <2>3, <2>4
<1>5. Len(ids) \in Nat /\ U[p] = T[p]
  BY SMTT(30), <1>1, <1>2, <1>3, <1>a
<1>6. AnsweredTo(U, p - 1)
  <2>1. p - 1 \in Nat /\ (\A i \in 1..(p - 1) : U[i] = T[i]) /\ \A i \in 1..(p - 1) : Len(T[i].of) \in Nat
    BY <1>1, <1>2, <1>3
  <2> QED BY <1>2, <2>1, AnsweredOn
<1>7. ASSUME NEW k \in 1..(n + 1) PROVE U[p + k].role = "tool" /\ U[p + k].of = <<ids[k]>>
  <2>1. CASE k = n + 1
    <3>a. 1 \in 1..Len(left)
      BY <1>2, <1>4
    <3>b. left[1] = ids[n + 1]
      BY <1>2, <3>a
    <3>c. p \in Nat /\ n \in Nat /\ q = p + n
      BY <1>2
    <3>1. p + k = q + 1 /\ left[1] = ids[n + 1]
      BY <2>1, <3>b, <3>c
    <3> QED BY <1>1, <1>4, <2>1, <3>1
  <2>2. CASE k # n + 1
    <3>1. k \in 1..n /\ p + k \in 1..q
      BY <1>1, <1>2, <2>2
    <3> QED BY <1>1, <1>2, <3>1
  <2> QED BY <2>1, <2>2
<1>8. ASSUME rest # <<>> PROVE AskedAt(U, rest, p)
  <2>1. Len(rest) > 0 /\ Len(rest) = Len(ids) - (n + 1)
    BY <1>2, <1>4, <1>5, <1>8
  <2>2. ASSUME NEW k \in 1..Len(rest) PROVE rest[k] = ids[(n + 1) + k]
    <3>1. k + 1 \in 1..Len(left) /\ n + (k + 1) = (n + 1) + k
      BY <1>2, <1>4
    <3> QED BY <1>2, <1>4, <3>1
  <2>3. Len(U) - p = n + 1 /\ p \in 2..Len(U)
    BY <1>1, <1>2
  <2> QED BY ZenonT(30), <1>2, <1>5, <1>6, <1>7, <1>a, <2>1, <2>2, <2>3 DEF AskedAt
<1>9. ASSUME rest = <<>> PROVE AnsweredTo(U, q + 1)
  <2>1. Len(ids) = n + 1 /\ q + 1 = p + (n + 1)
    BY SMTT(30), <1>2, <1>4, <1>5, <1>9
  <2> SUFFICES ASSUME NEW i \in 1..(q + 1)
               PROVE  /\ U[i].role = "system" <=> i = 1
                      /\ U[i].role = "calls" =>
                           /\ i + Len(U[i].of) <= q + 1
                           /\ \A k \in 1..Len(U[i].of) : U[i + k].role = "tool" /\ U[i + k].of = <<U[i].of[k]>>
    BY DEF AnsweredTo
  <2>2. CASE i < p
    <3>1. i \in 1..(p - 1) /\ Len(U[i].of) \in Nat
      BY <1>1, <1>2, <1>3, <2>2
    <3>2. /\ U[i].role = "system" <=> i = 1
          /\ U[i].role = "calls" =>
               /\ i + Len(U[i].of) <= p - 1
               /\ \A k \in 1..Len(U[i].of) : U[i + k].role = "tool" /\ U[i + k].of = <<U[i].of[k]>>
      BY <1>6, <3>1 DEF AnsweredTo
    <3>3. i + Len(U[i].of) <= p - 1 => i + Len(U[i].of) <= q + 1
      BY <1>1, <1>2, <3>1
    <3> QED BY <3>2, <3>3
  <2>3. CASE i = p
    <3>0. p + Len(ids) <= q + 1
      BY <1>b, <2>1
    <3>1. U[i] = T[p] /\ i # 1 /\ p + Len(ids) <= q + 1 /\ U[i].of = ids
      BY <1>b, <1>5, <1>a, <2>3, <3>0
    <3>2. \A k \in 1..Len(ids) : U[i + k].role = "tool" /\ U[i + k].of = <<ids[k]>>
      BY <1>7, <2>1, <2>3
    <3> QED BY <1>2, <2>3, <3>1, <3>2
  <2>4. CASE i > p
    <3>1. i - p \in 1..(n + 1) /\ p + (i - p) = i
      BY <1>1, <1>2, <2>1, <2>4
    <3>2. U[p + (i - p)].role = "tool"
      BY <1>7, <3>1
    <3>3. i # 1
      BY <1>b, <2>4
    <3> QED BY <3>1, <3>2, <3>3
  <2>5. i < p \/ i = p \/ i > p
    BY <1>1, <1>2
  <2> QED BY <2>2, <2>3, <2>4, <2>5
<1> QED BY <1>8, <1>9, <1>a

(* Where a turn may go and what is left as it was.                         *)
LEMMA GoesOn ==
  ASSUME NEW t \in Turns, NEW at \in Serving \cup {"complete", "decide", "finish", "done", "raised", "none"}, Goes(t, at)
  PROVE  /\ turn' \in Turns /\ turn'.pc = at
         /\ turn'.transcript = t.transcript /\ turn'.records = t.records /\ turn'.calls = t.calls
         /\ turn'.rounds = t.rounds /\ turn'.toolRounds = t.toolRounds /\ turn'.error = t.error
         /\ turn'.structured = t.structured
BY DEF Goes, Turns

(* A turn that is told of goes on where it should, or has raised.          *)
LEMMA EmitsOrRaises ==
  ASSUME NEW t \in Turns, NEW kind, NEW at \in Serving \cup {"complete", "decide", "finish", "done", "raised", "none"},
         Emitting(kind, t, at)
  PROVE  turn' \in Turns /\ (Goes(t, at) \/ turn'.pc = "raised")
<1>1. \A x \in Serving \cup {"complete", "decide", "finish", "done", "raised", "none"} :
        Goes(t, x) => turn' \in Turns /\ turn'.pc = x
  BY GoesOn
<1> QED BY <1>1 DEF Emitting

LEMMA AppendOne ==
  ASSUME NEW T \in Seq(Messages), NEW m \in Messages
  PROVE  Append(T, m) # <<>> /\ Len(Append(T, m)) = Len(T) + 1
<1>1. Len(Append(T, m)) = Len(T) + 1 /\ Len(T) \in Nat
  OBVIOUS
<1>2. Len(<<>>) = 0
  OBVIOUS
<1>3. Len(Append(T, m)) # 0
  BY <1>1
<1> QED BY <1>1, <1>2, <1>3

LEMMA TurnFields ==
  ASSUME NEW t \in Turns
  PROVE  /\ t.rounds \in Nat /\ t.toolRounds \in Nat /\ t.structured \in BOOLEAN
         /\ t.transcript \in Seq(Messages) /\ Len(t.transcript) \in Nat
<1>1. t.rounds \in Nat
  BY DEF Turns
<1>2. t.toolRounds \in Nat
  BY DEF Turns
<1>3. t.transcript \in Seq(Messages) /\ t.structured \in BOOLEAN
  BY DEF Turns
<1>4. Len(t.transcript) \in Nat
  BY <1>3
<1> QED BY <1>1, <1>2, <1>3, <1>4

LEMMA Bounded == \A k, l \in Nat : k + 0 = k /\ (k <= l /\ k >= l => k = l)
OBVIOUS

LEMMA CompleteKeeps == ASSUME TurnInv, Complete PROVE TurnInv'
<1>1. turn \in Turns /\ turn.pc = "complete" /\ TurnHolds(turn)
  BY DEF TurnInv, TurnTyped, Complete, At
<1>z. turn.rounds \in Nat /\ turn.toolRounds \in Nat
  BY <1>1, TurnFields
<1>0. turn.rounds \in Nat /\ turn.toolRounds \in Nat /\ turn.rounds + 1 \in Nat /\ turn.toolRounds + 1 \in Nat
  BY <1>z
<1>2. CASE Goes(turn, "raised") /\ UNCHANGED stream
  BY <1>1, <1>2, GoesOn DEF TurnInv, TurnTyped
<1>3. ASSUME NEW calls \in Asked, NEW t, t = [turn EXCEPT !.rounds = @ + 1, !.calls = calls],
             Goes(t, "decide") \/ Emitting("message", t, "decide")
      PROVE  TurnInv'
  <2>1. calls \in Seq(CallIds)
    BY TurnAssumption DEF CallIds
  <2>2. /\ t \in Turns /\ t.transcript = turn.transcript /\ t.records = turn.records /\ t.rounds = turn.rounds + 1
        /\ t.toolRounds = turn.toolRounds /\ t.error = turn.error /\ t.structured = turn.structured
    BY <1>0, <1>1, <1>3, <2>1 DEF Turns
  <2>3. CASE turn'.pc = "raised" /\ turn' \in Turns
    BY <2>3 DEF TurnInv, TurnTyped
  <2>4. CASE Goes(t, "decide")
    <3>1. /\ turn' \in Turns /\ turn'.pc = "decide" /\ turn'.transcript = t.transcript /\ turn'.records = t.records
          /\ turn'.rounds = t.rounds /\ turn'.toolRounds = t.toolRounds /\ turn'.error = t.error
          /\ turn'.structured = t.structured
      BY <2>2, <2>4, GoesOn
    <3>2. CallsHold(turn)'
      BY <1>1, <2>2, <3>1 DEF TurnHolds, CallsHold, Serving
    <3>3. RoundsHold(turn)'
      <4>0. /\ turn.toolRounds <= MaxToolRounds /\ turn.rounds = turn.toolRounds + 0
            /\ turn.error = "max rounds" => turn.toolRounds = MaxToolRounds
        BY <1>1 DEF TurnHolds, RoundsHold, CountsHold
      <4>c. turn.rounds = turn.toolRounds
        BY <1>z, <4>0, Bounded
      <4>a. turn'.rounds = turn'.toolRounds + 1
        BY <2>2, <3>1, <4>c
      <4>b. turn'.toolRounds = turn.toolRounds /\ turn'.error = turn.error
        BY <2>2, <3>1
      <4>1. CountsHold(turn)'
        BY <3>1, <4>0, <4>a, <4>b DEF CountsHold
      <4>2. ErrorsHold(turn)'
        BY <1>1, <2>2, <3>1 DEF TurnHolds, RoundsHold, ErrorsHold
      <4> QED BY <4>1, <4>2 DEF RoundsHold
    <3>4. LastOutcome(turn) = <<>> /\ LastOutcome(turn)' = <<>>
      BY <1>1, <3>1 DEF LastOutcome
    <3>5. RecordsTell(turn.transcript, turn.records, LastOutcome(turn))'
      BY <1>1, <2>2, <3>1, <3>4 DEF TurnHolds
    <3> QED BY <3>1, <3>2, <3>3, <3>5 DEF TurnInv, TurnTyped, TurnHolds
  <2> QED BY <1>3, <2>2, <2>3, <2>4, EmitsOrRaises
<1> QED BY <1>2, <1>3 DEF Complete

LEMMA DecideKeeps == ASSUME TurnInv, Decide PROVE TurnInv'
<1>1. /\ turn \in Turns /\ turn.pc = "decide" /\ CallsHold(turn) /\ RoundsHold(turn) /\ MaxToolRounds \in Nat
      /\ RecordsTell(turn.transcript, turn.records, <<>>)
  BY TurnAssumption DEF TurnInv, TurnTyped, TurnHolds, Decide, At, LastOutcome
<1>2. /\ turn.transcript \in Seq(Messages) /\ turn.transcript # <<>> /\ turn.calls \in Seq(CallIds)
      /\ AnsweredTo(turn.transcript, Len(turn.transcript))
  BY <1>1 DEF CallsHold, Turns, Serving
<1>z. turn.rounds \in Nat /\ turn.toolRounds \in Nat
  BY <1>1, TurnFields
<1>0. turn.rounds \in Nat /\ turn.toolRounds \in Nat /\ turn.rounds + 1 \in Nat /\ turn.toolRounds + 1 \in Nat
  BY <1>z
<1>3. ASSUME NEW e \in {"none", "no runner", "max rounds"}, e = "max rounds" => Capped,
             Goes([turn EXCEPT !.error = e], "finish")
      PROVE  TurnInv'
  <2>0. PICK t : t = [turn EXCEPT !.error = e]
    OBVIOUS
  <2>1. /\ t \in Turns /\ t.transcript = turn.transcript /\ t.records = turn.records /\ t.rounds = turn.rounds
        /\ t.toolRounds = turn.toolRounds /\ t.error = e /\ t.structured = turn.structured
    BY <1>1, <2>0 DEF Turns
  <2>2. /\ turn' \in Turns /\ turn'.pc = "finish" /\ turn'.transcript = t.transcript /\ turn'.records = t.records
        /\ turn'.rounds = t.rounds /\ turn'.toolRounds = t.toolRounds /\ turn'.error = e
        /\ turn'.structured = turn.structured
    BY <1>3, <2>0, <2>1, GoesOn
  <2>3. CallsHold(turn)'
    BY <1>2, <2>1, <2>2 DEF CallsHold, Serving
  <2>4. RoundsHold(turn)'
    <3>0. turn.toolRounds >= MaxToolRounds <=> Capped
      BY DEF Capped
    <3>a. /\ turn.toolRounds <= MaxToolRounds /\ turn.rounds = turn.toolRounds + 1
      BY <1>1 DEF RoundsHold, CountsHold
    <3>b. Capped => turn.toolRounds = MaxToolRounds
      BY <1>1, <1>z, <3>0, <3>a, Bounded
    <3>c. turn'.toolRounds = turn.toolRounds /\ turn'.rounds = turn.rounds /\ turn'.error = e
      BY <2>1, <2>2
    <3>1. CountsHold(turn)'
      BY <1>3, <2>2, <3>a, <3>b, <3>c DEF CountsHold
    <3>2. ErrorsHold(turn)'
      BY <1>1, <1>3, <2>1, <2>2 DEF RoundsHold, ErrorsHold
    <3> QED BY <3>1, <3>2 DEF RoundsHold
  <2>5. LastOutcome(turn)' = <<>>
    BY <2>2 DEF LastOutcome
  <2>6. RecordsTell(turn.transcript, turn.records, LastOutcome(turn))'
    BY <1>1, <2>1, <2>2, <2>5
  <2> QED BY <2>2, <2>3, <2>4, <2>6 DEF TurnInv, TurnTyped, TurnHolds
<1>4. ASSUME turn.calls # <<>>, ~Capped,
             Goes([turn EXCEPT !.toolRounds = @ + 1,
                               !.transcript = Append(@, Message("calls", turn.calls, TRUE))], "start")
      PROVE  TurnInv'
  <2>0. PICK m, t : m = Message("calls", turn.calls, TRUE) /\ t = [turn EXCEPT !.toolRounds = @ + 1, !.transcript = Append(@, m)]
    OBVIOUS
  <2>1. m \in Messages /\ m.role = "calls" /\ m.of = turn.calls
    BY <1>2, <2>0 DEF Message, Messages
  <2>2. /\ t \in Turns /\ t.transcript = Append(turn.transcript, m) /\ t.records = turn.records /\ t.rounds = turn.rounds
        /\ t.toolRounds = turn.toolRounds + 1 /\ t.error = turn.error /\ t.structured = turn.structured /\ t.calls = turn.calls
    <3>1. Append(turn.transcript, m) \in Seq(Messages)
      BY <1>2, <2>1
    <3> QED BY <1>0, <1>1, <2>0, <3>1 DEF Turns
  <2>3. /\ turn' \in Turns /\ turn'.pc = "start" /\ turn'.transcript = t.transcript /\ turn'.records = t.records
        /\ turn'.rounds = t.rounds /\ turn'.toolRounds = t.toolRounds /\ turn'.error = t.error
        /\ turn'.structured = turn.structured /\ turn'.calls = t.calls
    BY <1>4, <2>0, <2>2, GoesOn DEF Serving
  <2>4. AskedAt(Append(turn.transcript, m), turn.calls, Len(turn.transcript) + 1)
    BY <1>2, <1>4, <2>1, AskAppended
  <2>5. CallsHold(turn)'
    <3>1. Len(turn.transcript) + 1 \in Nat /\ Append(turn.transcript, m) # <<>>
      BY <1>2, <2>1
    <3> QED BY <2>2, <2>3, <2>4, <3>1 DEF CallsHold, Serving
  <2>6. RoundsHold(turn)'
    <3>0. turn.toolRounds >= MaxToolRounds <=> Capped
      BY DEF Capped
    <3>a. /\ turn.toolRounds <= MaxToolRounds /\ turn.rounds = turn.toolRounds + 1 /\ turn.error = "none"
      BY <1>1 DEF RoundsHold, CountsHold, ErrorsHold
    <3>b. turn.toolRounds + 1 <= MaxToolRounds
      BY <1>1, <1>4, <1>z, <3>0
    <3>c. turn'.toolRounds = turn.toolRounds + 1 /\ turn'.rounds = turn'.toolRounds + 0 /\ turn'.error = "none"
      BY <1>z, <2>2, <2>3, <3>a
    <3>1. CountsHold(turn)'
      BY <2>3, <3>b, <3>c DEF CountsHold
    <3>2. ErrorsHold(turn)'
      BY <1>1, <1>4, <2>2, <2>3 DEF RoundsHold, ErrorsHold
    <3> QED BY <3>1, <3>2 DEF RoundsHold
  <2>7. RecordsTell(Append(turn.transcript, m), turn.records, <<>>)
    BY <1>1, <1>2, <2>1, RecordsStay DEF Turns
  <2>8. LastOutcome(turn)' = <<>>
    BY <2>3 DEF LastOutcome
  <2> QED BY <2>2, <2>3, <2>5, <2>6, <2>7, <2>8 DEF TurnInv, TurnTyped, TurnHolds
<1>5. turn.error = "none" /\ turn = [turn EXCEPT !.error = "none"]
  BY <1>1 DEF RoundsHold, CountsHold, ErrorsHold, Turns
<1>6. CASE turn.calls = <<>>
  <2>1. Goes(turn, "finish")
    BY <1>6 DEF Decide
  <2> QED BY <1>3, <1>5, <2>1
<1>7. CASE turn.calls # <<>> /\ ~turn.served
  <2>1. Goes([turn EXCEPT !.error = "no runner"], "finish")
    BY <1>7 DEF Decide
  <2> QED BY <1>3, <2>1
<1>8. CASE turn.calls # <<>> /\ turn.served /\ Capped
  <2>1. Goes([turn EXCEPT !.error = "max rounds"], "finish")
    BY <1>8 DEF Decide
  <2> QED BY <1>3, <1>8, <2>1
<1>9. CASE turn.calls # <<>> /\ turn.served /\ ~Capped
  <2>1. Goes([turn EXCEPT !.toolRounds = @ + 1,
                          !.transcript = Append(@, Message("calls", turn.calls, TRUE))], "start")
    BY <1>9 DEF Decide
  <2> QED BY <1>4, <1>9, <2>1
<1> QED BY <1>6, <1>7, <1>8, <1>9

(* A tool's outcome is recorded.                                           *)
LEMMA OutcomeKeeps ==
  ASSUME TurnInv, turn.pc \in {"tool", "working"}, NEW ok \in BOOLEAN,
         Goes([turn EXCEPT !.records = Append(@, ok)], IF ok THEN "succeeded" ELSE "failed")
  PROVE  TurnInv'
<1>1. /\ turn \in Turns /\ CallsHold(turn) /\ RoundsHold(turn) /\ RecordsTell(turn.transcript, turn.records, <<>>)
  BY DEF TurnInv, TurnTyped, TurnHolds, LastOutcome
<1>2. PICK t, at : t = [turn EXCEPT !.records = Append(@, ok)] /\ at = IF ok THEN "succeeded" ELSE "failed"
  OBVIOUS
<1>3. /\ t \in Turns /\ t.transcript = turn.transcript /\ t.records = Append(turn.records, ok) /\ t.calls = turn.calls
      /\ t.rounds = turn.rounds /\ t.toolRounds = turn.toolRounds /\ t.error = turn.error /\ t.structured = turn.structured
      /\ turn.transcript \in Seq(Messages) /\ turn.records \in Seq(BOOLEAN)
  <2>1. turn.transcript \in Seq(Messages) /\ turn.records \in Seq(BOOLEAN)
    BY <1>1 DEF Turns
  <2>2. Append(turn.records, ok) \in Seq(BOOLEAN)
    BY <2>1
  <2> QED BY <1>1, <1>2, <2>1, <2>2 DEF Turns
<1>4. /\ turn' \in Turns /\ turn'.pc = at /\ turn'.transcript = t.transcript /\ turn'.records = t.records
      /\ turn'.calls = t.calls /\ turn'.rounds = t.rounds /\ turn'.toolRounds = t.toolRounds /\ turn'.error = t.error
      /\ turn'.structured = t.structured
  BY <1>2, <1>3, GoesOn DEF Serving
<1>5. CallsHold(turn)'
  BY <1>1, <1>2, <1>3, <1>4 DEF CallsHold, Serving
<1>6. RoundsHold(turn)'
  BY <1>1, <1>2, <1>3, <1>4 DEF RoundsHold, CountsHold, ErrorsHold
<1>7. RecordsTell(turn.transcript, Append(turn.records, ok), <<ok>>)
  BY <1>1, <1>3, RecordsGrown
<1>8. LastOutcome(turn)' = <<ok>>
  BY <1>2, <1>4 DEF LastOutcome
<1> QED BY <1>3, <1>4, <1>5, <1>6, <1>7, <1>8 DEF TurnInv, TurnTyped, TurnHolds

(* The turn goes on with nothing but its place changed.                    *)
LEMMA PlaceKeeps ==
  ASSUME TurnInv, turn.pc \in {"start", "tool"}, NEW at \in {"tool", "working"}, Goes(turn, at)
  PROVE  TurnInv'
<1>1. /\ turn \in Turns /\ CallsHold(turn) /\ RoundsHold(turn) /\ RecordsTell(turn.transcript, turn.records, <<>>)
  BY DEF TurnInv, TurnTyped, TurnHolds, LastOutcome
<1>2. /\ turn' \in Turns /\ turn'.pc = at /\ turn'.transcript = turn.transcript /\ turn'.records = turn.records
      /\ turn'.calls = turn.calls /\ turn'.rounds = turn.rounds /\ turn'.toolRounds = turn.toolRounds
      /\ turn'.error = turn.error /\ turn'.structured = turn.structured
  BY <1>1, GoesOn DEF Serving
<1>3. CallsHold(turn)'
  BY <1>1, <1>2 DEF CallsHold, Serving
<1>4. RoundsHold(turn)'
  BY <1>1, <1>2 DEF RoundsHold, CountsHold, ErrorsHold
<1>5. LastOutcome(turn)' = <<>>
  BY <1>2 DEF LastOutcome
<1> QED BY <1>1, <1>2, <1>3, <1>4, <1>5 DEF TurnInv, TurnTyped, TurnHolds

LEMMA ToolKeeps == ASSUME TurnInv, ToolStarts \/ ToolProgress \/ ToolReturns PROVE TurnInv'
<1>1. turn \in Turns
  BY DEF TurnInv, TurnTyped
<1>2. CASE turn'.pc = "raised" /\ turn' \in Turns
  BY <1>2 DEF TurnInv, TurnTyped
<1>3. CASE ToolStarts
  <2>1. turn.pc = "start" /\ (Goes(turn, "tool") \/ (turn'.pc = "raised" /\ turn' \in Turns))
    BY <1>1, <1>3, EmitsOrRaises DEF ToolStarts, At, Serving
  <2> QED BY <1>2, <2>1, PlaceKeeps
<1>4. CASE ToolProgress
  <2>1. turn.pc = "tool"
    BY <1>4 DEF ToolProgress, At
  <2>2. \/ Goes(turn, "working")
        \/ Goes([turn EXCEPT !.records = Append(@, FALSE)], IF FALSE THEN "succeeded" ELSE "failed")
    BY <1>4 DEF ToolProgress
  <2> QED BY <2>1, <2>2, PlaceKeeps, OutcomeKeeps
<1>5. CASE ToolReturns
  BY <1>5, OutcomeKeeps DEF ToolReturns, At
<1> QED BY <1>3, <1>4, <1>5

LEMMA ToolEndsKeeps == ASSUME TurnInv, ToolEnds PROVE TurnInv'
<1>1. PICK ok \in BOOLEAN : /\ At(IF ok THEN "succeeded" ELSE "failed")
                            /\ LET t == [Answered(turn, ok) EXCEPT !.calls = Tail(@)] IN
                               Emitting(IF ok THEN "tool.end" ELSE "tool.error", t,
                                        IF t.calls = <<>> THEN "complete" ELSE "start")
  BY DEF ToolEnds
<1>a. PICK t, m : t = [Answered(turn, ok) EXCEPT !.calls = Tail(@)] /\ m = Message("tool", <<Head(turn.calls)>>, ok)
  OBVIOUS
<1>b. PICK at, kind : at = (IF t.calls = <<>> THEN "complete" ELSE "start") /\ kind = (IF ok THEN "tool.end" ELSE "tool.error")
  OBVIOUS
<1>2. /\ turn \in Turns /\ turn.pc = (IF ok THEN "succeeded" ELSE "failed") /\ CallsHold(turn) /\ RoundsHold(turn)
      /\ RecordsTell(turn.transcript, turn.records, <<ok>>) /\ turn.transcript \in Seq(Messages)
      /\ turn.calls \in Seq(CallIds) /\ turn.records \in Seq(BOOLEAN)
  BY <1>1 DEF TurnInv, TurnTyped, TurnHolds, LastOutcome, At, Turns
<1>3. PICK p \in Nat : AskedAt(turn.transcript, turn.calls, p)
  BY <1>2 DEF CallsHold, Serving
<1>4. turn.calls # <<>> /\ Head(turn.calls) \in CallIds /\ Tail(turn.calls) \in Seq(CallIds)
  <2>1. Len(turn.calls) > 0
    BY <1>3 DEF AskedAt
  <2>2. turn.calls # <<>>
    BY <2>1
  <2> QED BY <1>2, <2>2
<1>5. m \in Messages /\ m.role = "tool" /\ m.of = <<Head(turn.calls)>> /\ m.ok = ok
  BY <1>4, <1>a DEF Message, Messages
<1>6. /\ t \in Turns /\ t.transcript = Append(turn.transcript, m) /\ t.records = turn.records /\ t.calls = Tail(turn.calls)
      /\ t.rounds = turn.rounds /\ t.toolRounds = turn.toolRounds /\ t.error = turn.error /\ t.structured = turn.structured
  <2>1. Answered(turn, ok) = [turn EXCEPT !.transcript = Append(@, m)]
    BY <1>a DEF Answered
  <2>2. Append(turn.transcript, m) \in Seq(Messages)
    BY <1>2, <1>5
  <2> QED BY <1>2, <1>4, <1>a, <2>1, <2>2 DEF Turns
<1>7. at \in {"complete", "start"} /\ Emitting(kind, t, at)
  BY <1>1, <1>a, <1>b
<1>8. CASE turn'.pc = "raised" /\ turn' \in Turns
  BY <1>8 DEF TurnInv, TurnTyped
<1>9. CASE Goes(t, at)
  <2>1. /\ turn' \in Turns /\ turn'.pc = at /\ turn'.transcript = t.transcript /\ turn'.records = t.records
        /\ turn'.calls = t.calls /\ turn'.rounds = t.rounds /\ turn'.toolRounds = t.toolRounds /\ turn'.error = t.error
        /\ turn'.structured = t.structured
    BY <1>6, <1>7, <1>9, GoesOn DEF Serving
  <2>2. /\ t.calls # <<>> => AskedAt(t.transcript, t.calls, p)
        /\ t.calls = <<>> => AnsweredTo(t.transcript, Len(turn.transcript) + 1)
    BY <1>2, <1>3, <1>5, <1>6, AnswerAppended
  <2>3. t.transcript # <<>> /\ Len(t.transcript) = Len(turn.transcript) + 1
    BY <1>2, <1>5, <1>6, AppendOne
  <2>4. CallsHold(turn)'
    <3>1. CASE t.calls = <<>>
      BY <1>b, <2>1, <2>2, <2>3, <3>1 DEF CallsHold, Serving
    <3>2. CASE t.calls # <<>>
      BY <1>b, <2>1, <2>2, <2>3, <3>2 DEF CallsHold, Serving
    <3> QED BY <3>1, <3>2
  <2>5. RoundsHold(turn)'
    BY <1>2, <1>6, <1>7, <2>1 DEF RoundsHold, CountsHold, ErrorsHold
  <2>6. RecordsTell(t.transcript, t.records, <<>>)
    BY <1>2, <1>5, <1>6, RecordsTaken
  <2>7. LastOutcome(turn)' = <<>>
    BY <1>7, <2>1 DEF LastOutcome
  <2> QED BY <2>1, <2>4, <2>5, <2>6, <2>7 DEF TurnInv, TurnTyped, TurnHolds
<1>10. Goes(t, at) \/ (turn'.pc = "raised" /\ turn' \in Turns)
  <2>1. at \in Serving \cup {"complete", "decide", "finish", "done", "raised", "none"}
    BY <1>7 DEF Serving
  <2> QED BY <1>6, <1>7, <2>1, EmitsOrRaises
<1> QED BY <1>8, <1>9, <1>10

LEMMA FinishKeeps == ASSUME TurnInv, Finish PROVE TurnInv'
<1>1. /\ turn \in Turns /\ turn.pc = "finish" /\ CallsHold(turn) /\ RoundsHold(turn)
      /\ RecordsTell(turn.transcript, turn.records, <<>>)
  BY DEF TurnInv, TurnTyped, TurnHolds, Finish, At, LastOutcome
<1>2. /\ turn.transcript \in Seq(Messages) /\ turn.transcript # <<>> /\ turn.records \in Seq(BOOLEAN)
      /\ AnsweredTo(turn.transcript, Len(turn.transcript)) /\ ~turn.structured
  BY <1>1 DEF CallsHold, RoundsHold, CountsHold, ErrorsHold, Turns, Serving
<1>3. PICK m, u : m = Message("assistant", <<>>, TRUE) /\ u = [turn EXCEPT !.transcript = Append(@, m)]
  OBVIOUS
<1>4. PICK t : /\ Goes(t, "done")
               /\ \/ t = u
                  \/ t = [u EXCEPT !.structured = TRUE] /\ turn.error = "none"
                  \/ t = [u EXCEPT !.error = "parse"] /\ turn.error = "none"
  BY <1>3 DEF Finish
<1>5. m \in Messages /\ m.role = "assistant"
  BY <1>3 DEF Message, Messages
<1>6. /\ t \in Turns /\ t.transcript = Append(turn.transcript, m) /\ t.records = turn.records
      /\ t.rounds = turn.rounds /\ t.toolRounds = turn.toolRounds
      /\ \/ t.error = turn.error /\ t.structured = turn.structured
         \/ t.error = turn.error /\ turn.error = "none"
         \/ t.error = "parse" /\ t.structured = turn.structured
  <2>1. Append(turn.transcript, m) \in Seq(Messages)
    BY <1>2, <1>5
  <2> QED BY ZenonT(30), <1>1, <1>3, <1>4, <2>1 DEF Turns
<1>7. /\ turn' \in Turns /\ turn'.pc = "done" /\ turn'.transcript = t.transcript /\ turn'.records = t.records
      /\ turn'.rounds = t.rounds /\ turn'.toolRounds = t.toolRounds /\ turn'.error = t.error
      /\ turn'.structured = t.structured
  BY <1>4, <1>6, GoesOn
<1>8. AnsweredTo(t.transcript, Len(t.transcript)) /\ t.transcript # <<>>
  <2>1. Len(t.transcript) = Len(turn.transcript) + 1 /\ t.transcript # <<>>
    BY <1>2, <1>5, <1>6, AppendOne
  <2>2. AnsweredTo(Append(turn.transcript, m), Len(turn.transcript) + 1)
    BY <1>2, <1>5, AskAppended
  <2> QED BY <1>6, <2>1, <2>2
<1>9. CallsHold(turn)'
  BY <1>7, <1>8 DEF CallsHold, Serving
<1>10. RoundsHold(turn)'
  BY <1>1, <1>2, <1>6, <1>7 DEF RoundsHold, CountsHold, ErrorsHold
<1>11. RecordsTell(t.transcript, t.records, <<>>)
  BY <1>1, <1>2, <1>5, <1>6, RecordsStay
<1>12. LastOutcome(turn)' = <<>>
  BY <1>7 DEF LastOutcome
<1> QED BY <1>7, <1>9, <1>10, <1>11, <1>12 DEF TurnInv, TurnTyped, TurnHolds

LEMMA CallAgentKeeps == ASSUME CallAgent PROVE TurnInv'
<1>1. PICK served \in BOOLEAN, schema \in BOOLEAN :
        turn' = [NoTurn EXCEPT !.pc = "complete", !.transcript = Opening, !.served = served, !.schema = schema]
  BY DEF CallAgent, StartTurn
<1>2. turn' = [pc |-> "complete", transcript |-> Opening, records |-> <<>>, calls |-> <<>>,
               rounds |-> 0, toolRounds |-> 0, error |-> "none", structured |-> FALSE,
               served |-> served, schema |-> schema]
  BY <1>1 DEF NoTurn
<1>3. /\ Opening \in Seq(Messages) /\ Len(Opening) = 2 /\ Opening[1].role = "system" /\ Opening[2].role = "user"
  <2>1. [role |-> "system", of |-> <<>>, ok |-> TRUE] \in Messages /\ [role |-> "user", of |-> <<>>, ok |-> TRUE] \in Messages
    BY DEF Messages
  <2> QED BY <2>1 DEF Opening, Message
<1>4. <<>> \in Seq(BOOLEAN) /\ <<>> \in Seq(CallIds)
  OBVIOUS
<1>5. turn' \in Turns
  BY <1>2, <1>3, <1>4 DEF Turns
<1>6. AnsweredTo(Opening, 2)
  BY <1>3 DEF AnsweredTo
<1>7. CallsHold(turn)'
  <2>1. Opening # <<>> /\ turn'.transcript = Opening /\ turn'.pc = "complete"
    BY <1>2 DEF Opening
  <2> QED BY <1>3, <1>6, <2>1 DEF CallsHold, Serving
<1>8. RoundsHold(turn)'
  BY <1>2, TurnAssumption DEF RoundsHold, CountsHold, ErrorsHold
<1>9. RecordsTell(Opening, <<>>, <<>>)
  <2>1. ToolsIn(Opening, 2) = {}
    BY <1>3 DEF ToolsIn
  <2>2. AnswersTo(Opening, 2) = 0
    BY <2>1, FS_EmptySet DEF AnswersTo
  <2> QED BY <1>3, <2>1, <2>2 DEF RecordsTell
<1>10. LastOutcome(turn)' = <<>>
  BY <1>2 DEF LastOutcome
<1> QED BY <1>2, <1>5, <1>7, <1>8, <1>9, <1>10 DEF TurnInv, TurnTyped, TurnHolds

LEMMA TurnTells == ASSUME TurnInv PROVE RecordsTellTurn
<1>1. turn \in Turns
  BY DEF TurnInv, TurnTyped
<1>2. ASSUME turn.pc \in {"complete", "done"}
      PROVE  /\ AnsweredTo(turn.transcript, Len(turn.transcript)) /\ turn.transcript \in Seq(Messages)
             /\ RecordsTell(turn.transcript, turn.records, <<>>) /\ RoundsHold(turn)
  BY <1>2 DEF TurnInv, TurnTyped, TurnHolds, CallsHold, LastOutcome, Turns, Serving
<1>3. CallsAnswered
  <2> SUFFICES ASSUME turn.pc \in {"complete", "done"}, NEW i \in DOMAIN turn.transcript
               PROVE  /\ turn.transcript[i].role = "system" <=> i = 1
                      /\ turn.transcript[i].role = "calls" =>
                           /\ i + Len(turn.transcript[i].of) <= Len(turn.transcript)
                           /\ \A k \in 1..Len(turn.transcript[i].of) :
                                /\ turn.transcript[i + k].role = "tool"
                                /\ turn.transcript[i + k].of = <<turn.transcript[i].of[k]>>
    BY DEF CallsAnswered, At
  <2>1. i \in 1..Len(turn.transcript)
    BY <1>2
  <2> QED BY <1>2, <2>1 DEF AnsweredTo
<1>4. ASSUME turn.pc = "done"
      PROVE  /\ Len(turn.records) = Cardinality(AnswersIn(Len(turn.transcript)))
             /\ \A i \in AnswersIn(Len(turn.transcript)) :
                  turn.records[Cardinality(AnswersIn(i))] = turn.transcript[i].ok
  <2>1. \A i : AnswersTo(turn.transcript, i) = Cardinality(AnswersIn(i)) /\ ToolsIn(turn.transcript, i) = AnswersIn(i)
    BY DEF AnswersTo, ToolsIn, AnswersIn
  <2>2. RecordsTell(turn.transcript, turn.records, <<>>)
    BY <1>2, <1>4
  <2>3. Cardinality(AnswersIn(Len(turn.transcript))) \in Nat
    <3>1. Len(turn.transcript) \in Nat
      BY <1>1, TurnFields
    <3> QED BY <2>1, <3>1, ToolsCounted
  <2> QED BY <2>1, <2>2, <2>3 DEF RecordsTell
<1>5. ASSUME turn.pc = "done"
      PROVE  /\ turn.toolRounds <= MaxToolRounds
             /\ turn.rounds = turn.toolRounds + 1
             /\ turn.error = "max rounds" => turn.toolRounds = MaxToolRounds
             /\ turn.structured => turn.error = "none"
  BY <1>2, <1>5 DEF RoundsHold, CountsHold, ErrorsHold
<1> QED BY <1>3, <1>4, <1>5 DEF RecordsTellTurn, At

(* While a turn runs, and in what is left of it.                           *)
LEMMA TurnNext == ASSUME TurnInv, [SessionNext]_session PROVE TurnInv'
<1>1. CASE UNCHANGED turn
  <2>1. TurnHolds(turn)' <=> TurnHolds(turn)
    BY <1>1 DEF TurnHolds, CallsHold, RoundsHold, CountsHold, ErrorsHold, LastOutcome
  <2> QED BY <1>1, <2>1 DEF TurnInv, TurnTyped
<1>2. CASE TurnStep
  BY <1>2, CompleteKeeps, DecideKeeps, ToolKeeps, ToolEndsKeeps, FinishKeeps DEF TurnStep
<1>3. CASE CallAgent
  BY <1>3, CallAgentKeeps
<1> QED BY <1>1, <1>2, <1>3 DEF SessionNext, ThreadStep, WalkStep, TurnFails, TurnAnswers, Consume, session

LEMMA StreamNext == ASSUME StreamInv, TurnTyped, "pc" \in DOMAIN walk, [SessionNext]_session PROVE StreamInv'
<1>1. CASE UNCHANGED session
  <2>1. \A r \in Sources : Passes(r)
    BY <1>1 DEF session, Passes, Expected
  <2> QED BY <1>1, <2>1, StillKeeps DEF session
<1>2. CASE WalkStep \/ TurnFails \/ TurnAnswers
  BY <1>2, WalkStepTells
<1>3. CASE TurnStep \/ CallAgent
  BY <1>3, TurnStepTells
<1>4. CASE Consume
  BY <1>4, DrainKeeps DEF Consume
<1> QED BY <1>1, <1>2, <1>3, <1>4 DEF SessionNext, ThreadStep

LEMMA TurnStarts == SessionInit => TurnInv
<1> SUFFICES ASSUME SessionInit PROVE TurnInv
  OBVIOUS
<1>1. turn = NoTurn
  BY DEF SessionInit
<1>2. NoTurn \in Turns
  BY DEF NoTurn, Turns
<1>3. turn.pc = "none"
  BY <1>1 DEF NoTurn
<1> QED BY <1>1, <1>2, <1>3 DEF TurnInv, TurnTyped

(* Only the consumer's own step changes what it has taken.                 *)
LEMMA OnlyDrained == ASSUME [SessionNext]_session PROVE Drain \/ UNCHANGED seen
<1>1. \A kind, w, at : Telling(kind, w, at) => UNCHANGED seen
  BY DEF Telling, Put, Full
<1>2. \A kind, t, at : Emitting(kind, t, at) => UNCHANGED seen
  BY DEF Emitting, Put, Full
<1>3. \A state : Errs(state) => UNCHANGED seen
  BY <1>1 DEF Errs
<1>4. \A v : Returns(v) => UNCHANGED seen
  BY DEF Returns, stream
<1>5. CASE WalkStep
  BY <1>1, <1>3, <1>4, <1>5 DEF WalkStep, Stop, Enter, Skip, Begin, RunnerErrs, RunnerReturns, Succeed, GiveUp, stream
<1>6. CASE TurnFails \/ TurnAnswers \/ CallAgent
  BY <1>3, <1>4, <1>6 DEF TurnFails, TurnAnswers, CallAgent, StartTurn, NewEmitter
<1>7. CASE TurnStep
  BY <1>2, <1>7 DEF TurnStep, Complete, Decide, ToolStarts, ToolProgress, ToolReturns, ToolEnds, Finish, Put, Full, stream
<1>8. CASE Consume \/ UNCHANGED session
  BY <1>8 DEF Consume, session, stream
<1> QED BY <1>5, <1>6, <1>7, <1>8 DEF SessionNext, ThreadStep

---------------------------------------------------------------------------
(* The workflow's walk.                                                    *)

Steps == UNION {DOMAIN spec.steps : spec \in Specs}

Records == [step : Steps, attempt : Nat, status : {"gate_skipped", "error", "ok"}, output : Answers]

StatesOf(spec) == [Vars \cup Outputs(spec) -> Answers]

Walkings == [spec : Specs, pc : {"next", "gate", "attempt", "turn", "returned", "exhausted", "end"},
             cursor : Steps \cup {Nowhere}, visited : Nat, attempt : Nat,
             state : UNION {StatesOf(spec) : spec \in Specs}, records : Seq(Records), result : Answers,
             status : {"running", "completed", "failed", "halted", "raised"}]

WalkTyped(w) == w \in Walkings /\ w.state \in StatesOf(w.spec) /\ w.cursor \in DOMAIN w.spec.steps \cup {Nowhere}

Opens(r) == r.attempt = IF r.status = "gate_skipped" THEN 0 ELSE 1

Visits(R) == {i \in DOMAIN R : Opens(R[i])}

(* What a record must be to follow another, r after q.                     *)
Retried(spec, q, r) ==
  /\ q.step = r.step /\ q.status = "error" /\ r.attempt = q.attempt + 1
  /\ r.attempt <= spec.steps[r.step].retries + 1

(* The records lead to this step, or the walk has only begun.               *)
Arrived(spec, R, to) ==
  IF R = <<>> THEN to = spec.start ELSE LeadsTo(spec.steps[R[Len(R)].step], R[Len(R)], to)

Retold(spec, R) ==
  \A i \in DOMAIN R :
    IF Opens(R[i]) THEN IF i = 1 THEN R[1].step = spec.start
                                 ELSE LeadsTo(spec.steps[R[i - 1].step], R[i - 1], R[i].step)
                   ELSE i # 1 /\ Retried(spec, R[i - 1], R[i])

Said(R, id) == {i \in DOMAIN R : R[i].step = id /\ R[i].output # Missing}

LastSaid(R, id) ==
  IF Said(R, id) = {} THEN Missing
  ELSE R[CHOOSE i \in Said(R, id) : \A j \in Said(R, id) : j <= i].output

(* The state holds what was said last, but for a value still to be put there. *)
StateTold(w) ==
  \A id \in DOMAIN w.spec.steps :
    ~(w.pc = "returned" /\ id = w.cursor /\ w.result # Missing) => w.state[Output(id)] = LastSaid(w.records, id)

(* Where the walk is, as its last record tells it.                         *)
LastIs(w, status, attempt) ==
  /\ w.records # <<>>
  /\ LET r == w.records[Len(w.records)] IN r.step = w.cursor /\ r.status = status /\ r.attempt = attempt

Counts(w, n) == Cardinality(Visits(w.records)) + n = w.visited

Limit(w) == w.spec.steps[w.cursor].retries + 1

Trying(w) ==
  /\ w.cursor # Nowhere /\ w.attempt >= 1 /\ w.attempt <= Limit(w)
  /\ IF w.attempt = 1 THEN Arrived(w.spec, w.records, w.cursor) /\ Counts(w, 1)
                      ELSE LastIs(w, "error", w.attempt - 1) /\ Counts(w, 0)

Ended(w) ==
  CASE w.status = "completed" -> Arrived(w.spec, w.records, Nowhere) /\ Counts(w, 0)
    [] w.status = "failed" -> /\ w.cursor # Nowhere /\ LastIs(w, "error", Limit(w)) /\ Counts(w, 0)
                              /\ w.spec.steps[w.cursor].onError = Nowhere
    [] w.status = "halted" -> Counts(w, 0) /\ w.visited = w.spec.maxSteps
    [] OTHER -> Counts(w, 0) \/ Counts(w, 1)

Where(w) ==
  /\ w.pc = "end" <=> w.status # "running"
  /\ CASE w.pc = "next" -> Arrived(w.spec, w.records, w.cursor) /\ Counts(w, 0)
       [] w.pc = "gate" -> w.cursor # Nowhere /\ Arrived(w.spec, w.records, w.cursor) /\ Counts(w, 1)
       [] w.pc \in {"attempt", "turn"} -> Trying(w)
       [] w.pc = "returned" -> /\ w.cursor # Nowhere /\ (\E n \in Nat : LastIs(w, "ok", n)) /\ Counts(w, 0)
                               /\ LastSaid(w.records, w.cursor) = w.result \/ w.result = Missing
       [] w.pc = "exhausted" -> w.cursor # Nowhere /\ LastIs(w, "error", Limit(w)) /\ Counts(w, 0)
       [] w.pc = "end" -> Ended(w)

WalkInv ==
  /\ WalkTyped(walk) /\ Retold(walk.spec, walk.records) /\ StateTold(walk) /\ Where(walk)
  /\ walk.visited <= walk.spec.maxSteps

LEMMA LeastOf ==
  ASSUME NEW T \in SUBSET Nat, T # {}
  PROVE  \E x \in T : \A y \in T : x <= y
<1> DEFINE less == {ss \in Nat \X Nat : ss[1] < ss[2]}
<1>1. IsWellFoundedOn(less, Nat)
  BY NatLessThanWellFounded DEF OpToRel
<1> HIDE DEF less
<1>2. PICK x \in T : \A y \in T : <<y, x>> \notin less
  BY <1>1, WFMin
<1>3. \A y \in T : ~(y < x)
  BY <1>2 DEF less
<1> QED BY <1>3

LEMMA GreatestOf ==
  ASSUME NEW n \in Nat, NEW S \in SUBSET (1..n), S # {}
  PROVE  \E m \in S : \A y \in S : y <= m
<1>1. PICK x \in {n - y : y \in S} : \A z \in {n - y : y \in S} : x <= z
  <2>1. {n - y : y \in S} \in SUBSET Nat /\ {n - y : y \in S} # {}
    <3>1. \A y \in S : n - y \in Nat
      OBVIOUS
    <3> QED BY <3>1
  <2> QED BY <2>1, LeastOf
<1>2. PICK m \in S : x = n - m
  OBVIOUS
<1>3. \A y \in S : n - m <= n - y
  BY <1>1, <1>2
<1>4. \A y \in S : y <= m
  BY <1>3
<1> QED BY <1>4

(* A step's successor is at the end of one of its edges.                   *)
LEMMA SuccessorEdge ==
  ASSUME NEW step, DOMAIN step.routes \subseteq Nat, NEW state
  PROVE  Successor(step, state) \in {step.next} \cup {step.routes[i].goto : i \in DOMAIN step.routes}
<1> DEFINE taken == {i \in DOMAIN step.routes : Taken(step.routes[i], state)}
<1> DEFINE first == CHOOSE i \in taken : \A j \in taken : i <= j
<1>1. Successor(step, state) = IF taken = {} THEN step.next ELSE step.routes[first].goto
  BY DEF Successor
<1>2. taken # {} => first \in taken
  <2>1. taken \in SUBSET Nat
    OBVIOUS
  <2> HIDE DEF taken
  <2>2. taken # {} => \E i \in taken : \A j \in taken : i <= j
    BY <2>1, LeastOf
  <2> QED BY <2>2
<1>3. taken \subseteq DOMAIN step.routes
  OBVIOUS
<1> HIDE DEF taken, first
<1> QED BY <1>1, <1>2, <1>3

(* A record that is appended.                                              *)
LEMMA VisitsAdded ==
  ASSUME NEW R \in Seq(Records), NEW r \in Records
  PROVE  /\ Cardinality(Visits(R)) \in Nat
         /\ Cardinality(Visits(Append(R, r))) = Cardinality(Visits(R)) + (IF Opens(r) THEN 1 ELSE 0)
<1>a. PICK n, U : n = Len(R) /\ U = Append(R, r)
  OBVIOUS
<1>1. n \in Nat /\ DOMAIN R = 1..n /\ DOMAIN U = 1..(n + 1) /\ U[n + 1] = r /\ \A i \in 1..n : U[i] = R[i]
  BY <1>a
<1>2. IsFiniteSet(Visits(R)) /\ Cardinality(Visits(R)) \in Nat
  <2>1. 1 \in Int /\ n \in Int
    BY <1>1
  <2>2. IsFiniteSet(1..n)
    BY <2>1, FS_Interval
  <2>3. Visits(R) \in SUBSET (1..n)
    BY <1>1 DEF Visits
  <2> QED BY <2>2, <2>3, FS_Subset, FS_CardinalityType
<1>3. CASE Opens(r)
  <2>1. Visits(U) = Visits(R) \cup {n + 1} /\ n + 1 \notin Visits(R)
    BY <1>1, <1>3 DEF Visits
  <2>2. Cardinality(Visits(U)) = Cardinality(Visits(R)) + 1
    BY <1>2, <2>1, FS_AddElement
  <2> QED BY <1>2, <1>3, <1>a, <2>2
<1>4. CASE ~Opens(r)
  <2>1. Visits(U) = Visits(R)
    BY <1>1, <1>4 DEF Visits
  <2> QED BY <1>2, <1>4, <1>a, <2>1
<1> QED BY <1>3, <1>4

LEMMA VisitsCounted ==
  ASSUME NEW R \in Seq(Records)
  PROVE  Cardinality(Visits(R)) \in Nat
<1>1. Len(R) \in Nat /\ DOMAIN R = 1..Len(R)
  OBVIOUS
<1>2. IsFiniteSet(1..Len(R))
  <2>1. 1 \in Int /\ Len(R) \in Int
    BY <1>1
  <2> QED BY <2>1, FS_Interval
<1>3. Visits(R) \in SUBSET (1..Len(R))
  BY <1>1 DEF Visits
<1> QED BY <1>2, <1>3, FS_Subset, FS_CardinalityType

LEMMA RetoldOn ==
  ASSUME NEW spec, NEW R \in Seq(Records), NEW r \in Records, Retold(spec, R),
         Opens(r) => Arrived(spec, R, r.step),
         ~Opens(r) => R # <<>> /\ Retried(spec, R[Len(R)], r)
  PROVE  Retold(spec, Append(R, r))
<1>a. PICK n, U : n = Len(R) /\ U = Append(R, r)
  OBVIOUS
<1>1. n \in Nat /\ DOMAIN R = 1..n /\ DOMAIN U = 1..(n + 1) /\ U[n + 1] = r /\ \A i \in 1..n : U[i] = R[i]
  BY <1>a
<1>2. R = <<>> <=> n = 0
  BY <1>a, EmptySeq
<1> SUFFICES ASSUME NEW i \in 1..(n + 1)
             PROVE  IF Opens(U[i]) THEN IF i = 1 THEN U[1].step = spec.start
                                                 ELSE LeadsTo(spec.steps[U[i - 1].step], U[i - 1], U[i].step)
                                   ELSE i # 1 /\ Retried(spec, U[i - 1], U[i])
  BY <1>1, <1>a DEF Retold
<1>3. CASE i \in 1..n
  <2>1. U[i] = R[i] /\ (i # 1 => U[i - 1] = R[i - 1]) /\ U[1] = R[1]
    BY <1>1, <1>3
  <2>2. IF Opens(R[i]) THEN IF i = 1 THEN R[1].step = spec.start
                                     ELSE LeadsTo(spec.steps[R[i - 1].step], R[i - 1], R[i].step)
                       ELSE i # 1 /\ Retried(spec, R[i - 1], R[i])
    BY <1>1, <1>3 DEF Retold
  <2> QED BY <2>1, <2>2
<1>4. CASE i = n + 1 /\ n = 0
  <2>1. U[i] = r /\ i = 1
    BY <1>1, <1>4
  <2> QED BY <1>2, <1>4, <2>1 DEF Arrived
<1>5. CASE i = n + 1 /\ n # 0
  <2>1. U[i] = r /\ i # 1 /\ i - 1 = n /\ U[n] = R[n]
    BY <1>1, <1>5
  <2> QED BY <1>2, <1>5, <1>a, <2>1 DEF Arrived
<1> QED BY <1>1, <1>3, <1>4, <1>5

LEMMA SaidOn ==
  ASSUME NEW R \in Seq(Records), NEW r \in Records, NEW id
  PROVE  /\ r.step # id \/ r.output = Missing => LastSaid(Append(R, r), id) = LastSaid(R, id)
         /\ r.step = id /\ r.output # Missing => LastSaid(Append(R, r), id) = r.output
<1>a. PICK n, U : n = Len(R) /\ U = Append(R, r)
  OBVIOUS
<1>1. n \in Nat /\ DOMAIN R = 1..n /\ DOMAIN U = 1..(n + 1) /\ U[n + 1] = r /\ \A i \in 1..n : U[i] = R[i]
  BY <1>a
<1>2. ASSUME r.step # id \/ r.output = Missing PROVE LastSaid(U, id) = LastSaid(R, id)
  <2>1. Said(U, id) = Said(R, id) /\ Said(R, id) \in SUBSET (1..n)
    BY <1>1, <1>2 DEF Said
  <2>2. CASE Said(R, id) = {}
    BY <2>1, <2>2 DEF LastSaid
  <2>3. CASE Said(R, id) # {}
    <3>1. \E m \in Said(R, id) : \A y \in Said(R, id) : y <= m
      BY <1>1, <2>1, <2>3, GreatestOf
    <3>2. PICK m : m = CHOOSE i \in Said(R, id) : \A j \in Said(R, id) : j <= i
      OBVIOUS
    <3>3. m \in Said(R, id)
      BY <3>1, <3>2
    <3>4. U[m] = R[m]
      BY <1>1, <2>1, <3>3
    <3> QED BY <2>1, <2>3, <3>2, <3>4 DEF LastSaid
  <2> QED BY <2>2, <2>3
<1>3. ASSUME r.step = id, r.output # Missing PROVE LastSaid(U, id) = r.output
  <2>1. n + 1 \in Said(U, id) /\ Said(U, id) \in SUBSET (1..(n + 1))
    BY <1>1, <1>3 DEF Said
  <2>2. PICK m : m = CHOOSE i \in Said(U, id) : \A j \in Said(U, id) : j <= i
    OBVIOUS
  <2>3. \A y \in Said(U, id) : y <= n + 1
    BY <1>1, <2>1
  <2>4. m \in Said(U, id) /\ \A j \in Said(U, id) : j <= m
    BY <2>1, <2>2, <2>3
  <2>5. m = n + 1
    <3>1. m \in 1..(n + 1) /\ n + 1 <= m
      BY <2>1, <2>4
    <3> QED BY <1>1, <3>1
  <2> QED BY <1>1, <2>1, <2>2, <2>5 DEF LastSaid
<1> QED BY <1>2, <1>3, <1>a

Stations == {"next", "gate", "attempt", "turn", "returned", "exhausted", "end"}

(* v is w, at another place.                                               *)
Moved(v, w, at) ==
  /\ WalkTyped(v) /\ v.pc = at
  /\ v.spec = w.spec /\ v.cursor = w.cursor /\ v.visited = w.visited /\ v.attempt = w.attempt /\ v.state = w.state
  /\ v.records = w.records /\ v.result = w.result /\ v.status = w.status

LEMMA WalksOn ==
  ASSUME NEW w, WalkTyped(w), NEW at \in Stations, Walks(w, at)
  PROVE  Moved(walk', w, at)
BY DEF Walks, WalkTyped, Walkings, Moved, Stations

(* What any place has in common, and what is left when the sink raises.    *)
Core(w) ==
  /\ WalkTyped(w) /\ Retold(w.spec, w.records) /\ w.visited <= w.spec.maxSteps /\ (Counts(w, 0) \/ Counts(w, 1))
  /\ \A id \in DOMAIN w.spec.steps : w.state[Output(id)] = LastSaid(w.records, id)

LEMMA TellingOn ==
  ASSUME NEW w, Core(w), NEW at \in Stations, NEW kind, Telling(kind, w, at)
  PROVE  Moved(walk', w, at) \/ WalkInv'
<1>1. CASE Walks(w, at)
  BY <1>1, WalksOn DEF Core
<1>2. CASE Walks([w EXCEPT !.status = "raised"], "end")
  <2>1. PICK v : v = [w EXCEPT !.status = "raised"]
    OBVIOUS
  <2>2. /\ WalkTyped(v) /\ v.status = "raised"
        /\ v.spec = w.spec /\ v.cursor = w.cursor /\ v.visited = w.visited /\ v.state = w.state /\ v.records = w.records
    BY <2>1 DEF Core, WalkTyped, Walkings
  <2>3. Moved(walk', v, "end")
    BY <1>2, <2>1, <2>2, WalksOn DEF Stations
  <2>4. Retold(walk.spec, walk.records)' /\ StateTold(walk)' /\ (walk.visited <= walk.spec.maxSteps)'
    BY <2>2, <2>3 DEF Core, StateTold, Moved
  <2>5. Where(walk)'
    BY <2>2, <2>3 DEF Core, Where, Ended, Counts, Moved
  <2> QED BY <2>3, <2>4, <2>5 DEF WalkInv, Moved
<1> QED BY <1>1, <1>2 DEF Telling

(* An invariant walk knows this of itself between two visits.              *)
LEMMA Between ==
  ASSUME WalkInv, walk.pc # "returned"
  PROVE  /\ WalkTyped(walk) /\ Retold(walk.spec, walk.records) /\ walk.visited <= walk.spec.maxSteps
         /\ \A id \in DOMAIN walk.spec.steps : walk.state[Output(id)] = LastSaid(walk.records, id)
BY DEF WalkInv, StateTold

LEMMA StopKeeps == ASSUME WalkInv, Stop PROVE WalkInv'
<1>1. /\ WalkTyped(walk) /\ Retold(walk.spec, walk.records) /\ walk.visited <= walk.spec.maxSteps
      /\ \A id \in DOMAIN walk.spec.steps : walk.state[Output(id)] = LastSaid(walk.records, id)
      /\ Arrived(walk.spec, walk.records, walk.cursor) /\ Counts(walk, 0)
  BY Between DEF Stop, WalkAt, WalkInv, Where
<1>2. PICK status \in {"completed", "halted"} :
        /\ Walks([walk EXCEPT !.status = status], "end")
        /\ status = "completed" => walk.cursor = Nowhere
        /\ status = "halted" => Spent
  BY DEF Stop
<1>3. PICK w : w = [walk EXCEPT !.status = status]
  OBVIOUS
<1>4. /\ WalkTyped(w) /\ w.status = status
      /\ w.spec = walk.spec /\ w.cursor = walk.cursor /\ w.visited = walk.visited /\ w.state = walk.state
      /\ w.records = walk.records
  BY <1>1, <1>3 DEF WalkTyped, Walkings
<1>5. Moved(walk', w, "end")
  BY <1>2, <1>3, <1>4, WalksOn DEF Stations
<1>6. status = "halted" => walk.visited = walk.spec.maxSteps
  <2>1. walk.visited \in Nat /\ walk.spec.maxSteps \in Nat
    BY <1>1, WalkAssumption DEF WalkTyped, Walkings
  <2>2. Spent => walk.visited >= walk.spec.maxSteps
    BY DEF Spent
  <2> QED BY <1>1, <1>2, <2>1, <2>2, Bounded
<1>7. Ended(walk)'
  BY <1>1, <1>2, <1>4, <1>5, <1>6 DEF Ended, Moved, Counts
<1>8. Where(walk)' /\ StateTold(walk)'
  BY <1>1, <1>4, <1>5, <1>7 DEF Where, Moved, StateTold
<1> QED BY <1>1, <1>4, <1>5, <1>8 DEF WalkInv, Moved

LEMMA EnterKeeps == ASSUME WalkInv, Enter PROVE WalkInv'
<1>1. /\ WalkTyped(walk) /\ Retold(walk.spec, walk.records) /\ walk.cursor # Nowhere
      /\ \A id \in DOMAIN walk.spec.steps : walk.state[Output(id)] = LastSaid(walk.records, id)
      /\ Arrived(walk.spec, walk.records, walk.cursor) /\ Counts(walk, 0) /\ walk.status = "running"
  BY Between DEF Enter, WalkAt, WalkInv, Where
<1>2. PICK w : w = [walk EXCEPT !.visited = @ + 1]
  OBVIOUS
<1>3. walk.visited \in Nat /\ walk.spec.maxSteps \in Nat
  BY <1>1, WalkAssumption DEF WalkTyped, Walkings
<1>4. /\ WalkTyped(w) /\ w.visited = walk.visited + 1 /\ w.status = walk.status
      /\ w.spec = walk.spec /\ w.cursor = walk.cursor /\ w.state = walk.state /\ w.records = walk.records
  <2>1. walk.visited + 1 \in Nat
    BY <1>3
  <2> QED BY <1>1, <1>2, <2>1 DEF WalkTyped, Walkings
<1>5. w.visited <= w.spec.maxSteps
  <2>1. ~(walk.visited >= walk.spec.maxSteps)
    BY DEF Enter, Spent
  <2> QED BY <1>3, <1>4, <2>1
<1>6. Counts(w, 1)
  <2>1. Cardinality(Visits(walk.records)) + 0 = walk.visited /\ Cardinality(Visits(walk.records)) \in Nat
    <3>1. walk.records \in Seq(Records)
      BY <1>1 DEF WalkTyped, Walkings
    <3> QED BY <1>1, <3>1, VisitsCounted DEF Counts
  <2> QED BY <1>4, <2>1 DEF Counts
<1>7. Core(w)
  BY <1>1, <1>4, <1>5, <1>6 DEF Core
<1>8. Moved(walk', w, "gate") \/ WalkInv'
  BY <1>2, <1>7, TellingOn DEF Enter, Stations
<1>9. ASSUME Moved(walk', w, "gate") PROVE WalkInv'
  <2>1. Where(walk)'
    BY <1>1, <1>4, <1>6, <1>9 DEF Where, Moved, Counts
  <2> QED BY <1>7, <1>9, <2>1 DEF WalkInv, Moved, Core, StateTold
<1> QED BY <1>8, <1>9

LEMMA AtStep ==
  ASSUME WalkTyped(walk), walk.cursor # Nowhere
  PROVE  /\ Current = walk.spec.steps[walk.cursor] /\ walk.cursor \in DOMAIN walk.spec.steps /\ walk.cursor \in Steps
         /\ walk.spec \in Specs /\ Current.retries \in Nat /\ DOMAIN Current.routes \subseteq Nat
         /\ Current.next \in DOMAIN walk.spec.steps \cup {Nowhere} /\ Current.onError \in DOMAIN walk.spec.steps \cup {Nowhere}
         /\ \A i \in DOMAIN Current.routes : Current.routes[i].goto \in DOMAIN walk.spec.steps \cup {Nowhere}
         /\ walk.records \in Seq(Records) /\ walk.attempt \in Nat /\ walk.visited \in Nat /\ walk.result \in Answers
<1>1. walk.cursor \in DOMAIN walk.spec.steps /\ walk.spec \in Specs
  BY DEF WalkTyped, Walkings
<1>2. /\ walk.records \in Seq(Records) /\ walk.attempt \in Nat /\ walk.visited \in Nat /\ walk.result \in Answers
  BY DEF WalkTyped, Walkings
<1>3. walk.cursor \in Steps
  BY <1>1 DEF Steps
<1>4. /\ Current.retries \in Nat /\ DOMAIN Current.routes \subseteq Nat
      /\ Edges(Current) \subseteq DOMAIN walk.spec.steps \cup {Nowhere}
  BY <1>1, WalkAssumption DEF Current
<1> QED BY <1>1, <1>2, <1>3, <1>4 DEF Current, Edges

LEMMA SkipKeeps == ASSUME WalkInv, Skip PROVE WalkInv'
<1>1. /\ WalkTyped(walk) /\ Retold(walk.spec, walk.records) /\ walk.cursor # Nowhere /\ walk.visited <= walk.spec.maxSteps
      /\ \A id \in DOMAIN walk.spec.steps : walk.state[Output(id)] = LastSaid(walk.records, id)
      /\ Arrived(walk.spec, walk.records, walk.cursor) /\ Counts(walk, 1) /\ walk.status = "running"
  BY Between DEF Skip, WalkAt, WalkInv, Where
<1>2. PICK r, U, w : /\ r = RecordOf(0, "gate_skipped", Missing) /\ U = Append(walk.records, r)
                     /\ w = [walk EXCEPT !.records = Append(@, r), !.cursor = AfterSkip(Current)]
  OBVIOUS
<1>3. /\ Current = walk.spec.steps[walk.cursor] /\ walk.cursor \in Steps /\ walk.spec \in Specs
      /\ Current.next \in DOMAIN walk.spec.steps \cup {Nowhere} /\ walk.records \in Seq(Records) /\ walk.visited \in Nat
  BY <1>1, AtStep
<1>4. /\ r \in Records /\ r.step = walk.cursor /\ r.status = "gate_skipped" /\ r.attempt = 0 /\ r.output = Missing
  BY <1>2, <1>3 DEF RecordOf, Records, Answers
<1>5. /\ WalkTyped(w) /\ w.cursor = Current.next /\ w.records = U /\ w.status = walk.status
      /\ w.spec = walk.spec /\ w.visited = walk.visited /\ w.state = walk.state
  <2>1. U \in Seq(Records)
    BY <1>2, <1>3, <1>4
  <2>2. Current.next \in Steps \cup {Nowhere}
    BY <1>3 DEF Steps
  <2> QED BY <1>1, <1>2, <1>3, <2>1, <2>2 DEF WalkTyped, Walkings, AfterSkip
<1>6. Opens(r)
  BY <1>4 DEF Opens
<1>7. Retold(walk.spec, U)
  BY <1>1, <1>2, <1>3, <1>4, <1>6, RetoldOn
<1>8. Counts(w, 0)
  <2>1. Cardinality(Visits(U)) = Cardinality(Visits(walk.records)) + 1 /\ Cardinality(Visits(walk.records)) \in Nat
    BY <1>2, <1>3, <1>4, <1>6, VisitsAdded
  <2>2. Cardinality(Visits(walk.records)) + 1 = walk.visited
    BY <1>1 DEF Counts
  <2> QED BY <1>3, <1>5, <2>1, <2>2 DEF Counts
<1>9. \A id : LastSaid(U, id) = LastSaid(walk.records, id)
  BY <1>2, <1>3, <1>4, SaidOn
<1>10. Core(w)
  BY <1>1, <1>5, <1>7, <1>8, <1>9 DEF Core
<1>11. Arrived(walk.spec, U, Current.next)
  <2>1. U # <<>> /\ U[Len(U)] = r
    <3>1. Len(U) = Len(walk.records) + 1 /\ U[Len(walk.records) + 1] = r /\ Len(walk.records) \in Nat
      BY <1>2, <1>3, <1>4
    <3>2. Len(U) # 0
      BY <3>1
    <3>3. Len(<<>>) = 0
      OBVIOUS
    <3> QED BY <3>1, <3>2, <3>3
  <2>2. LeadsTo(walk.spec.steps[r.step], r, Current.next)
    BY <1>3, <1>4 DEF LeadsTo
  <2> QED BY <2>1, <2>2 DEF Arrived
<1>12. Moved(walk', w, "next") \/ WalkInv'
  BY <1>2, <1>10, TellingOn DEF Skip, Stations
<1>13. ASSUME Moved(walk', w, "next") PROVE WalkInv'
  <2>1. Where(walk)'
    BY <1>1, <1>5, <1>8, <1>11, <1>13 DEF Where, Moved, Counts
  <2> QED BY <1>10, <1>13, <2>1 DEF WalkInv, Moved, Core, StateTold
<1> QED BY <1>12, <1>13

LEMMA BeginKeeps == ASSUME WalkInv, Begin PROVE WalkInv'
<1>1. /\ WalkTyped(walk) /\ Retold(walk.spec, walk.records) /\ walk.cursor # Nowhere /\ walk.visited <= walk.spec.maxSteps
      /\ \A id \in DOMAIN walk.spec.steps : walk.state[Output(id)] = LastSaid(walk.records, id)
      /\ Arrived(walk.spec, walk.records, walk.cursor) /\ Counts(walk, 1) /\ walk.status = "running"
  BY Between DEF Begin, WalkAt, WalkInv, Where
<1>2. PICK w : w = [walk EXCEPT !.attempt = 1]
  OBVIOUS
<1>3. /\ WalkTyped(w) /\ w.cursor = walk.cursor /\ w.records = walk.records /\ w.status = walk.status /\ w.attempt = 1
      /\ w.spec = walk.spec /\ w.visited = walk.visited /\ w.state = walk.state
  BY <1>1, <1>2 DEF WalkTyped, Walkings
<1>4. Moved(walk', w, "attempt")
  BY <1>2, <1>3, WalksOn DEF Begin, Stations
<1>5. 1 <= Limit(walk)
  <2>1. walk.spec.steps[walk.cursor].retries \in Nat
    BY <1>1, AtStep
  <2> QED BY <2>1 DEF Limit
<1>6. Trying(walk)'
  BY <1>1, <1>3, <1>4, <1>5 DEF Trying, Moved, Limit, Counts
<1>7. Where(walk)'
  BY <1>1, <1>3, <1>4, <1>6 DEF Where, Moved
<1> QED BY <1>1, <1>3, <1>4, <1>7 DEF WalkInv, Moved, StateTold

(* The record an attempt leaves, whatever came of it.                      *)
AttemptLeft(output, r, U) ==
  /\ r \in Records /\ U \in Seq(Records) /\ U # <<>> /\ U[Len(U)] = r
  /\ Retold(walk.spec, U) /\ Cardinality(Visits(U)) + 0 = walk.visited
  /\ \A id : id # walk.cursor \/ output = Missing => LastSaid(U, id) = LastSaid(walk.records, id)
  /\ output # Missing => LastSaid(U, walk.cursor) = output

LEMMA AttemptTold ==
  ASSUME WalkInv, walk.pc \in {"attempt", "turn"}, NEW status \in {"ok", "error"}, NEW output \in Answers
  PROVE  LET r == RecordOf(walk.attempt, status, output) IN AttemptLeft(output, r, Append(walk.records, r))
<1>a. PICK r, U : r = RecordOf(walk.attempt, status, output) /\ U = Append(walk.records, r)
  OBVIOUS
<1>1. /\ WalkTyped(walk) /\ Retold(walk.spec, walk.records) /\ Trying(walk) /\ walk.cursor # Nowhere
  BY DEF WalkInv, Where, Trying
<1>2. /\ Current = walk.spec.steps[walk.cursor] /\ walk.cursor \in Steps /\ walk.records \in Seq(Records)
      /\ walk.visited \in Nat /\ walk.attempt \in Nat /\ Current.retries \in Nat
  BY <1>1, AtStep
<1>3. /\ r \in Records /\ r.step = walk.cursor /\ r.status = status /\ r.attempt = walk.attempt /\ r.output = output
  BY <1>2, <1>a DEF RecordOf, Records
<1>4. Opens(r) <=> walk.attempt = 1
  BY <1>3 DEF Opens
<1>5. U \in Seq(Records) /\ U # <<>> /\ U[Len(U)] = r
  <2>1. U \in Seq(Records) /\ Len(U) = Len(walk.records) + 1 /\ U[Len(walk.records) + 1] = r /\ Len(walk.records) \in Nat
    BY <1>2, <1>3, <1>a
  <2>2. Len(U) # 0
    BY <2>1
  <2>3. Len(<<>>) = 0
    OBVIOUS
  <2> QED BY <2>1, <2>2, <2>3
<1>6. Cardinality(Visits(U)) = Cardinality(Visits(walk.records)) + (IF Opens(r) THEN 1 ELSE 0) /\ Cardinality(Visits(walk.records)) \in Nat
  BY <1>2, <1>3, <1>a, VisitsAdded
<1>9. /\ \A id : id # walk.cursor \/ output = Missing => LastSaid(U, id) = LastSaid(walk.records, id)
      /\ output # Missing => LastSaid(U, walk.cursor) = output
  BY <1>2, <1>3, <1>a, SaidOn
<1> SUFFICES AttemptLeft(output, r, U)
  BY <1>a
<1>7. CASE walk.attempt = 1
  <2>1. Arrived(walk.spec, walk.records, walk.cursor) /\ Cardinality(Visits(walk.records)) + 1 = walk.visited
    BY <1>1, <1>7 DEF Trying, Counts
  <2>2. Retold(walk.spec, U)
    BY <1>1, <1>2, <1>3, <1>4, <1>7, <1>a, <2>1, RetoldOn
  <2>3. Cardinality(Visits(U)) + 0 = walk.visited
    BY <1>2, <1>4, <1>6, <1>7, <2>1
  <2> QED BY <1>2, <1>3, <1>5, <1>9, <2>2, <2>3 DEF AttemptLeft
<1>8. CASE walk.attempt # 1
  <2>1. LastIs(walk, "error", walk.attempt - 1) /\ Cardinality(Visits(walk.records)) + 0 = walk.visited /\ walk.attempt <= Limit(walk)
    BY <1>1, <1>8 DEF Trying, Counts
  <2>2. walk.records # <<>> /\ Retried(walk.spec, walk.records[Len(walk.records)], r)
    <3>1. walk.attempt = (walk.attempt - 1) + 1
      BY <1>2
    <3> QED BY <1>2, <1>3, <2>1, <3>1 DEF LastIs, Retried, Limit
  <2>3. Retold(walk.spec, U)
    BY <1>1, <1>2, <1>3, <1>4, <1>8, <1>a, <2>2, RetoldOn
  <2>4. Cardinality(Visits(U)) + 0 = walk.visited
    BY <1>2, <1>4, <1>6, <1>8, <2>1
  <2> QED BY <1>2, <1>3, <1>5, <1>9, <2>3, <2>4 DEF AttemptLeft
<1> QED BY <1>7, <1>8

LEMMA ReturnsKeeps ==
  ASSUME WalkInv, walk.pc \in {"attempt", "turn"}, NEW output \in Answers, Returns(output)
  PROVE  WalkInv'
<1>1. /\ WalkTyped(walk) /\ Trying(walk) /\ walk.cursor # Nowhere /\ walk.visited <= walk.spec.maxSteps
      /\ walk.status = "running" /\ \A id \in DOMAIN walk.spec.steps : walk.state[Output(id)] = LastSaid(walk.records, id)
  BY Between DEF WalkInv, Where, Trying
<1>2. PICK r, U, w : /\ r = RecordOf(walk.attempt, "ok", output) /\ U = Append(walk.records, r)
                     /\ w = [walk EXCEPT !.records = Append(@, r), !.result = output]
  OBVIOUS
<1>3. /\ r \in Records /\ U \in Seq(Records) /\ U # <<>> /\ U[Len(U)] = r
      /\ Retold(walk.spec, U) /\ Cardinality(Visits(U)) + 0 = walk.visited
      /\ \A id : id # walk.cursor \/ output = Missing => LastSaid(U, id) = LastSaid(walk.records, id)
      /\ output # Missing => LastSaid(U, walk.cursor) = output
  <2>1. AttemptLeft(output, r, U)
    BY <1>2, AttemptTold
  <2> QED BY <2>1 DEF AttemptLeft
<1>4. /\ WalkTyped(w) /\ w.cursor = walk.cursor /\ w.records = U /\ w.status = walk.status /\ w.result = output
      /\ w.spec = walk.spec /\ w.visited = walk.visited /\ w.state = walk.state
  BY <1>1, <1>2, <1>3 DEF WalkTyped, Walkings
<1>5. Moved(walk', w, "returned")
  BY <1>2, <1>4, WalksOn DEF Returns, Stations
<1>6. LastIs(walk, "ok", r.attempt)' /\ r.attempt \in Nat
  <2>1. r.step = walk.cursor /\ r.status = "ok" /\ r.attempt \in Nat
    BY <1>2, <1>3 DEF RecordOf, Records
  <2> QED BY <1>3, <1>4, <1>5, <2>1 DEF LastIs, Moved
<1>7. Where(walk)'
  BY <1>1, <1>3, <1>4, <1>5, <1>6 DEF Where, Moved, Counts
<1>8. StateTold(walk)'
  BY <1>1, <1>3, <1>4, <1>5 DEF StateTold, Moved
<1> QED BY <1>1, <1>3, <1>4, <1>5, <1>7, <1>8 DEF WalkInv, Moved

LEMMA ErrsKeeps ==
  ASSUME WalkInv, walk.pc \in {"attempt", "turn"}, NEW state \in Mutated, Errs(state)
  PROVE  WalkInv'
<1>1. /\ WalkTyped(walk) /\ Trying(walk) /\ walk.cursor # Nowhere /\ walk.visited <= walk.spec.maxSteps
      /\ walk.status = "running" /\ \A id \in DOMAIN walk.spec.steps : walk.state[Output(id)] = LastSaid(walk.records, id)
  BY Between DEF WalkInv, Where, Trying
<1>2. PICK r, U, w : /\ r = RecordOf(walk.attempt, "error", Missing) /\ U = Append(walk.records, r)
                     /\ w = [walk EXCEPT !.records = Append(@, r), !.state = state]
  OBVIOUS
<1>3. /\ r \in Records /\ U \in Seq(Records) /\ U # <<>> /\ U[Len(U)] = r
      /\ Retold(walk.spec, U) /\ Cardinality(Visits(U)) + 0 = walk.visited
      /\ \A id : LastSaid(U, id) = LastSaid(walk.records, id)
  <2>1. Missing \in Answers
    BY DEF Answers
  <2>2. AttemptLeft(Missing, r, U)
    BY <1>2, <2>1, AttemptTold
  <2> QED BY <2>2 DEF AttemptLeft
<1>4. /\ state \in StatesOf(walk.spec)
      /\ \A id \in DOMAIN walk.spec.steps : state[Output(id)] = walk.state[Output(id)]
  <2>1. walk.state \in StatesOf(walk.spec) /\ walk.spec \in Specs
    BY <1>1 DEF WalkTyped, Walkings
  <2>2. CASE state = walk.state
    BY <2>1, <2>2
  <2>3. ASSUME NEW k \in Vars, NEW v \in Values, state = [walk.state EXCEPT ![k] = v]
        PROVE  /\ state \in StatesOf(walk.spec)
               /\ \A id \in DOMAIN walk.spec.steps : state[Output(id)] = walk.state[Output(id)]
    <3>1. v \in Answers
      BY DEF Answers
    <3>2. \A id \in DOMAIN walk.spec.steps : Output(id) # k
      BY <2>1, WalkAssumption
    <3> QED BY <2>1, <2>3, <3>1, <3>2 DEF StatesOf, Outputs
  <2> QED BY <2>2, <2>3 DEF Mutated
<1>5. /\ WalkTyped(w) /\ w.cursor = walk.cursor /\ w.records = U /\ w.status = walk.status /\ w.attempt = walk.attempt
      /\ w.spec = walk.spec /\ w.visited = walk.visited /\ w.state = state
  BY <1>1, <1>2, <1>3, <1>4 DEF WalkTyped, Walkings
<1>6. LastIs(w, "error", walk.attempt) /\ Counts(w, 0)
  <2>1. r.step = walk.cursor /\ r.status = "error" /\ r.attempt = walk.attempt
    BY <1>2 DEF RecordOf
  <2> QED BY <1>3, <1>5, <2>1 DEF LastIs, Counts
<1>7. /\ Current = walk.spec.steps[walk.cursor] /\ walk.attempt \in Nat /\ Current.retries \in Nat
      /\ walk.attempt <= Current.retries + 1 /\ walk.attempt >= 1 /\ walk.attempt + 1 \in Nat
  <2>1. /\ Current = walk.spec.steps[walk.cursor] /\ walk.attempt \in Nat /\ Current.retries \in Nat
    BY <1>1, AtStep
  <2> QED BY <1>1, <2>1 DEF Trying, Limit
<1>8. CASE Retries(Current)
  <2>1. PICK v : v = [w EXCEPT !.attempt = @ + 1]
    OBVIOUS
  <2>2. /\ WalkTyped(v) /\ v.cursor = walk.cursor /\ v.records = U /\ v.status = walk.status /\ v.attempt = walk.attempt + 1
        /\ v.spec = walk.spec /\ v.visited = walk.visited /\ v.state = state
    BY <1>5, <1>7, <2>1 DEF WalkTyped, Walkings
  <2>3. LastIs(v, "error", v.attempt - 1) /\ Counts(v, 0)
    <3>1. v.attempt - 1 = walk.attempt
      BY <1>7, <2>2
    <3> QED BY <1>5, <1>6, <2>2, <3>1 DEF LastIs, Counts
  <2>4. Core(v)
    BY <1>1, <1>3, <1>4, <2>2, <2>3 DEF Core
  <2>5. Telling("tool.error", v, "attempt")
    BY <1>2, <1>8, <2>1 DEF Errs
  <2>6. Moved(walk', v, "attempt") \/ WalkInv'
    BY <2>4, <2>5, TellingOn DEF Stations
  <2>7. ASSUME Moved(walk', v, "attempt") PROVE WalkInv'
    <3>1. v.attempt >= 1 /\ v.attempt # 1 /\ v.attempt <= Current.retries + 1
      <4>1. walk.attempt <= Current.retries
        BY <1>8 DEF Retries
      <4> QED BY <1>7, <2>2, <4>1
    <3>2. Trying(walk)'
      BY <1>1, <1>7, <2>2, <2>3, <2>7, <3>1 DEF Trying, Moved, Limit, LastIs, Counts
    <3>3. Where(walk)'
      BY <1>1, <2>2, <2>7, <3>2 DEF Where, Moved
    <3> QED BY <2>4, <2>7, <3>3 DEF WalkInv, Moved, Core, StateTold
  <2> QED BY <2>6, <2>7
<1>9. CASE ~Retries(Current)
  <2>1. Core(w)
    BY <1>1, <1>3, <1>4, <1>5, <1>6 DEF Core
  <2>2. Telling("tool.error", w, "exhausted")
    BY <1>2, <1>9 DEF Errs
  <2>3. Moved(walk', w, "exhausted") \/ WalkInv'
    BY <2>1, <2>2, TellingOn DEF Stations
  <2>4. ASSUME Moved(walk', w, "exhausted") PROVE WalkInv'
    <3>1. walk.attempt = Current.retries + 1
      <4>1. ~(walk.attempt <= Current.retries)
        BY <1>9 DEF Retries
      <4> QED BY <1>7, <4>1
    <3>2. LastIs(walk, "error", Limit(walk))' /\ Counts(walk, 0)'
      BY <1>5, <1>6, <1>7, <2>4, <3>1 DEF LastIs, Moved, Limit, Counts
    <3>3. Where(walk)'
      BY <1>1, <1>5, <2>4, <3>2 DEF Where, Moved
    <3> QED BY <2>1, <2>4, <3>3 DEF WalkInv, Moved, Core, StateTold
  <2> QED BY <2>3, <2>4
<1> QED BY <1>8, <1>9

(* What a returned value makes of the state.                               *)
LEMMA KindsOfAnswer ==
  Missing.type # "dict" /\ \A k, v : Dict(k, v).key = k /\ Dict(k, v).value = v
BY DEF Missing, Dict

LEMMA CoercedState ==
  ASSUME WalkTyped(walk), walk.cursor # Nowhere, NEW state, state = Coerced(walk)
  PROVE  /\ state \in StatesOf(walk.spec)
         /\ \A id \in DOMAIN walk.spec.steps :
              state[Output(id)] = IF id = walk.cursor /\ walk.result # Missing THEN walk.result ELSE walk.state[Output(id)]
<1>1. /\ walk.state \in StatesOf(walk.spec) /\ walk.spec \in Specs /\ walk.cursor \in DOMAIN walk.spec.steps
      /\ walk.result \in Answers
  BY DEF WalkTyped, Walkings
<1>2. PICK merged : merged = IF walk.result.type = "dict" THEN [walk.state EXCEPT ![walk.result.key] = walk.result.value]
                                                          ELSE walk.state
  OBVIOUS
<1>3. /\ merged \in StatesOf(walk.spec)
      /\ \A id \in DOMAIN walk.spec.steps : merged[Output(id)] = walk.state[Output(id)]
  <2>1. CASE walk.result.type = "dict"
    <3>0. \A v \in Values : v.type # "dict"
      BY WalkAssumption
    <3>1. walk.result \notin Values \cup {Missing}
      BY <2>1, <3>0, KindsOfAnswer
    <3>2. PICK k \in Vars, v \in Values : walk.result = Dict(k, v)
      BY <1>1, <3>1 DEF Answers
    <3>6. walk.result.key = k /\ walk.result.value = v
      BY <3>2, KindsOfAnswer
    <3>3. merged = [walk.state EXCEPT ![k] = v]
      BY <1>2, <2>1, <3>6
    <3>4. v \in Answers
      BY DEF Answers
    <3>5. \A id \in DOMAIN walk.spec.steps : Output(id) # k
      BY <1>1, WalkAssumption
    <3> QED BY <1>1, <3>3, <3>4, <3>5 DEF StatesOf, Outputs
  <2>2. CASE walk.result.type # "dict"
    BY <1>1, <1>2, <2>2
  <2> QED BY <2>1, <2>2
<1>4. state = IF walk.result = Missing THEN merged ELSE [merged EXCEPT ![Output(walk.cursor)] = walk.result]
  BY <1>2 DEF Coerced
<1>5. CASE walk.result = Missing
  BY <1>3, <1>4, <1>5
<1>6. CASE walk.result # Missing
  <2>1. Output(walk.cursor) \in Vars \cup Outputs(walk.spec)
    BY <1>1 DEF Outputs
  <2>2. \A id \in DOMAIN walk.spec.steps : Output(id) = Output(walk.cursor) => id = walk.cursor
    BY <1>1, WalkAssumption
  <2>3. \A id \in DOMAIN walk.spec.steps : Output(id) \in Vars \cup Outputs(walk.spec)
    BY DEF Outputs
  <2>4. state = [merged EXCEPT ![Output(walk.cursor)] = walk.result]
    BY <1>4, <1>6
  <2>5. state \in StatesOf(walk.spec)
    BY <1>1, <1>3, <2>1, <2>4 DEF StatesOf
  <2>6. ASSUME NEW id \in DOMAIN walk.spec.steps
        PROVE  state[Output(id)] = IF id = walk.cursor THEN walk.result ELSE walk.state[Output(id)]
    BY <1>3, <2>1, <2>2, <2>3, <2>4 DEF StatesOf
  <2> QED BY <1>6, <2>5, <2>6
<1> QED BY <1>5, <1>6

LEMMA SucceedKeeps == ASSUME WalkInv, Succeed PROVE WalkInv'
<1>1. /\ WalkTyped(walk) /\ Retold(walk.spec, walk.records) /\ walk.cursor # Nowhere /\ walk.visited <= walk.spec.maxSteps
      /\ walk.status = "running" /\ StateTold(walk) /\ Counts(walk, 0) /\ walk.pc = "returned"
      /\ LastSaid(walk.records, walk.cursor) = walk.result \/ walk.result = Missing
  BY DEF Succeed, WalkAt, WalkInv, Where
<1>2. PICK n \in Nat : LastIs(walk, "ok", n)
  BY DEF Succeed, WalkAt, WalkInv, Where
<1>3. PICK state, w : /\ state = Coerced(walk)
                      /\ w = [walk EXCEPT !.state = state, !.result = Missing, !.attempt = 0,
                                          !.cursor = Successor(Current, state)]
  OBVIOUS
<1>4. /\ Current = walk.spec.steps[walk.cursor] /\ walk.spec \in Specs /\ DOMAIN Current.routes \subseteq Nat
      /\ Current.next \in DOMAIN walk.spec.steps \cup {Nowhere}
      /\ \A i \in DOMAIN Current.routes : Current.routes[i].goto \in DOMAIN walk.spec.steps \cup {Nowhere}
  BY <1>1, AtStep
<1>5. PICK to : to = Successor(Current, state) /\ to \in {Current.next} \cup {Current.routes[i].goto : i \in DOMAIN Current.routes}
  BY <1>4, SuccessorEdge
<1>6. to \in DOMAIN walk.spec.steps \cup {Nowhere} /\ to \in Steps \cup {Nowhere}
  BY SMTT(30), <1>4, <1>5 DEF Steps
<1>7. /\ state \in StatesOf(walk.spec)
      /\ \A id \in DOMAIN walk.spec.steps :
           state[Output(id)] = IF id = walk.cursor /\ walk.result # Missing THEN walk.result ELSE walk.state[Output(id)]
  BY <1>1, <1>3, CoercedState
<1>8. \A id \in DOMAIN walk.spec.steps : state[Output(id)] = LastSaid(walk.records, id)
  BY <1>1, <1>7 DEF StateTold
<1>9. /\ WalkTyped(w) /\ w.cursor = to /\ w.records = walk.records /\ w.status = walk.status
      /\ w.spec = walk.spec /\ w.visited = walk.visited /\ w.state = state
  <2>1. Missing \in Answers
    BY DEF Answers
  <2>2. w = [walk EXCEPT !.state = state, !.result = Missing, !.attempt = 0, !.cursor = to]
    BY <1>3, <1>5
  <2> QED BY ZenonT(30), <1>1, <1>4, <1>6, <1>7, <2>1, <2>2 DEF WalkTyped, Walkings
<1>10. Core(w)
  BY <1>1, <1>8, <1>9 DEF Core, Counts
<1>11. Arrived(walk.spec, walk.records, to)
  BY <1>2, <1>4, <1>5 DEF Arrived, LastIs, LeadsTo
<1>12. Moved(walk', w, "next") \/ WalkInv'
  BY <1>3, <1>10, TellingOn DEF Succeed, Stations
<1>13. ASSUME Moved(walk', w, "next") PROVE WalkInv'
  <2>1. Where(walk)'
    BY <1>1, <1>9, <1>11, <1>13 DEF Where, Moved, Counts
  <2> QED BY <1>10, <1>13, <2>1 DEF WalkInv, Moved, Core, StateTold
<1> QED BY <1>12, <1>13

LEMMA GiveUpKeeps == ASSUME WalkInv, GiveUp PROVE WalkInv'
<1>1. /\ WalkTyped(walk) /\ Retold(walk.spec, walk.records) /\ walk.cursor # Nowhere /\ walk.visited <= walk.spec.maxSteps
      /\ \A id \in DOMAIN walk.spec.steps : walk.state[Output(id)] = LastSaid(walk.records, id)
      /\ walk.status = "running" /\ Counts(walk, 0) /\ LastIs(walk, "error", Limit(walk))
  BY Between DEF GiveUp, WalkAt, WalkInv, Where
<1>2. /\ Current = walk.spec.steps[walk.cursor] /\ walk.spec \in Specs
      /\ Current.onError \in DOMAIN walk.spec.steps \cup {Nowhere}
  BY <1>1, AtStep
<1>3. CASE Current.onError # Nowhere /\ Telling("progress", [walk EXCEPT !.cursor = Current.onError, !.attempt = 0], "next")
  <2>1. PICK w : w = [walk EXCEPT !.cursor = Current.onError, !.attempt = 0]
    OBVIOUS
  <2>2. Current.onError \in Steps
    BY <1>2, <1>3 DEF Steps
  <2>3. /\ WalkTyped(w) /\ w.cursor = Current.onError /\ w.records = walk.records /\ w.status = walk.status
        /\ w.spec = walk.spec /\ w.visited = walk.visited /\ w.state = walk.state
    BY <1>1, <1>2, <2>1, <2>2 DEF WalkTyped, Walkings
  <2>4. Core(w)
    BY <1>1, <2>3 DEF Core, Counts
  <2>5. Arrived(walk.spec, walk.records, Current.onError)
    BY <1>1, <1>2 DEF Arrived, LastIs, LeadsTo, Limit
  <2>6. Moved(walk', w, "next") \/ WalkInv'
    BY <1>3, <2>1, <2>4, TellingOn DEF Stations
  <2>7. ASSUME Moved(walk', w, "next") PROVE WalkInv'
    <3>1. Where(walk)'
      BY <1>1, <2>3, <2>5, <2>7 DEF Where, Moved, Counts
    <3> QED BY <2>4, <2>7, <3>1 DEF WalkInv, Moved, Core, StateTold
  <2> QED BY <2>6, <2>7
<1>4. CASE Current.onError = Nowhere /\ Walks([walk EXCEPT !.status = "failed"], "end")
  <2>1. PICK w : w = [walk EXCEPT !.status = "failed"]
    OBVIOUS
  <2>2. /\ WalkTyped(w) /\ w.cursor = walk.cursor /\ w.records = walk.records /\ w.status = "failed"
        /\ w.spec = walk.spec /\ w.visited = walk.visited /\ w.state = walk.state
    BY <1>1, <2>1 DEF WalkTyped, Walkings
  <2>3. Moved(walk', w, "end")
    BY <1>4, <2>1, <2>2, WalksOn DEF Stations
  <2>4. Ended(walk)'
    BY <1>1, <1>2, <1>4, <2>2, <2>3 DEF Ended, Moved, LastIs, Limit, Counts
  <2>5. Where(walk)' /\ StateTold(walk)'
    BY <1>1, <2>2, <2>3, <2>4 DEF Where, Moved, StateTold
  <2> QED BY <1>1, <2>2, <2>3, <2>5 DEF WalkInv, Moved
<1> QED BY <1>3, <1>4 DEF GiveUp

LEMMA CallKeeps == ASSUME WalkInv, CallAgent PROVE WalkInv'
<1>1. /\ WalkTyped(walk) /\ Retold(walk.spec, walk.records) /\ walk.visited <= walk.spec.maxSteps /\ walk.status = "running"
      /\ \A id \in DOMAIN walk.spec.steps : walk.state[Output(id)] = LastSaid(walk.records, id)
      /\ Trying(walk)
  BY Between DEF CallAgent, WalkAt, WalkInv, Where
<1>2. Moved(walk', walk, "turn")
  BY <1>1, WalksOn DEF CallAgent, Stations
<1>3. Trying(walk)'
  BY <1>1, <1>2 DEF Trying, Moved, Limit, LastIs, Counts
<1>4. Where(walk)'
  BY <1>1, <1>2, <1>3 DEF Where, Moved
<1> QED BY <1>1, <1>2, <1>4 DEF WalkInv, Moved, StateTold

LEMMA WalkNext == ASSUME WalkInv, [SessionNext]_session PROVE WalkInv'
<1>1. CASE UNCHANGED walk
  BY <1>1 DEF WalkInv
<1>2. walk.state \in Mutated /\ \A v \in Values : v \in Answers
  BY DEF Mutated, Answers
<1>3. CASE WalkStep
  <2>1. CASE RunnerErrs
    BY <1>2, <2>1, ErrsKeeps DEF RunnerErrs, WalkAt
  <2>2. CASE RunnerReturns
    BY <2>2, ReturnsKeeps DEF RunnerReturns, WalkAt
  <2> QED BY <1>3, <2>1, <2>2, StopKeeps, EnterKeeps, SkipKeeps, BeginKeeps, SucceedKeeps, GiveUpKeeps DEF WalkStep
<1>4. CASE TurnFails
  BY <1>2, <1>4, ErrsKeeps DEF TurnFails, Answering, WalkAt
<1>5. CASE TurnAnswers
  BY <1>2, <1>5, ReturnsKeeps DEF TurnAnswers, Answering, WalkAt
<1>6. CASE CallAgent
  BY <1>6, CallKeeps
<1> QED BY <1>1, <1>3, <1>4, <1>5, <1>6 DEF SessionNext, ThreadStep, TurnStep, Consume, session

LEMMA WalkStarts == SessionInit => WalkInv
<1> SUFFICES ASSUME SessionInit PROVE WalkInv
  OBVIOUS
<1>1. PICK spec \in Specs : walk = StartWalk(spec)
  BY DEF SessionInit
<1>2. /\ walk.spec = spec /\ walk.pc = "next" /\ walk.cursor = spec.start /\ walk.visited = 0 /\ walk.attempt = 0
      /\ walk.state = [k \in Vars \cup Outputs(spec) |-> Missing] /\ walk.records = <<>> /\ walk.result = Missing
      /\ walk.status = "running"
  BY <1>1 DEF StartWalk
<1>3. /\ spec.start \in DOMAIN spec.steps /\ spec.start \in Steps /\ spec.maxSteps \in Nat /\ Missing \in Answers
  BY WalkAssumption DEF Steps, Answers
<1>4. walk.state \in StatesOf(spec)
  BY <1>2, <1>3 DEF StatesOf
<1>5. WalkTyped(walk)
  <2>1. <<>> \in Seq(Records)
    OBVIOUS
  <2> QED BY <1>1, <1>3, <1>4, <2>1 DEF WalkTyped, Walkings, StartWalk
<1>6. DOMAIN <<>> = {}
  OBVIOUS
<1>7. Retold(walk.spec, walk.records) /\ Visits(walk.records) = {} /\ \A id : Said(walk.records, id) = {}
  BY <1>2, <1>6 DEF Retold, Visits, Said
<1>8. Counts(walk, 0)
  <2>1. Cardinality(Visits(walk.records)) = 0
    BY <1>7, FS_EmptySet
  <2> QED BY <1>2, <2>1 DEF Counts
<1>9. StateTold(walk)
  BY <1>2, <1>7 DEF StateTold, LastSaid, Outputs
<1>10. Where(walk)
  BY <1>2, <1>8 DEF Where, Arrived
<1> QED BY <1>2, <1>3, <1>5, <1>7, <1>9, <1>10 DEF WalkInv

(* InOrder, for any workflow, model, tools and consumer: of one emitter the *)
(* consumer takes seq after seq, one left out only for the progress of a   *)
(* running tool, and no tool is heard to start before the last one was     *)
(* heard to end, however often the queue was full.                         *)
THEOREM EventsInOrder == SessionSpec => InOrder
<1>1. SessionInit => StreamInv /\ TurnInv /\ WalkInv
  BY StreamStarts, TurnStarts, WalkStarts
<1>2. StreamInv /\ TurnInv /\ WalkInv /\ [SessionNext]_session => StreamInv' /\ TurnInv' /\ WalkInv'
  <2>1. WalkInv => "pc" \in DOMAIN walk
    BY DEF WalkInv, WalkTyped, Walkings
  <2> QED BY <2>1, StreamNext, TurnNext, WalkNext DEF TurnInv
<1>3. ASSUME StreamInv, [SessionNext]_session
      PROVE  [\A s \in Sources : LET last == seen[s]  next == seen'[s] IN
                next # last /\ next.emitter = last.emitter =>
                  /\ \/ next.seq = last.seq + 1
                     \/ /\ next.seq = last.seq + 2
                        /\ last.kind = "tool.start" /\ next.kind \in {"tool.end", "tool.error"}
                  /\ last.kind = "tool.start" => next.kind # "tool.start"
                  /\ next.kind = "tool.end" => last.kind \in {"tool.start", "progress"}]_stream
  <2> SUFFICES ASSUME NEW s \in Sources, seen'[s] # seen[s], seen'[s].emitter = seen[s].emitter
               PROVE  /\ \/ seen'[s].seq = seen[s].seq + 1
                         \/ /\ seen'[s].seq = seen[s].seq + 2
                            /\ seen[s].kind = "tool.start" /\ seen'[s].kind \in {"tool.end", "tool.error"}
                      /\ seen[s].kind = "tool.start" => seen'[s].kind # "tool.start"
                      /\ seen'[s].kind = "tool.end" => seen[s].kind \in {"tool.start", "progress"}
    OBVIOUS
  <2>1. Drain
    BY <1>3, OnlyDrained
  <2>2. StreamTyped /\ \A r \in Sources : Tells(r)
    BY <1>3 DEF StreamInv
  <2>3. StreamTyped' /\ Later(seen[s], seen'[s]) /\ Follows(seen[s], seen'[s])
    BY <2>1, <2>2, DrainTells
  <2>4. seen[s].seq \in Int /\ seen'[s].seq \in Int /\ seen[s].emitter \in Nat
    BY <2>2, <2>3 DEF StreamTyped
  <2> QED BY <2>3, <2>4 DEF Follows, Succeeds
<1> QED BY <1>1, <1>2, <1>3, PTL DEF SessionSpec, InOrder

LEMMA WalkRetells == ASSUME WalkInv PROVE Audit
<1>1. /\ WalkTyped(walk) /\ Retold(walk.spec, walk.records) /\ StateTold(walk) /\ Where(walk)
      /\ walk.spec \in Specs /\ walk.records \in Seq(Records) /\ walk.visited \in Nat
      /\ walk.pc \in Stations /\ walk.status \in {"running", "completed", "failed", "halted", "raised"}
  BY DEF WalkInv, WalkTyped, Walkings, Stations
<1>2. OutputsTellRecords
  BY <1>1 DEF OutputsTellRecords, StateTold, LastSaid, Said, WalkAt
<1> DEFINE opens(r) == r.attempt = IF r.status = "gate_skipped" THEN 0 ELSE 1
           visits == {i \in DOMAIN walk.records : opens(walk.records[i])}
<1>3. Visits(walk.records) = visits
  BY DEF Visits, Opens
<1>4. Counts(walk, 0) \/ Counts(walk, 1)
  BY <1>1 DEF Where, Ended, Trying, Stations
<1>5. Cardinality(visits) \in {walk.visited, walk.visited - 1}
  <2>1. Cardinality(Visits(walk.records)) \in Nat
    BY <1>1, VisitsCounted
  <2>2. Cardinality(Visits(walk.records)) \in {walk.visited, walk.visited - 1}
    BY <1>1, <1>4, <2>1 DEF Counts
  <2> QED BY <1>3, <2>2
<1>6. Last(walk.records) = walk.records[Len(walk.records)]
  BY DEF Last
<1>7. walk.status = "completed" => LeadsTo(walk.spec.steps[Last(walk.records).step], Last(walk.records), Nowhere)
  <2> SUFFICES ASSUME walk.status = "completed" PROVE Arrived(walk.spec, walk.records, Nowhere) /\ walk.records # <<>>
    BY <1>6 DEF Arrived
  <2>1. Arrived(walk.spec, walk.records, Nowhere)
    BY <1>1 DEF Where, Ended
  <2>2. walk.spec.start # Nowhere
    BY <1>1, WalkAssumption
  <2> QED BY <2>1, <2>2 DEF Arrived
<1>8. walk.status = "failed" =>
        Last(walk.records).status = "error" /\ LeadsTo(walk.spec.steps[Last(walk.records).step], Last(walk.records), Nowhere)
  <2> SUFFICES ASSUME walk.status = "failed"
               PROVE  Last(walk.records).status = "error" /\ LeadsTo(walk.spec.steps[Last(walk.records).step], Last(walk.records), Nowhere)
    OBVIOUS
  <2>1. LastIs(walk, "error", Limit(walk)) /\ walk.spec.steps[walk.cursor].onError = Nowhere
    BY <1>1 DEF Where, Ended
  <2> QED BY <1>6, <2>1 DEF LastIs, Limit, LeadsTo
<1>9. walk.status = "halted" => walk.visited = Cardinality(visits) /\ walk.visited = walk.spec.maxSteps
  <2> SUFFICES ASSUME walk.status = "halted"
               PROVE  walk.visited = Cardinality(Visits(walk.records)) /\ walk.visited = walk.spec.maxSteps
    BY <1>3
  <2>1. Counts(walk, 0) /\ walk.visited = walk.spec.maxSteps
    BY <1>1 DEF Where, Ended
  <2>2. Cardinality(Visits(walk.records)) \in Nat
    BY <1>1, VisitsCounted
  <2> QED BY <2>1, <2>2 DEF Counts
<1>10. \A i \in DOMAIN walk.records :
         IF i \in visits
         THEN IF i = 1 THEN walk.records[1].step = walk.spec.start
                       ELSE LeadsTo(walk.spec.steps[walk.records[i - 1].step], walk.records[i - 1], walk.records[i].step)
         ELSE /\ walk.records[i - 1].step = walk.records[i].step /\ walk.records[i - 1].status = "error"
              /\ walk.records[i].attempt = walk.records[i - 1].attempt + 1
              /\ walk.records[i].attempt <= walk.spec.steps[walk.records[i].step].retries + 1
  BY <1>1 DEF Retold, Opens, Retried
<1> QED BY <1>2, <1>5, <1>7, <1>8, <1>9, <1>10 DEF Audit

(* SessionTold, for any specs whose edges end at steps, any runners, models *)
(* and tools: the records of a workflow retell its walk, the state holds   *)
(* what its steps last said, and a turn's transcript and records tell what *)
(* its tools did.                                                          *)
THEOREM SessionsTellTruly == SessionSpec => []SessionTold
<1>1. SessionInit => WalkInv /\ TurnInv
  BY WalkStarts, TurnStarts
<1>2. WalkInv /\ TurnInv /\ [SessionNext]_session => WalkInv' /\ TurnInv'
  BY WalkNext, TurnNext
<1>3. WalkInv /\ TurnInv => SessionTold
  BY WalkRetells, TurnTells DEF SessionTold
<1> QED BY <1>1, <1>2, <1>3, PTL DEF SessionSpec
=============================================================================
