-------------------------- MODULE Promotion_proofs --------------------------
(***************************************************************************)
(* The promotion slots, for any processes, versions, buckets and slots:    *)
(* without force no command overwrites a promotion it did not see          *)
(* (NoSilentClobber), the recorded history tells what the slots hold       *)
(* (SlotsTellHistory), and a compile resolves the most specific promotion  *)
(* (ResolvesMostSpecific).                                                 *)
(***************************************************************************)
EXTENDS Promotion, TLAPS, SequenceTheorems, WellFoundedInduction

(* What the processes hold: files of places, and commands on places. *)
Shapes ==
  /\ files = [l \in Place |-> files[l]]
  /\ pc = [p \in Procs |-> pc[p]]
  /\ job = [p \in Procs |-> job[p]]
  /\ \A p \in Procs : Running(p) => job[p].place \in Place

(* A command about to truncate without force, whose place nobody else      *)
(* changed since it looked, still finds it absent.                         *)
LookedHolds ==
  \A p \in Procs :
    pc[p] = "truncate" /\ ~job[p].force /\ p \notin raced
      => files[job[p].place] = Absent

IInv == Shapes /\ LookedHolds

(* Commands are given places. *)
LEMMA TargetsTyped ==
  \A t \in Targets : t[1] \in Place
BY PromotionAssumption DEF PromotionAssumption

LEMMA InitHolds ==
  Init => IInv
BY DEF Init, IInv, Shapes, LookedHolds, Running

(* A new command is at its first step, which is not the truncation. *)
LEMMA StartKeeps ==
  ASSUME NEW p \in Procs, NEW at \in {"check", "unlink"},
         NEW j, j.place \in Place, Start(p, at, j), IInv
  PROVE  IInv'
BY DEF IInv, Shapes, LookedHolds, Start, Running

(* Whatever the command, it is a new one. *)
LEMMA BeginsKeep ==
  ASSUME NEW p \in Procs, Promote(p) \/ Load(p) \/ Unload(p) \/ Rollback(p), IInv
  PROVE  IInv'
<1>1. ASSUME NEW t \in Targets, NEW force, NEW stored,
             Start(p, "check", [op |-> "promote", place |-> t[1], version |-> t[2],
                                force |-> force, stored |-> stored])
      PROVE  IInv'
  <2> DEFINE j == [op |-> "promote", place |-> t[1], version |-> t[2],
                   force |-> force, stored |-> stored]
  <2>1. j.place \in Place
    BY TargetsTyped
  <2>2. Start(p, "check", j)
    BY <1>1
  <2> HIDE DEF j
  <2> QED BY <2>1, <2>2, StartKeeps
<1>2. ASSUME NEW t \in Targets, NEW force,
             Start(p, "check", [op |-> "load", place |-> t[1], version |-> t[2],
                                force |-> force, stored |-> TRUE])
      PROVE  IInv'
  <2> DEFINE j == [op |-> "load", place |-> t[1], version |-> t[2],
                   force |-> force, stored |-> TRUE]
  <2>1. j.place \in Place
    BY TargetsTyped
  <2>2. Start(p, "check", j)
    BY <1>2
  <2> HIDE DEF j
  <2> QED BY <2>1, <2>2, StartKeeps
<1>3. ASSUME NEW t \in Targets,
             Start(p, "unlink", [op |-> "unload", place |-> t[1], version |-> None,
                                 force |-> FALSE, stored |-> StoreExists])
      PROVE  IInv'
  <2> DEFINE j == [op |-> "unload", place |-> t[1], version |-> None,
                   force |-> FALSE, stored |-> StoreExists]
  <2>1. j.place \in Place
    BY TargetsTyped
  <2>2. Start(p, "unlink", j)
    BY <1>3
  <2> HIDE DEF j
  <2> QED BY <2>1, <2>2, StartKeeps
<1>4. ASSUME NEW t \in Targets,
             Start(p, "check", [op |-> "rollback", place |-> t[1],
                                version |-> Previous(t[1]), force |-> TRUE,
                                stored |-> TRUE])
      PROVE  IInv'
  <2> DEFINE j == [op |-> "rollback", place |-> t[1], version |-> Previous(t[1]),
                   force |-> TRUE, stored |-> TRUE]
  <2>1. j.place \in Place
    BY TargetsTyped
  <2>2. Start(p, "check", j)
    BY <1>4
  <2> HIDE DEF j
  <2> QED BY <2>1, <2>2, StartKeeps
<1>5. ASSUME Promote(p) PROVE IInv'
  BY <1>5, <1>1, Zenon DEF Promote
<1>6. ASSUME Load(p) PROVE IInv'
  BY <1>6, <1>2, Zenon DEF Load
<1>7. ASSUME Unload(p) PROVE IInv'
  <2>1. PICK l \in {t[1] : t \in Targets} :
          Start(p, "unlink", [op |-> "unload", place |-> l, version |-> None,
                              force |-> FALSE, stored |-> StoreExists])
    BY <1>7, Zenon DEF Unload
  <2>2. PICK t \in Targets : l = t[1]
    BY <2>1
  <2> QED BY <2>1, <2>2, <1>3, Zenon
<1>8. ASSUME Rollback(p) PROVE IInv'
  <2>1. PICK l \in {t[1] : t \in Targets} :
          Start(p, "check", [op |-> "rollback", place |-> l,
                             version |-> Previous(l), force |-> TRUE, stored |-> TRUE])
    BY <1>8, Zenon DEF Rollback
  <2>2. PICK t \in Targets : l = t[1]
    BY <2>1
  <2> QED BY <2>1, <2>2, <1>4, Zenon
<1> QED BY <1>5, <1>6, <1>7, <1>8

(* A process that changes its file is no longer about to truncate, and     *)
(* every other one on the same place is marked as raced.                   *)
LEMMA ChangeKeeps ==
  ASSUME NEW p \in Procs, NEW c, IInv, Running(p), Change(p, c),
         NEW at, at # "truncate", Go(p, at),
         UNCHANGED job \/ (at = "idle" /\ job' = [job EXCEPT ![p] = NoJob])
  PROVE  IInv'
<1> DEFINE l == job[p].place
<1>1. l \in Place
  BY DEF IInv, Shapes
<1>2. files' = [files EXCEPT ![l] = c] /\ raced' = raced \cup {q \in On(l) : q # p}
  BY DEF Change
<1>3. Shapes'
  BY <1>1, <1>2 DEF IInv, Shapes, Go, Running
<1>4. ASSUME NEW q \in Procs, pc'[q] = "truncate", ~job'[q].force, q \notin raced'
      PROVE  files'[job'[q].place] = Absent
  <2>1. q # p /\ pc[q] = "truncate" /\ job'[q] = job[q]
    BY <1>4 DEF IInv, Shapes, Go
  <2>2. job[q].place # l
    BY <1>2, <1>4, <2>1 DEF On, Running
  <2>3. job[q].place \in Place
    BY <2>1 DEF IInv, Shapes, Running
  <2>4. files[job[q].place] = Absent
    BY <1>2, <1>4, <2>1 DEF IInv, LookedHolds
  <2> QED BY <1>2, <2>1, <2>2, <2>3, <2>4 DEF IInv, Shapes
<1> QED BY <1>3, <1>4 DEF IInv, LookedHolds

LEMMA CheckKeeps ==
  ASSUME NEW p \in Procs, Check(p), IInv
  PROVE  IInv'
<1> USE DEF IInv, Shapes, LookedHolds, Check, Running, ghosts
<1>1. CASE Refused(p)
  BY <1>1 DEF End, Go
<1>2. CASE ~Refused(p)
  BY <1>2 DEF Go, Refused
<1> QED BY <1>1, <1>2

LEMMA WritersKeep ==
  ASSUME NEW p \in Procs, Truncate(p) \/ Write(p) \/ Unlink(p), IInv
  PROVE  IInv'
<1>0. Running(p) 
  BY DEF Truncate, Write, Unlink, Running, IInv, Shapes
<1>1. CASE Truncate(p)
  BY <1>0, <1>1, ChangeKeeps DEF Truncate
<1>2. CASE Unlink(p)
  <2>1. CASE files[job[p].place] = Absent
    BY <1>2, <2>1 DEF Unlink, End, Go, IInv, Shapes, LookedHolds, Running
  <2>2. CASE files[job[p].place] # Absent
    <3>1. Change(p, Absent)
      BY <1>2, <2>2 DEF Unlink
    <3>2. \/ Go(p, "record") /\ UNCHANGED job
          \/ Go(p, "idle") /\ job' = [job EXCEPT ![p] = NoJob]
      BY <1>2, <2>2 DEF Unlink, End
    <3> QED BY <1>0, <3>1, <3>2, ChangeKeeps
  <2> QED BY <2>1, <2>2
<1>3. CASE Write(p)
  <2>1. \/ Go(p, "record") /\ UNCHANGED job
        \/ Go(p, "idle") /\ job' = [job EXCEPT ![p] = NoJob]
    BY <1>3 DEF Write, End
  <2>2. Change(p, job[p].version)
    BY <1>3 DEF Write
  <2> QED BY <1>0, <2>1, <2>2, ChangeKeeps
<1> QED BY <1>1, <1>2, <1>3

LEMMA EndersKeep ==
  ASSUME NEW p \in Procs, Record(p) \/ Die(p), IInv
  PROVE  IInv'
BY DEF Record, Die, End, Go, IInv, Shapes, LookedHolds, Running, ghosts

LEMMA OthersKeep ==
  ASSUME Compile \/ Resolve \/ CompileEnds \/ UNCHANGED vars, IInv
  PROVE  IInv'
BY DEF Compile, Resolve, Look, Heal, CompileEnds, vars, command, ghosts,
       IInv, Shapes, LookedHolds, Running

LEMMA NextKeeps ==
  IInv /\ [Next]_vars => IInv'
<1> SUFFICES ASSUME IInv, [Next]_vars PROVE IInv'
  OBVIOUS
<1>1. ASSUME NEW p \in Procs, Command(p) PROVE IInv'
  BY <1>1, BeginsKeep, CheckKeeps, WritersKeep, EndersKeep DEF Command
<1> QED BY <1>1, OthersKeep DEF Next

(* "Refuses to overwrite an existing promotion unless force=True", of      *)
(* every step of every behaviour (snapshot.py, promote).                   *)
THEOREM UnforcedNeverClobbers ==
  Spec => NoSilentClobber
<1>1. Spec => []IInv
  BY InitHolds, NextKeeps, PTL DEF Spec
<1>2. IInv => ClobbersKnowingly
  BY DEF IInv, LookedHolds, ClobbersKnowingly
<1> QED BY <1>1, <1>2, PTL DEF NoSilentClobber
---------------------------------------------------------------------------
(* The last of finitely many numbers.                                      *)

LEMMA LeastOf ==
  ASSUME NEW T \in SUBSET Nat, T # {}
  PROVE  \E x \in T : \A y \in T : x <= y
<1> DEFINE less == {ss \in Nat \X Nat : ss[1] < ss[2]}
<1>1. IsWellFoundedOn(less, Nat)
  BY NatLessThanWellFounded DEF OpToRel
<1> HIDE DEF less
<1>2. PICK x \in T : \A y \in T : <<y, x>> \notin less
  BY <1>1, WFMin
<1>3. \A y \in T : ~(y < x)
  BY <1>2 DEF less
<1> QED BY <1>3

LEMMA MaxOf ==
  ASSUME NEW n \in Nat, NEW S \in SUBSET (1..n), S # {}
  PROVE  Max(S) \in S /\ \A y \in S : y <= Max(S)
<1>1. PICK x \in {n - y : y \in S} : \A z \in {n - y : y \in S} : x <= z
  <2>1. {n - y : y \in S} \in SUBSET Nat /\ {n - y : y \in S} # {}
    <3>1. \A y \in S : n - y \in Nat
      OBVIOUS
    <3> QED BY <3>1
  <2> QED BY <2>1, LeastOf
<1>2. PICK m \in S : x = n - m
  OBVIOUS
<1>3. \A y \in S : n - m <= n - y
  BY <1>1, <1>2
<1>4. \A y \in S : m >= y
  BY <1>3
<1>5. Max(S) \in S /\ \A y \in S : Max(S) >= y
  BY <1>4 DEF Max
<1> QED BY <1>5

LEMMA MaxIs ==
  ASSUME NEW n \in Nat, NEW S \in SUBSET (1..n), NEW m \in S, \A y \in S : y <= m
  PROVE  Max(S) = m
<1>1. Max(S) \in S /\ \A y \in S : y <= Max(S)
  BY MaxOf
<1>2. Max(S) \in 1..n /\ m \in 1..n
  BY <1>1
<1>3. m <= Max(S) /\ Max(S) <= m
  BY <1>1
<1> QED BY <1>2, <1>3

---------------------------------------------------------------------------
(* What a place's file and the table say of each other, for places whose   *)
(* every change has been recorded.                                         *)

Recordings == Seq(Place \X (Versions \cup {None}))

(* The file is what the last row says.                                     *)
FileTold(l) == Rows(l) # {} => files[l] = Left(history[Max(Rows(l))][2])

(* The last two promotions recorded are the last two there were, the k     *)
(* latest aside.                                                           *)
PastTold(l, k) ==
  /\ Promotions(l) # {} =>
       /\ Len(past[l]) >= k + 1
       /\ past[l][Len(past[l]) - k] = history[Max(Promotions(l))][2]
  /\ Earlier(l) # {} =>
       /\ Len(past[l]) >= k + 2
       /\ past[l][Len(past[l]) - (k + 1)] = Previous(l)

Unrecorded(p) == pc[p] = "record" /\ job[p].version # None

PlaceTold(l) ==
  /\ \A p, q \in On(l) : p = q
  /\ (\A p \in On(l) : pc[p] \in {"check", "truncate", "unlink"}) => FileTold(l)
  /\ (\A p \in On(l) : ~Unrecorded(p)) => PastTold(l, 0)
  /\ \A p \in On(l) :
       /\ job[p].stored = TRUE
       /\ pc[p] = "record" => files[l] = Left(job[p].version)
       /\ Unrecorded(p) => /\ past[l] # <<>> /\ past[l][Len(past[l])] = job[p].version
                           /\ PastTold(l, 1)
       /\ job[p].op = "rollback" => Earlier(l) # {} /\ job[p].version = Previous(l)

Commanded(p) ==
  /\ pc[p] \in {"check", "truncate", "write", "unlink", "record"}
  /\ job[p].place \in Place /\ job[p].version \in Versions \cup {None}
  /\ pc[p] \in {"check", "truncate", "write"} => job[p].version \in Versions
  /\ pc[p] = "unlink" => job[p].version = None

TellTypes ==
  /\ files = [l \in Place |-> files[l]]
  /\ pc = [p \in Procs |-> pc[p]] /\ job = [p \in Procs |-> job[p]]
  /\ history \in Recordings
  /\ past \in [Place -> Seq(Versions)] /\ told \subseteq Place
  /\ \A p \in Procs : Running(p) => Commanded(p)

TellInv == TellTypes /\ \A l \in told : PlaceTold(l)

LEMMA RowsThere ==
  ASSUME TellTypes, NEW l
  PROVE  /\ Len(history) \in Nat
         /\ Rows(l) \in SUBSET (1..Len(history)) /\ Promotions(l) \subseteq Rows(l) /\ Earlier(l) \subseteq Promotions(l)
BY DEF TellTypes, Recordings, Rows, Promotions, Earlier


(* The rows of a place are those it had.                                   *)
SameRows(l) ==
  /\ UNCHANGED <<Rows(l), Promotions(l), Earlier(l)>>
  /\ \A i \in Rows(l) : history'[i] = history[i]

LEMMA RowsOfOthers ==
  ASSUME TellTypes, NEW l, NEW k \in Place, k # l, NEW v \in Versions \cup {None},
         history' = Append(history, <<k, v>>)
  PROVE  SameRows(l)
<1>1. /\ DOMAIN history = 1..Len(history) /\ Len(history) \in Nat
      /\ DOMAIN history' = 1..(Len(history) + 1)
      /\ \A i \in DOMAIN history : history'[i] = history[i]
      /\ history'[Len(history) + 1] = <<k, v>>
  BY DEF TellTypes, Recordings
<1>2. Rows(l)' = Rows(l) /\ Promotions(l)' = Promotions(l)
  BY <1>1 DEF Rows, Promotions
<1>3. Earlier(l)' = Earlier(l)
  BY <1>2 DEF Earlier
<1> QED BY <1>1, <1>2, <1>3 DEF SameRows, Rows

LEMMA RowsUnchanged ==
  ASSUME UNCHANGED history, NEW l
  PROVE  SameRows(l)
BY DEF SameRows, Rows, Promotions, Earlier

LEMMA ToldStays ==
  ASSUME TellTypes, NEW l, SameRows(l), NEW k \in Nat
  PROVE  /\ files'[l] = files[l] /\ FileTold(l) => FileTold(l)'
         /\ past'[l] = past[l] /\ PastTold(l, k) => PastTold(l, k)'
         /\ Earlier(l) # {} => Previous(l)' = Previous(l)
<1>1. /\ Rows(l)' = Rows(l) /\ Promotions(l)' = Promotions(l) /\ Earlier(l)' = Earlier(l)
      /\ \A i \in Rows(l) : history'[i] = history[i]
  BY DEF SameRows
<1>2. Len(history) \in Nat /\ Rows(l) \in SUBSET (1..Len(history)) /\ Promotions(l) \subseteq Rows(l) /\ Earlier(l) \subseteq Promotions(l)
  BY RowsThere
<1>3. Rows(l) # {} => Max(Rows(l)) \in Rows(l)
  BY <1>2, MaxOf
<1>4. Promotions(l) # {} => Max(Promotions(l)) \in Rows(l)
  BY <1>2, MaxOf
<1>5. Earlier(l) # {} => Max(Earlier(l)) \in Rows(l)
  BY <1>2, MaxOf
<1>6. Earlier(l) # {} => Previous(l)' = Previous(l)
  BY <1>1, <1>5 DEF Previous
<1>7. files'[l] = files[l] /\ FileTold(l) => FileTold(l)'
  BY <1>1, <1>3 DEF FileTold, Left
<1>8. past'[l] = past[l] /\ PastTold(l, k) => PastTold(l, k)'
  BY <1>1, <1>4, <1>6 DEF PastTold
<1> QED BY <1>6, <1>7, <1>8

LEMMA StillTold ==
  ASSUME TellInv, NEW l \in told, SameRows(l), files'[l] = files[l], past'[l] = past[l],
         On(l)' = On(l), \A q \in On(l) : pc'[q] = pc[q] /\ job'[q] = job[q]
  PROVE  PlaceTold(l)'
<1>1. PlaceTold(l) /\ TellTypes
  BY DEF TellInv
<1>2. /\ FileTold(l) => FileTold(l)'
      /\ PastTold(l, 0) => PastTold(l, 0)'
      /\ PastTold(l, 1) => PastTold(l, 1)'
      /\ Earlier(l) # {} => Previous(l)' = Previous(l)
      /\ Earlier(l)' = Earlier(l)
  BY <1>1, ToldStays DEF SameRows
<1>3. \A q \in On(l) : Unrecorded(q)' = Unrecorded(q)
  BY DEF Unrecorded
<1> QED BY <1>1, <1>2, <1>3 DEF PlaceTold

(* A row of the place is added.                                            *)
LEMMA RowAdded ==
  ASSUME TellTypes, NEW l \in Place, NEW v \in Versions \cup {None},
         history' = Append(history, <<l, v>>), past' = past
  PROVE  /\ files'[l] = Left(v) => FileTold(l)'
         /\ v = None /\ PastTold(l, 0) => PastTold(l, 0)'
         /\ v # None /\ past[l] # <<>> /\ past[l][Len(past[l])] = v /\ PastTold(l, 1) => PastTold(l, 0)'
<1> DEFINE n == Len(history)
<1>1. /\ DOMAIN history = 1..n /\ n \in Nat /\ DOMAIN history' = 1..(n + 1)
      /\ \A i \in 1..n : history'[i] = history[i]
      /\ history'[n + 1] = <<l, v>>
  BY DEF TellTypes, Recordings
<1>2. Rows(l) \in SUBSET (1..n) /\ Promotions(l) \subseteq Rows(l) /\ Earlier(l) \subseteq Promotions(l)
  BY RowsThere
<1>3. Rows(l)' = Rows(l) \cup {n + 1}
  BY <1>1 DEF Rows
<1>4. Promotions(l)' = IF v = None THEN Promotions(l) ELSE Promotions(l) \cup {n + 1}
  BY <1>1 DEF Promotions
<1> HIDE DEF n
<1>5. ASSUME files'[l] = Left(v) PROVE FileTold(l)'
  <2>1. Max(Rows(l)') = n + 1
    <3> DEFINE S == Rows(l) \cup {n + 1}
    <3>1. S \in SUBSET (1..(n + 1)) /\ n + 1 \in S /\ \A y \in S : y <= n + 1
      BY <1>1, <1>2
    <3> HIDE DEF S
    <3>2. Max(S) = n + 1
      <4>1. n + 1 \in Nat
        BY <1>1
      <4> QED BY <3>1, <4>1, MaxIs
    <3> QED BY <1>3, <3>2 DEF S
  <2> QED BY <1>1, <1>5, <2>1 DEF FileTold, Left
<1>6. ASSUME v = None, PastTold(l, 0) PROVE PastTold(l, 0)'
  <2>1. Promotions(l)' = Promotions(l)
    BY <1>4, <1>6
  <2>2. Earlier(l)' = Earlier(l)
    BY <2>1 DEF Earlier
  <2>3. Promotions(l) # {} => Max(Promotions(l)) \in 1..n
    BY <1>1, <1>2, MaxOf
  <2>4. Earlier(l) # {} => Max(Earlier(l)) \in 1..n
    BY <1>1, <1>2, MaxOf
  <2> QED BY <1>1, <1>6, <2>1, <2>2, <2>3, <2>4 DEF PastTold, Previous
<1>7. ASSUME v # None, past[l] # <<>>, past[l][Len(past[l])] = v, PastTold(l, 1) PROVE PastTold(l, 0)'
  <2>1. Promotions(l)' = Promotions(l) \cup {n + 1}
    BY <1>4, <1>7
  <2>2. Earlier(l)' = Promotions(l)
    <3>1. \A i \in Promotions(l) : i \in Nat /\ i < n + 1
      BY <1>1, <1>2
    <3>2. n + 1 \in Nat
      BY <1>1
    <3> QED BY <2>1, <3>1, <3>2 DEF Earlier
  <2>3. Max(Promotions(l)') = n + 1
    <3> DEFINE S == Promotions(l) \cup {n + 1}
    <3>1. S \in SUBSET (1..(n + 1)) /\ n + 1 \in S /\ \A y \in S : y <= n + 1
      BY <1>1, <1>2
    <3> HIDE DEF S
    <3>2. Max(S) = n + 1
      <4>1. n + 1 \in Nat
        BY <1>1
      <4> QED BY <3>1, <4>1, MaxIs
    <3> QED BY <2>1, <3>2 DEF S
  <2>4. Promotions(l) # {} => Max(Promotions(l)) \in 1..n
    BY <1>1, <1>2, MaxOf
  <2>5. Len(past[l]) \in Nat /\ Len(past[l]) >= 1
    BY <1>7 DEF TellTypes
  <2>6. Promotions(l)' # {} => /\ Len(past'[l]) >= 0 + 1 /\ past'[l][Len(past'[l]) - 0] = history'[Max(Promotions(l)')][2]
    BY <1>1, <1>7, <2>3, <2>5
  <2>7. Earlier(l)' # {} => /\ Len(past'[l]) >= 0 + 2 /\ past'[l][Len(past'[l]) - (0 + 1)] = Previous(l)'
    BY <1>1, <1>7, <2>2, <2>4, <2>5 DEF PastTold, Previous
  <2> QED BY <2>6, <2>7 DEF PastTold
<1> QED BY <1>5, <1>6, <1>7

---------------------------------------------------------------------------
(* Each step.                                                              *)

LEMMA InitTells == Init => TellInv
<1> SUFFICES ASSUME Init PROVE TellInv
  OBVIOUS
<1>1. TellTypes
  BY DEF Init, TellTypes, Recordings, Running
<1>2. \A l \in Place : Rows(l) = {} /\ Promotions(l) = {} /\ Earlier(l) = {} /\ On(l) = {}
  BY DEF Init, Rows, Promotions, Earlier, On, Running
<1> QED BY <1>1, <1>2 DEF TellInv, PlaceTold, FileTold, PastTold, Init

(* A command as its handler issues it.                                     *)
Issued(at, j) ==
  /\ at \in {"check", "unlink"} /\ j.place \in Place /\ j.version \in Versions \cup {None} /\ j.stored \in BOOLEAN
  /\ at = "check" => j.version \in Versions
  /\ at = "unlink" => j.version = None
  /\ j.op = "rollback" => Earlier(j.place) # {} /\ j.version = Previous(j.place)

LEMMA StartTells ==
  ASSUME NEW p \in Procs, NEW at, NEW j, Issued(at, j), Start(p, at, j), TellInv
  PROVE  TellInv'
<1>1. /\ pc[p] = "idle" /\ pc' = [pc EXCEPT ![p] = at] /\ job' = [job EXCEPT ![p] = j]
      /\ UNCHANGED <<files, history, past>> /\ told' \subseteq told
      /\ j.place \in told' => On(j.place) = {} /\ j.stored = TRUE
      /\ at # "idle"
  BY DEF Start, Issued
<1>2. /\ pc'[p] = at /\ job'[p] = j /\ \A q \in Procs \ {p} : pc'[q] = pc[q] /\ job'[q] = job[q]
  BY <1>1 DEF TellInv, TellTypes
<1>3. TellTypes'
  <2>1. \A q \in Procs : Running(q)' => Commanded(q)'
    BY <1>1, <1>2 DEF TellInv, TellTypes, Running, Commanded, Issued
  <2> QED BY <1>1, <2>1 DEF TellInv, TellTypes
<1>4. ASSUME NEW l \in told', l # j.place PROVE PlaceTold(l)'
  <2>1. p \notin On(l) /\ On(l)' = On(l)
    BY <1>1, <1>2, <1>4 DEF On, Running
  <2>2. On(l) \subseteq Procs
    BY DEF On
  <2> QED BY <1>1, <1>2, <2>1, <2>2, StillTold, RowsUnchanged DEF TellInv
<1>5. ASSUME j.place \in told' PROVE PlaceTold(j.place)'
  <2> DEFINE l == j.place
  <2>1. On(l) = {} /\ PlaceTold(l) /\ On(l)' = {p} /\ j.stored = TRUE
    BY <1>1, <1>2, <1>5 DEF On, Running, TellInv
  <2>2. FileTold(l) /\ PastTold(l, 0) /\ SameRows(l) /\ TellTypes
    BY <1>1, <2>1, RowsUnchanged DEF PlaceTold, TellInv
  <2>3. FileTold(l)' /\ PastTold(l, 0)' /\ Earlier(l)' = Earlier(l) /\ (Earlier(l) # {} => Previous(l)' = Previous(l))
    BY <1>1, <2>2, ToldStays DEF SameRows
  <2>4. pc'[p] # "record" /\ ~Unrecorded(p)' /\ (job'[p].op = "rollback" => Earlier(l) # {} /\ job'[p].version = Previous(l))
    BY <1>2 DEF Issued, Unrecorded
  <2> HIDE DEF l
  <2>5. PlaceTold(l)'
    BY <1>2, <2>1, <2>3, <2>4 DEF PlaceTold
  <2> QED BY <2>5 DEF l
<1> QED BY <1>3, <1>4, <1>5 DEF TellInv

LEMMA BeginsTell ==
  ASSUME NEW p \in Procs, Promote(p) \/ Load(p) \/ Unload(p) \/ Rollback(p), TellInv
  PROVE  TellInv'
<1>0. /\ \A t \in Targets : t[1] \in Place /\ t[2] \in Versions
      /\ Recorded \subseteq Versions /\ Stored \subseteq BOOLEAN
  BY PromotionAssumption DEF PromotionAssumption
<1>1. CASE Promote(p)
  <2>1. PICK t \in Targets, force \in BOOLEAN, stored \in Stored :
          Start(p, "check", [op |-> "promote", place |-> t[1], version |-> t[2], force |-> force, stored |-> stored])
    BY <1>1, Zenon DEF Promote
  <2> DEFINE j == [op |-> "promote", place |-> t[1], version |-> t[2], force |-> force, stored |-> stored]
  <2>2. Issued("check", j)
    BY <1>0 DEF Issued
  <2> HIDE DEF j
  <2>3. Start(p, "check", j)
    BY <2>1 DEF j
  <2> QED BY <2>2, <2>3, StartTells
<1>2. CASE Load(p)
  <2>1. PICK t \in Targets, force \in BOOLEAN :
          Start(p, "check", [op |-> "load", place |-> t[1], version |-> t[2], force |-> force, stored |-> TRUE])
    BY <1>2, Zenon DEF Load
  <2> DEFINE j == [op |-> "load", place |-> t[1], version |-> t[2], force |-> force, stored |-> TRUE]
  <2>2. Issued("check", j)
    BY <1>0 DEF Issued
  <2> HIDE DEF j
  <2>3. Start(p, "check", j)
    BY <2>1 DEF j
  <2> QED BY <2>2, <2>3, StartTells
<1>3. CASE Unload(p)
  <2>1. PICK l \in {t[1] : t \in Targets} :
          Start(p, "unlink", [op |-> "unload", place |-> l, version |-> None, force |-> FALSE, stored |-> StoreExists])
    BY <1>3, Zenon DEF Unload
  <2> DEFINE j == [op |-> "unload", place |-> l, version |-> None, force |-> FALSE, stored |-> StoreExists]
  <2>2. Issued("unlink", j)
    BY <1>0, <2>1 DEF Issued, StoreExists
  <2> HIDE DEF j
  <2>3. Start(p, "unlink", j)
    BY <2>1 DEF j
  <2> QED BY <2>2, <2>3, StartTells
<1>4. CASE Rollback(p)
  <2>1. PICK l \in {t[1] : t \in Targets} :
          /\ Earlier(l) # {} /\ Previous(l) \in Recorded
          /\ Start(p, "check", [op |-> "rollback", place |-> l, version |-> Previous(l), force |-> TRUE, stored |-> TRUE])
    BY <1>4, Zenon DEF Rollback
  <2> DEFINE j == [op |-> "rollback", place |-> l, version |-> Previous(l), force |-> TRUE, stored |-> TRUE]
  <2>2. Issued("check", j)
    BY <1>0, <2>1 DEF Issued
  <2> HIDE DEF j
  <2>3. Start(p, "check", j)
    BY <2>1 DEF j
  <2> QED BY <2>2, <2>3, StartTells
<1> QED BY <1>1, <1>2, <1>3, <1>4

(* A command that is running takes its next step, to `to`.                 *)
Steps(p, to) ==
  /\ Running(p)
  /\ \A q \in Procs \ {p} : pc'[q] = pc[q] /\ job'[q] = job[q]
  /\ pc' = [q \in Procs |-> pc'[q]] /\ job' = [q \in Procs |-> job'[q]] /\ pc'[p] = to
  /\ to # "idle" => job'[p] = job[p] /\ Commanded(p)'

LEMMA GoSteps ==
  ASSUME TellInv, NEW p \in Procs, Running(p), NEW to,
         \/ Go(p, to) /\ UNCHANGED job /\ (to = "truncate" \/ to = "write" => job[p].version \in Versions)
            /\ to \in {"truncate", "write", "record"}
         \/ End(p) /\ to = "idle"
  PROVE  Steps(p, to)
BY DEF TellInv, TellTypes, Running, Commanded, Go, End, Steps

LEMMA StepTells ==
  ASSUME TellInv, NEW p \in Procs, NEW to, Steps(p, to), NEW l0, l0 = job[p].place,
         \A l \in Place \ {l0} : files'[l] = files[l] /\ past'[l] = past[l],
         files' = [l \in Place |-> files'[l]], past' \in [Place -> Seq(Versions)],
         history' \in Recordings,
         \A l \in Place \ {l0} : SameRows(l),
         told' \subseteq told,
         l0 \in told' => LET alone == On(l0) = {p} /\ On(l0)' = IF to = "idle" THEN {} ELSE {p}
                         IN  alone => PlaceTold(l0)'
  PROVE  TellInv'
<1>1. l0 \in Place /\ TellTypes
  BY DEF TellInv, TellTypes, Steps, Commanded
<1>2. TellTypes'
  <2>1. \A q \in Procs : Running(q)' => Commanded(q)'
    BY <1>1 DEF Steps, TellTypes, Running, Commanded
  <2> QED BY <1>1, <2>1 DEF TellTypes, Steps
<1>3. ASSUME NEW l \in told', l # l0 PROVE PlaceTold(l)'
  <2>1. p \notin On(l) /\ On(l)' = On(l)
    BY <1>3 DEF On, Running, Steps
  <2>2. On(l) \subseteq Procs /\ l \in told /\ l \in Place
    BY <1>1 DEF On, TellTypes
  <2>3. \A q \in On(l) : pc'[q] = pc[q] /\ job'[q] = job[q]
    BY <2>1, <2>2 DEF Steps
  <2> QED BY <1>3, <2>1, <2>2, <2>3, StillTold
<1>4. ASSUME l0 \in told' PROVE PlaceTold(l0)'
  <2>1. p \in On(l0) /\ PlaceTold(l0)
    BY <1>4 DEF On, Steps, TellInv
  <2>2. On(l0) = {p}
    BY <2>1 DEF PlaceTold
  <2>3. On(l0)' = IF to = "idle" THEN {} ELSE {p}
    <3>1. \A q \in Procs \ {p} : ~(Running(q)' /\ job'[q].place = l0)
      BY <2>2 DEF On, Running, Steps
    <3> QED BY <3>1 DEF On, Running, Steps
  <2> QED BY <1>4, <2>2, <2>3
<1> QED BY <1>2, <1>3, <1>4 DEF TellInv

LEMMA CheckTells == ASSUME TellInv, NEW p \in Procs, Check(p) PROVE TellInv'
<1>1. /\ pc[p] = "check" /\ UNCHANGED <<files, history, past, told>> /\ Commanded(p) /\ Running(p)
      /\ \/ End(p)
         \/ Go(p, "truncate") /\ UNCHANGED job
  BY DEF Check, ghosts, TellInv, TellTypes, Running
<1>2. PICK to \in {"idle", "truncate"} : Steps(p, to)
  BY <1>1, GoSteps DEF Commanded
<1>0. PICK l : l = job[p].place
  OBVIOUS
<1>3. /\ \A k \in Place : SameRows(k) /\ files'[k] = files[k] /\ past'[k] = past[k]
      /\ files' = [k \in Place |-> files'[k]] /\ past' \in [Place -> Seq(Versions)] /\ history' \in Recordings
  BY <1>0, <1>1, RowsUnchanged DEF TellInv, TellTypes
<1>4. ASSUME l \in told, On(l) = {p}, On(l)' = IF to = "idle" THEN {} ELSE {p} PROVE PlaceTold(l)'
  <2>1. PlaceTold(l) /\ TellTypes /\ SameRows(l) /\ files'[l] = files[l] /\ past'[l] = past[l]
    BY <1>0, <1>3, <1>4 DEF TellInv, TellTypes
  <2>2. FileTold(l) /\ PastTold(l, 0) /\ job[p].stored = TRUE /\ (job[p].op = "rollback" => Earlier(l) # {} /\ job[p].version = Previous(l))
    BY <1>0, <1>1, <1>4, <2>1 DEF PlaceTold, Unrecorded
  <2>3. FileTold(l)' /\ PastTold(l, 0)' /\ (Earlier(l) # {} => Previous(l)' = Previous(l)) /\ Earlier(l)' = Earlier(l)
    BY <1>0, <2>1, <2>2, ToldStays DEF SameRows
  <2>4. to # "idle" => pc'[p] = "truncate" /\ job'[p] = job[p] /\ ~Unrecorded(p)'
    BY <1>0, <1>2 DEF Steps, Unrecorded
  <2> QED BY <1>0, <1>4, <2>2, <2>3, <2>4 DEF PlaceTold
<1> QED BY <1>0, <1>1, <1>2, <1>3, <1>4, StepTells

LEMMA ChangeTypes ==
  ASSUME TellInv, NEW p \in Procs, Running(p), NEW c, Change(p, c), UNCHANGED history
  PROVE  /\ files' = [k \in Place |-> files'[k]] /\ files'[job[p].place] = c /\ history' \in Recordings
         /\ \A k \in Place \ {job[p].place} : SameRows(k) /\ files'[k] = files[k]
         /\ SameRows(job[p].place)
<1>1. job[p].place \in Place /\ files' = [files EXCEPT ![job[p].place] = c] /\ files = [k \in Place |-> files[k]]
  BY DEF TellInv, TellTypes, Commanded, Change
<1> QED BY <1>1, RowsUnchanged DEF TellInv, TellTypes

LEMMA TruncateTells == ASSUME TellInv, NEW p \in Procs, Truncate(p) PROVE TellInv'
<1>1. /\ pc[p] = "truncate" /\ UNCHANGED <<history, past, told>> /\ Commanded(p) /\ Running(p)
      /\ Change(p, Torn) /\ Go(p, "write") /\ UNCHANGED job
  BY DEF Truncate, TellInv, TellTypes, Running
<1>2. Steps(p, "write")
  BY <1>1, GoSteps DEF Commanded
<1>0. PICK l : l = job[p].place
  OBVIOUS
<1>3. /\ \A k \in Place \ {l} : SameRows(k) /\ files'[k] = files[k] /\ past'[k] = past[k]
      /\ files' = [k \in Place |-> files'[k]] /\ past' \in [Place -> Seq(Versions)] /\ history' \in Recordings
      /\ SameRows(l)
  BY <1>0, <1>1, ChangeTypes DEF TellInv, TellTypes
<1>4. ASSUME l \in told, On(l) = {p}, On(l)' = {p} PROVE PlaceTold(l)'
  <2>1. PlaceTold(l) /\ TellTypes /\ past'[l] = past[l]
    BY <1>0, <1>1, <1>4 DEF TellInv
  <2>2. PastTold(l, 0) /\ job[p].stored = TRUE /\ (job[p].op = "rollback" => Earlier(l) # {} /\ job[p].version = Previous(l))
    BY <1>0, <1>1, <1>4, <2>1 DEF PlaceTold, Unrecorded
  <2>3. PastTold(l, 0)' /\ (Earlier(l) # {} => Previous(l)' = Previous(l)) /\ Earlier(l)' = Earlier(l)
    BY <1>0, <1>3, <2>1, <2>2, ToldStays DEF SameRows
  <2>4. pc'[p] = "write" /\ job'[p] = job[p] /\ ~Unrecorded(p)'
    BY <1>0, <1>2 DEF Steps, Unrecorded
  <2> QED BY <1>0, <1>4, <2>2, <2>3, <2>4 DEF PlaceTold
<1>5. told' = told /\ (IF "write" = "idle" THEN {} ELSE {p}) = {p}
  BY <1>1
<1> QED BY <1>0, <1>2, <1>3, <1>4, <1>5, StepTells

LEMMA WriteTells == ASSUME TellInv, NEW p \in Procs, Write(p) PROVE TellInv'
<1>0. PICK l, v : l = job[p].place /\ v = job[p].version
  OBVIOUS
<1>1. /\ pc[p] = "write" /\ UNCHANGED <<history, told>> /\ Commanded(p) /\ Running(p)
      /\ Change(p, v) /\ past' = [past EXCEPT ![l] = Append(@, v)]
      /\ IF job[p].stored THEN Go(p, "record") /\ UNCHANGED job ELSE End(p)
  BY <1>0 DEF Write, TellInv, TellTypes, Running
<1>2. v \in Versions /\ l \in Place /\ past \in [Place -> Seq(Versions)]
  BY <1>0, <1>1 DEF Commanded, TellInv, TellTypes
<1>3. PICK to \in {"idle", "record"} : Steps(p, to) /\ (job[p].stored = TRUE => to = "record")
  BY <1>0, <1>1, GoSteps
<1>4. past' \in [Place -> Seq(Versions)] /\ past'[l] = Append(past[l], v) /\ \A k \in Place \ {l} : past'[k] = past[k]
  BY <1>0, <1>1, <1>2
<1>5. /\ \A k \in Place \ {l} : SameRows(k) /\ files'[k] = files[k] /\ past'[k] = past[k]
      /\ files' = [k \in Place |-> files'[k]] /\ history' \in Recordings
      /\ SameRows(l) /\ files'[l] = v
  BY <1>0, <1>1, <1>4, ChangeTypes
<1>6. ASSUME l \in told, On(l) = {p}, On(l)' = IF to = "idle" THEN {} ELSE {p} PROVE PlaceTold(l)'
  <2>1. PlaceTold(l) /\ TellTypes
    BY <1>0, <1>6 DEF TellInv
  <2>2. PastTold(l, 0) /\ job[p].stored = TRUE /\ (job[p].op = "rollback" => Earlier(l) # {} /\ v = Previous(l))
    BY <1>0, <1>1, <1>6, <2>1 DEF PlaceTold, Unrecorded
  <2>3. to = "record" /\ On(l)' = {p} /\ pc'[p] = "record" /\ job'[p] = job[p]
    BY <1>0, <1>3, <1>6, <2>2 DEF Steps
  <2>4. (Earlier(l) # {} => Previous(l)' = Previous(l)) /\ Earlier(l)' = Earlier(l) /\ Promotions(l)' = Promotions(l)
    BY <1>0, <1>5, <2>1, ToldStays DEF SameRows
  <2>5. v # None /\ Left(v) = v
    BY <1>0, <1>2, PromotionAssumption DEF Left, PromotionAssumption
  <2>6. /\ Len(past'[l]) = Len(past[l]) + 1 /\ past'[l] # <<>> /\ past'[l][Len(past[l]) + 1] = v /\ Len(past[l]) \in Nat
        /\ \A i \in 1..Len(past[l]) : past'[l][i] = past[l][i]
    BY <1>0, <1>2, <1>4
  <2>7. PastTold(l, 1)'
    <3>1. Promotions(l) # {} => /\ Len(past'[l]) >= 1 + 1
                                /\ past'[l][Len(past'[l]) - 1] = history[Max(Promotions(l))][2]
      BY SMTT(30), <1>0, <2>2, <2>6 DEF PastTold
    <3>2. Earlier(l) # {} => /\ Len(past'[l]) >= 1 + 2
                             /\ past'[l][Len(past'[l]) - (1 + 1)] = Previous(l)
      <4> SUFFICES ASSUME Earlier(l) # {}
                   PROVE  /\ Len(past'[l]) >= 1 + 2
                          /\ past'[l][Len(past'[l]) - (1 + 1)] = Previous(l)
        OBVIOUS
      <4>1. Len(past[l]) >= 2 /\ past[l][Len(past[l]) - 1] = Previous(l)
        BY <2>2 DEF PastTold
      <4>2. Len(past'[l]) - (1 + 1) = Len(past[l]) - 1 /\ Len(past[l]) - 1 \in 1..Len(past[l])
        BY <2>6, <4>1
      <4> QED BY <2>6, <4>1, <4>2
    <3> QED BY <1>0, <1>1, <2>4, <3>1, <3>2 DEF PastTold
  <2>8. Unrecorded(p)' /\ job'[p].version = v /\ job'[p].op = job[p].op /\ job'[p].stored = TRUE
    BY <1>0, <2>2, <2>3, <2>5 DEF Unrecorded
  <2> QED BY <1>0, <1>5, <2>2, <2>3, <2>4, <2>5, <2>6, <2>7, <2>8 DEF PlaceTold
<1> QED BY <1>0, <1>1, <1>3, <1>4, <1>5, <1>6, StepTells

LEMMA UnlinkTells == ASSUME TellInv, NEW p \in Procs, Unlink(p) PROVE TellInv'
<1>0. PICK l : l = job[p].place
  OBVIOUS
<1>1. /\ pc[p] = "unlink" /\ UNCHANGED <<history, told, past>> /\ Commanded(p) /\ Running(p)
      /\ l \in Place /\ job[p].version = None
  BY <1>0 DEF Unlink, TellInv, TellTypes, Running, Commanded
<1>2. ASSUME l \in told, On(l) = {p}
      PROVE  /\ FileTold(l) /\ PastTold(l, 0) /\ job[p].stored = TRUE
             /\ (job[p].op = "rollback" => Earlier(l) # {} /\ job[p].version = Previous(l))
  <2>1. PlaceTold(l)
    BY <1>0, <1>2 DEF TellInv
  <2> QED BY <1>0, <1>1, <1>2, <2>1 DEF PlaceTold, Unrecorded
<1>3. CASE files[l] = Absent
  <2>1. End(p) /\ UNCHANGED files
    BY <1>0, <1>3 DEF Unlink
  <2>2. Steps(p, "idle")
    BY <1>0, <1>1, <2>1, GoSteps
  <2>3. /\ \A k \in Place : SameRows(k) /\ files'[k] = files[k] /\ past'[k] = past[k]
        /\ files' = [k \in Place |-> files'[k]] /\ past' \in [Place -> Seq(Versions)] /\ history' \in Recordings
    BY <1>0, <1>1, <2>1, RowsUnchanged DEF TellInv, TellTypes
  <2>4. ASSUME l \in told, On(l) = {p}, On(l)' = {} PROVE PlaceTold(l)'
    <3>1. FileTold(l)' /\ PastTold(l, 0)'
      BY <1>0, <1>1, <1>2, <2>3, <2>4, ToldStays DEF TellInv
    <3> QED BY <1>0, <2>4, <3>1 DEF PlaceTold
  <2> QED BY <1>0, <1>1, <2>2, <2>3, <2>4, StepTells
<1>4. CASE files[l] # Absent
  <2>1. Change(p, Absent) /\ IF job[p].stored THEN Go(p, "record") /\ UNCHANGED job ELSE End(p)
    BY <1>0, <1>4 DEF Unlink
  <2>2. PICK to \in {"idle", "record"} : Steps(p, to) /\ (job[p].stored = TRUE => to = "record")
    BY <1>0, <1>1, <2>1, GoSteps
  <2>3. /\ \A k \in Place \ {l} : SameRows(k) /\ files'[k] = files[k] /\ past'[k] = past[k]
        /\ files' = [k \in Place |-> files'[k]] /\ history' \in Recordings
        /\ SameRows(l) /\ files'[l] = Absent /\ past' \in [Place -> Seq(Versions)]
    BY <1>0, <1>1, <2>1, ChangeTypes DEF TellInv, TellTypes
  <2>4. ASSUME l \in told, On(l) = {p}, On(l)' = IF to = "idle" THEN {} ELSE {p} PROVE PlaceTold(l)'
    <3>1. /\ PastTold(l, 0)' /\ (Earlier(l) # {} => Previous(l)' = Previous(l)) /\ Earlier(l)' = Earlier(l)
      BY <1>0, <1>1, <1>2, <2>3, <2>4, ToldStays DEF TellInv, SameRows
    <3>2. On(l)' = {p} /\ pc'[p] = "record" /\ job'[p] = job[p] /\ ~Unrecorded(p)' /\ files'[l] = Left(job[p].version)
      BY <1>0, <1>1, <1>2, <2>2, <2>3, <2>4 DEF Steps, Unrecorded, Left
    <3> QED BY <1>0, <1>2, <2>4, <3>1, <3>2 DEF PlaceTold
  <2> QED BY <1>0, <1>1, <2>2, <2>3, <2>4, StepTells
<1> QED BY <1>0, <1>3, <1>4

LEMMA RecordTells == ASSUME TellInv, NEW p \in Procs, Record(p) PROVE TellInv'
<1>0. PICK l, v : l = job[p].place /\ v = job[p].version
  OBVIOUS
<1>1. /\ pc[p] = "record" /\ UNCHANGED <<files, past, told>> /\ Commanded(p) /\ Running(p) /\ End(p)
      /\ l \in Place /\ v \in Versions \cup {None} /\ history' = history \o <<<<l, v>>>> /\ history \in Recordings
  BY <1>0 DEF Record, Row, ghosts, TellInv, TellTypes, Running, Commanded
<1>2. history' = Append(history, <<l, v>>) /\ history' \in Recordings
  BY <1>0, <1>1 DEF Recordings
<1>3. Steps(p, "idle")
  BY <1>0, <1>1, GoSteps
<1>4. /\ \A k \in Place \ {l} : SameRows(k) /\ files'[k] = files[k] /\ past'[k] = past[k]
      /\ files' = [k \in Place |-> files'[k]] /\ past' \in [Place -> Seq(Versions)]
  BY <1>0, <1>1, <1>2, RowsOfOthers DEF TellInv, TellTypes
<1>5. ASSUME l \in told, On(l) = {p}, On(l)' = {} PROVE PlaceTold(l)'
  <2>1. PlaceTold(l) /\ TellTypes
    BY <1>0, <1>5 DEF TellInv
  <2>2. /\ files[l] = Left(v)
        /\ v = None => PastTold(l, 0)
        /\ v # None => past[l] # <<>> /\ past[l][Len(past[l])] = v /\ PastTold(l, 1)
    BY <1>0, <1>1, <1>5, <2>1 DEF PlaceTold, Unrecorded
  <2>3. FileTold(l)' /\ PastTold(l, 0)'
    BY <1>0, <1>1, <1>2, <2>1, <2>2, RowAdded
  <2> QED BY <1>0, <1>5, <2>3 DEF PlaceTold
<1> QED BY <1>0, <1>1, <1>2, <1>3, <1>4, <1>5, StepTells

LEMMA DieTells == ASSUME TellInv, NEW p \in Procs, Die(p) PROVE TellInv'
<1>0. PICK l : l = job[p].place
  OBVIOUS
<1>1. UNCHANGED <<files, history, past>> /\ told' = told \ {l} /\ Running(p) /\ End(p)
  BY <1>0 DEF Die
<1>2. Steps(p, "idle")
  BY <1>0, <1>1, GoSteps
<1>3. /\ \A k \in Place : SameRows(k) /\ files'[k] = files[k] /\ past'[k] = past[k]
      /\ files' = [k \in Place |-> files'[k]] /\ past' \in [Place -> Seq(Versions)] /\ history' \in Recordings
  BY <1>0, <1>1, RowsUnchanged DEF TellInv, TellTypes
<1> QED BY <1>0, <1>1, <1>2, <1>3, StepTells

LEMMA RestTells ==
  ASSUME TellInv, Compile \/ Resolve \/ CompileEnds \/ UNCHANGED vars
  PROVE  TellInv'
<1>1. UNCHANGED <<files, history, pc, job, past, told>>
  BY DEF Compile, Resolve, Look, Heal, CompileEnds, vars, command, ghosts
<1>2. TellTypes'
  BY <1>1 DEF TellInv, TellTypes, Running, Commanded
<1>3. ASSUME NEW l \in told PROVE PlaceTold(l)'
  <2>1. On(l)' = On(l) /\ SameRows(l)
    BY <1>1, RowsUnchanged DEF On, Running
  <2> QED BY <1>1, <2>1, StillTold
<1> QED BY <1>1, <1>2, <1>3 DEF TellInv

LEMMA NextTells == TellInv /\ [Next]_vars => TellInv'
<1> SUFFICES ASSUME TellInv, [Next]_vars PROVE TellInv'
  OBVIOUS
<1>1. ASSUME NEW p \in Procs, Command(p) PROVE TellInv'
  BY <1>1, BeginsTell, CheckTells, TruncateTells, WriteTells, UnlinkTells, RecordTells, DieTells DEF Command
<1> QED BY <1>1, RestTells DEF Next

(* Where every change of a slot was recorded, the table tells what its     *)
(* file holds once the commands are done, and a rollback puts back the     *)
(* version promoted before the last one (versions.py, handle): for any     *)
(* processes, versions and slots, and wherever commands die.               *)
THEOREM HistoriesAreTrue == Spec => []SlotsTellHistory
<1>1. TellInv => SlotsTellHistory
  <2> SUFFICES ASSUME TellInv PROVE SlotsTellHistory
    OBVIOUS
  <2>1. HistoryTellsFile
    BY DEF HistoryTellsFile, TellInv, PlaceTold, FileTold
  <2>2. RollbackUndoes
    <3> SUFFICES ASSUME NEW p \in Procs, RolledBack(p), job[p].place \in told PROVE Restores(job[p].place)
      BY DEF RollbackUndoes
    <3> DEFINE l == job[p].place
    <3>1. p \in On(l) /\ PlaceTold(l) /\ TellTypes
      BY DEF On, RolledBack, Running, TellInv
    <3>2. Earlier(l) # {} /\ job[p].version = Previous(l)
      BY <3>1 DEF PlaceTold, RolledBack
    <3>3. Previous(l) # None
      <4>1. Max(Earlier(l)) \in Earlier(l)
        BY <3>1, <3>2, RowsThere, MaxOf
      <4> QED BY <4>1 DEF Earlier, Promotions, Previous
    <3>4. Len(past[l]) >= 3 /\ past[l][Len(past[l]) - 2] = Previous(l) /\ past[l][Len(past[l])] = Previous(l)
      BY <3>1, <3>2, <3>3 DEF PlaceTold, Unrecorded, RolledBack, PastTold
    <3> QED BY <3>4 DEF Restores
  <2> QED BY <2>1, <2>2 DEF SlotsTellHistory
<1> QED BY InitTells, NextTells, <1>1, PTL DEF Spec

---------------------------------------------------------------------------
(* What a compile resolves.                                                *)

FileTypes == files \in [Place -> Versions \cup {Absent, Torn}]

Answers == Versions \cup {None}

Readers ==
  [pc : {"look", "heal", "done"}, id : {"own", "branch"}, query : Queries, chain : Seq(Place),
   own : Answers, branch : Answers, result : Answers]

(* The chain goes from the more specific to the less, and every place that *)
(* holds a version and nobody touched is still ahead.                      *)
Ordered(chain, id) ==
  /\ \A i \in 1..Len(chain) : chain[i] \in SearchPlaces(id)
  /\ \A i, j \in 1..Len(chain) : i < j => MoreSpecific(chain[i], chain[j]) \/ chain[i] = chain[j]

Ahead(chain, id) ==
  \A l \in SearchPlaces(id) \ touched : files[l] \in Versions => \E i \in 1..Len(chain) : chain[i] = l

Decided ==
  /\ MostSpecific("own", reader.own) /\ MostSpecific("branch", reader.branch)
  /\ \A v \in {reader.own, reader.branch} \ {None} :
       reader.result # None /\ Score[reader.result] >= Score[v]

SearchInv ==
  /\ FileTypes
  /\ reader = NoReader \/ reader \in Readers
  /\ reader.pc \in {"look", "heal"} =>
       /\ reader.chain # <<>> /\ Ordered(reader.chain, reader.id) /\ Ahead(reader.chain, reader.id)
       /\ reader.id = "branch" => MostSpecific("own", reader.own)
  /\ reader.pc = "done" => Decided

LEMMA QueryTyped ==
  ASSUME NEW q \in Queries
  PROVE  q.client \in Clients \cup {None} /\ q.target \in Slots \cup {None} /\ q.class \in Slots \cup {None}
BY PromotionAssumption DEF PromotionAssumption

(* The chain a search begins with.                                         *)
BucketOf(B, id, b) ==
  /\ B \in Seq(Place) /\ B # <<>>
  /\ \A i \in 1..Len(B) : B[i] \in SearchPlaces(id) /\ B[i].client = b
  /\ \A i, j \in 1..Len(B) : i < j => SlotRank(B[i]) < SlotRank(B[j]) \/ B[i] = B[j]
  /\ \A l \in SearchPlaces(id) : l.client = b => \E i \in 1..Len(B) : B[i] = l

LEMMA PairAppended ==
  ASSUME NEW S, NEW x \in S, NEW y \in S
  PROVE  Append(<<x>>, y) = <<x, y>>
<1> DEFINE D == Append(<<x>>, y)
           E == <<x, y>>
<1>1. D \in Seq(S) /\ Len(D) = 2 /\ D[1] = x /\ D[2] = y
  OBVIOUS
<1>2. E \in Seq(S) /\ Len(E) = 2 /\ E[1] = x /\ E[2] = y
  OBVIOUS
<1> HIDE DEF D, E
<1>3. \A i \in 1..Len(D) : i = 1 \/ i = 2
  BY <1>1
<1>4. D = E
  BY <1>1, <1>2, <1>3, SeqEqual
<1> QED BY <1>4 DEF D, E

LEMMA TripleAppended ==
  ASSUME NEW S, NEW x \in S, NEW y \in S, NEW z \in S
  PROVE  Append(<<x, y>>, z) = <<x, y, z>>
<1> DEFINE D == Append(<<x, y>>, z)
           E == <<x, y, z>>
<1>1. D \in Seq(S) /\ Len(D) = 3 /\ D[1] = x /\ D[2] = y /\ D[3] = z
  OBVIOUS
<1>2. E \in Seq(S) /\ Len(E) = 3 /\ E[1] = x /\ E[2] = y /\ E[3] = z
  OBVIOUS
<1> HIDE DEF D, E
<1>3. \A i \in 1..Len(D) : i = 1 \/ i = 2 \/ i = 3
  BY <1>1
<1>4. D = E
  BY <1>1, <1>2, <1>3, SeqEqual
<1> QED BY <1>4 DEF D, E

LEMMA Tuples ==
  ASSUME NEW S, NEW x \in S, NEW y \in S, NEW z \in S
  PROVE  /\ <<x>> \o <<y>> \o <<z>> = <<x, y, z>>
         /\ <<x>> \o <<>> \o <<z>> = <<x, z>>
         /\ <<>> \o <<y>> \o <<z>> = <<y, z>>
         /\ <<>> \o <<>> \o <<z>> = <<z>>
<1>1. \A s \in Seq(S), e \in S : s \o <<e>> = Append(s, e)
  OBVIOUS
<1>2. <<x>> \in Seq(S) /\ <<y>> \in Seq(S) /\ <<x, y>> \in Seq(S) /\ <<>> \in Seq(S)
  OBVIOUS
<1>3. <<x>> \o <<y>> = <<x, y>>
  BY <1>1, <1>2, PairAppended
<1>4. <<x>> \o <<y>> \o <<z>> = <<x, y, z>>
  BY <1>1, <1>2, <1>3, TripleAppended
<1>5. <<x>> \o <<>> = <<x>> /\ <<>> \o <<y>> = <<y>>
  BY <1>2
<1>6. <<x>> \o <<>> \o <<z>> = <<x, z>> /\ <<>> \o <<y>> \o <<z>> = <<y, z>>
  BY <1>1, <1>2, <1>5, PairAppended
<1>7. <<>> \o <<>> \o <<z>> = <<z>>
  OBVIOUS
<1> QED BY <1>4, <1>6, <1>7

(* x, y and z are the places of the target's slot, the class's and the     *)
(* default in the bucket b, B the list of those that are given.            *)
BucketShape(id, b, t, m, B, x, y, z) ==
  /\ x \in Place /\ y \in Place /\ z \in Place
  /\ x \in SearchPlaces(id) /\ y \in SearchPlaces(id) /\ z \in SearchPlaces(id)
  /\ \A l \in SearchPlaces(id) : l.client = b => l = x \/ l = y \/ l = z
  /\ SlotRank(z) = 2 /\ (t # None => SlotRank(x) = 0) /\ (m # None /\ m # t => SlotRank(y) = 1)
  /\ x.client = b /\ y.client = b /\ z.client = b
  /\ (t = m => x = y) /\ (t = None => x = z) /\ (m = None => y = z)
  /\ t # None /\ m # None => B = <<x, y, z>>
  /\ t # None /\ m = None => B = <<x, z>>
  /\ t = None /\ m # None => B = <<y, z>>
  /\ t = None /\ m = None => B = <<z>>

LEMMA ShapeOrdered ==
  ASSUME NEW id, NEW b, NEW t, NEW m, NEW B, NEW x, NEW y, NEW z, BucketShape(id, b, t, m, B, x, y, z)
  PROVE  BucketOf(B, id, b)
<1>1. /\ x \in Place /\ y \in Place /\ z \in Place /\ x \in SearchPlaces(id) /\ y \in SearchPlaces(id) /\ z \in SearchPlaces(id)
      /\ \A l \in SearchPlaces(id) : l.client = b => l = x \/ l = y \/ l = z
      /\ SlotRank(z) = 2 /\ (t # None => SlotRank(x) = 0) /\ (m # None /\ m # t => SlotRank(y) = 1)
      /\ x.client = b /\ y.client = b /\ z.client = b
      /\ (t = m => x = y) /\ (t = None => x = z) /\ (m = None => y = z)
  BY DEF BucketShape
<1>2. /\ t # None /\ m # None => B = <<x, y, z>>
      /\ t # None /\ m = None => B = <<x, z>>
      /\ t = None /\ m # None => B = <<y, z>>
      /\ t = None /\ m = None => B = <<z>>
  BY DEF BucketShape
<1>3. CASE t # None /\ m # None
  <2>0. B = <<x, y, z>> /\ x \in Place /\ y \in Place /\ z \in Place
    BY <1>1, <1>2, <1>3
  <2>1. /\ B = <<x, y, z>> /\ Len(B) = 3 /\ B[1] = x /\ B[2] = y /\ B[3] = z /\ B \in Seq(Place) /\ B # <<>>
        /\ \A i \in 1..Len(B) : i = 1 \/ i = 2 \/ i = 3
    BY <2>0
  <2>2. SlotRank(x) < SlotRank(z) /\ (SlotRank(x) < SlotRank(y) \/ x = y) /\ (SlotRank(y) < SlotRank(z))
    BY <1>1, <1>3
  <2>3. \A i, j \in 1..Len(B) : i < j => SlotRank(B[i]) < SlotRank(B[j]) \/ B[i] = B[j]
    BY <2>1, <2>2
  <2>4. \A l \in SearchPlaces(id) : l.client = b => \E i \in 1..Len(B) : B[i] = l
    BY <1>1, <2>1
  <2>5. \A i \in 1..Len(B) : B[i] \in SearchPlaces(id) /\ B[i].client = b
    BY <1>1, <2>1
  <2> QED BY <2>1, <2>3, <2>4, <2>5, Zenon DEF BucketOf
<1>4. CASE t # None /\ m = None
  <2>0. B = <<x, z>> /\ x \in Place /\ z \in Place
    BY <1>1, <1>2, <1>4
  <2>1. /\ B = <<x, z>> /\ Len(B) = 2 /\ B[1] = x /\ B[2] = z /\ B \in Seq(Place) /\ B # <<>>
        /\ \A i \in 1..Len(B) : i = 1 \/ i = 2
    BY <2>0
  <2>2. SlotRank(x) < SlotRank(z)
    BY <1>1, <1>4
  <2>3. \A i, j \in 1..Len(B) : i < j => SlotRank(B[i]) < SlotRank(B[j]) \/ B[i] = B[j]
    BY <2>1, <2>2
  <2>4. \A l \in SearchPlaces(id) : l.client = b => \E i \in 1..Len(B) : B[i] = l
    BY <1>1, <1>4, <2>1
  <2>5. \A i \in 1..Len(B) : B[i] \in SearchPlaces(id) /\ B[i].client = b
    BY <1>1, <2>1
  <2> QED BY <2>1, <2>3, <2>4, <2>5, Zenon DEF BucketOf
<1>5. CASE t = None /\ m # None
  <2>0. B = <<y, z>> /\ y \in Place /\ z \in Place
    BY <1>1, <1>2, <1>5
  <2>1. /\ B = <<y, z>> /\ Len(B) = 2 /\ B[1] = y /\ B[2] = z /\ B \in Seq(Place) /\ B # <<>>
        /\ \A i \in 1..Len(B) : i = 1 \/ i = 2
    BY <2>0
  <2>2. SlotRank(y) < SlotRank(z)
    BY <1>1, <1>5
  <2>3. \A i, j \in 1..Len(B) : i < j => SlotRank(B[i]) < SlotRank(B[j]) \/ B[i] = B[j]
    BY <2>1, <2>2
  <2>4. \A l \in SearchPlaces(id) : l.client = b => \E i \in 1..Len(B) : B[i] = l
    BY <1>1, <1>5, <2>1
  <2>5. \A i \in 1..Len(B) : B[i] \in SearchPlaces(id) /\ B[i].client = b
    BY <1>1, <2>1
  <2> QED BY <2>1, <2>3, <2>4, <2>5, Zenon DEF BucketOf
<1>6. CASE t = None /\ m = None
  <2>0. B = <<z>> /\ z \in Place
    BY <1>1, <1>2, <1>6
  <2>1. /\ B = <<z>> /\ Len(B) = 1 /\ B[1] = z /\ B \in Seq(Place) /\ B # <<>>
        /\ \A i \in 1..Len(B) : i = 1
    BY <2>0
  <2>3. \A i, j \in 1..Len(B) : i < j => SlotRank(B[i]) < SlotRank(B[j]) \/ B[i] = B[j]
    BY <2>1
  <2>4. \A l \in SearchPlaces(id) : l.client = b => \E i \in 1..Len(B) : B[i] = l
    BY <1>1, <1>6, <2>1
  <2>5. \A i \in 1..Len(B) : B[i] \in SearchPlaces(id) /\ B[i].client = b
    BY <1>1, <2>1
  <2> QED BY <2>1, <2>3, <2>4, <2>5, Zenon DEF BucketOf
<1> QED BY <1>3, <1>4, <1>5, <1>6

LEMMA BucketsOrdered ==
  ASSUME NEW id \in {"own", "branch"}, reader.query \in Queries, NEW b \in {reader.query.client, None}
  PROVE  BucketOf(Bucket(id, b, reader.query), id, b)
<1> DEFINE q == reader.query
           t == q.target
           m == q.class
           at(s) == [id |-> id, client |-> b, slot |-> s]
           B == Bucket(id, b, q)
<1>1. /\ at(t) \in Place /\ at(m) \in Place /\ at(None) \in Place
      /\ at(t) \in SearchPlaces(id) /\ at(m) \in SearchPlaces(id) /\ at(None) \in SearchPlaces(id)
  BY QueryTyped DEF Place, SearchPlaces
<1>2. \A l \in SearchPlaces(id) : l.client = b => l = at(t) \/ l = at(m) \/ l = at(None)
  BY DEF SearchPlaces
<1>3. /\ SlotRank(at(None)) = 2 
      /\ t # None => SlotRank(at(t)) = 0
      /\ m # None /\ m # t => SlotRank(at(m)) = 1
      /\ at(t).client = b /\ at(m).client = b /\ at(None).client = b
  BY DEF SlotRank
<1>4. /\ t # None /\ m # None => B = <<at(t), at(m), at(None)>>
      /\ t # None /\ m = None => B = <<at(t), at(None)>>
      /\ t = None /\ m # None => B = <<at(m), at(None)>>
      /\ t = None /\ m = None => B = <<at(None)>>
  <2> DEFINE given(u) == IF u = None THEN <<>> ELSE <<at(u)>>
  <2>1. B = given(t) \o given(m) \o <<at(None)>>
    BY DEF Bucket
  <2>2. /\ given(t) = IF t = None THEN <<>> ELSE <<at(t)>>
        /\ given(m) = IF m = None THEN <<>> ELSE <<at(m)>>
    OBVIOUS
  <2>3. at(t) \in Place /\ at(m) \in Place /\ at(None) \in Place
    BY <1>1
  <2> DEFINE x == at(t)
             y == at(m)
             z == at(None)
  <2>4. /\ <<x>> \o <<y>> \o <<z>> = <<x, y, z>>
        /\ <<x>> \o <<>> \o <<z>> = <<x, z>>
        /\ <<>> \o <<y>> \o <<z>> = <<y, z>>
        /\ <<>> \o <<>> \o <<z>> = <<z>>
    <3> HIDE DEF x, y, z
    <3> QED BY <2>3, Tuples DEF x, y, z
  <2>5. /\ t # None => given(t) = <<x>>
        /\ t = None => given(t) = <<>>
        /\ m # None => given(m) = <<y>>
        /\ m = None => given(m) = <<>>
    BY <2>2
  <2>6. B = given(t) \o given(m) \o <<z>>
    BY <2>1
  <2> HIDE DEF given, B, x, y, z
  <2>7. /\ t # None /\ m # None => B = <<x, y, z>>
        /\ t # None /\ m = None => B = <<x, z>>
        /\ t = None /\ m # None => B = <<y, z>>
        /\ t = None /\ m = None => B = <<z>>
    BY <2>4, <2>5, <2>6
  <2> QED BY <2>7 DEF x, y, z
<1> DEFINE x == at(t)
           y == at(m)
           z == at(None)
<1>5. /\ x \in Place /\ y \in Place /\ z \in Place /\ x \in SearchPlaces(id) /\ y \in SearchPlaces(id) /\ z \in SearchPlaces(id)
      /\ \A l \in SearchPlaces(id) : l.client = b => l = x \/ l = y \/ l = z
      /\ SlotRank(z) = 2 /\ (t # None => SlotRank(x) = 0) /\ (m # None /\ m # t => SlotRank(y) = 1)
      /\ x.client = b /\ y.client = b /\ z.client = b
      /\ (t = m => x = y) /\ (t = None => x = z) /\ (m = None => y = z)
  BY <1>1, <1>2, <1>3
<1>6. /\ t # None /\ m # None => B = <<x, y, z>>
      /\ t # None /\ m = None => B = <<x, z>>
      /\ t = None /\ m # None => B = <<y, z>>
      /\ t = None /\ m = None => B = <<z>>
  BY <1>4
<1>7. PICK u, v, C, d, e, f : u = t /\ v = m /\ C = B /\ d = x /\ e = y /\ f = z
  OBVIOUS
<1>8. /\ d \in Place /\ e \in Place /\ f \in Place /\ d \in SearchPlaces(id) /\ e \in SearchPlaces(id) /\ f \in SearchPlaces(id)
      /\ \A l \in SearchPlaces(id) : l.client = b => l = d \/ l = e \/ l = f
      /\ SlotRank(f) = 2 /\ (u # None => SlotRank(d) = 0) /\ (v # None /\ v # u => SlotRank(e) = 1)
      /\ d.client = b /\ e.client = b /\ f.client = b
      /\ (u = v => d = e) /\ (u = None => d = f) /\ (v = None => e = f)
  BY <1>5, <1>7, Zenon
<1>9. /\ u # None /\ v # None => C = <<d, e, f>>
      /\ u # None /\ v = None => C = <<d, f>>
      /\ u = None /\ v # None => C = <<e, f>>
      /\ u = None /\ v = None => C = <<f>>
  BY <1>6, <1>7, Zenon
<1>10. BucketShape(id, b, u, v, C, d, e, f)
  BY <1>8, <1>9 DEF BucketShape
<1>11. BucketOf(C, id, b)
  BY <1>10, ShapeOrdered
<1> QED BY <1>7, <1>11

ChainOrdered(id) ==
  LET chain == Chain(id, reader.query)
  IN  /\ chain \in Seq(Place) /\ chain # <<>> /\ Ordered(chain, id)
      /\ \A l \in SearchPlaces(id) : \E i \in 1..Len(chain) : chain[i] = l

LEMMA ChainsOrdered ==
  ASSUME NEW id \in {"own", "branch"}, reader.query \in Queries
  PROVE  ChainOrdered(id)
<1> SUFFICES LET chain == Chain(id, reader.query)
             IN  /\ chain \in Seq(Place) /\ chain # <<>> /\ Ordered(chain, id)
                 /\ \A l \in SearchPlaces(id) : \E i \in 1..Len(chain) : chain[i] = l
  BY DEF ChainOrdered
<1> DEFINE c == reader.query.client
           A == Bucket(id, c, reader.query)
           B == Bucket(id, None, reader.query)
<1>1. BucketOf(A, id, c) /\ BucketOf(B, id, None)
  BY BucketsOrdered
<1>2. \A l \in SearchPlaces(id) : l.client = c \/ l.client = None
  BY DEF SearchPlaces
<1>3. Chain(id, reader.query) = IF c = None THEN B ELSE A \o B
  <2>1. B \in Seq(Place) /\ Chain(id, reader.query) = (IF c # None THEN A ELSE <<>>) \o B
    BY <1>1 DEF Chain, BucketOf
  <2> HIDE DEF A, B, c
  <2>2. <<>> \o B = B
    BY <2>1
  <2> QED BY <2>1, <2>2
<1>4. /\ \A l : l.client = c => BucketRank(l) = 0
      /\ \A l : l.client = None /\ c # None => BucketRank(l) = 1
  BY DEF BucketRank
<1>5. CASE c = None
  <2>1. Ordered(B, id)
    BY <1>1, <1>4, <1>5 DEF BucketOf, Ordered, MoreSpecific
  <2> HIDE DEF B
  <2> QED BY <1>1, <1>2, <1>3, <1>5, <2>1 DEF BucketOf
<1>6. CASE c # None
  <2> HIDE DEF A, B, c
  <2> DEFINE D == A \o B
             n == Len(A)
  <2>1. /\ A \in Seq(Place) /\ B \in Seq(Place) /\ D \in Seq(Place) /\ n \in Nat /\ Len(B) \in Nat /\ Len(D) = n + Len(B)
        /\ \A i \in 1..n : D[i] = A[i]
        /\ \A i \in (n + 1)..Len(D) : i - n \in 1..Len(B) /\ D[i] = B[i - n]
        /\ \A i \in 1..Len(B) : n + i \in 1..Len(D) /\ D[n + i] = B[i]
        /\ D # <<>>
    BY <1>1 DEF BucketOf
  <2> HIDE DEF D, n
  <2>2. \A i \in 1..Len(D) : i \in 1..n \/ i \in (n + 1)..Len(D)
    BY <2>1
  <2>7. /\ \A i \in 1..n : A[i] \in SearchPlaces(id) /\ A[i].client = c
        /\ \A i, j \in 1..n : i < j => SlotRank(A[i]) < SlotRank(A[j]) \/ A[i] = A[j]
        /\ \A i \in 1..Len(B) : B[i] \in SearchPlaces(id) /\ B[i].client = None
        /\ \A i, j \in 1..Len(B) : i < j => SlotRank(B[i]) < SlotRank(B[j]) \/ B[i] = B[j]
    BY <1>1 DEF BucketOf, n
  <2>3. \A i \in 1..Len(D) : D[i] \in SearchPlaces(id)
    BY <2>7, <2>1, <2>2
  <2>4. ASSUME NEW i \in 1..Len(D), NEW j \in 1..Len(D), i < j
        PROVE  MoreSpecific(D[i], D[j]) \/ D[i] = D[j]
    <3>1. CASE i \in 1..n /\ j \in 1..n
      <4>1. /\ D[i] = A[i] /\ D[j] = A[j] /\ A[i].client = c /\ A[j].client = c
            /\ SlotRank(A[i]) < SlotRank(A[j]) \/ A[i] = A[j]
        BY <2>7, <2>1, <2>4, <3>1
      <4>2. BucketRank(A[i]) = 0 /\ BucketRank(A[j]) = 0
        BY <1>4, <4>1
      <4> QED BY <4>1, <4>2 DEF MoreSpecific
    <3>2. CASE i \in 1..n /\ j \in (n + 1)..Len(D)
      <4>1. D[i].client = c /\ D[j].client = None
        BY <2>7, <2>1, <3>2
      <4>2. BucketRank(D[i]) = 0 /\ BucketRank(D[j]) = 1
        BY <1>4, <1>6, <4>1
      <4> QED BY <4>2 DEF MoreSpecific
    <3>3. CASE i \in (n + 1)..Len(D) /\ j \in (n + 1)..Len(D)
      <4>1. /\ i - n \in 1..Len(B) /\ j - n \in 1..Len(B) /\ i - n < j - n
            /\ D[i] = B[i - n] /\ D[j] = B[j - n]
        BY <2>1, <2>4, <3>3
      <4>2. BucketRank(D[i]) = 1 /\ BucketRank(D[j]) = 1 /\ (SlotRank(D[i]) < SlotRank(D[j]) \/ D[i] = D[j])
        BY <1>4, <1>6, <2>7, <4>1
      <4> QED BY <4>2 DEF MoreSpecific
    <3>4. ~(i \in (n + 1)..Len(D) /\ j \in 1..n)
      BY <2>1, <2>4
    <3> QED BY <2>2, <3>1, <3>2, <3>3, <3>4
  <2>5. ASSUME NEW l \in SearchPlaces(id) PROVE \E i \in 1..Len(D) : D[i] = l
    <3>1. CASE l.client = c
      <4>1. PICK i \in 1..n : A[i] = l
        BY <1>1, <2>5, <3>1 DEF BucketOf, n
      <4>2. i \in 1..Len(D)
        BY <2>1
      <4> QED BY <2>1, <4>1, <4>2
    <3>2. CASE l.client = None
      <4>1. PICK i \in 1..Len(B) : B[i] = l
        BY <1>1, <2>5, <3>2 DEF BucketOf
      <4> QED BY <2>1, <4>1
    <3> QED BY <1>2, <3>1, <3>2
  <2>6. Ordered(D, id)
    BY <2>3, <2>4 DEF Ordered
  <2> QED BY <1>3, <1>6, <2>1, <2>5, <2>6 DEF D
<1> QED BY <1>5, <1>6

(* The order of places depends on the query only.                          *)
LEMMA SameQuery ==
  ASSUME reader'.query = reader.query
  PROVE  /\ \A id : SearchPlaces(id)' = SearchPlaces(id)
         /\ \A l, k : MoreSpecific(l, k)' = MoreSpecific(l, k)
<1>1. \A id : SearchPlaces(id)' = SearchPlaces(id)
  BY DEF SearchPlaces
<1>2. \A l : BucketRank(l)' = BucketRank(l) /\ SlotRank(l)' = SlotRank(l)
  BY DEF BucketRank, SlotRank
<1> QED BY <1>1, <1>2 DEF MoreSpecific

(* The places somebody changes are touched.                                *)
Touching ==
  /\ touched \subseteq touched'
  /\ \A l \in Place : files'[l] = files[l] \/ l \in touched'

LEMMA SearchTyped ==
  ASSUME reader.query \in Queries, NEW id \in {"own", "branch"}
  PROVE  SearchPlaces(id) \subseteq Place
BY QueryTyped DEF SearchPlaces, Place

LEMMA MostSpecificStays ==
  ASSUME Touching, reader'.query = reader.query, reader.query \in Queries, NEW id \in {"own", "branch"}, NEW v, MostSpecific(id, v)
  PROVE  MostSpecific(id, v)'
<1>1. \A l \in SearchPlaces(id) \ touched : files[l] \in Versions =>
        files[l] = v \/ \E k \in SearchPlaces(id) : MoreSpecific(k, l) /\ (files[k] = v \/ k \in touched)
  BY DEF MostSpecific
<1>2. \A l \in SearchPlaces(id) \ touched' : l \notin touched /\ files'[l] = files[l]
  BY SearchTyped DEF Touching
<1>3. \A k \in SearchPlaces(id) : files[k] = v \/ k \in touched => files'[k] = v \/ k \in touched'
  BY SearchTyped DEF Touching
<1>4. \A l \in SearchPlaces(id) \ touched' : files'[l] \in Versions =>
        files'[l] = v \/ \E k \in SearchPlaces(id) : MoreSpecific(k, l) /\ (files'[k] = v \/ k \in touched')
  BY <1>1, <1>2, <1>3
<1> QED BY <1>4, SameQuery DEF MostSpecific

LEMMA SameTouching ==
  ASSUME UNCHANGED <<files, touched>> PROVE Touching
BY DEF Touching

(* What the head of the chain holds is the most specific there is.         *)
LEMMA HeadIsMostSpecific ==
  ASSUME SearchInv, reader.pc \in {"look", "heal"}, NEW v,
         \/ v = None /\ Len(reader.chain) = 1 /\ files[Readable] \notin Versions
         \/ v \in Versions /\ v = files[Readable]
  PROVE  MostSpecific(reader.id, v)
<1> PICK c, id, h : c = reader.chain /\ id = reader.id /\ h = Readable
  OBVIOUS
<1>1. reader \in Readers /\ c \in Seq(Place) /\ c # <<>> /\ Ordered(c, id) /\ Ahead(c, id) /\ id \in {"own", "branch"}
  BY DEF SearchInv, NoReader, Readers
<1>2. 1 \in 1..Len(c) /\ h = c[1]
  BY <1>1 DEF Readable
<1>3. ASSUME NEW l \in SearchPlaces(id) \ touched, files[l] \in Versions
      PROVE  files[l] = v \/ \E k \in SearchPlaces(id) : MoreSpecific(k, l) /\ (files[k] = v \/ k \in touched)
  <2>1. PICK i \in 1..Len(c) : c[i] = l
    BY <1>1, <1>3 DEF Ahead
  <2>2. CASE i = 1
    BY <1>2, <1>3, <2>1, <2>2
  <2>3. CASE i # 1
    <3>1. 1 < i /\ Len(c) # 1
      BY <2>1, <2>3
    <3>2. MoreSpecific(c[1], c[i]) \/ c[1] = c[i]
      BY <1>1, <1>2, <2>1, <3>1 DEF Ordered
    <3>3. files[h] = v /\ h \in SearchPlaces(id)
      BY <1>1, <1>2, <3>1 DEF Ordered
    <3> QED BY <1>2, <2>1, <3>2, <3>3
  <2> QED BY <2>2, <2>3
<1> QED BY <1>3 DEF MostSpecific

LEMMA BetterIsBest ==
  ASSUME NEW own \in Answers, NEW branch \in Answers
  PROVE  /\ Better(own, branch) \in Answers
         /\ \A v \in {own, branch} \ {None} : Better(own, branch) # None /\ Score[Better(own, branch)] >= Score[v]
<1>1. None \notin Versions /\ \A v \in Versions : Score[v] \in Int
  BY PromotionAssumption DEF PromotionAssumption
<1> QED BY <1>1 DEF Better, Answers

(* A search whose query stays and whose chain is as it should.             *)
LEMMA ResolvedKeeps ==
  ASSUME SearchInv, reader.pc \in {"look", "heal"}, NEW v \in Answers, MostSpecific(reader.id, v),
         Resolved(v), UNCHANGED <<files, touched>>
  PROVE  SearchInv'
<1> PICK q, own : q = reader.query /\ own = reader.own
  OBVIOUS
<1>1. /\ reader \in Readers /\ q \in Queries /\ own \in Answers /\ reader.id \in {"own", "branch"} /\ Touching /\ FileTypes'
      /\ reader.id = "branch" => MostSpecific("own", own)
  BY SameTouching DEF SearchInv, NoReader, Readers, FileTypes
<1>2. CASE reader.id = "own"
  <2> PICK c : c = Chain("branch", q)
    OBVIOUS
  <2>1. reader' = [reader EXCEPT !.pc = "look", !.own = v, !.id = "branch", !.chain = c]
    BY <1>2 DEF Resolved
  <2>2. /\ reader' \in [pc : {"look"}, id : {"branch"}, query : {q}, chain : {c}, own : {v}, branch : Answers, result : Answers]
    BY <1>1, <2>1 DEF Readers
  <2>3. reader'.pc = "look" /\ reader'.own = v /\ reader'.id = "branch" /\ reader'.chain = c /\ reader'.query = q
    BY <2>2
  <2>4. /\ c \in Seq(Place) /\ c # <<>> /\ Ordered(c, "branch")
        /\ \A l \in SearchPlaces("branch") : \E i \in 1..Len(c) : c[i] = l
    BY <1>1, ChainsOrdered DEF ChainOrdered
  <2>5. Ordered(c, "branch")' /\ Ahead(c, "branch")'
    BY <1>1, <2>3, <2>4, SameQuery DEF Ordered, Ahead
  <2>6. MostSpecific("own", v)'
    BY <1>1, <1>2, <2>3, MostSpecificStays
  <2>7. reader' \in Readers
    BY <1>1, <2>2, <2>4 DEF Readers
  <2> QED BY <1>1, <2>3, <2>4, <2>5, <2>6, <2>7 DEF SearchInv
<1>3. CASE reader.id = "branch"
  <2> PICK r : r = Better(own, v)
    OBVIOUS
  <2>1. reader' = [reader EXCEPT !.pc = "done", !.branch = v, !.chain = <<>>, !.result = r]
    BY <1>3 DEF Resolved
  <2>2. r \in Answers /\ \A w \in {own, v} \ {None} : r # None /\ Score[r] >= Score[w]
    BY <1>1, BetterIsBest
  <2>3. reader' \in [pc : {"done"}, id : {"branch"}, query : {q}, chain : {<<>>}, own : {own}, branch : {v}, result : {r}]
    BY <1>1, <1>3, <2>1 DEF Readers
  <2>4. reader'.pc = "done" /\ reader'.own = own /\ reader'.branch = v /\ reader'.result = r /\ reader'.query = q
    BY <2>3
  <2>5. MostSpecific("own", own)' /\ MostSpecific("branch", v)'
    BY <1>1, <1>3, <2>4, MostSpecificStays
  <2>6. Decided'
    BY <2>2, <2>4, <2>5 DEF Decided
  <2>7. reader' \in Readers
    <3>1. <<>> \in Seq(Place)
      OBVIOUS
    <3> QED BY <1>1, <2>2, <2>3, <3>1 DEF Readers
  <2> QED BY <1>1, <2>4, <2>6, <2>7 DEF SearchInv
<1> QED BY <1>1, <1>2, <1>3

LEMMA TailOf ==
  ASSUME NEW S, NEW c \in Seq(S), c # <<>>, Len(c) # 1
  PROVE  /\ Tail(c) \in Seq(S) /\ Tail(c) # <<>> /\ Len(Tail(c)) = Len(c) - 1 /\ Len(c) \in Nat
         /\ \A i \in 1..Len(Tail(c)) : i + 1 \in 1..Len(c) /\ Tail(c)[i] = c[i + 1]
<1>1. Len(c) \in Nat \ {0} /\ Len(<<>>) = 0
  BY EmptySeq
<1>2. Len(c) > 1
  <2>1. PICK n : n = Len(c)
    OBVIOUS
  <2>2. n \in Nat /\ n # 0 /\ n # 1
    BY <1>1, <2>1
  <2>3. n > 1
    BY <2>2
  <2> QED BY <2>1, <2>3
<1>3. Tail(c) \in Seq(S) /\ Len(Tail(c)) = Len(c) - 1 /\ \A i \in 1..(Len(c) - 1) : Tail(c)[i] = c[i + 1]
  BY HeadTailProperties
<1>4. Len(Tail(c)) # 0
  BY <1>1, <1>2, <1>3
<1>5. Tail(c) # <<>>
  BY <1>1, <1>4
<1>6. \A i \in 1..(Len(c) - 1) : i + 1 \in 1..Len(c)
  BY <1>1
<1> QED BY <1>1, <1>3, <1>5, <1>6

LEMMA PassOverKeeps ==
  ASSUME SearchInv, reader.pc \in {"look", "heal"}, files[Readable] \notin Versions,
         PassOver, UNCHANGED <<files, touched>>
  PROVE  SearchInv'
<1> PICK q, c, id, own : q = reader.query /\ c = reader.chain /\ id = reader.id /\ own = reader.own
  OBVIOUS
<1>1. /\ reader \in Readers /\ q \in Queries /\ id \in {"own", "branch"} /\ own \in Answers
      /\ c \in Seq(Place) /\ c # <<>> /\ Ordered(c, id) /\ Ahead(c, id) /\ Touching /\ FileTypes'
      /\ id = "branch" => MostSpecific("own", own)
  BY SameTouching DEF SearchInv, NoReader, Readers, FileTypes
<1>2. CASE Len(c) = 1
  <2>1. Resolved(None)
    BY <1>2 DEF PassOver
  <2> QED BY <1>2, <2>1, HeadIsMostSpecific, ResolvedKeeps DEF Answers
<1>3. CASE Len(c) # 1
  <2> PICK d : d = Tail(c)
    OBVIOUS
  <2>1. reader' = [reader EXCEPT !.pc = "look", !.chain = d]
    BY <1>3 DEF PassOver
  <2>2. /\ d \in Seq(Place) /\ d # <<>> /\ Len(d) = Len(c) - 1 /\ Len(c) \in Nat
        /\ \A i \in 1..Len(d) : i + 1 \in 1..Len(c) /\ d[i] = c[i + 1]
    BY <1>1, <1>3, TailOf
  <2>3. reader' \in [pc : {"look"}, id : {id}, query : {q}, chain : {d}, own : {own}, branch : Answers, result : Answers]
    BY <1>1, <2>1 DEF Readers
  <2>4. reader'.pc = "look" /\ reader'.own = own /\ reader'.id = id /\ reader'.chain = d /\ reader'.query = q
    BY <2>3
  <2>5. Ordered(d, id)'
    <3>1. Ordered(d, id)
      <4>1. \A i \in 1..Len(d) : d[i] \in SearchPlaces(id)
        BY <1>1, <2>2 DEF Ordered
      <4>2. ASSUME NEW i \in 1..Len(d), NEW j \in 1..Len(d), i < j
            PROVE  MoreSpecific(d[i], d[j]) \/ d[i] = d[j]
        <5>1. i + 1 < j + 1 /\ i + 1 \in 1..Len(c) /\ j + 1 \in 1..Len(c) /\ d[i] = c[i + 1] /\ d[j] = c[j + 1]
          BY <2>2, <4>2
        <5> QED BY <1>1, <5>1 DEF Ordered
      <4> QED BY <4>1, <4>2 DEF Ordered
    <3> QED BY <1>1, <2>4, <3>1, SameQuery DEF Ordered
  <2>6. Ahead(d, id)'
    <3>1. ASSUME NEW l \in SearchPlaces(id) \ touched, files[l] \in Versions
          PROVE  \E i \in 1..Len(d) : d[i] = l
      <4>1. PICK i \in 1..Len(c) : c[i] = l
        BY <1>1, <3>1 DEF Ahead
      <4>2. i # 1
        BY <1>1, <3>1, <4>1 DEF Readable
      <4>3. i - 1 \in 1..Len(d) /\ (i - 1) + 1 = i
        BY <2>2, <4>1, <4>2
      <4> QED BY <2>2, <4>1, <4>3
    <3> QED BY <1>1, <2>4, <3>1, SameQuery DEF Ahead
  <2>7. id = "branch" => MostSpecific("own", own)'
    BY <1>1, <2>4, MostSpecificStays
  <2>8. reader' \in Readers
    BY <1>1, <2>2, <2>3 DEF Readers
  <2> QED BY <1>1, <2>2, <2>4, <2>5, <2>6, <2>7, <2>8 DEF SearchInv
<1> QED BY <1>2, <1>3

LEMMA NextChainOrdered == (reader.query \in Queries => ChainOrdered("own"))'
<1>1. reader.query \in Queries => ChainOrdered("own")
  BY ChainsOrdered
<1> QED BY <1>1, PTL

LEMMA SearchBegins ==
  ASSUME NEW q \in Queries, reader'.query = q
  PROVE  LET chain == Chain("own", q)
         IN  /\ chain \in Seq(Place) /\ chain # <<>> /\ Ordered(chain, "own")'
             /\ \A l \in SearchPlaces("own")' : \E i \in 1..Len(chain) : chain[i] = l
BY NextChainOrdered DEF ChainOrdered

(* A command may change the files while a search runs, but only in places  *)
(* it touches.                                                             *)
LEMMA TouchingKeeps ==
  ASSUME SearchInv, FileTypes', UNCHANGED reader, reader # NoReader => Touching
  PROVE  SearchInv'
<1>1. CASE reader = NoReader
  BY <1>1 DEF SearchInv, NoReader
<1>2. CASE reader \in Readers
  <2> PICK id, c, own, branch : id = reader.id /\ c = reader.chain /\ own = reader.own /\ branch = reader.branch
    OBVIOUS
  <2>1. Touching /\ reader'.query = reader.query /\ reader.query \in Queries /\ id \in {"own", "branch"}
    BY <1>2 DEF Readers, NoReader
  <2>2. ASSUME reader.pc \in {"look", "heal"}
        PROVE  /\ c # <<>> /\ Ordered(c, id)' /\ Ahead(c, id)' /\ (id = "branch" => MostSpecific("own", own)')
    <3>1. c # <<>> /\ Ordered(c, id) /\ Ahead(c, id) /\ (id = "branch" => MostSpecific("own", own))
      BY <2>2 DEF SearchInv
    <3>2. Ordered(c, id)'
      BY <2>1, <3>1, SameQuery DEF Ordered
    <3>3. Ahead(c, id)'
      <4>1. \A l \in SearchPlaces(id) \ touched' : l \in SearchPlaces(id) \ touched /\ files'[l] = files[l]
        BY <2>1, SearchTyped DEF Touching
      <4> QED BY <2>1, <3>1, <4>1, SameQuery DEF Ahead
    <3> QED BY <2>1, <3>1, <3>2, <3>3, MostSpecificStays
  <2>3. ASSUME reader.pc = "done" PROVE Decided'
    <3>1. MostSpecific("own", own) /\ MostSpecific("branch", branch)
      BY <2>3 DEF SearchInv, Decided
    <3>2. MostSpecific("own", own)' /\ MostSpecific("branch", branch)'
      BY <2>1, <3>1, MostSpecificStays
    <3> QED BY <2>3, <3>2 DEF SearchInv, Decided
  <2> QED BY <1>2, <2>2, <2>3 DEF SearchInv
<1> QED BY <1>1, <1>2 DEF SearchInv

LEMMA ChangeTouches ==
  ASSUME FileTypes, TellInv, NEW p \in Procs, NEW c \in Versions \cup {Absent, Torn}, Change(p, c)
  PROVE  FileTypes' /\ (reader # NoReader => Touching)
BY DEF FileTypes, Change, Touching

LEMMA CommandsSearch ==
  ASSUME SearchInv, TellInv, NEW p \in Procs, Command(p)
  PROVE  SearchInv'
<1>1. FileTypes
  BY DEF SearchInv
<1>2. UNCHANGED reader
  BY DEF Command, Promote, Load, Unload, Rollback, Start, Check, Truncate, Write, Unlink, Record, Die, ghosts
<1>3. CASE UNCHANGED <<files, touched>>
  BY <1>1, <1>2, <1>3, TouchingKeeps, SameTouching DEF FileTypes
<1>4. CASE Truncate(p)
  <2>1. Change(p, Torn)
    BY <1>4 DEF Truncate
  <2> QED BY <1>1, <1>2, <2>1, ChangeTouches, TouchingKeeps
<1>5. CASE Write(p)
  <2> PICK v : v = job[p].version
    OBVIOUS
  <2>1. Change(p, v) /\ v \in Versions
    BY <1>5 DEF Write, TellInv, TellTypes, Running, Commanded
  <2> QED BY <1>1, <1>2, <2>1, ChangeTouches, TouchingKeeps
<1>6. CASE Unlink(p) /\ files[job[p].place] # Absent
  <2>1. Change(p, Absent)
    BY <1>6 DEF Unlink
  <2> QED BY <1>1, <1>2, <2>1, ChangeTouches, TouchingKeeps
<1>7. \/ UNCHANGED <<files, touched>> \/ Truncate(p) \/ Write(p)
      \/ Unlink(p) /\ files[job[p].place] # Absent
  BY DEF Command, Promote, Load, Unload, Rollback, Start, Check, Unlink, Record, Die, ghosts
<1> QED BY <1>3, <1>4, <1>5, <1>6, <1>7

LEMMA ResolveSearches == ASSUME SearchInv, Resolve PROVE SearchInv'
<1> PICK f : f = files[Readable]
  OBVIOUS
<1>1. /\ UNCHANGED <<files, touched>> /\ reader.pc \in {"look", "heal"}
      /\ \/ f = Absent /\ PassOver
         \/ reader.pc = "look" /\ reader' = [reader EXCEPT !.pc = "heal"]
         \/ f \in Versions /\ Resolved(f)
         \/ f \notin Versions /\ PassOver
  <2>1. reader \in Readers /\ reader.chain # <<>> /\ Ordered(reader.chain, reader.id) /\ FileTypes
    BY DEF Resolve, Look, Heal, SearchInv, NoReader
  <2>2. Readable \in Place
    <3>1. reader.chain \in Seq(Place)
      BY <2>1 DEF Readers
    <3> QED BY <2>1, <3>1, HeadTailProperties DEF Readable
  <2>3. f \in Versions \cup {Absent, Torn}
    BY <2>1, <2>2 DEF FileTypes
  <2>4. CASE Look
    BY <2>3, <2>4 DEF Look, ghosts
  <2>5. CASE Heal
    BY <2>5 DEF Heal, Unhealed, ghosts
  <2> QED BY <2>4, <2>5 DEF Resolve
<1>2. CASE f \notin Versions /\ PassOver
  BY <1>1, <1>2, PassOverKeeps
<1>3. CASE f = Absent /\ PassOver
  <2>1. f \notin Versions
    BY <1>3, PromotionAssumption DEF PromotionAssumption
  <2> QED BY <1>2, <1>3, <2>1
<1>4. CASE f \in Versions /\ Resolved(f)
  BY <1>1, <1>4, HeadIsMostSpecific, ResolvedKeeps DEF Answers
<1>5. CASE reader.pc = "look" /\ reader' = [reader EXCEPT !.pc = "heal"]
  <2> PICK id, c, own : id = reader.id /\ c = reader.chain /\ own = reader.own
    OBVIOUS
  <2>1. /\ reader \in Readers /\ FileTypes /\ c # <<>> /\ Ordered(c, id) /\ Ahead(c, id) /\ (id = "branch" => MostSpecific("own", own))
    BY <1>5 DEF SearchInv, NoReader
  <2>2. reader' \in Readers
    BY <1>5, <2>1 DEF Readers
  <2>3. reader'.pc = "heal" /\ reader'.id = id /\ reader'.chain = c /\ reader'.own = own /\ reader'.query = reader.query
    BY <1>5, <2>1 DEF Readers
  <2>4. Ordered(c, id)' /\ Ahead(c, id)'
    BY <1>1, <2>1, <2>3, SameQuery DEF Ordered, Ahead
  <2>5. id = "branch" => MostSpecific("own", own)'
    <3>1. reader.query \in Queries /\ Touching
      BY <1>1, <2>1, SameTouching DEF Readers
    <3> QED BY <2>1, <2>3, <3>1, MostSpecificStays
  <2> QED BY <1>1, <2>1, <2>2, <2>3, <2>4, <2>5 DEF SearchInv, FileTypes
<1> QED BY <1>1, <1>2, <1>3, <1>4, <1>5

LEMMA CompileSearches == ASSUME SearchInv, Compile PROVE SearchInv'
<1>1. PICK q \in Queries : reader' = [pc |-> "look", id |-> "own", query |-> q, chain |-> Chain("own", q),
                                      own |-> None, branch |-> None, result |-> None]
  BY DEF Compile
<1> PICK c : c = Chain("own", q)
  OBVIOUS
<1>2. /\ reader'.pc = "look" /\ reader'.id = "own" /\ reader'.chain = c /\ reader'.query = q /\ UNCHANGED files /\ FileTypes'
  BY <1>1 DEF Compile, SearchInv, FileTypes
<1>3. /\ c \in Seq(Place) /\ c # <<>> /\ Ordered(c, "own")'
      /\ \A l \in SearchPlaces("own")' : \E i \in 1..Len(c) : c[i] = l
  BY <1>2, SearchBegins
<1>4. Ahead(c, "own")'
  BY <1>3 DEF Ahead
<1>5. reader' \in Readers
  <2>1. None \in Answers
    BY DEF Answers
  <2> QED BY <1>1, <1>3, <2>1 DEF Readers
<1> QED BY <1>2, <1>3, <1>4, <1>5 DEF SearchInv

(* A compile takes the most specific promotion there is, and of an agent   *)
(* and its branch the one that scored higher (snapshot.py,                 *)
(* resolve_promoted and apply_promoted): whatever the buckets and slots    *)
(* are, and whatever commands change meanwhile.                            *)
THEOREM CompilesResolve == Spec => []ResolvesMostSpecific
<1>1. Init => TellInv /\ SearchInv
  <2> SUFFICES ASSUME Init PROVE SearchInv
    BY InitTells
  <2>1. FileTypes
    BY PromotionAssumption DEF Init, FileTypes, PromotionAssumption
  <2> QED BY <2>1 DEF Init, SearchInv, NoReader
<1>2. TellInv /\ SearchInv /\ [Next]_vars => (TellInv /\ SearchInv)'
  <2> SUFFICES ASSUME TellInv, SearchInv, [Next]_vars PROVE SearchInv'
    BY NextTells
  <2>1. CASE \E p \in Procs : Command(p)
    BY <2>1, CommandsSearch
  <2>2. CASE CompileEnds
    BY <2>2 DEF CompileEnds, SearchInv, FileTypes, NoReader
  <2>3. CASE UNCHANGED vars
    <3>1. UNCHANGED <<files, touched, reader>> /\ FileTypes'
      BY <2>3 DEF vars, SearchInv, FileTypes
    <3> QED BY <3>1, SameTouching, TouchingKeeps
  <2> QED BY <2>1, <2>2, <2>3, CompileSearches, ResolveSearches DEF Next
<1>3. SearchInv => ResolvesMostSpecific
  BY DEF SearchInv, Decided, ResolvesMostSpecific
<1> QED BY <1>1, <1>2, <1>3, PTL DEF Spec
=============================================================================
