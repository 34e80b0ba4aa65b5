------------------------ MODULE IterativeLoop_proofs ------------------------
(***************************************************************************)
(* What one optimisation run searches, ranks and stores is told truly, for *)
(* any mutators, scores, rounds, runs, failures and crashes; what the      *)
(* loops derived from it export stays apart; the grades are earned; what   *)
(* is frozen survives every mutation; a promoted prompt lands in its file: *)
(* LoopTold, RecordsGrow, TargetsApart, EvaluationSound, EditsSound and    *)
(* PromptLands.                                                            *)
(***************************************************************************)
EXTENDS SourceApply, Mutations, Arrangement_proofs, Evaluation, IterativeLoop, DerivedLoops, FiniteSetTheorems, SequenceTheorems, TLAPS

---------------------------------------------------------------------------
(* The ranking.  Before orders the places of a sequence strictly, so those *)
(* of a set of places stand at 1, 2 ... up to their number.                *)

Ranked(s, I) ==
  /\ s \in Seq(Hashes) /\ I \subseteq DOMAIN s
  /\ \A i \in I : s[i] \in DOMAIN registry /\ Score(s[i]) \in Int

LEMMA BeforeIsTotal ==
  ASSUME NEW s, NEW I, Ranked(s, I)
  PROVE  /\ I \subseteq Nat
         /\ \A i \in I : ~Before(s, i, i)
         /\ \A i, j \in I : i # j => Before(s, i, j) \/ Before(s, j, i)
         /\ \A i, j, k \in I : Before(s, i, j) /\ Before(s, j, k) => Before(s, i, k)
<1>1. I \subseteq Nat
  BY DEF Ranked
<1>2. \A i \in I : Score(s[i]) \in Int
  BY DEF Ranked
<1> QED BY <1>1, <1>2 DEF Before

LEMMA PlacesFinite ==
  ASSUME NEW s, NEW I, Ranked(s, I)
  PROVE  IsFiniteSet(I) /\ Cardinality(I) \in Nat
<1>1. I \in SUBSET (1..Len(s)) /\ Len(s) \in Nat
  BY DEF Ranked
<1>2. IsFiniteSet(1..Len(s))
  BY <1>1, FS_Interval
<1>3. IsFiniteSet(I)
  BY <1>1, <1>2, FS_Subset
<1> QED BY <1>3, FS_CardinalityType

(* Who comes before stands before.                                         *)
LEMMA StandingFollows ==
  ASSUME NEW s, NEW I, Ranked(s, I), NEW i \in I, NEW j \in I, Before(s, i, j)
  PROVE  /\ Standing(s, I, i) \in Int /\ Standing(s, I, j) \in Int
         /\ Standing(s, I, i) < Standing(s, I, j)
<1> DEFINE A == {k \in I : Before(s, k, i)}
           B == {k \in I : Before(s, k, j)}
<1>1. A \subseteq B /\ i \in B /\ i \notin A
  BY BeforeIsTotal
<1>2. IsFiniteSet(B) /\ IsFiniteSet(A)
  BY PlacesFinite, FS_Subset
<1>3. Cardinality(A) <= Cardinality(B) /\ Cardinality(A) # Cardinality(B)
  BY <1>1, <1>2, FS_Subset
<1>4. Cardinality(A) \in Nat /\ Cardinality(B) \in Nat
  BY <1>2, FS_CardinalityType
<1>5. Standing(s, I, i) = 1 + Cardinality(A) /\ Standing(s, I, j) = 1 + Cardinality(B)
  BY DEF Standing
<1> HIDE DEF A, B
<1> QED BY <1>3, <1>4, <1>5

LEMMA StandingInRange ==
  ASSUME NEW s, NEW I, Ranked(s, I), NEW i \in I
  PROVE  Standing(s, I, i) \in 1..Cardinality(I)
<1> DEFINE A == {k \in I : Before(s, k, i)}
<1>1. A \subseteq I /\ i \notin A
  BY BeforeIsTotal
<1>2. IsFiniteSet(I) /\ IsFiniteSet(A)
  BY PlacesFinite, FS_Subset
<1>3. Cardinality(A) <= Cardinality(I) /\ Cardinality(A) # Cardinality(I)
  BY <1>1, <1>2, FS_Subset
<1>4. Cardinality(A) \in Nat /\ Cardinality(I) \in Nat
  BY <1>2, FS_CardinalityType
<1>5. Standing(s, I, i) = 1 + Cardinality(A)
  BY DEF Standing
<1> HIDE DEF A
<1> QED BY <1>3, <1>4, <1>5

(* The standing tells the order, and every standing is somebody's.         *)
LEMMA StandingOrders ==
  ASSUME NEW s, NEW I, Ranked(s, I)
  PROVE  /\ \A i, j \in I : Standing(s, I, i) < Standing(s, I, j) => Before(s, i, j)
         /\ \A i, j \in I : Standing(s, I, i) = Standing(s, I, j) => i = j
         /\ \A k \in 1..Cardinality(I) : \E i \in I : Standing(s, I, i) = k
<1>1. \A i, j \in I : Standing(s, I, i) = Standing(s, I, j) => i = j
  BY BeforeIsTotal, StandingFollows
<1>2. \A i, j \in I : Standing(s, I, i) < Standing(s, I, j) => Before(s, i, j)
  <2> SUFFICES ASSUME NEW i \in I, NEW j \in I, Standing(s, I, i) < Standing(s, I, j)
               PROVE  Before(s, i, j)
    OBVIOUS
  <2>1. Standing(s, I, i) \in Int /\ Standing(s, I, j) \in Int
    BY StandingInRange, PlacesFinite
  <2>2. i # j
    BY <2>1
  <2>3. ~Before(s, j, i)
    BY <2>1, StandingFollows
  <2> QED BY <2>2, <2>3, BeforeIsTotal
<1>3. \A k \in 1..Cardinality(I) : \E i \in I : Standing(s, I, i) = k
  <2> DEFINE n == Cardinality(I)
             f == [i \in I |-> Standing(s, I, i)]
  <2>1. n \in Nat /\ IsFiniteSet(1..n) /\ Cardinality(1..n) = n
    BY PlacesFinite, FS_Interval
  <2>2. f \in [I -> 1..n] /\ \A i, j \in I : f[i] = f[j] => i = j
    BY <1>1, StandingInRange
  <2>3. f \in Injection(I, 1..n)
    BY <2>2 DEF Injection, IsInjective
  <2>4. f \in Surjection(I, 1..n)
    BY <2>1, <2>3, FS_Injection
  <2> QED BY <2>4 DEF Surjection
<1> QED BY <1>1, <1>2, <1>3

(* The best of some places: as many as the frontier takes, each one's      *)
(* place being its standing.                                               *)
LEMMA TopIsBest ==
  ASSUME NEW s, NEW I, Ranked(s, I)
  PROVE  /\ Cut(I) \in Nat /\ Cut(I) <= Cardinality(I) /\ Cut(I) <= FrontierSize
         /\ Cut(I) = Cardinality(I) \/ Cut(I) = FrontierSize
         /\ Top(s, I) \in Seq(Hashes) /\ Len(Top(s, I)) = Cut(I)
         /\ \A k \in 1..Cut(I) : \E i \in I : Standing(s, I, i) = k
         /\ \A k \in 1..Cut(I), i \in I : Standing(s, I, i) = k => Top(s, I)[k] = s[i]
<1>1. Cardinality(I) \in Nat
  BY PlacesFinite
<1>2. /\ Cut(I) \in Nat /\ Cut(I) <= Cardinality(I) /\ Cut(I) <= FrontierSize
      /\ Cut(I) = Cardinality(I) \/ Cut(I) = FrontierSize
  BY <1>1, LoopAssumption DEF Cut, LoopAssumption
<1>3. \A k \in 1..Cut(I) : \E i \in I : Standing(s, I, i) = k
  BY <1>1, <1>2, StandingOrders
<1>4. \A k \in 1..Cut(I), i \in I : Standing(s, I, i) = k => Top(s, I)[k] = s[i]
  <2> SUFFICES ASSUME NEW k \in 1..Cut(I), NEW i \in I, Standing(s, I, i) = k
               PROVE  (CHOOSE j \in I : Standing(s, I, j) = k) = i
    BY DEF Top
  <2> QED BY StandingOrders
<1>5. Top(s, I) \in [1..Cut(I) -> Hashes]
  <2> SUFFICES ASSUME NEW k \in 1..Cut(I) PROVE Top(s, I)[k] \in Hashes
    BY DEF Top
  <2>1. PICK i \in I : Standing(s, I, i) = k
    BY <1>3
  <2>2. s[i] \in Hashes
    BY DEF Ranked
  <2> QED BY <1>4, <2>1, <2>2
<1>6. Top(s, I) \in Seq(Hashes) /\ Len(Top(s, I)) = Cut(I)
  BY <1>2, <1>5
<1> QED BY <1>2, <1>3, <1>4, <1>6

---------------------------------------------------------------------------
(* The search: what is registered was evaluated once and descends from the *)
(* baseline.                                                               *)

Open      == {"baseline", "round", "survivors", "rank", "winners"}
Searching == {"round", "survivors", "rank", "winners", "done"}
Stages    == {"idle", "raised", "done"} \cup Open

Round == [candidates : Seq(Hashes), survivors : Seq(Hashes)]

Shapes ==
  /\ stage \in Stages /\ order \in Seq(Hashes)
  /\ registry = [h \in DOMAIN registry |-> registry[h]]
  /\ DOMAIN registry = ToSet(order)
  /\ \A h \in DOMAIN registry : registry[h] \in Version
  /\ frontier \in Seq(Hashes) /\ candidates \in Seq(Hashes)
  /\ survivors \in Seq(Hashes) /\ winners \in Seq(Hashes) /\ rounds \in Seq(Round)
  /\ at \in Nat /\ saved \in Nat /\ evaluations \in [Hashes -> Nat]

(* What is evaluated is registered, once.                                  *)
Registers ==
  /\ \A h \in Hashes : evaluations[h] = IF h \in DOMAIN registry THEN 1 ELSE 0
  /\ \A i, j \in DOMAIN order : order[i] = order[j] => i = j
  /\ stage \in Searching => Baseline \in DOMAIN registry

(* The candidates of the round are registered, each at its own place, and  *)
(* only the baseline and qualified versions are mutated.                   *)
Distinct(s) == \A i, j \in DOMAIN s : s[i] = s[j] => i = j
Qualifies(h) == h \in DOMAIN registry /\ registry[h].hard

Mutates ==
  /\ stage \in {"round", "survivors"} =>
       Distinct(candidates) /\ \A i \in DOMAIN candidates : candidates[i] \in DOMAIN registry
  /\ stage = "baseline" => candidates = <<>>
  /\ stage = "round" => \A i \in DOMAIN frontier : frontier[i] = Baseline \/ Qualifies(frontier[i])
  /\ stage = "survivors" => \A i \in DOMAIN survivors : Qualifies(survivors[i])

SInv == Shapes /\ Registers /\ Lineage /\ Mutates

(* A definition the registry does not have is evaluated and registered.    *)
LEMMA RegisterKeeps ==
  ASSUME Shapes, Registers, Lineage, NEW h \in Hashes, h \notin DOMAIN registry,
         NEW v \in Version, Register(h, v),
         evaluations' = [evaluations EXCEPT ![h] = @ + 1],
         IF h = Baseline THEN v.parent = Nobody
         ELSE v.parent \in DOMAIN registry /\ (v.parent = Baseline \/ registry[v.parent].hard)
  PROVE  /\ order' \in Seq(Hashes) /\ evaluations' \in [Hashes -> Nat]
         /\ registry' = [x \in DOMAIN registry' |-> registry'[x]]
         /\ DOMAIN registry' = ToSet(order)' /\ DOMAIN registry' = DOMAIN registry \cup {h}
         /\ \A x \in DOMAIN registry : registry'[x] = registry[x]
         /\ \A x \in DOMAIN registry' : registry'[x] \in Version
         /\ \A x \in Hashes : evaluations'[x] = IF x \in DOMAIN registry' THEN 1 ELSE 0
         /\ \A i, j \in DOMAIN order' : order'[i] = order'[j] => i = j
         /\ Lineage'
<1> USE DEF Shapes, Registers
<1>1. /\ order' = Append(order, h) /\ order' \in Seq(Hashes) /\ Len(order') = Len(order) + 1
      /\ \A i \in DOMAIN order : order'[i] = order[i]
      /\ order'[Len(order) + 1] = h
  BY SMTT(30) DEF Register
<1>2. /\ DOMAIN registry' = DOMAIN registry \cup {h}
      /\ \A x \in DOMAIN registry : registry'[x] = registry[x]
      /\ registry'[h] = v
  BY DEF Register
<1>3. DOMAIN order = 1..Len(order) /\ DOMAIN order' = 1..(Len(order) + 1) /\ Len(order) \in Nat
  BY <1>1
<1>4. ToSet(order)' = ToSet(order) \cup {h}
  <2>1. ToSet(order)' = {order'[i] : i \in DOMAIN order'}
    BY DEF ToSet
  <2>2. \A i \in DOMAIN order' : order'[i] \in ToSet(order) \cup {h}
    BY <1>1, <1>3 DEF ToSet
  <2>3. \A i \in DOMAIN order : \E j \in DOMAIN order' : order[i] = order'[j]
    BY <1>1, <1>3
  <2>4. Len(order) + 1 \in DOMAIN order' /\ h = order'[Len(order) + 1]
    BY <1>1, <1>3
  <2> QED BY <2>1, <2>2, <2>3, <2>4 DEF ToSet
<1>5. \A i \in DOMAIN order : order[i] \in DOMAIN registry
  BY DEF ToSet
<1>6. \A i, j \in DOMAIN order' : order'[i] = order'[j] => i = j
  BY <1>1, <1>3, <1>5
<1>7. \A x \in Hashes : evaluations'[x] = IF x \in DOMAIN registry' THEN 1 ELSE 0
  BY <1>2
<1>8. registry' = [x \in DOMAIN registry' |-> registry'[x]]
  BY <1>2 DEF Register
<1>9. Lineage'
  <2> SUFFICES ASSUME NEW i \in DOMAIN order'
               PROVE  LET p == registry'[order'[i]].parent
                      IN  IF order'[i] = Baseline THEN p = Nobody
                          ELSE /\ \E j \in 1..(i - 1) : order'[j] = p
                               /\ p # Baseline => registry'[p].hard
    BY DEF Lineage
  <2>1. CASE i \in DOMAIN order
    <3> DEFINE p == registry[order[i]].parent
    <3>1. order'[i] = order[i] /\ registry'[order'[i]] = registry[order[i]]
      BY <1>1, <1>2, <1>5, <2>1
    <3>2. IF order[i] = Baseline THEN p = Nobody
          ELSE (\E j \in 1..(i - 1) : order[j] = p) /\ (p # Baseline => registry[p].hard)
      BY <2>1 DEF Lineage
    <3>3. \A j \in 1..(i - 1) : order'[j] = order[j] /\ registry'[order[j]] = registry[order[j]]
      BY SMTT(30), <1>1, <1>2, <1>3, <1>5, <2>1
    <3> HIDE DEF p
    <3>4. order[i] # Baseline => \E j \in 1..(i - 1) : order'[j] = p /\ registry'[p] = registry[p]
      BY <3>2, <3>3
    <3> QED BY <3>1, <3>2, <3>4 DEF p
  <2>2. CASE i = Len(order) + 1
    <3>1. order'[i] = h /\ registry'[order'[i]] = v
      BY <1>1, <1>2, <2>2
    <3>2. CASE h = Baseline
      BY <3>1, <3>2
    <3>3. CASE h # Baseline
      <4>1. PICK j \in DOMAIN order : order[j] = v.parent
        BY <3>3 DEF ToSet
      <4>2. j \in 1..(i - 1) /\ order'[j] = v.parent
        BY <1>1, <1>3, <2>2, <4>1
      <4>3. v.parent # Baseline => registry'[v.parent].hard
        BY <1>2, <3>3
      <4> QED BY <3>1, <3>3, <4>2, <4>3
    <3> QED BY <3>2, <3>3
  <2>3. i \in DOMAIN order \/ i = Len(order) + 1
    BY <1>3
  <2> QED BY <2>1, <2>2, <2>3
<1> QED BY SMTT(30), <1>1, <1>2, <1>4, <1>6, <1>7, <1>8, <1>9

LEMMA BaselineKeeps == ASSUME SInv, EvaluateBaseline PROVE SInv'
<1> USE DEF Shapes, SInv
<1>1. CASE stage' = "raised" /\ UNCHANGED <<order, registry, evaluations>>
  BY <1>1 DEF EvaluateBaseline, Registers, Lineage, Mutates, Stages, Open, Searching, ToSet
<1>2. CASE stage' # "raised"
  <2>1. PICK s \in AggregateScores, ok \in BOOLEAN :
          /\ Register(Baseline, [parent |-> Nobody, score |-> s, hard |-> ok])
          /\ evaluations' = [evaluations EXCEPT ![Baseline] = @ + 1]
    BY <1>2 DEF EvaluateBaseline
  <2> DEFINE v == [parent |-> Nobody, score |-> s, hard |-> ok]
  <2>2. v \in Version /\ v.parent = Nobody /\ Register(Baseline, v)
    BY <2>1 DEF Version
  <2>3. Baseline \in Hashes /\ Baseline \notin DOMAIN registry
    BY LoopAssumption DEF EvaluateBaseline, LoopAssumption
  <2> HIDE DEF v
  <2>4. /\ order' \in Seq(Hashes) /\ evaluations' \in [Hashes -> Nat]
        /\ registry' = [x \in DOMAIN registry' |-> registry'[x]]
        /\ DOMAIN registry' = ToSet(order)'
        /\ \A x \in DOMAIN registry' : registry'[x] \in Version
        /\ \A x \in Hashes : evaluations'[x] = IF x \in DOMAIN registry' THEN 1 ELSE 0
        /\ \A i, j \in DOMAIN order' : order'[i] = order'[j] => i = j
        /\ Lineage'
    BY <2>1, <2>2, <2>3, RegisterKeeps
  <2>5. stage = "baseline" /\ stage' = "baseline" /\ UNCHANGED <<frontier, at, candidates, survivors, winners, rounds, saved>>
    BY <1>2 DEF EvaluateBaseline
  <2> QED BY <2>4, <2>5 DEF Registers, Mutates, Stages, Open, Searching
<1> QED BY <1>1, <1>2 DEF EvaluateBaseline

(* The pair's parent is in the frontier.                                   *)
LEMMA ParentInFrontier ==
  ASSUME Shapes, at < Len(frontier) * Mutators
  PROVE  (at \div Mutators) + 1 \in DOMAIN frontier
<1>1. Mutators \in Nat /\ at \in Nat /\ Len(frontier) \in Nat
  BY LoopAssumption DEF LoopAssumption, Shapes
<1>2. Mutators # 0
  BY <1>1, SMTT(30)
<1> DEFINE q == at \div Mutators
<1>3. q \in Nat /\ q * Mutators <= at
  BY <1>1, <1>2, SMTT(30)
<1> HIDE DEF q
<1>4. q < Len(frontier)
  <2> SUFFICES ASSUME q >= Len(frontier) PROVE FALSE
    BY <1>1, <1>3
  <2>1. Len(frontier) * Mutators <= q * Mutators
    BY <1>1, <1>3, SMTT(30)
  <2> QED BY <1>1, <1>3, <2>1, SMTT(30)
<1>5. q + 1 \in 1..Len(frontier)
  BY <1>1, <1>3, <1>4
<1> QED BY <1>5 DEF q, Shapes

LEMMA TryKeeps == ASSUME SInv, Try PROVE SInv'
<1> USE DEF Shapes, SInv
<1>0. stage = "round" /\ at' = at + 1 /\ UNCHANGED <<frontier, survivors, winners, rounds, saved, run>>
  BY DEF Try
<1>1. CASE UNCHANGED <<order, registry, candidates, evaluations>> /\ stage' \in {"round", "raised"}
  BY SMTT(30), <1>0, <1>1 DEF Registers, Lineage, Mutates, Stages, Open, Searching, ToSet, Distinct, Qualifies
<1>2. CASE ~(UNCHANGED <<order, registry, candidates, evaluations>> /\ stage' \in {"round", "raised"})
  <2>1. PICK h \in Hashes, s \in AggregateScores, ok \in BOOLEAN :
          /\ h \notin DOMAIN registry
          /\ evaluations' = [evaluations EXCEPT ![h] = @ + 1]
          /\ Register(h, [parent |-> Parent, score |-> s, hard |-> ok])
          /\ candidates' = Append(candidates, h)
          /\ stage' \in {"round", "raised"}
    BY <1>0, <1>2 DEF Try, Registered, StoreRaises
  <2> DEFINE v == [parent |-> Parent, score |-> s, hard |-> ok]
  <2>2. Parent = Baseline \/ Qualifies(Parent)
    BY <1>0, ParentInFrontier DEF Try, Parent, Mutates
  <2>3. Parent \in DOMAIN registry /\ (Parent = Baseline \/ registry[Parent].hard)
    BY <1>0, <2>2 DEF Registers, Searching, Qualifies
  <2>4. Parent \in Hashes
    BY <2>3 DEF ToSet
  <2>5. v \in Version /\ v.parent = Parent /\ Register(h, v) /\ h # Baseline
    BY <1>0, <2>1, <2>4 DEF Version, Registers, Searching
  <2> HIDE DEF v
  <2>6. /\ order' \in Seq(Hashes) /\ evaluations' \in [Hashes -> Nat]
        /\ registry' = [x \in DOMAIN registry' |-> registry'[x]]
        /\ DOMAIN registry' = ToSet(order)' /\ DOMAIN registry' = DOMAIN registry \cup {h}
        /\ \A x \in DOMAIN registry : registry'[x] = registry[x]
        /\ \A x \in DOMAIN registry' : registry'[x] \in Version
        /\ \A x \in Hashes : evaluations'[x] = IF x \in DOMAIN registry' THEN 1 ELSE 0
        /\ \A i, j \in DOMAIN order' : order'[i] = order'[j] => i = j
        /\ Lineage'
    BY <2>1, <2>3, <2>5, RegisterKeeps
  <2>7. Shapes' /\ Registers'
    <3>1. candidates' \in Seq(Hashes)
      BY <2>1
    <3> QED BY SMTT(30), <1>0, <2>1, <2>6, <3>1 DEF Registers, Stages, Open, Searching
  <2>8. Mutates'
    <3>1. Distinct(candidates)' /\ \A i \in DOMAIN candidates' : candidates'[i] \in DOMAIN registry'
      <4>1. \A i \in DOMAIN candidates : candidates[i] \in DOMAIN registry /\ candidates[i] # h
        BY <1>0, <2>1 DEF Mutates
      <4>2. /\ DOMAIN candidates' = 1..(Len(candidates) + 1) /\ DOMAIN candidates = 1..Len(candidates)
            /\ Len(candidates) \in Nat
            /\ \A i \in DOMAIN candidates : candidates'[i] = candidates[i]
            /\ candidates'[Len(candidates) + 1] = h
        BY SMTT(30), <2>1
      <4>0. \A i \in DOMAIN candidates' : i \in DOMAIN candidates \/ i = Len(candidates) + 1
        BY <4>2
      <4>3. \A i \in DOMAIN candidates' : candidates'[i] \in DOMAIN registry'
        BY <2>6, <4>0, <4>1, <4>2
      <4>4. Distinct(candidates)
        BY <1>0 DEF Mutates
      <4>5. \A i, j \in DOMAIN candidates' : candidates'[i] = candidates'[j] => i = j
        BY <4>0, <4>1, <4>2, <4>4 DEF Distinct
      <4> QED BY <4>3, <4>5 DEF Distinct
    <3>2. \A i \in DOMAIN frontier : frontier'[i] = Baseline \/ Qualifies(frontier[i])'
      BY <1>0, <2>6 DEF Mutates, Qualifies
    <3> QED BY <1>0, <2>1, <3>1, <3>2 DEF Mutates
  <2> QED BY <2>6, <2>7, <2>8
<1> QED BY <1>1, <1>2

(* The survivors are candidates that pass the hard criteria.               *)
LEMMA SurvivorsQualify ==
  ASSUME SInv, stage = "round"
  PROVE  /\ Ranked(candidates, Qualified) /\ Top(candidates, Qualified) \in Seq(Hashes)
         /\ \A k \in DOMAIN Top(candidates, Qualified) :
              /\ Qualifies(Top(candidates, Qualified)[k])
              /\ Top(candidates, Qualified)[k] \in ToSet(candidates)
         /\ candidates = <<>> => Top(candidates, Qualified) = <<>>
<1>1. \A i \in DOMAIN candidates : candidates[i] \in DOMAIN registry
  BY DEF SInv, Mutates
<1>2. Ranked(candidates, Qualified)
  BY <1>1, LoopAssumption DEF Ranked, Qualified, SInv, Shapes, Score, Version, LoopAssumption
<1>3. \A k \in DOMAIN Top(candidates, Qualified) :
        \E i \in Qualified : Top(candidates, Qualified)[k] = candidates[i]
  BY <1>2, TopIsBest
<1>4. \A k \in DOMAIN Top(candidates, Qualified) :
        /\ Qualifies(Top(candidates, Qualified)[k])
        /\ Top(candidates, Qualified)[k] \in ToSet(candidates)
  BY <1>1, <1>3 DEF Qualified, Qualifies, ToSet
<1>5. candidates = <<>> => Top(candidates, Qualified) = <<>>
  <2> SUFFICES ASSUME candidates = <<>> PROVE Top(candidates, Qualified) = <<>>
    OBVIOUS
  <2>1. Qualified = {}
    BY DEF Qualified
  <2>2. Cut(Qualified) = 0
    BY <1>2, <2>1, TopIsBest, FS_EmptySet
  <2> QED BY <1>2, <2>2, TopIsBest
<1> QED BY <1>2, <1>4, <1>5, TopIsBest


LEMMA EndRoundKeeps == ASSUME SInv, EndRound PROVE SInv'
<1> USE DEF SInv
<1>1. /\ stage = "round" /\ survivors' = Top(candidates, Qualified)
      /\ rounds' = Append(rounds, [candidates |-> candidates, survivors |-> survivors'])
      /\ stage' \in {"rank", "survivors"}
      /\ UNCHANGED <<order, registry, frontier, at, candidates, winners, saved, evaluations>>
  BY DEF EndRound
<1>2. survivors' \in Seq(Hashes) /\ \A k \in DOMAIN survivors' : Qualifies(survivors'[k])
  BY <1>1, SurvivorsQualify
<1>3. rounds' \in Seq(Round)
  BY <1>1, <1>2 DEF Shapes, Round
<1> QED BY SMTT(30), <1>1, <1>2, <1>3
        DEF Shapes, Registers, Lineage, Mutates, Stages, Open, Searching, ToSet, Qualifies

LEMMA NextRoundKeeps == ASSUME SInv, NextRound PROVE SInv'
<1> USE DEF SInv
<1>1. stage = "survivors" /\ saved' = 0 /\ UNCHANGED <<order, registry, winners, rounds, evaluations>>
  BY DEF NextRound
<1>2. \/ stage' = "rank" /\ UNCHANGED <<frontier, at, candidates, survivors>>
      \/ /\ stage' = "round" /\ frontier' = survivors /\ at' = 0
         /\ candidates' = <<>> /\ survivors' = <<>>
  BY DEF NextRound
<1>3. Shapes'
  <2>1. stage' \in Stages /\ saved' \in Nat /\ at' \in Nat
    BY <1>1, <1>2 DEF Shapes, Stages, Open
  <2>0. <<>> \in Seq(Hashes)
    OBVIOUS
  <2>2. frontier' \in Seq(Hashes) /\ candidates' \in Seq(Hashes) /\ survivors' \in Seq(Hashes)
    <3>1. CASE UNCHANGED <<frontier, at, candidates, survivors>>
      BY <3>1 DEF Shapes
    <3>2. CASE frontier' = survivors /\ candidates' = <<>> /\ survivors' = <<>>
      BY <2>0, <3>2 DEF Shapes
    <3> QED BY <1>2, <3>1, <3>2
  <2> QED BY <1>1, <2>1, <2>2 DEF Shapes, ToSet
<1>4. Registers' /\ Lineage'
  BY <1>1, <1>2 DEF Registers, Lineage, Searching
<1>5. Mutates'
  BY <1>1, <1>2 DEF Mutates, Distinct, Qualifies
<1> QED BY <1>3, <1>4, <1>5

LEMMA RankKeeps ==
  ASSUME SInv, Rank
  PROVE  SInv' /\ Ranked(order, DOMAIN order)
<1> USE DEF SInv
<1>1. Ranked(order, DOMAIN order)
  BY LoopAssumption DEF Ranked, Shapes, ToSet, Score, Version, LoopAssumption
<1>2. winners' \in Seq(Hashes)
  BY <1>1, TopIsBest DEF Rank
<1>3. Shapes'
  BY <1>2 DEF Rank, Shapes, Stages, Open, ToSet
<1> QED BY <1>1, <1>3 DEF Rank, Registers, Lineage, Mutates, Searching

(* A run begins, ends or dies; recording moves nothing of the search.      *)
LEMMA OthersKeepSearch ==
  ASSUME SInv,
         \/ BeginRun \/ RecordBaseline \/ RecordSurvivor \/ RecordWinner \/ FinishRun \/ LoopCrash
         \/ UNCHANGED improving
  PROVE  SInv'
<1> USE DEF SInv
<1>1. CASE BeginRun
  BY <1>1 DEF BeginRun, StoreRaises, Shapes, Registers, Lineage, Mutates, Stages, Open, Searching, ToSet
<1>2. CASE RecordBaseline
  <2>1. /\ stage = "baseline" /\ stage' \in {"round", "raised"} /\ Baseline \in DOMAIN registry
        /\ frontier' = <<Baseline>>
        /\ UNCHANGED <<order, registry, at, candidates, survivors, winners, rounds, saved, evaluations>>
    BY <1>2 DEF RecordBaseline, StoreRaises
  <2>2. frontier' \in Seq(Hashes) /\ \A i \in DOMAIN frontier' : frontier'[i] = Baseline
    BY <2>1, LoopAssumption DEF LoopAssumption
  <2>3. Shapes'
    BY <2>1, <2>2 DEF Shapes, Stages, Open, ToSet
  <2>4. Registers' /\ Lineage'
    BY <2>1 DEF Registers, Lineage, Searching
  <2>5. candidates = <<>>
    BY <2>1 DEF Mutates
  <2> QED BY <2>1, <2>2, <2>3, <2>4, <2>5 DEF Mutates, Distinct
<1>3. CASE RecordSurvivor \/ RecordWinner
  <2>1. /\ saved' \in {saved, saved + 1} /\ stage' \in {stage, "raised"}
        /\ UNCHANGED <<order, registry, frontier, at, candidates, survivors, winners, rounds, evaluations>>
    BY <1>3 DEF RecordSurvivor, RecordWinner, StoreRaises, loop
  <2>2. Shapes'
    BY <2>1 DEF Shapes, Stages, Open, ToSet
  <2>3. Registers' /\ Lineage'
    BY <2>1 DEF Registers, Lineage, Searching
  <2>4. Mutates'
    BY <2>1 DEF Mutates, Distinct, Qualifies
  <2> QED BY <2>2, <2>3, <2>4
<1>4. CASE FinishRun
  BY <1>4 DEF FinishRun, StoreRaises, loop, Shapes, Registers, Lineage, Mutates, Stages, Open, Searching, ToSet
<1>5. CASE LoopCrash
  BY <1>5 DEF LoopCrash, Shapes, Registers, Lineage, Mutates, Stages, Open, Searching, ToSet
<1>6. CASE UNCHANGED improving
  BY <1>6 DEF improving, loop, Shapes, Registers, Lineage, Mutates, ToSet, Distinct, Qualifies
<1> QED BY <1>1, <1>2, <1>3, <1>4, <1>5, <1>6


LEMMA SearchIsSound == LoopSpec => []SInv
<1>1. LoopInit => SInv
  <2> SUFFICES ASSUME LoopInit PROVE SInv
    OBVIOUS
  <2>1. Shapes
    BY DEF LoopInit, Shapes, Stages, Open, ToSet
  <2>2. Registers /\ Lineage /\ Mutates
    BY DEF LoopInit, Registers, Lineage, Mutates, Searching
  <2> QED BY <2>1, <2>2 DEF SInv
<1>2. SInv /\ [LoopNext]_improving => SInv'
  BY BaselineKeeps, TryKeeps, EndRoundKeeps, NextRoundKeeps, RankKeeps, OthersKeepSearch
  DEF LoopNext, LoopStep
<1> QED BY <1>1, <1>2, PTL DEF LoopSpec

---------------------------------------------------------------------------
(* The record: what the store's row of the run in use tells.               *)

Row    == [round : Int, survived : BOOLEAN, winner : BOOLEAN]
Table  == UNION {[D -> Row] : D \in SUBSET Hashes}
Counts == [rounds : Int, candidates : Int, winners : Int]

RowOf  == rows[run]

Records ==
  /\ run \in Nat /\ rows \in Seq(Table) /\ Len(rows) = run
  /\ finished \in Seq(Counts) /\ Len(finished) = run
  /\ stage \in Open => run > 0 /\ finished[run] = Unfinished
  /\ stage = "done" => run > 0

(* The winners and the survivors recorded so far. *)
WinnersTold ==
  {h \in DOMAIN RowOf : RowOf[h].winner}
    = {winners[i] : i \in 1..(IF stage \in {"winners", "done"} THEN saved ELSE 0)}

SurvivorsOf(k) ==
  IF stage = "survivors" /\ k = Len(rounds) THEN {survivors[i] : i \in 1..saved}
  ELSE ToSet(rounds[k].survivors)

SurvivorsTold ==
  {h \in DOMAIN RowOf : RowOf[h].survived} = UNION {SurvivorsOf(k) : k \in DOMAIN rounds}

(* The candidates of each round, and in a round those found so far. *)
CandidatesTold ==
  /\ \A k \in DOMAIN rounds :
       /\ Distinct(rounds[k].candidates)
       /\ {h \in DOMAIN RowOf : RowOf[h].round = k - 1} = ToSet(rounds[k].candidates)
  /\ stage = "round" => {h \in DOMAIN RowOf : RowOf[h].round = Len(rounds)} = ToSet(candidates)
  /\ \A h \in DOMAIN RowOf :
       RowOf[h].round < Len(rounds) \/ (stage = "round" /\ RowOf[h].round = Len(rounds))

InPlace ==
  /\ stage \in {"round", "rank"} => saved = 0
  /\ stage = "survivors" =>
       /\ saved <= Len(survivors) /\ Len(rounds) > 0
       /\ rounds[Len(rounds)].candidates = candidates /\ rounds[Len(rounds)].survivors = survivors
       /\ ToSet(survivors) \subseteq ToSet(candidates)
  /\ stage \in {"winners", "done"} => winners = Top(order, DOMAIN order) /\ saved <= Len(winners)
  /\ stage = "done" => saved = Len(winners) /\ finished[run].candidates = Cardinality(AllProposed)
  /\ stage = "baseline" => rounds = <<>> /\ saved = 0 /\ RowOf = <<>>

TInv ==
  /\ Records /\ InPlace
  /\ stage \in Searching =>
       /\ DOMAIN RowOf \subseteq DOMAIN registry
       /\ WinnersTold /\ SurvivorsTold /\ CandidatesTold

LEMMA NewRows == NewRow \in Row /\ NewRow.survived = FALSE /\ NewRow.winner = FALSE
BY DEF NewRow, Row

LEMMA MarkedRows ==
  ASSUME NEW m \in Int
  PROVE  /\ [NewRow EXCEPT !.round = m, !.survived = TRUE] \in Row
         /\ [NewRow EXCEPT !.round = m, !.survived = TRUE].survived
         /\ ~[NewRow EXCEPT !.round = m, !.survived = TRUE].winner
         /\ [NewRow EXCEPT !.round = m, !.winner = TRUE] \in Row
         /\ [NewRow EXCEPT !.round = m, !.winner = TRUE].winner
         /\ ~[NewRow EXCEPT !.round = m, !.winner = TRUE].survived
<1>1. [NewRow EXCEPT !.round = m, !.survived = TRUE] \in Row
  BY NewRows DEF Row
<1>2. [NewRow EXCEPT !.round = m, !.survived = TRUE].survived
  BY NewRows DEF Row
<1>3. ~[NewRow EXCEPT !.round = m, !.survived = TRUE].winner
  BY NewRows DEF Row
<1>4. [NewRow EXCEPT !.round = m, !.winner = TRUE] \in Row
  BY NewRows DEF Row
<1>5. [NewRow EXCEPT !.round = m, !.winner = TRUE].winner
  BY NewRows DEF Row
<1>6. ~[NewRow EXCEPT !.round = m, !.winner = TRUE].survived
  BY NewRows DEF Row
<1> QED BY <1>1, <1>2, <1>3, <1>4, <1>5, <1>6

(* An upsert changes one row of the run in use, and none of its flags back.*)
LEMMA UpsertSets ==
  ASSUME Records, run > 0, NEW h \in Hashes, NEW r \in Row, Upsert(h, r), run' = run
  PROVE  /\ rows' \in Seq(Table) /\ Len(rows') = Len(rows)
         /\ \A n \in 1..run : n # run => rows'[n] = rows[n]
         /\ DOMAIN RowOf' = DOMAIN RowOf \cup {h}
         /\ \A x \in DOMAIN RowOf : x # h => RowOf'[x] = RowOf[x]
         /\ RowOf'[h].round = IF h \in DOMAIN RowOf THEN RowOf[h].round ELSE r.round
         /\ RowOf'[h].survived <=> (h \in DOMAIN RowOf /\ RowOf[h].survived) \/ r.survived
         /\ RowOf'[h].winner <=> (h \in DOMAIN RowOf /\ RowOf[h].winner) \/ r.winner
         /\ \A x \in DOMAIN RowOf' : RowOf'[x] \in Row
<1> DEFINE old == rows[run]
           new == [x \in DOMAIN old \cup {h} |->
                     IF x # h THEN old[x] ELSE IF h \notin DOMAIN old THEN r ELSE
                       [round    |-> old[h].round,
                        survived |-> old[h].survived \/ r.survived,
                        winner   |-> old[h].winner \/ r.winner]]
<1>1. rows' = [rows EXCEPT ![run] = new]
  BY DEF Upsert
<1>2. run \in DOMAIN rows /\ DOMAIN rows = 1..run /\ old \in Table
  BY DEF Records
<1>3. DOMAIN old \subseteq Hashes /\ \A x \in DOMAIN old : old[x] \in Row
  BY <1>2 DEF Table
<1>4. \A x \in DOMAIN new : new[x] \in Row
  BY <1>3 DEF Row
<1>5. DOMAIN new = DOMAIN old \cup {h} /\ DOMAIN new \in SUBSET Hashes
  BY <1>3
<1>6. new \in [DOMAIN new -> Row]
  BY <1>4
<1>7. new \in Table
  BY <1>5, <1>6 DEF Table
<1>8. /\ \A x \in DOMAIN old : x # h => new[x] = old[x]
      /\ new[h] = IF h \notin DOMAIN old THEN r ELSE
                    [round    |-> old[h].round,
                     survived |-> old[h].survived \/ r.survived,
                     winner   |-> old[h].winner \/ r.winner]
  BY <1>5
<1>9. /\ new[h].round = IF h \in DOMAIN old THEN old[h].round ELSE r.round
      /\ new[h].survived <=> (h \in DOMAIN old /\ old[h].survived) \/ r.survived
      /\ new[h].winner <=> (h \in DOMAIN old /\ old[h].winner) \/ r.winner
  <2>1. CASE h \in DOMAIN old
    BY <1>8, <2>1
  <2>2. CASE h \notin DOMAIN old
    BY <1>8, <2>2
  <2> QED BY <2>1, <2>2
<1> HIDE DEF new
<1>10. rows' \in Seq(Table) /\ Len(rows') = Len(rows) /\ rows'[run] = new
       /\ \A n \in 1..run : n # run => rows'[n] = rows[n]
  BY <1>1, <1>2, <1>7 DEF Records
<1>11. RowOf' = new /\ RowOf = old
  BY <1>10 DEF RowOf
<1> HIDE DEF old
<1> QED BY <1>4, <1>5, <1>8, <1>9, <1>10, <1>11


(* Where the run has stopped nothing is claimed of its row.                *)
LEMMA StoppedTold ==
  ASSUME TInv, stage' \in {"idle", "raised"}, UNCHANGED store
  PROVE  TInv'
BY DEF TInv, Records, InPlace, Searching, Open, store

LEMMA BeginTold ==
  ASSUME TInv, BeginRun PROVE TInv'
<1>1. CASE stage' = "raised" /\ UNCHANGED store
  BY <1>1, StoppedTold
<1>2. CASE /\ run' = run + 1 /\ stage' = "baseline"
           /\ rows' = Append(rows, <<>>) /\ finished' = Append(finished, Unfinished)
  <2>1. <<>> \in Table
    <3>1. <<>> \in [{} -> Row]
      OBVIOUS
    <3> QED BY <3>1 DEF Table
  <2>2. Unfinished \in Counts
    BY DEF Unfinished, Counts
  <2>3. run' \in Nat /\ rows' \in Seq(Table) /\ Len(rows') = run' /\ rows'[run'] = <<>>
    BY <1>2, <2>1 DEF TInv, Records
  <2>4. finished' \in Seq(Counts) /\ Len(finished') = run' /\ finished'[run'] = Unfinished
    BY <1>2, <2>2 DEF TInv, Records
  <2>5. rounds' = <<>> /\ saved' = 0
    BY DEF BeginRun
  <2>6. Records'
    BY <1>2, <2>3, <2>4 DEF TInv, Records
  <2>7. RowOf' = <<>>
    BY <2>3 DEF RowOf
  <2> QED BY <1>2, <2>5, <2>6, <2>7 DEF TInv, InPlace, Searching
<1> QED BY <1>1, <1>2 DEF BeginRun, StoreRaises, store

LEMMA BaselineTold ==
  ASSUME SInv, TInv, EvaluateBaseline \/ RecordBaseline PROVE TInv'
<1>1. CASE stage' = "raised"
  BY <1>1, StoppedTold DEF EvaluateBaseline, RecordBaseline, StoreRaises, store
<1>2. CASE EvaluateBaseline /\ stage' # "raised"
  BY <1>2 DEF EvaluateBaseline, TInv, Records, InPlace, Searching, Open, store, RowOf
<1>3. CASE RecordBaseline /\ stage' # "raised"
  <2> DEFINE r == [NewRow EXCEPT !.round = -1]
  <2>1. /\ stage = "baseline" /\ stage' = "round" /\ Upsert(Baseline, r) /\ Baseline \in DOMAIN registry
        /\ UNCHANGED <<finished, registry, rounds, candidates, saved, run>>
    BY <1>3 DEF RecordBaseline, StoreRaises
  <2>2. r \in Row /\ r.round = -1 /\ ~r.survived /\ ~r.winner
    BY NewRows DEF Row
  <2> HIDE DEF r
  <2>3. Baseline \in Hashes
    BY LoopAssumption DEF LoopAssumption
  <2>4. Records /\ run > 0 /\ RowOf = <<>> /\ rounds = <<>> /\ saved = 0 /\ candidates = <<>>
    BY <2>1 DEF TInv, Records, InPlace, Open, SInv, Mutates
  <2>5. /\ rows' \in Seq(Table) /\ Len(rows') = Len(rows)
        /\ DOMAIN RowOf' = {Baseline} /\ RowOf'[Baseline].round = -1
        /\ ~RowOf'[Baseline].survived /\ ~RowOf'[Baseline].winner
    <3>1. DOMAIN RowOf = {}
      BY <2>4
    <3>2. /\ rows' \in Seq(Table) /\ Len(rows') = Len(rows)
          /\ DOMAIN RowOf' = DOMAIN RowOf \cup {Baseline}
          /\ RowOf'[Baseline].round = IF Baseline \in DOMAIN RowOf THEN RowOf[Baseline].round ELSE r.round
          /\ RowOf'[Baseline].survived <=>
               (Baseline \in DOMAIN RowOf /\ RowOf[Baseline].survived) \/ r.survived
          /\ RowOf'[Baseline].winner <=>
               (Baseline \in DOMAIN RowOf /\ RowOf[Baseline].winner) \/ r.winner
      BY <2>1, <2>2, <2>3, <2>4, UpsertSets
    <3> QED BY <2>2, <3>1, <3>2
  <2>6. Records'
    BY <2>1, <2>4, <2>5 DEF Records, Open
  <2>7. InPlace'
    BY <2>1, <2>4 DEF InPlace
  <2>8. WinnersTold' /\ SurvivorsTold'
    BY <2>1, <2>4, <2>5 DEF WinnersTold, SurvivorsTold
  <2>9. CandidatesTold'
    BY <2>1, <2>4, <2>5 DEF CandidatesTold, ToSet
  <2> QED BY <2>1, <2>5, <2>6, <2>7, <2>8, <2>9 DEF TInv
<1> QED BY <1>1, <1>2, <1>3

LEMMA TryTold ==
  ASSUME SInv, TInv, Try PROVE TInv'
<1>0. stage = "round" /\ UNCHANGED <<frontier, survivors, winners, rounds, saved, run>>
  BY DEF Try
<1>1. CASE stage' = "raised"
  BY <1>0, <1>1, StoppedTold DEF Try, StoreRaises, Upsert, store
<1>2. CASE UNCHANGED <<stage, order, registry, candidates, rows, finished>>
  BY <1>0, <1>2 DEF TInv, Records, InPlace, RowOf, WinnersTold, SurvivorsTold, SurvivorsOf, CandidatesTold, AllProposed
<1>3. CASE stage' # "raised" /\ ~UNCHANGED <<stage, order, registry, candidates, rows, finished>>
  <2>1. PICK h \in Hashes :
          /\ h \notin DOMAIN registry /\ DOMAIN registry' = DOMAIN registry \cup {h}
          /\ candidates' = Append(candidates, h)
          /\ Upsert(h, [NewRow EXCEPT !.round = Len(rounds)])
          /\ UNCHANGED <<stage, finished>>
    BY <1>3 DEF Try, StoreRaises, Registered, Register
  <2> DEFINE r == [NewRow EXCEPT !.round = Len(rounds)]
             n == Len(rounds)
  <2>2. n \in Nat
    BY DEF SInv, Shapes
  <2>3. r \in Row /\ r.round = n /\ ~r.survived /\ ~r.winner /\ Upsert(h, r)
    BY <2>1, <2>2, NewRows DEF Row
  <2> HIDE DEF r
  <2>4. Records /\ run > 0 /\ DOMAIN RowOf \subseteq DOMAIN registry /\ WinnersTold /\ SurvivorsTold /\ CandidatesTold
    BY <1>0 DEF TInv, Records, Open, Searching
  <2>5. h \notin DOMAIN RowOf
    BY <2>1, <2>4
  <2>6. /\ rows' \in Seq(Table) /\ Len(rows') = Len(rows)
        /\ DOMAIN RowOf' = DOMAIN RowOf \cup {h}
        /\ \A x \in DOMAIN RowOf : RowOf'[x] = RowOf[x]
        /\ RowOf'[h].round = n /\ ~RowOf'[h].survived /\ ~RowOf'[h].winner
    BY <1>0, <2>3, <2>4, <2>5, UpsertSets
  <2>7. Records'
    BY <1>0, <2>1, <2>4, <2>6 DEF Records
  <2>8. InPlace'
    BY <1>0, <2>1 DEF InPlace, TInv
  <2>9. WinnersTold' /\ SurvivorsTold'
    <3>1. {x \in DOMAIN RowOf' : RowOf'[x].winner} = {x \in DOMAIN RowOf : RowOf[x].winner}
      BY <2>5, <2>6
    <3>2. {x \in DOMAIN RowOf' : RowOf'[x].survived} = {x \in DOMAIN RowOf : RowOf[x].survived}
      BY <2>5, <2>6
    <3>3. \A k \in DOMAIN rounds : SurvivorsOf(k)' = SurvivorsOf(k)
      BY <1>0, <2>1 DEF SurvivorsOf
    <3> QED BY <1>0, <2>1, <2>4, <3>1, <3>2, <3>3 DEF WinnersTold, SurvivorsTold
  <2>10. CandidatesTold'
    <3>1. \A k \in DOMAIN rounds : k - 1 < n /\ k \in Nat
      BY <2>2 DEF SInv, Shapes
    <3>2. \A k \in DOMAIN rounds :
            {x \in DOMAIN RowOf' : RowOf'[x].round = k - 1} = {x \in DOMAIN RowOf : RowOf[x].round = k - 1}
      BY <2>2, <2>5, <2>6, <3>1
    <3>3. {x \in DOMAIN RowOf' : RowOf'[x].round = n} = {x \in DOMAIN RowOf : RowOf[x].round = n} \cup {h}
      BY <2>5, <2>6
    <3>4. ToSet(candidates)' = ToSet(candidates) \cup {h}
      <4>1. candidates \in Seq(Hashes)
        BY DEF SInv, Shapes
      <4>2. /\ DOMAIN candidates' = 1..(Len(candidates) + 1) /\ DOMAIN candidates = 1..Len(candidates)
            /\ Len(candidates) \in Nat
            /\ \A i \in DOMAIN candidates : candidates'[i] = candidates[i]
            /\ candidates'[Len(candidates) + 1] = h
        BY <2>1, <4>1
      <4>3. ToSet(candidates)' = {candidates'[i] : i \in DOMAIN candidates'}
        BY DEF ToSet
      <4>4. \A i \in DOMAIN candidates' : candidates'[i] \in ToSet(candidates) \cup {h}
        BY <4>2 DEF ToSet
      <4>5. \A i \in DOMAIN candidates : i \in DOMAIN candidates' /\ candidates[i] = candidates'[i]
        BY <4>2
      <4>6. Len(candidates) + 1 \in DOMAIN candidates' /\ h = candidates'[Len(candidates) + 1]
        BY <4>2
      <4> QED BY <4>3, <4>4, <4>5, <4>6 DEF ToSet
    <3>5. \A x \in DOMAIN RowOf' : RowOf'[x].round < n \/ RowOf'[x].round = n
      BY <1>0, <2>4, <2>6 DEF CandidatesTold
    <3> QED BY <1>0, <2>1, <2>4, <3>2, <3>3, <3>4, <3>5 DEF CandidatesTold
  <2> QED BY <1>0, <2>1, <2>4, <2>6, <2>7, <2>8, <2>9, <2>10 DEF TInv
<1> QED BY <1>1, <1>2, <1>3

LEMMA EndRoundTold ==
  ASSUME SInv, TInv, EndRound PROVE TInv'
<1> DEFINE n == Len(rounds)
           s == Top(candidates, Qualified)
<1>1. /\ stage = "round" /\ survivors' = s
      /\ rounds' = Append(rounds, [candidates |-> candidates, survivors |-> s])
      /\ stage' = IF candidates = <<>> THEN "rank" ELSE "survivors"
      /\ UNCHANGED <<order, registry, frontier, at, candidates, winners, saved, rows, run, finished>>
  BY DEF EndRound, store
<1>2. /\ s \in Seq(Hashes) /\ \A k \in DOMAIN s : s[k] \in ToSet(candidates)
      /\ candidates = <<>> => s = <<>>
  BY <1>1, SurvivorsQualify
<1> HIDE DEF s
<1>3. /\ n \in Nat /\ DOMAIN rounds = 1..n /\ DOMAIN rounds' = 1..(n + 1) /\ Len(rounds') = n + 1
      /\ \A k \in 1..n : rounds'[k] = rounds[k]
      /\ rounds'[n + 1] = [candidates |-> candidates, survivors |-> s]
  BY <1>1 DEF SInv, Shapes
<1>4. Records /\ saved = 0 /\ DOMAIN RowOf \subseteq DOMAIN registry /\ WinnersTold /\ SurvivorsTold /\ CandidatesTold
  BY <1>1 DEF TInv, Searching, InPlace
<1>5. RowOf' = RowOf
  BY <1>1 DEF RowOf
<1>6. Records'
  BY <1>1, <1>4 DEF Records, Open
<1>7. InPlace'
  <2>1. CASE stage' = "rank"
    BY <1>1, <1>4, <2>1 DEF InPlace
  <2>2. CASE stage' = "survivors"
    <3>1. \A x : x \in ToSet(s) => x \in ToSet(candidates)
      BY <1>2 DEF ToSet
    <3>2. ToSet(survivors)' = ToSet(s) /\ ToSet(candidates)' = ToSet(candidates)
      BY <1>1 DEF ToSet
    <3>3. saved' <= Len(survivors') /\ Len(rounds') > 0
      BY <1>1, <1>2, <1>3, <1>4
    <3>4. rounds'[Len(rounds')].candidates = candidates' /\ rounds'[Len(rounds')].survivors = survivors'
      BY <1>1, <1>3
    <3> QED BY <2>2, <3>1, <3>2, <3>3, <3>4 DEF InPlace
  <2> QED BY <1>1, <2>1, <2>2
<1>8. WinnersTold'
  BY <1>1, <1>4, <1>5 DEF WinnersTold
<1>9. SurvivorsTold'
  <2> SUFFICES UNION {SurvivorsOf(k) : k \in DOMAIN rounds}' = UNION {SurvivorsOf(k) : k \in DOMAIN rounds}
    BY <1>4, <1>5 DEF SurvivorsTold
  <2>1. ASSUME NEW k \in 1..n PROVE SurvivorsOf(k)' = SurvivorsOf(k)
    BY <1>1, <1>3, <2>1 DEF SurvivorsOf
  <2>2. ASSUME NEW k \in 1..(n + 1), k = n + 1 PROVE SurvivorsOf(k)' = {}
    <3>1. CASE stage' = "survivors"
      <4>1. SurvivorsOf(k)' = {survivors'[i] : i \in 1..saved'}
        BY <1>3, <2>2, <3>1 DEF SurvivorsOf
      <4> QED BY <1>1, <1>4, <4>1
    <3>2. CASE stage' = "rank"
      <4>1. SurvivorsOf(k)' = ToSet(rounds'[k].survivors)
        BY <3>2 DEF SurvivorsOf, ToSet
      <4>2. rounds'[k].survivors = <<>>
        BY <1>1, <1>2, <1>3, <2>2, <3>2
      <4>3. \A x : x \notin ToSet(<<>>)
        BY DEF ToSet
      <4> QED BY <4>1, <4>2, <4>3
    <3> QED BY <1>1, <3>1, <3>2
  <2> QED BY <1>3, <2>1, <2>2
<1>10. CandidatesTold'
  <2>1. \A k \in 1..n : Distinct(rounds[k].candidates)
          /\ {h \in DOMAIN RowOf : RowOf[h].round = k - 1} = ToSet(rounds[k].candidates)
    BY <1>3, <1>4 DEF CandidatesTold
  <2>2. Distinct(candidates) /\ {h \in DOMAIN RowOf : RowOf[h].round = (n + 1) - 1} = ToSet(candidates)
    BY <1>1, <1>3, <1>4 DEF CandidatesTold, SInv, Mutates
  <2>3. \A k \in 1..(n + 1) : Distinct(rounds'[k].candidates)
          /\ {h \in DOMAIN RowOf : RowOf[h].round = k - 1} = ToSet(rounds'[k].candidates)
    BY <1>3, <2>1, <2>2
  <2>4. \A h \in DOMAIN RowOf : RowOf[h].round < n + 1
    <3> SUFFICES ASSUME NEW h \in DOMAIN RowOf PROVE RowOf[h].round < n + 1
      OBVIOUS
    <3>1. RowOf[h].round < n \/ RowOf[h].round = n
      BY <1>4 DEF CandidatesTold
    <3>2. RowOf[h].round \in Int
      <4>1. RowOf \in Table
        BY <1>1, <1>4 DEF Records, RowOf, Open, TInv
      <4> QED BY <4>1 DEF Table, Row
    <3> QED BY <1>3, <3>1, <3>2
  <2> QED BY <1>1, <1>3, <1>5, <2>3, <2>4 DEF CandidatesTold
<1> QED BY <1>1, <1>4, <1>5, <1>6, <1>7, <1>8, <1>9, <1>10 DEF TInv

LEMMA SurvivorTold ==
  ASSUME SInv, TInv, RecordSurvivor PROVE TInv'
<1> DEFINE n == Len(rounds)
           h == survivors[saved + 1]
           r == [NewRow EXCEPT !.round = n - 1, !.survived = TRUE]
<1>0. /\ stage = "survivors" /\ saved < Len(survivors)
      /\ UNCHANGED <<order, registry, candidates, survivors, winners, rounds, run>>
  BY DEF RecordSurvivor, loop
<1>1. CASE stage' = "raised"
  BY <1>0, <1>1, StoppedTold DEF RecordSurvivor, StoreRaises, store
<1>2. CASE stage' # "raised"
  <2>1. Upsert(h, r) /\ saved' = saved + 1 /\ UNCHANGED <<stage, finished>>
    BY <1>2 DEF RecordSurvivor, StoreRaises
  <2>2. /\ Records /\ run > 0 /\ DOMAIN RowOf \subseteq DOMAIN registry
        /\ WinnersTold /\ SurvivorsTold /\ CandidatesTold
        /\ rounds[n].candidates = candidates /\ rounds[n].survivors = survivors
        /\ ToSet(survivors) \subseteq ToSet(candidates) /\ n > 0
    BY <1>0 DEF TInv, Records, Open, Searching, InPlace
  <2>3. saved \in Nat /\ n \in Nat /\ survivors \in Seq(Hashes) /\ DOMAIN rounds = 1..n
    BY DEF SInv, Shapes
  <2>4. saved + 1 \in DOMAIN survivors /\ h \in Hashes
    BY <1>0, <2>3
  <2>5. r \in Row /\ r.survived /\ ~r.winner
    <3>1. n - 1 \in Int
      BY <2>3
    <3> HIDE DEF n
    <3> QED BY <3>1, MarkedRows
  <2> HIDE DEF r
  <2>6. h \in DOMAIN RowOf
    <3>1. h \in ToSet(candidates)
      BY <2>2, <2>4 DEF ToSet
    <3>2. n \in DOMAIN rounds
      BY <2>2, <2>3
    <3>3. {x \in DOMAIN RowOf : RowOf[x].round = n - 1} = ToSet(rounds[n].candidates)
      BY <2>2, <3>2 DEF CandidatesTold
    <3> QED BY <2>2, <3>1, <3>3
  <2> HIDE DEF h
  <2>7. /\ rows' \in Seq(Table) /\ Len(rows') = Len(rows) /\ DOMAIN RowOf' = DOMAIN RowOf
        /\ \A x \in DOMAIN RowOf : x # h => RowOf'[x] = RowOf[x]
        /\ RowOf'[h].round = RowOf[h].round /\ RowOf'[h].survived
        /\ RowOf'[h].winner <=> RowOf[h].winner
    BY <1>0, <2>1, <2>2, <2>4, <2>5, <2>6, UpsertSets
  <2>8. Records'
    BY <1>0, <2>1, <2>2, <2>7 DEF Records, Open
  <2>9. InPlace'
    <3>1. saved' <= Len(survivors')
      BY <1>0, <2>1, <2>3
    <3>2. stage' = "survivors"
      BY <1>0, <2>1
    <3>3. rounds' = rounds /\ candidates' = candidates /\ survivors' = survivors
      BY <1>0
    <3>4. Len(rounds') > 0 /\ rounds'[Len(rounds')].candidates = candidates' /\ rounds'[Len(rounds')].survivors = survivors'
      BY <2>2, <3>3
    <3>5. ToSet(survivors') \subseteq ToSet(candidates')
      BY <2>2, <3>3
    <3> QED BY <3>1, <3>2, <3>4, <3>5 DEF InPlace
  <2>10. WinnersTold'
    <3>1. {x \in DOMAIN RowOf' : RowOf'[x].winner} = {x \in DOMAIN RowOf : RowOf[x].winner}
      BY <2>7
    <3> QED BY <1>0, <2>1, <2>2, <3>1 DEF WinnersTold
  <2>11. SurvivorsTold'
    <3>1. {x \in DOMAIN RowOf' : RowOf'[x].survived} = {x \in DOMAIN RowOf : RowOf[x].survived} \cup {h}
      BY <2>6, <2>7
    <3>2. ASSUME NEW k \in 1..n, k # n PROVE SurvivorsOf(k)' = SurvivorsOf(k)
      BY <1>0, <2>1, <3>2 DEF SurvivorsOf
    <3>3. ASSUME NEW k \in 1..n, k = n PROVE SurvivorsOf(k)' = SurvivorsOf(k) \cup {h}
      <4>1. SurvivorsOf(k) = {survivors[i] : i \in 1..saved}
        BY <1>0, <3>3 DEF SurvivorsOf
      <4>2. SurvivorsOf(k)' = {survivors[i] : i \in 1..(saved + 1)}
        BY <1>0, <2>1, <3>3 DEF SurvivorsOf
      <4>3. 1..(saved + 1) = (1..saved) \cup {saved + 1}
        BY <2>3
      <4> QED BY <4>1, <4>2, <4>3 DEF h
    <3>4. n \in 1..n
      BY <2>2, <2>3
    <3> DEFINE A == {x \in DOMAIN RowOf : RowOf[x].survived}
               U == UNION {SurvivorsOf(k) : k \in DOMAIN rounds}
    <3>5. \A x : x \in U <=> \E k \in 1..n : x \in SurvivorsOf(k)
      BY <2>3
    <3>6. \A x : x \in U' <=> \E k \in 1..n : x \in SurvivorsOf(k)'
      BY <1>0, <2>3
    <3>7. A = U /\ A' = A \cup {h}
      BY <2>2, <3>1 DEF SurvivorsTold
    <3>8. SurvivorsTold' <=> A' = U'
      BY DEF SurvivorsTold
    <3> HIDE DEF A, U, n
    <3>9. \A x : x \in U' <=> x \in U \/ x = h
      BY <3>2, <3>3, <3>4, <3>5, <3>6
    <3> QED BY <3>7, <3>8, <3>9
  <2>12. CandidatesTold'
    <3>1. \A x \in DOMAIN RowOf : RowOf'[x].round = RowOf[x].round
      BY <2>6, <2>7
    <3>2. \A m \in Int : {x \in DOMAIN RowOf' : RowOf'[x].round = m} = {x \in DOMAIN RowOf : RowOf[x].round = m}
      BY <2>7, <3>1
    <3>3. \A k \in DOMAIN rounds : k - 1 \in Int
      BY <2>3
    <3>4. stage # "round" /\ stage' = stage /\ rounds' = rounds /\ DOMAIN RowOf' = DOMAIN RowOf
      BY <1>0, <2>1, <2>7
    <3>5. \A k \in DOMAIN rounds :
            /\ Distinct(rounds[k].candidates)
            /\ {x \in DOMAIN RowOf' : RowOf'[x].round = k - 1} = ToSet(rounds[k].candidates)
      BY <2>2, <3>2, <3>3 DEF CandidatesTold
    <3>6. \A x \in DOMAIN RowOf' : RowOf'[x].round < Len(rounds')
      BY <2>2, <3>1, <3>4 DEF CandidatesTold
    <3> QED BY <3>4, <3>5, <3>6 DEF CandidatesTold
  <2> QED BY <1>0, <2>1, <2>2, <2>7, <2>8, <2>9, <2>10, <2>11, <2>12 DEF TInv
<1> QED BY <1>1, <1>2

LEMMA NextRoundTold ==
  ASSUME SInv, TInv, NextRound PROVE TInv'
<1> DEFINE n == Len(rounds)
<1>1. /\ stage = "survivors" /\ saved = Len(survivors) /\ saved' = 0 /\ stage' \in {"round", "rank"}
      /\ UNCHANGED <<order, registry, winners, rounds, rows, run, finished>>
  BY DEF NextRound, store
<1>2. stage' = "round" => candidates' = <<>>
  BY DEF NextRound
<1>3. /\ Records /\ DOMAIN RowOf \subseteq DOMAIN registry
      /\ WinnersTold /\ SurvivorsTold /\ CandidatesTold
      /\ rounds[n].survivors = survivors /\ n > 0
  BY <1>1 DEF TInv, Searching, InPlace
<1>4. saved \in Nat /\ n \in Nat /\ survivors \in Seq(Hashes) /\ DOMAIN rounds = 1..n
  BY DEF SInv, Shapes
<1>5. RowOf' = RowOf
  BY <1>1 DEF RowOf
<1>6. Records'
  BY <1>1, <1>3 DEF Records, Open
<1>7. InPlace'
  BY <1>1 DEF InPlace
<1>8. WinnersTold'
  BY <1>1, <1>3, <1>5 DEF WinnersTold
<1>9. SurvivorsTold'
  <2>1. ASSUME NEW k \in 1..n PROVE SurvivorsOf(k)' = SurvivorsOf(k)
    <3>1. SurvivorsOf(k)' = ToSet(rounds[k].survivors)
      BY <1>1 DEF SurvivorsOf, ToSet
    <3>2. CASE k = n
      <4>1. DOMAIN survivors = 1..saved
        BY <1>1, <1>4
      <4>2. SurvivorsOf(k) = {survivors[i] : i \in 1..saved}
        BY <1>1, <3>2 DEF SurvivorsOf
      <4> QED BY <1>3, <3>1, <3>2, <4>1, <4>2 DEF ToSet
    <3>3. CASE k # n
      BY <3>1, <3>3 DEF SurvivorsOf
    <3> QED BY <3>2, <3>3
  <2>2. UNION {SurvivorsOf(k) : k \in DOMAIN rounds}' = UNION {SurvivorsOf(k) : k \in DOMAIN rounds}
    BY <1>1, <1>4, <2>1
  <2> QED BY <1>3, <1>5, <2>2 DEF SurvivorsTold
<1>10. CandidatesTold'
  <2>1. \A x \in DOMAIN RowOf : RowOf[x].round < n
    BY <1>1, <1>3 DEF CandidatesTold
  <2>2. stage' = "round" => {x \in DOMAIN RowOf : RowOf[x].round = n} = {} /\ ToSet(candidates') = {}
    <3>1. \A x \in DOMAIN RowOf : RowOf[x].round # n
      BY <1>4, <2>1
    <3>2. candidates' = <<>> => \A x : x \notin ToSet(candidates')
      BY DEF ToSet
    <3> QED BY <1>2, <3>1, <3>2
  <2> QED BY <1>1, <1>3, <1>5, <2>1, <2>2 DEF CandidatesTold, ToSet
<1> QED BY <1>1, <1>3, <1>5, <1>6, <1>7, <1>8, <1>9, <1>10 DEF TInv

(* The ranking is of the registry alone.                                   *)
LEMMA TopStays ==
  ASSUME UNCHANGED <<order, registry>>
  PROVE  Top(order, DOMAIN order)' = Top(order, DOMAIN order)
BY DEF Top, Cut, Standing, Before, Score

LEMMA RankTold ==
  ASSUME SInv, TInv, Rank PROVE TInv'
<1>1. /\ stage = "rank" /\ stage' = "winners" /\ winners' = Top(order, DOMAIN order)
      /\ UNCHANGED <<order, registry, candidates, survivors, rounds, saved, rows, run, finished>>
  BY DEF Rank, store
<1>2. /\ Records /\ DOMAIN RowOf \subseteq DOMAIN registry /\ saved = 0
      /\ WinnersTold /\ SurvivorsTold /\ CandidatesTold
  BY <1>1 DEF TInv, Searching, InPlace
<1>3. RowOf' = RowOf
  BY <1>1 DEF RowOf
<1>4. Records'
  BY <1>1, <1>2 DEF Records, Open
<1>5. InPlace'
  <2>1. winners' \in Seq(Hashes)
    BY <1>1, RankKeeps, TopIsBest
  <2>2. saved' <= Len(winners')
    BY <1>1, <1>2, <2>1
  <2> QED BY <1>1, <2>2, TopStays DEF InPlace
<1>6. WinnersTold'
  BY <1>1, <1>2, <1>3 DEF WinnersTold
<1>7. SurvivorsTold'
  <2>1. ASSUME NEW k \in DOMAIN rounds PROVE SurvivorsOf(k)' = SurvivorsOf(k)
    BY <1>1 DEF SurvivorsOf, ToSet
  <2>2. UNION {SurvivorsOf(k) : k \in DOMAIN rounds}' = UNION {SurvivorsOf(k) : k \in DOMAIN rounds}
    BY <1>1, <2>1
  <2> QED BY <1>2, <1>3, <2>2 DEF SurvivorsTold
<1>8. CandidatesTold'
  BY <1>1, <1>2, <1>3 DEF CandidatesTold, ToSet
<1> QED BY <1>1, <1>2, <1>3, <1>4, <1>5, <1>6, <1>7, <1>8 DEF TInv

(* The winners are in the registry.                                        *)
LEMMA WinnersRegistered ==
  ASSUME SInv, winners = Top(order, DOMAIN order)
  PROVE  /\ Ranked(order, DOMAIN order) /\ winners \in Seq(Hashes)
         /\ \A i \in DOMAIN winners : winners[i] \in DOMAIN registry
<1>1. Ranked(order, DOMAIN order)
  BY LoopAssumption DEF Ranked, SInv, Shapes, ToSet, Score, Version, LoopAssumption
<1>2. \A i \in DOMAIN winners : \E j \in DOMAIN order : winners[i] = order[j]
  BY <1>1, TopIsBest
<1> QED BY <1>1, <1>2, TopIsBest DEF SInv, Shapes, ToSet

LEMMA WinnerTold ==
  ASSUME SInv, TInv, RecordWinner PROVE TInv'
<1> DEFINE h == winners[saved + 1]
           r == [NewRow EXCEPT !.round = -2, !.winner = TRUE]
<1>0. /\ stage = "winners" /\ saved < Len(winners)
      /\ UNCHANGED <<order, registry, candidates, survivors, winners, rounds, run>>
  BY DEF RecordWinner, loop
<1>1. CASE stage' = "raised"
  BY <1>0, <1>1, StoppedTold DEF RecordWinner, StoreRaises, store
<1>2. CASE stage' # "raised"
  <2>1. Upsert(h, r) /\ saved' = saved + 1 /\ UNCHANGED <<stage, finished>>
    BY <1>2 DEF RecordWinner, StoreRaises
  <2>2. /\ Records /\ run > 0 /\ DOMAIN RowOf \subseteq DOMAIN registry
        /\ WinnersTold /\ SurvivorsTold /\ CandidatesTold
        /\ winners = Top(order, DOMAIN order)
    BY <1>0 DEF TInv, Records, Open, Searching, InPlace
  <2>3. saved \in Nat /\ winners \in Seq(Hashes) /\ rounds \in Seq(Round)
    BY DEF SInv, Shapes
  <2>4. saved + 1 \in DOMAIN winners /\ h \in Hashes
    BY <1>0, <2>3
  <2>5. h \in DOMAIN registry
    BY <2>2, <2>4, WinnersRegistered
  <2>6. r \in Row /\ ~r.survived /\ r.winner /\ r.round = -2
    <3>1. \A m \in Int :
            LET q == [NewRow EXCEPT !.round = m, !.winner = TRUE]
            IN  q \in Row /\ ~q.survived /\ q.winner
      BY MarkedRows
    <3>2. \A m \in Int : [NewRow EXCEPT !.round = m, !.winner = TRUE].round = m
      BY NewRows DEF Row
    <3>3. -2 \in Int
      OBVIOUS
    <3> QED BY <3>1, <3>2, <3>3, Zenon
  <2> HIDE DEF r
  <2>7. h = winners[saved + 1]
    OBVIOUS
  <2> HIDE DEF h
  <2>8. /\ rows' \in Seq(Table) /\ Len(rows') = Len(rows) /\ DOMAIN RowOf' = DOMAIN RowOf \cup {h}
        /\ \A x \in DOMAIN RowOf : x # h => RowOf'[x] = RowOf[x]
        /\ RowOf'[h].round = IF h \in DOMAIN RowOf THEN RowOf[h].round ELSE -2
        /\ RowOf'[h].survived <=> (h \in DOMAIN RowOf /\ RowOf[h].survived)
        /\ RowOf'[h].winner
    BY <1>0, <2>1, <2>2, <2>4, <2>6, UpsertSets
  <2>9. Records'
    BY <1>0, <2>1, <2>2, <2>8 DEF Records, Open
  <2>10. InPlace'
    <3>1. saved' <= Len(winners')
      BY <1>0, <2>1, <2>3
    <3> QED BY <1>0, <2>1, <2>2, <3>1, TopStays DEF InPlace
  <2>11. WinnersTold'
    <3>1. {x \in DOMAIN RowOf' : RowOf'[x].winner} = {x \in DOMAIN RowOf : RowOf[x].winner} \cup {h}
      BY <2>8
    <3>2. {x \in DOMAIN RowOf : RowOf[x].winner} = {winners[i] : i \in 1..saved}
      BY <1>0, <2>2 DEF WinnersTold
    <3>3. 1..(saved + 1) = (1..saved) \cup {saved + 1}
      BY <2>3
    <3>4. {winners[i] : i \in 1..(saved + 1)} = {winners[i] : i \in 1..saved} \cup {h}
      BY <2>7, <3>3
    <3>5. WinnersTold' <=> {x \in DOMAIN RowOf' : RowOf'[x].winner} = {winners[i] : i \in 1..(saved + 1)}
      BY <1>0, <2>1 DEF WinnersTold
    <3> QED BY <3>1, <3>2, <3>4, <3>5
  <2>12. SurvivorsTold'
    <3>1. {x \in DOMAIN RowOf' : RowOf'[x].survived} = {x \in DOMAIN RowOf : RowOf[x].survived}
      BY <2>8
    <3>2. ASSUME NEW k \in DOMAIN rounds PROVE SurvivorsOf(k)' = SurvivorsOf(k)
      BY <1>0, <2>1 DEF SurvivorsOf, ToSet
    <3>3. UNION {SurvivorsOf(k) : k \in DOMAIN rounds}' = UNION {SurvivorsOf(k) : k \in DOMAIN rounds}
      BY <1>0, <3>2
    <3> QED BY <2>2, <3>1, <3>3 DEF SurvivorsTold
  <2>13. CandidatesTold'
    <3>1. Len(rounds) \in Nat /\ \A k \in DOMAIN rounds : k - 1 \in Nat
      BY <2>3
    <3>2. \A x \in DOMAIN RowOf : RowOf'[x].round = RowOf[x].round
      BY <2>8
    <3>3. \A x \in DOMAIN RowOf' : x \in DOMAIN RowOf \/ RowOf'[x].round = -2
      BY <2>8
    <3>4. \A m \in Nat : {x \in DOMAIN RowOf' : RowOf'[x].round = m} = {x \in DOMAIN RowOf : RowOf[x].round = m}
      BY <2>8, <3>2, <3>3
    <3>5. \A x \in DOMAIN RowOf : RowOf[x].round < Len(rounds)
      BY <1>0, <2>2 DEF CandidatesTold
    <3>6. \A x \in DOMAIN RowOf' : RowOf'[x].round < Len(rounds)
      BY <3>1, <3>2, <3>3, <3>5
    <3>7. \A k \in DOMAIN rounds :
            {x \in DOMAIN RowOf' : RowOf'[x].round = k - 1} = {x \in DOMAIN RowOf : RowOf[x].round = k - 1}
      BY <3>1, <3>4
    <3> QED BY <1>0, <2>1, <2>2, <3>6, <3>7 DEF CandidatesTold, ToSet
  <2> QED BY <1>0, <2>1, <2>2, <2>5, <2>8, <2>9, <2>10, <2>11, <2>12, <2>13 DEF TInv
<1> QED BY <1>1, <1>2

(* The candidates found are the rows of a round: each has one row.         *)
LEMMA FoundIsStored ==
  ASSUME SInv, TInv, stage \in {"winners", "done"}
  PROVE  /\ Cardinality(AllProposed) \in Nat
         /\ Cardinality(AllProposed) = Cardinality({h \in DOMAIN RowOf : RowOf[h].round >= 0})
<1> DEFINE S == {h \in DOMAIN RowOf : RowOf[h].round >= 0}
           f == [p \in AllProposed |-> rounds[p[1]].candidates[p[2]]]
<1>1. /\ Records /\ run > 0 /\ DOMAIN RowOf \subseteq DOMAIN registry /\ CandidatesTold
  BY DEF TInv, Searching, Records, Open
<1>2. IsFiniteSet(S)
  <2>1. order \in Seq(Hashes) /\ DOMAIN registry = ToSet(order)
    BY DEF SInv, Shapes
  <2>2. DOMAIN order = 1..Len(order) /\ Len(order) \in Nat
    BY <2>1
  <2>3. IsFiniteSet(DOMAIN order)
    BY <2>2, FS_Interval
  <2>4. order \in Surjection(DOMAIN order, ToSet(order))
    BY <2>1 DEF Surjection, ToSet
  <2>5. IsFiniteSet(DOMAIN registry)
    BY <2>1, <2>3, <2>4, FS_Surjection
  <2>6. S \subseteq DOMAIN registry
    BY <1>1
  <2> QED BY <2>5, <2>6, FS_Subset
<1>3. \A p \in AllProposed : /\ p[1] \in DOMAIN rounds /\ p[2] \in DOMAIN rounds[p[1]].candidates
                        /\ p = <<p[1], p[2]>>
  BY DEF AllProposed
<1>4. \A p \in AllProposed : /\ f[p] \in DOMAIN RowOf /\ RowOf[f[p]].round = p[1] - 1
  <2> SUFFICES ASSUME NEW p \in AllProposed PROVE f[p] \in DOMAIN RowOf /\ RowOf[f[p]].round = p[1] - 1
    OBVIOUS
  <2>1. f[p] \in ToSet(rounds[p[1]].candidates)
    BY <1>3 DEF ToSet
  <2>2. {h \in DOMAIN RowOf : RowOf[h].round = p[1] - 1} = ToSet(rounds[p[1]].candidates)
    BY <1>1, <1>3 DEF CandidatesTold
  <2> QED BY <2>1, <2>2
<1>5. \A k \in DOMAIN rounds : k \in Nat /\ k >= 1 /\ k <= Len(rounds)
  BY DEF SInv, Shapes
<1>6. f \in Injection(AllProposed, S)
  <2>1. \A p \in AllProposed : f[p] \in S
    BY <1>3, <1>4, <1>5
  <2>2. ASSUME NEW p \in AllProposed, NEW q \in AllProposed, f[p] = f[q] PROVE p = q
    <3>1. p[1] = q[1]
      BY <1>3, <1>4, <1>5, <2>2
    <3>2. Distinct(rounds[p[1]].candidates)
      BY <1>1, <1>3 DEF CandidatesTold
    <3>3. rounds[p[1]].candidates[p[2]] = rounds[p[1]].candidates[q[2]]
      BY <2>2, <3>1
    <3>4. p[2] = q[2]
      BY <1>3, <3>1, <3>2, <3>3 DEF Distinct
    <3> QED BY <1>3, <3>1, <3>4
  <2> QED BY <2>1, <2>2 DEF Injection, IsInjective
<1>7. f \in Surjection(AllProposed, S)
  <2> SUFFICES ASSUME NEW h \in S PROVE \E p \in AllProposed : f[p] = h
    BY <1>6 DEF Surjection, Injection
  <2> DEFINE k == RowOf[h].round + 1
  <2>1. RowOf[h].round \in Int
    <3>1. RowOf \in Table
      BY <1>1 DEF Records, RowOf
    <3> QED BY <3>1 DEF Table, Row
  <2>2. RowOf[h].round < Len(rounds)
    BY <1>1 DEF CandidatesTold
  <2>3. k \in DOMAIN rounds /\ k - 1 = RowOf[h].round
    BY <2>1, <2>2 DEF SInv, Shapes
  <2>4. h \in ToSet(rounds[k].candidates)
    BY <1>1, <2>3 DEF CandidatesTold
  <2>5. PICK i \in DOMAIN rounds[k].candidates : h = rounds[k].candidates[i]
    BY <2>4 DEF ToSet
  <2> HIDE DEF k
  <2>6. <<k, i>> \in AllProposed
    BY <2>3, <2>5 DEF AllProposed
  <2> QED BY <2>5, <2>6
<1> HIDE DEF f
<1>8. IsFiniteSet(AllProposed) /\ Cardinality(AllProposed) = Cardinality(S)
  BY <1>2, <1>6, <1>7, FS_Injection
<1> QED BY <1>8, FS_CardinalityType

LEMMA FinishTold ==
  ASSUME SInv, TInv, FinishRun PROVE TInv'
<1>0. /\ stage = "winners" /\ saved = Len(winners)
      /\ UNCHANGED <<order, registry, candidates, survivors, winners, rounds, saved, run>>
  BY DEF FinishRun, loop
<1>1. CASE stage' = "raised"
  BY <1>0, <1>1, StoppedTold DEF FinishRun, StoreRaises, store
<1>2. CASE stage' # "raised"
  <2> DEFINE c == [rounds |-> Len(rounds), candidates |-> Cardinality(AllProposed), winners |-> Len(winners)]
  <2>1. finished' = [finished EXCEPT ![run] = c] /\ stage' = "done" /\ UNCHANGED rows
    BY <1>2 DEF FinishRun, StoreRaises
  <2>2. /\ Records /\ run > 0 /\ DOMAIN RowOf \subseteq DOMAIN registry
        /\ WinnersTold /\ SurvivorsTold /\ CandidatesTold
        /\ winners = Top(order, DOMAIN order)
    BY <1>0 DEF TInv, Records, Open, Searching, InPlace
  <2>3. c \in Counts /\ c.candidates = Cardinality(AllProposed)
    <3>1. Cardinality(AllProposed) \in Int
      BY <1>0, FoundIsStored
    <3>2. Len(rounds) \in Int /\ Len(winners) \in Int
      BY DEF SInv, Shapes
    <3> QED BY <3>1, <3>2 DEF Counts
  <2> HIDE DEF c
  <2>4. finished' \in Seq(Counts) /\ Len(finished') = run /\ finished'[run] = c
    BY <2>1, <2>2, <2>3 DEF Records
  <2>5. RowOf' = RowOf
    BY <1>0, <2>1 DEF RowOf
  <2>6. Records'
    BY <1>0, <2>1, <2>2, <2>4 DEF Records, Open
  <2>7. InPlace'
    <3>1. AllProposed' = AllProposed
      BY <1>0 DEF AllProposed
    <3>2. saved' <= Len(winners')
      BY <1>0 DEF SInv, Shapes
    <3> QED BY <1>0, <2>1, <2>2, <2>3, <2>4, <3>1, <3>2, TopStays DEF InPlace
  <2>8. WinnersTold'
    BY <1>0, <2>1, <2>2, <2>5 DEF WinnersTold
  <2>9. SurvivorsTold'
    <3>1. ASSUME NEW k \in DOMAIN rounds PROVE SurvivorsOf(k)' = SurvivorsOf(k)
      BY <1>0, <2>1 DEF SurvivorsOf, ToSet
    <3>2. UNION {SurvivorsOf(k) : k \in DOMAIN rounds}' = UNION {SurvivorsOf(k) : k \in DOMAIN rounds}
      BY <1>0, <3>1
    <3> QED BY <2>2, <2>5, <3>2 DEF SurvivorsTold
  <2>10. CandidatesTold'
    BY <1>0, <2>1, <2>2, <2>5 DEF CandidatesTold, ToSet
  <2> QED BY <1>0, <2>1, <2>2, <2>5, <2>6, <2>7, <2>8, <2>9, <2>10 DEF TInv
<1> QED BY <1>1, <1>2

(* What the loop knows of its run and what the store has of it agree.      *)
LEMMA RecordIsTold == LoopSpec => [](SInv /\ TInv)
<1>1. LoopInit => TInv
  <2> SUFFICES ASSUME LoopInit PROVE TInv
    OBVIOUS
  <2>1. <<>> \in Seq(Table) /\ <<>> \in Seq(Counts) /\ Len(<<>>) = 0
    OBVIOUS
  <2> QED BY <2>1 DEF LoopInit, TInv, Records, InPlace, Searching, Open
<1>2. SInv /\ TInv /\ [LoopNext]_improving => TInv'
  <2> SUFFICES ASSUME SInv, TInv, [LoopNext]_improving PROVE TInv'
    OBVIOUS
  <2>1. CASE BeginRun
    BY <2>1, BeginTold
  <2>2. CASE EvaluateBaseline \/ RecordBaseline
    BY <2>2, BaselineTold
  <2>3. CASE LoopCrash
    BY <2>3, StoppedTold DEF LoopCrash
  <2>4. CASE UNCHANGED improving
    <3>1. UNCHANGED <<stage, order, registry, candidates, survivors, winners, rounds, saved, run, rows, finished>>
      BY <2>4 DEF improving, loop, store
    <3>2. RowOf' = RowOf
      BY <3>1 DEF RowOf
    <3>3. Records'
      BY <3>1 DEF TInv, Records
    <3>4. InPlace'
      BY <3>1, <3>2, TopStays DEF TInv, InPlace, ToSet, AllProposed
    <3>5. ASSUME NEW k \in DOMAIN rounds PROVE SurvivorsOf(k)' = SurvivorsOf(k)
      BY <3>1 DEF SurvivorsOf, ToSet
    <3>6. UNION {SurvivorsOf(k) : k \in DOMAIN rounds}' = UNION {SurvivorsOf(k) : k \in DOMAIN rounds}
      BY <3>1, <3>5
    <3>7. SurvivorsTold => SurvivorsTold'
      BY <3>2, <3>6 DEF SurvivorsTold
    <3>8. (WinnersTold => WinnersTold') /\ (CandidatesTold => CandidatesTold')
      BY <3>1, <3>2 DEF WinnersTold, CandidatesTold, ToSet, Distinct
    <3> QED BY <3>1, <3>2, <3>3, <3>4, <3>7, <3>8 DEF TInv
  <2> QED BY <2>1, <2>2, <2>3, <2>4, TryTold, EndRoundTold, SurvivorTold, NextRoundTold,
             RankTold, WinnerTold, FinishTold DEF LoopNext, LoopStep
<1> QED BY <1>1, <1>2, SearchIsSound, PTL DEF LoopSpec

---------------------------------------------------------------------------
(* The winners of a finished run are the best of the registry.             *)
LEMMA BestWon == ASSUME SInv, TInv PROVE WinnersAreBest
<1> SUFFICES ASSUME stage = "done" PROVE WinnersAreBest
  BY DEF WinnersAreBest
<1> DEFINE I == DOMAIN order
           c == Cut(I)
<1>1. winners = Top(order, I)
  BY DEF TInv, InPlace
<1>2. Ranked(order, I) /\ winners \in Seq(Hashes)
  BY <1>1, WinnersRegistered
<1>3. /\ c \in Nat /\ Len(winners) = c /\ c <= Cardinality(I) /\ (c = Cardinality(I) \/ c = FrontierSize)
      /\ \A k \in 1..c : \E i \in I : Standing(order, I, i) = k
      /\ \A k \in 1..c, i \in I : Standing(order, I, i) = k => winners[k] = order[i]
  BY <1>1, <1>2, TopIsBest
<1>4. /\ DOMAIN registry = {order[i] : i \in I} /\ Distinct(order)
      /\ Baseline \in DOMAIN registry
  BY DEF SInv, Shapes, Registers, Searching, ToSet, Distinct
<1>5. ToSet(winners) = {winners[k] : k \in 1..c}
  BY <1>2, <1>3 DEF ToSet
<1>6. \A i \in I : Standing(order, I, i) \in 1..Cardinality(I) /\ Score(order[i]) \in Int
  BY <1>2, StandingInRange DEF Ranked
<1>7. Cardinality(I) \in Nat
  BY <1>2, PlacesFinite
<1>8. \A i, j \in I : Standing(order, I, i) < Standing(order, I, j) => Score(order[i]) >= Score(order[j])
  <2>1. \A i, j \in I : Before(order, i, j) => Score(order[i]) >= Score(order[j])
    BY <1>6 DEF Before
  <2> QED BY <1>2, <2>1, StandingOrders
<1>9. \A i \in I : order[i] \notin ToSet(winners) => Standing(order, I, i) > c
  BY <1>3, <1>5, <1>6, <1>7
<1> HIDE DEF c, I
<1>10. \A w \in ToSet(winners), h \in DOMAIN registry \ ToSet(winners) :
          registry[w].score >= registry[h].score
  <2> SUFFICES ASSUME NEW w \in ToSet(winners), NEW h \in DOMAIN registry \ ToSet(winners)
               PROVE  Score(w) >= Score(h)
    BY DEF Score
  <2>1. PICK k \in 1..c : w = winners[k]
    BY <1>5
  <2>2. PICK i \in I : Standing(order, I, i) = k /\ w = order[i]
    BY <1>3, <2>1
  <2>3. PICK j \in I : h = order[j] /\ Standing(order, I, j) > c
    BY <1>4, <1>9
  <2>4. Standing(order, I, i) < Standing(order, I, j)
    BY <1>3, <1>6, <2>1, <2>2, <2>3
  <2> QED BY <1>8, <2>2, <2>3, <2>4
<1>11. registry[winners[1]].score >= registry[Baseline].score
  <2>1. PICK j \in I : Baseline = order[j]
    BY <1>4
  <2>2. Standing(order, I, j) \in 1..Cardinality(I)
    BY <1>6
  <2>3. 1 \in 1..c
    BY <1>3, <1>7, <2>2, LoopAssumption DEF LoopAssumption
  <2>4. PICK i \in I : Standing(order, I, i) = 1 /\ winners[1] = order[i]
    BY <1>3, <2>3
  <2>5. i = j \/ Standing(order, I, i) < Standing(order, I, j)
    <3>1. Standing(order, I, j) = 1 => i = j
      BY <1>2, <2>4, StandingOrders
    <3> QED BY <1>7, <2>2, <2>4, <3>1
  <2>6. Score(order[i]) >= Score(order[j])
    BY <1>6, <1>8, <2>5
  <2> QED BY <2>1, <2>4, <2>6 DEF Score
<1>12. c = Cardinality(I) => ToSet(winners) = DOMAIN registry
  <2> SUFFICES ASSUME c = Cardinality(I) PROVE ToSet(winners) = DOMAIN registry
    OBVIOUS
  <2>1. \A h \in DOMAIN registry : h \in ToSet(winners)
    BY <1>4, <1>6, <1>7, <1>9
  <2>2. \A h \in ToSet(winners) : h \in DOMAIN registry
    BY <1>3, <1>4, <1>5
  <2> QED BY <2>1, <2>2
<1> QED BY <1>3, <1>10, <1>11, <1>12 DEF WinnersAreBest

(* The store tells of a finished run what run() returned.                  *)
LEMMA StoreTold == ASSUME SInv, TInv PROVE StoreTellsRun
<1> SUFFICES ASSUME stage = "done" PROVE StoreTellsRun
  BY DEF StoreTellsRun
<1>1. /\ WinnersTold /\ SurvivorsTold /\ CandidatesTold
      /\ saved = Len(winners) /\ finished[run].candidates = Cardinality(AllProposed)
  BY DEF TInv, Searching, InPlace
<1>2. {h \in DOMAIN RowOf : RowOf[h].winner} = ToSet(winners)
  <2>1. DOMAIN winners = 1..saved
    BY <1>1 DEF SInv, Shapes
  <2> QED BY <1>1, <2>1 DEF WinnersTold, ToSet
<1>3. \A k \in DOMAIN rounds : SurvivorsOf(k) = ToSet(rounds[k].survivors)
  BY DEF SurvivorsOf
<1>4. {h \in DOMAIN RowOf : RowOf[h].survived} = UNION {ToSet(rounds[k].survivors) : k \in DOMAIN rounds}
  BY <1>1, <1>3 DEF SurvivorsTold
<1>5. finished[run].candidates = Cardinality({h \in DOMAIN RowOf : RowOf[h].round >= 0})
  BY <1>1, FoundIsStored
<1> QED BY <1>1, <1>2, <1>4, <1>5 DEF StoreTellsRun, CandidatesTold, RowOf

(* LoopTold: whatever mutators propose and however often the process dies  *)
(* or the store fails, run() evaluates a definition once, mutates only     *)
(* qualified versions, returns the best and leaves the store telling it.   *)
THEOREM LoopTellsTruly == LoopSpec => []LoopTold
<1>1. SInv => EvaluatedOnce /\ Lineage
  BY DEF SInv, Registers, EvaluatedOnce
<1>2. SInv /\ TInv => LoopTold
  BY <1>1, BestWon, StoreTold DEF LoopTold, LoopSound
<1> QED BY <1>2, RecordIsTold, PTL

---------------------------------------------------------------------------
(* Steps write the row of the run in use only, and never one that is done. *)

LEMMA UpsertGrows ==
  ASSUME Records, run > 0, finished[run] = Unfinished,
         NEW h \in Hashes, NEW r \in Row, Upsert(h, r), UNCHANGED <<run, finished>>,
         NEW n \in 1..run
  PROVE  /\ \A x \in DOMAIN rows[n] :
              /\ rows'[n][x].round = rows[n][x].round
              /\ rows[n][x].survived => rows'[n][x].survived
              /\ rows[n][x].winner => rows'[n][x].winner
         /\ finished[n] # Unfinished => rows'[n] = rows[n] /\ finished'[n] = finished[n]
<1>1. CASE n # run
  BY <1>1, UpsertSets
<1>2. CASE n = run
  <2>1. rows[n] = RowOf /\ rows'[n] = RowOf'
    BY <1>2 DEF RowOf
  <2>2. /\ \A x \in DOMAIN RowOf : x # h => RowOf'[x] = RowOf[x]
        /\ RowOf'[h].round = IF h \in DOMAIN RowOf THEN RowOf[h].round ELSE r.round
        /\ RowOf'[h].survived <=> (h \in DOMAIN RowOf /\ RowOf[h].survived) \/ r.survived
        /\ RowOf'[h].winner <=> (h \in DOMAIN RowOf /\ RowOf[h].winner) \/ r.winner
    BY UpsertSets
  <2>3. ASSUME NEW x \in DOMAIN RowOf
        PROVE  /\ RowOf'[x].round = RowOf[x].round
               /\ RowOf[x].survived => RowOf'[x].survived
               /\ RowOf[x].winner => RowOf'[x].winner
    <3>1. CASE x = h
      BY <2>2, <2>3, <3>1
    <3>2. CASE x # h
      BY <2>2, <2>3, <3>2
    <3> QED BY <3>1, <3>2
  <2> QED BY <1>2, <2>1, <2>3
<1> QED BY <1>1, <1>2

(* RecordsGrow: a candidate keeps its round and its flags, and a run that  *)
(* has finished is not written again, whatever raises or dies.             *)
THEOREM RecordsOnlyGrow == LoopSpec => RecordsGrow
<1> DEFINE Grows ==
      \A n \in 1..run :
        /\ \A h \in DOMAIN rows[n] :
             /\ rows'[n][h].round = rows[n][h].round
             /\ rows[n][h].survived => rows'[n][h].survived
             /\ rows[n][h].winner => rows'[n][h].winner
        /\ finished[n] # Unfinished => rows'[n] = rows[n] /\ finished'[n] = finished[n]
<1>1. ASSUME SInv, TInv, LoopNext PROVE Grows
  <2>1. /\ Records /\ DOMAIN rows = 1..run /\ DOMAIN finished = 1..run /\ run \in Nat
        /\ stage \in Open => run > 0 /\ finished[run] = Unfinished
    BY <1>1 DEF TInv, Records
  <2>2. CASE UNCHANGED <<rows, finished>>
    BY <2>2
  <2>3. CASE rows' = Append(rows, <<>>) /\ finished' = Append(finished, Unfinished)
    <3>1. \A n \in 1..run : rows'[n] = rows[n] /\ finished'[n] = finished[n]
      BY <2>1, <2>3 DEF Records
    <3> HIDE <2>3
    <3> QED BY <3>1
  <2>4. ASSUME NEW h \in Hashes, NEW r \in Row, Upsert(h, r), UNCHANGED <<run, finished>>, stage \in Open
        PROVE  Grows
    BY <2>1, <2>4, UpsertGrows
  <2> HIDE DEF Grows
  <2>5. CASE BeginRun
    BY <2>2, <2>3, <2>5 DEF BeginRun, StoreRaises
  <2>6. CASE EvaluateBaseline \/ EndRound \/ NextRound \/ Rank \/ LoopCrash
    BY <2>2, <2>6 DEF EvaluateBaseline, EndRound, NextRound, Rank, LoopCrash, store
  <2>7. CASE RecordBaseline
    <3>1. [NewRow EXCEPT !.round = -1] \in Row
      BY NewRows DEF Row
    <3>2. Baseline \in Hashes
      BY LoopAssumption DEF LoopAssumption
    <3> QED BY <2>2, <2>4, <2>7, <3>1, <3>2 DEF RecordBaseline, StoreRaises, Open
  <2>8. CASE Try
    <3>1. \A m \in Int : [NewRow EXCEPT !.round = m] \in Row
      BY NewRows DEF Row
    <3>2. Len(rounds) \in Int
      BY <1>1 DEF SInv, Shapes
    <3>3. \/ UNCHANGED <<rows, finished>>
          \/ \E h \in Hashes : Upsert(h, [NewRow EXCEPT !.round = Len(rounds)])
                               /\ UNCHANGED <<run, finished>> /\ stage \in Open
      BY <2>8 DEF Try, StoreRaises, Open
    <3> QED BY <2>2, <2>4, <3>1, <3>2, <3>3
  <2>9. CASE RecordSurvivor
    <3>1. Len(rounds) - 1 \in Int /\ (saved < Len(survivors) => survivors[saved + 1] \in Hashes)
      BY <1>1 DEF SInv, Shapes
    <3>2. [NewRow EXCEPT !.round = Len(rounds) - 1, !.survived = TRUE] \in Row
      BY <3>1, MarkedRows
    <3> QED BY <2>2, <2>4, <2>9, <3>1, <3>2 DEF RecordSurvivor, StoreRaises, Open
  <2>10. CASE RecordWinner
    <3>1. saved < Len(winners) => winners[saved + 1] \in Hashes
      BY <1>1 DEF SInv, Shapes
    <3>2. [NewRow EXCEPT !.round = -2, !.winner = TRUE] \in Row
      <4>1. -2 \in Int
        OBVIOUS
      <4> QED BY <4>1, MarkedRows
    <3> QED BY <2>2, <2>4, <2>10, <3>1, <3>2 DEF RecordWinner, StoreRaises, Open
  <2>11. CASE FinishRun
    <3>1. CASE UNCHANGED <<rows, finished>>
      BY <2>2, <3>1
    <3>2. CASE ~UNCHANGED <<rows, finished>>
      <4>1. stage \in Open /\ UNCHANGED rows /\ \E c : finished' = [finished EXCEPT ![run] = c]
        BY <2>11, <3>2 DEF FinishRun, StoreRaises, Open
      <4>2. \A n \in 1..run : n # run => finished'[n] = finished[n]
        BY <2>1, <4>1
      <4> QED BY <2>1, <4>1, <4>2 DEF Grows
    <3> QED BY <3>1, <3>2
  <2> QED BY <1>1, <2>5, <2>6, <2>7, <2>8, <2>9, <2>10, <2>11 DEF LoopNext, LoopStep
<1>2. SInv /\ TInv /\ [LoopNext]_improving => [Grows]_improving
  BY <1>1
<1> QED BY <1>2, RecordIsTold, PTL DEF LoopSpec, RecordsGrow


---------------------------------------------------------------------------
(* The loops derived from one another, and what they export.               *)

JobTyped ==
  /\ job = [at |-> job.at, started |-> job.started, job |-> job.job, left |-> job.left,
            winners |-> job.winners, write |-> job.write, results |-> job.results]
  /\ job.at \in {"idle", "loop", "snapshot", "fill_snapshot", "latest", "fill_latest", "returned"}
  /\ job.at # "idle" =>
       /\ job.job \in Jobs /\ job.left \in Seq(Range(job.job.targets)) /\ IsInjective(job.left)
       /\ job.results = [i \in 1..Len(job.results) |-> job.results[i]] /\ Len(job.results) \in Nat

Exporting == job.at \in {"snapshot", "fill_snapshot", "latest", "fill_latest"}

(* What a directory holds was tuned for it, and its LATEST has a snapshot.  *)
DirHolds(d) ==
  \A n \in Files(d) : exports[d][n].stamp = d /\ (n = Latest => FileName(exports[d][n]) \in DOMAIN exports[d])

Whole(d, w) == d \in DOMAIN exports /\ FileName(w) \in DOMAIN exports[d] /\ exports[d][FileName(w)] = w

HasLatest(d) == d \in DOMAIN exports /\ Latest \in DOMAIN exports[d] /\ exports[d][Latest].stamp = d

Recording == ExportsOne(job.job)

(* The winner of w a caller is told the files of.                          *)
Chosen(w, best) == \E k \in DOMAIN w : IsTold(w, k) /\ best = w[k]

(* A result's directory: the winner it is told by is whole there.          *)
ResultHolds(r) ==
  /\ HasLatest(r.dir)
  /\ \E best : /\ Chosen(r.winners, best) /\ Whole(r.dir, best)
               /\ Recording => exports[r.dir][Latest] = best

(* The target under way: that winner is yet to be written, or whole.       *)
TargetIn(d, step, w, best) ==
  /\ w \in Seq(Versions(d)) /\ best.stamp = d
  /\ \/ /\ w # <<>> /\ w[1] = best /\ \A i \in 2..Len(w) : w[i].body # best.body
        /\ Recording => Len(w) = 1
     \/ /\ Whole(d, best) /\ \A i \in 1..Len(w) : w[i].body # best.body
        /\ Recording => w = <<>> /\ exports[d][Latest] = best
        /\ step = "snapshot" => HasLatest(d)
  /\ step # "snapshot" => w # <<>>
  /\ step \in {"latest", "fill_latest"} => Whole(d, w[1])

TargetHolds == \E best : Chosen(job.winners, best) /\ TargetIn(Dir, job.at, job.write, best)

DerivedInv ==
  /\ JobTyped
  /\ \A d \in DOMAIN exports : DirHolds(d)
  /\ \A s \in DOMAIN slots : slots[s].stamp = s
  /\ job.at = "loop" \/ Exporting =>
       /\ job.left # <<>>
       /\ \A i \in 1..Len(job.results), x \in 1..Len(job.left) : job.results[i].dir # ExportDir(job.job, job.left[x])
  /\ Exporting => TargetHolds
  /\ job.at # "idle" => \A i \in 1..Len(job.results) : ResultHolds(job.results[i])

(* One file is written.                                                    *)
LEMMA FileWritten ==
  ASSUME NEW d, NEW n, NEW v, InDir(d, n, v)
  PROVE  /\ DOMAIN exports' = DOMAIN exports \cup {d}
         /\ \A e \in DOMAIN exports : e # d => exports'[e] = exports[e]
         /\ n \in DOMAIN exports'[d] /\ exports'[d][n] = v
         /\ d \in DOMAIN exports => /\ DOMAIN exports'[d] = DOMAIN exports[d] \cup {n}
                                    /\ \A m \in DOMAIN exports[d] : m # n => exports'[d][m] = exports[d][m]
         /\ d \notin DOMAIN exports => DOMAIN exports'[d] = {n}
<1> PICK files : files = IF d \in DOMAIN exports THEN exports[d] ELSE <<>>
  OBVIOUS
<1>1. exports' = [e \in DOMAIN exports \cup {d} |->
                IF e # d THEN exports[e]
                ELSE [m \in DOMAIN files \cup {n} |-> IF m = n THEN v ELSE files[m]]]
  BY DEF InDir
<1>2. d \notin DOMAIN exports => DOMAIN files = {}
  OBVIOUS
<1>3. exports'[d] = [m \in DOMAIN files \cup {n} |-> IF m = n THEN v ELSE files[m]]
  BY <1>1
<1> QED BY <1>1, <1>2, <1>3

(* Directories hold what is theirs, whatever whole version is added.       *)
LEMMA DirsStay ==
  ASSUME \A e \in DOMAIN exports : DirHolds(e), NEW d, NEW n, NEW v, InDir(d, n, v),
         v = Torn \/ (v.stamp = d /\ (n # Latest \/ Whole(d, v)))
  PROVE  \A e \in DOMAIN exports' : DirHolds(e)'
<1>0. /\ DOMAIN exports' = DOMAIN exports \cup {d}
      /\ \A e \in DOMAIN exports : e # d => exports'[e] = exports[e]
      /\ n \in DOMAIN exports'[d] /\ exports'[d][n] = v
      /\ d \in DOMAIN exports => /\ DOMAIN exports'[d] = DOMAIN exports[d] \cup {n}
                                 /\ \A m \in DOMAIN exports[d] : m # n => exports'[d][m] = exports[d][m]
      /\ d \notin DOMAIN exports => DOMAIN exports'[d] = {n}
  BY FileWritten
<1>1. ASSUME NEW e \in DOMAIN exports', e # d PROVE DirHolds(e)'
  <2>1. e \in DOMAIN exports /\ exports'[e] = exports[e] /\ DirHolds(e)
    BY <1>0, <1>1
  <2> QED BY <2>1 DEF DirHolds, Files
<1>2. DirHolds(d)'
  <2> SUFFICES ASSUME NEW m \in DOMAIN exports'[d], exports'[d][m] # Torn
               PROVE  exports'[d][m].stamp = d /\ (m = Latest => FileName(exports'[d][m]) \in DOMAIN exports'[d])
    BY DEF DirHolds, Files
  <2>1. CASE m = n
    BY <1>0, <2>1 DEF Whole
  <2>2. CASE m # n
    <3>1. d \in DOMAIN exports /\ m \in DOMAIN exports[d] /\ exports'[d][m] = exports[d][m] /\ DirHolds(d)
      BY <1>0, <2>2
    <3> QED BY <1>0, <3>1 DEF DirHolds, Files
  <2> QED BY <2>1, <2>2
<1> QED BY <1>1, <1>2

LEMMA NamesDiffer == \A w : FileName(w) # Latest
<1> SUFFICES ASSUME NEW w PROVE FileName(w) # Latest
  OBVIOUS
<1>1. Len(FileName(w)) = 2 /\ Len(Latest) = 1
  BY DEF FileName, Latest
<1> QED BY <1>1

LEMMA BodiesDiffer == ASSUME NEW v, NEW w, v.body # w.body PROVE FileName(v) # FileName(w)
<1>1. FileName(v)[2] = v.body /\ FileName(w)[2] = w.body
  BY DEF FileName
<1> QED BY <1>1

LEMMA WholeStays ==
  ASSUME NEW d, NEW n, NEW v, InDir(d, n, v), NEW x, Whole(d, x), n # FileName(x)
  PROVE  Whole(d, x)'
BY FileWritten DEF Whole

LEMMA WholeNow ==
  ASSUME NEW d, NEW v, InDir(d, FileName(v), v)
  PROVE  Whole(d, v)'
<1>1. d \in DOMAIN exports' /\ FileName(v) \in DOMAIN exports'[d] /\ exports'[d][FileName(v)] = v
  BY FileWritten
<1> QED BY <1>1 DEF Whole

(* Other directories keep what they have.                                  *)
LEMMA ResultsStay ==
  ASSUME NEW d, NEW n, NEW v, InDir(d, n, v), NEW r, ResultHolds(r), r.dir # d, job'.job = job.job
  PROVE  ResultHolds(r)'
<1>1. PICK best : Chosen(r.winners, best) /\ Whole(r.dir, best) /\ (Recording => exports[r.dir][Latest] = best)
  BY DEF ResultHolds
<1>2. HasLatest(r.dir)
  BY DEF ResultHolds
<1>3. Chosen(r.winners, best)' /\ (Recording <=> Recording')
  BY <1>1 DEF Chosen, IsTold, Recording
<1>4. r.dir \in DOMAIN exports /\ r.dir \in DOMAIN exports' /\ exports'[r.dir] = exports[r.dir]
  BY <1>2, FileWritten DEF HasLatest
<1>5. HasLatest(r.dir)' /\ Whole(r.dir, best)'
  BY <1>1, <1>2, <1>4 DEF HasLatest, Whole
<1> QED BY <1>1, <1>3, <1>4, <1>5 DEF ResultHolds

LEMMA ResultsApart ==
  ASSUME NEW j \in Jobs, NEW t, NEW u, t # u
  PROVE  ExportDir(j, t) # ExportDir(j, u)
<1>1. ExportDir(j, t)[2] = t /\ ExportDir(j, u)[2] = u
  BY DEF ExportDir
<1> QED BY <1>1

LEMMA LoopStarts == ASSUME DerivedInv, StartJob PROVE DerivedInv'
<1>1. PICK j \in Jobs : job' = [Resting(job.started + 1) EXCEPT !.at = "loop", !.job = j, !.left = j.targets]
  BY DEF StartJob
<1>2. job' = [at |-> "loop", started |-> job.started + 1, job |-> j, left |-> j.targets, winners |-> <<>>,
              write |-> <<>>, results |-> <<>>]
  BY <1>1 DEF Resting
<1>3. j.targets \in Seq(Range(j.targets)) /\ IsInjective(j.targets) /\ j.targets # <<>>
  BY DerivedAssumption DEF DerivedAssumption
<1>4. JobTyped'
  BY <1>2, <1>3 DEF JobTyped
<1>5. UNCHANGED <<exports, slots>>
  BY DEF StartJob
<1>6. (\A d \in DOMAIN exports : DirHolds(d))' /\ (\A s \in DOMAIN slots : slots[s].stamp = s)'
  BY <1>5 DEF DerivedInv, DirHolds, Files
<1> QED BY <1>2, <1>3, <1>4, <1>6 DEF DerivedInv, Exporting

LEMMA LoopAnswers == ASSUME DerivedInv, LoopReturns PROVE DerivedInv'
<1> PICK d, j : d = Dir /\ j = job.job
  OBVIOUS
<1>1. /\ job.at = "loop" /\ job.left # <<>> /\ UNCHANGED <<exports, slots>> /\ j \in Jobs
  BY DEF LoopReturns, DerivedInv, JobTyped
<1>2. d = Stamped(j, Head(job.left))
  BY DEF Dir, ExportDir, Stamped
<1>15. PICK w \in Results(d) : \E u \in ToWrite(j, w) :
         job' = [job EXCEPT !.at = "snapshot", !.winners = w, !.write = u]
  BY <1>2 DEF LoopReturns
<1>3. PICK u \in ToWrite(j, w) : job' = [job EXCEPT !.at = "snapshot", !.winners = w, !.write = u]
  BY <1>15
<1>4. /\ job' = [at |-> "snapshot", started |-> job.started, job |-> j, left |-> job.left,
                winners |-> w, write |-> u, results |-> job.results]
  BY <1>1, <1>3 DEF DerivedInv, JobTyped
<1>5. JobTyped'
  BY <1>1, <1>4 DEF DerivedInv, JobTyped
<1>6. PICK n \in Nat \ {0} : w \in [1..n -> Versions(d)] /\ IsResult(w)
  BY DerivedAssumption DEF Results, DerivedAssumption
<1>7. w \in Seq(Versions(d)) /\ Len(w) = n /\ DOMAIN w = 1..n /\ 1 \in 1..n
  BY <1>6
<1>8. PICK k \in 1..n :
        /\ IF ExportsOne(j) THEN IsBest(w, k) ELSE k = 1
        /\ u \in Seq(Versions(d)) /\ u # <<>> /\ u[1] = w[k] /\ \A i \in 2..Len(u) : u[i].body # w[k].body
        /\ ExportsOne(j) => Len(u) = 1
  <2>1. CASE ExportsOne(j)
    <3>1. PICK k \in 1..n : IsBest(w, k) /\ u = <<w[k]>>
      BY <1>3, <1>7, <2>1 DEF ToWrite
    <3>2. w[k] \in Versions(d)
      BY <1>6
    <3>3. u \in Seq(Versions(d)) /\ u # <<>> /\ u[1] = w[k] /\ Len(u) = 1
      BY <3>1, <3>2
    <3> QED BY <2>1, <3>1, <3>3
  <2>2. CASE ~ExportsOne(j)
    <3>1. \A i \in 2..n : w[1].body # w[i].body
      BY <1>6, <1>7 DEF IsResult
    <3>2. u = w
      BY <1>3, <2>2 DEF ToWrite
    <3> QED BY <1>6, <1>7, <2>2, <3>1, <3>2
  <2> QED BY <2>1, <2>2
<1> PICK best : best = w[k]
  OBVIOUS
<1>9. Dir' = d
  BY <1>4 DEF Dir
<1>10. best.stamp = d
  BY <1>6 DEF Versions
<1>11. TargetHolds'
  <2>1. TargetIn(d, "snapshot", u, best)'
    BY <1>4, <1>8, <1>10 DEF TargetIn, Recording
  <2>2. Chosen(w, best)'
    BY <1>4, <1>7, <1>8 DEF Chosen, IsTold
  <2> QED BY <1>4, <1>9, <2>1, <2>2 DEF TargetHolds, TargetIn, Whole, HasLatest, Recording, Chosen, IsTold
<1>12. (\A i \in 1..Len(job.results) : ResultHolds(job.results[i]))'
  <2>1. ASSUME NEW x, ResultHolds(x) PROVE ResultHolds(x)'
    BY <1>1, <1>4, <2>1 DEF ResultHolds, Whole, HasLatest, Recording, Chosen, IsTold
  <2>2. \A i \in 1..Len(job.results) : ResultHolds(job.results[i])
    BY <1>1 DEF DerivedInv
  <2> QED BY <1>4, <2>1, <2>2
<1>13. (\A e \in DOMAIN exports : DirHolds(e))' /\ (\A s \in DOMAIN slots : slots[s].stamp = s)'
  BY <1>1 DEF DerivedInv, DirHolds, Files
<1>14. /\ job'.left # <<>>
       /\ \A i \in 1..Len(job'.results), x \in 1..Len(job'.left) : job'.results[i].dir # ExportDir(job'.job, job'.left[x])
  BY <1>1, <1>4 DEF DerivedInv
<1> QED BY <1>4, <1>5, <1>11, <1>12, <1>13, <1>14 DEF DerivedInv, Exporting

(* A process that ends, whichever way, leaves the files as they are.       *)
LEMMA JobRests == ASSUME DerivedInv, NEW n, job' = Resting(n), UNCHANGED <<exports, slots>> PROVE DerivedInv'
<1>1. job' = [at |-> "idle", started |-> n, job |-> NoJob, left |-> <<>>, winners |-> <<>>,
              write |-> <<>>, results |-> <<>>]
  BY DEF Resting
<1>2. JobTyped'
  BY <1>1 DEF JobTyped
<1>3. (\A d \in DOMAIN exports : DirHolds(d))' /\ (\A s \in DOMAIN slots : slots[s].stamp = s)'
  BY DEF DerivedInv, DirHolds, Files
<1> QED BY <1>1, <1>2, <1>3 DEF DerivedInv, Exporting

(* What one write of the target under way leaves of the invariant.         *)
LEMMA ExportStep ==
  ASSUME DerivedInv, Exporting, NEW n, NEW v, InDir(Dir, n, v), UNCHANGED slots,
         v = Torn \/ (v.stamp = Dir /\ (n # Latest \/ Whole(Dir, v))),
         NEW step \in {"snapshot", "fill_snapshot", "latest", "fill_latest"}, NEW w,
         job' = [job EXCEPT !.at = step, !.write = w],
         Dir' = Dir => TargetHolds'
  PROVE  DerivedInv'
<1> PICK d : d = Dir
  OBVIOUS
<1>1. job' = [at |-> step, started |-> job.started, job |-> job.job, left |-> job.left,
              winners |-> job.winners, write |-> w, results |-> job.results]
  BY DEF DerivedInv, JobTyped
<1>2. JobTyped' /\ Dir' = Dir
  BY <1>1 DEF DerivedInv, JobTyped, Exporting, Dir
<1>3. InDir(d, n, v) /\ (v = Torn \/ (v.stamp = d /\ (n # Latest \/ Whole(d, v))))
  OBVIOUS
<1>4. (\A e \in DOMAIN exports : DirHolds(e))'
  BY <1>3, DirsStay DEF DerivedInv
<1>5. job.left # <<>> /\ \A i \in 1..Len(job.results), x \in 1..Len(job.left) : job.results[i].dir # ExportDir(job.job, job.left[x])
  BY DEF DerivedInv
<1>6. \A i \in 1..Len(job.results) : job.results[i].dir # d
  <2>1. job.left \in Seq(Range(job.job.targets))
    BY DEF DerivedInv, JobTyped, Exporting
  <2>2. 1 \in 1..Len(job.left) /\ d = ExportDir(job.job, job.left[1])
    BY <1>5, <2>1 DEF Dir
  <2> QED BY <1>5, <2>2
<1>7. ASSUME NEW i \in 1..Len(job.results) PROVE ResultHolds(job.results[i])'
  <2> PICK r : r = job.results[i]
    OBVIOUS
  <2>1. ResultHolds(r)
    BY DEF DerivedInv, Exporting
  <2>2. ResultHolds(r)'
    BY <1>1, <1>3, <1>6, <2>1, ResultsStay
  <2> QED BY <1>1, <2>2 DEF DerivedInv
<1>8. (\A i \in 1..Len(job.results) : ResultHolds(job.results[i]))'
  BY <1>1, <1>7
<1>9. (\A s \in DOMAIN slots : slots[s].stamp = s)'
  BY DEF DerivedInv
<1> QED BY <1>1, <1>2, <1>4, <1>5, <1>8, <1>9 DEF DerivedInv

(* What a step that writes one file needs of the target under way.         *)
LEMMA TargetFacts ==
  ASSUME DerivedInv, Exporting, NEW d, d = Dir, NEW step, NEW w, job' = [job EXCEPT !.at = step, !.write = w]
  PROVE  /\ \E best : Chosen(job.winners, best)' /\ TargetIn(d, job.at, job.write, best)
         /\ Dir' = d
         /\ job' = [at |-> step, started |-> job.started, job |-> job.job, left |-> job.left,
                    winners |-> job.winners, write |-> w, results |-> job.results]
<1>1. job' = [at |-> step, started |-> job.started, job |-> job.job, left |-> job.left,
              winners |-> job.winners, write |-> w, results |-> job.results]
  BY DEF DerivedInv, JobTyped
<1>2. PICK best : Chosen(job.winners, best) /\ TargetIn(d, job.at, job.write, best)
  BY DEF DerivedInv, TargetHolds
<1>3. Chosen(job.winners, best)'
  BY <1>1, <1>2 DEF Chosen, IsTold
<1> QED BY <1>1, <1>2, <1>3 DEF Dir

LEMMA SnapshotOpens == ASSUME DerivedInv, OpenSnapshot PROVE DerivedInv'
<1> PICK d, w, n : d = Dir /\ w = job.write /\ n = FileName(Head(job.write))
  OBVIOUS
<1>1. /\ Exporting /\ job.at = "snapshot" /\ w # <<>> /\ InDir(d, n, Torn) /\ UNCHANGED slots
      /\ job' = [job EXCEPT !.at = "fill_snapshot", !.write = w]
  BY DEF OpenSnapshot, Exporting, DerivedInv, JobTyped
<1>0. PICK best : Chosen(job.winners, best)' /\ TargetIn(d, job.at, w, best)
  BY <1>1, TargetFacts
<1>2. /\ TargetIn(d, job.at, w, best) /\ Dir' = d /\ (Recording <=> Recording')
      /\ job' = [at |-> "fill_snapshot", started |-> job.started, job |-> job.job, left |-> job.left,
                 winners |-> job.winners, write |-> w, results |-> job.results]
  <2>1. Dir' = d
    BY <1>1, TargetFacts
  <2>2. job' = [at |-> "fill_snapshot", started |-> job.started, job |-> job.job, left |-> job.left,
                winners |-> job.winners, write |-> w, results |-> job.results]
    BY <1>1, TargetFacts
  <2>3. Recording <=> Recording'
    BY <2>2 DEF Recording
  <2> QED BY <1>0, <2>1, <2>2, <2>3
<1>3. w \in Seq(Versions(d)) /\ best.stamp = d
  BY <1>2 DEF TargetIn
<1>4. ASSUME /\ w[1] = best /\ \A i \in 2..Len(w) : w[i].body # best.body
             /\ Recording => Len(w) = 1
     PROVE  TargetIn(d, "fill_snapshot", w, best)'
  BY <1>1, <1>2, <1>3, <1>4 DEF TargetIn
<1>5. ASSUME /\ Whole(d, best) /\ \A i \in 1..Len(w) : w[i].body # best.body
             /\ Recording => w = <<>> /\ exports[d][Latest] = best
     PROVE  TargetIn(d, "fill_snapshot", w, best)'
  <2>1. n # FileName(best)
    BY <1>1, <1>3, <1>5, BodiesDiffer
  <2>2. Whole(d, best)'
    BY <1>1, <1>5, <2>1, WholeStays
  <2> QED BY <1>1, <1>2, <1>3, <1>5, <2>2 DEF TargetIn
<1>6. TargetHolds'
  <2>1. TargetIn(d, "fill_snapshot", w, best)'
    BY <1>1, <1>2, <1>4, <1>5 DEF TargetIn
  <2> QED BY <1>0, <1>2, <2>1 DEF TargetHolds, TargetIn, Whole, HasLatest, Recording, Chosen, IsTold
<1> QED BY <1>1, <1>6, ExportStep

LEMMA SnapshotFills == ASSUME DerivedInv, FillSnapshot PROVE DerivedInv'
<1> PICK d, w, n, v : d = Dir /\ w = job.write /\ n = FileName(Head(job.write)) /\ v = Head(job.write)
  OBVIOUS
<1>1. /\ Exporting /\ job.at = "fill_snapshot" /\ InDir(d, n, v) /\ UNCHANGED slots
      /\ job' = [job EXCEPT !.at = "latest", !.write = w]
  BY DEF FillSnapshot, Exporting, DerivedInv, JobTyped
<1>0. PICK best : Chosen(job.winners, best)' /\ TargetIn(d, job.at, w, best)
  BY <1>1, TargetFacts
<1>2. /\ TargetIn(d, job.at, w, best) /\ Dir' = d /\ (Recording <=> Recording')
      /\ job' = [at |-> "latest", started |-> job.started, job |-> job.job, left |-> job.left,
                 winners |-> job.winners, write |-> w, results |-> job.results]
  <2>1. Dir' = d
    BY <1>1, TargetFacts
  <2>2. job' = [at |-> "latest", started |-> job.started, job |-> job.job, left |-> job.left,
                winners |-> job.winners, write |-> w, results |-> job.results]
    BY <1>1, TargetFacts
  <2>3. Recording <=> Recording'
    BY <2>2 DEF Recording
  <2> QED BY <1>0, <2>1, <2>2, <2>3
<1>3. w \in Seq(Versions(d)) /\ best.stamp = d /\ w # <<>> /\ v = w[1] /\ v \in Versions(d)
  BY <1>1, <1>2 DEF TargetIn
<1>4. v.stamp = d /\ n # Latest /\ n = FileName(v)
  BY <1>3, NamesDiffer DEF Versions
<1>5. Whole(d, v)'
  BY <1>1, <1>4, WholeNow
<1>6. ASSUME /\ w[1] = best /\ \A i \in 2..Len(w) : w[i].body # best.body
             /\ Recording => Len(w) = 1
     PROVE  TargetIn(d, "latest", w, best)'
  BY <1>1, <1>2, <1>3, <1>5, <1>6 DEF TargetIn
<1>7. ASSUME /\ Whole(d, best) /\ \A i \in 1..Len(w) : w[i].body # best.body
             /\ Recording => w = <<>> /\ exports[d][Latest] = best
     PROVE  TargetIn(d, "latest", w, best)'
  <2>1. n # FileName(best)
    BY <1>3, <1>4, <1>7, BodiesDiffer
  <2>2. Whole(d, best)'
    BY <1>1, <1>7, <2>1, WholeStays
  <2> QED BY <1>1, <1>2, <1>3, <1>5, <1>7, <2>2 DEF TargetIn
<1>8. TargetHolds'
  <2>1. TargetIn(d, "latest", w, best)'
    BY <1>1, <1>2, <1>6, <1>7 DEF TargetIn
  <2> QED BY <1>0, <1>2, <2>1 DEF TargetHolds, TargetIn, Whole, HasLatest, Recording, Chosen, IsTold
<1> QED BY <1>1, <1>4, <1>8, ExportStep

LEMMA LatestOpens == ASSUME DerivedInv, OpenLatest PROVE DerivedInv'
<1> PICK d, w : d = Dir /\ w = job.write
  OBVIOUS
<1>1. /\ Exporting /\ job.at = "latest" /\ InDir(d, Latest, Torn) /\ UNCHANGED slots
      /\ job' = [job EXCEPT !.at = "fill_latest", !.write = w]
  BY DEF OpenLatest, Exporting, DerivedInv, JobTyped
<1>0. PICK best : Chosen(job.winners, best)' /\ TargetIn(d, job.at, w, best)
  BY <1>1, TargetFacts
<1>2. /\ TargetIn(d, job.at, w, best) /\ Dir' = d /\ (Recording <=> Recording')
      /\ job' = [at |-> "fill_latest", started |-> job.started, job |-> job.job, left |-> job.left,
                 winners |-> job.winners, write |-> w, results |-> job.results]
  <2>1. Dir' = d
    BY <1>1, TargetFacts
  <2>2. job' = [at |-> "fill_latest", started |-> job.started, job |-> job.job, left |-> job.left,
                winners |-> job.winners, write |-> w, results |-> job.results]
    BY <1>1, TargetFacts
  <2>3. Recording <=> Recording'
    BY <2>2 DEF Recording
  <2> QED BY <1>0, <2>1, <2>2, <2>3
<1>3. w \in Seq(Versions(d)) /\ best.stamp = d /\ w # <<>> /\ Whole(d, w[1])
  BY <1>1, <1>2 DEF TargetIn
<1>4. ASSUME NEW v, Whole(d, v) PROVE Whole(d, v)'
  BY <1>1, <1>4, NamesDiffer, WholeStays
<1>5. ASSUME /\ w[1] = best /\ \A i \in 2..Len(w) : w[i].body # best.body
             /\ Recording => Len(w) = 1
     PROVE  TargetIn(d, "fill_latest", w, best)'
  BY <1>1, <1>2, <1>3, <1>4, <1>5 DEF TargetIn
<1>6. ASSUME /\ Whole(d, best) /\ \A i \in 1..Len(w) : w[i].body # best.body
             /\ Recording => w = <<>> /\ exports[d][Latest] = best
     PROVE  TargetIn(d, "fill_latest", w, best)'
  BY <1>1, <1>2, <1>3, <1>4, <1>6 DEF TargetIn
<1>7. TargetHolds'
  <2>1. TargetIn(d, "fill_latest", w, best)'
    BY <1>1, <1>2, <1>5, <1>6 DEF TargetIn
  <2> QED BY <1>0, <1>2, <2>1 DEF TargetHolds, TargetIn, Whole, HasLatest, Recording, Chosen, IsTold
<1> QED BY <1>1, <1>7, ExportStep

LEMMA LatestFills == ASSUME DerivedInv, FillLatest PROVE DerivedInv'
<1> PICK d, w, v, u : d = Dir /\ w = job.write /\ v = Head(job.write) /\ u = Tail(job.write)
  OBVIOUS
<1>1. /\ Exporting /\ job.at = "fill_latest" /\ InDir(d, Latest, v) /\ UNCHANGED slots
      /\ job' = [job EXCEPT !.at = "snapshot", !.write = u]
  BY DEF FillLatest, Exporting, DerivedInv, JobTyped
<1>0. PICK best : Chosen(job.winners, best)' /\ TargetIn(d, job.at, w, best)
  BY <1>1, TargetFacts
<1>2. /\ TargetIn(d, job.at, w, best) /\ Dir' = d /\ (Recording <=> Recording')
      /\ job' = [at |-> "snapshot", started |-> job.started, job |-> job.job, left |-> job.left,
                 winners |-> job.winners, write |-> u, results |-> job.results]
  <2>1. Dir' = d
    BY <1>1, TargetFacts
  <2>2. job' = [at |-> "snapshot", started |-> job.started, job |-> job.job, left |-> job.left,
                winners |-> job.winners, write |-> u, results |-> job.results]
    BY <1>1, TargetFacts
  <2>3. Recording <=> Recording'
    BY <2>2 DEF Recording
  <2> QED BY <1>0, <2>1, <2>2, <2>3
<1>3. w \in Seq(Versions(d)) /\ best.stamp = d /\ w # <<>> /\ v = w[1] /\ v \in Versions(d) /\ Whole(d, v)
  BY <1>1, <1>2 DEF TargetIn
<1>4. v.stamp = d
  BY <1>3 DEF Versions
<1>5. /\ u \in Seq(Versions(d)) /\ Len(u) = Len(w) - 1 /\ \A i \in 1..Len(u) : u[i] = w[i + 1]
  BY <1>3, HeadTailProperties
<1>6. ASSUME NEW x, Whole(d, x) PROVE Whole(d, x)'
  BY <1>1, <1>6, NamesDiffer, WholeStays
<1>7. d \in DOMAIN exports' /\ Latest \in DOMAIN exports'[d] /\ exports'[d][Latest] = v
  BY ZenonT(30), <1>1, FileWritten
<1>8. HasLatest(d)'
  BY <1>4, <1>7 DEF HasLatest
<1>9. ASSUME /\ w[1] = best /\ \A i \in 2..Len(w) : w[i].body # best.body
             /\ Recording => Len(w) = 1
     PROVE  TargetIn(d, "snapshot", u, best)'
  <2>1. \A i \in 1..Len(u) : u[i].body # best.body
    BY <1>3, <1>5, <1>9
  <2>2. Recording => u = <<>>
    BY <1>5, <1>9
  <2> QED BY <1>2, <1>3, <1>5, <1>6, <1>7, <1>8, <1>9, <2>1, <2>2 DEF TargetIn
<1>10. ASSUME /\ Whole(d, best) /\ \A i \in 1..Len(w) : w[i].body # best.body
              /\ Recording => w = <<>> /\ exports[d][Latest] = best
     PROVE  TargetIn(d, "snapshot", u, best)'
  <2>1. \A i \in 1..Len(u) : i + 1 \in 1..Len(w)
    BY <1>3, <1>5
  <2>2. \A i \in 1..Len(u) : u[i].body # best.body
    BY <1>5, <1>10, <2>1
  <2>3. ~Recording /\ Whole(d, best)'
    BY <1>3, <1>6, <1>10
  <2> QED BY <1>2, <1>3, <1>5, <1>8, <2>2, <2>3 DEF TargetIn
<1>11. TargetHolds'
  <2>1. TargetIn(d, "snapshot", u, best)'
    BY <1>1, <1>2, <1>9, <1>10 DEF TargetIn
  <2> QED BY <1>0, <1>2, <2>1 DEF TargetHolds, TargetIn, Whole, HasLatest, Recording, Chosen, IsTold
<1> QED BY <1>1, <1>3, <1>4, <1>11, ExportStep

LEMMA TargetEnds == ASSUME DerivedInv, EndTarget PROVE DerivedInv'
<1> PICK d, j, left, rest, k, r :
      /\ d = Dir /\ j = job.job /\ left = job.left /\ rest = Tail(job.left) /\ k = Len(job.results)
      /\ r = [dir |-> Dir, winners |-> job.winners]
  OBVIOUS
<1>1. /\ job.at = "snapshot" /\ Exporting /\ job.write = <<>> /\ TargetHolds /\ UNCHANGED <<exports, slots>>
      /\ j \in Jobs /\ left \in Seq(Range(j.targets)) /\ IsInjective(left) /\ left # <<>>
      /\ job.results = [i \in 1..k |-> job.results[i]] /\ k \in Nat
  BY DEF EndTarget, Exporting, DerivedInv, JobTyped
<1> PICK step : step = IF Len(left) > 1 THEN "loop" ELSE "returned"
  OBVIOUS
<1>2. job' = [at |-> step, started |-> job.started, job |-> j, left |-> rest,
              winners |-> <<>>, write |-> job.write, results |-> Append(job.results, r)]
  BY DEF EndTarget, DerivedInv, JobTyped
<1>3. job.results \in Seq({job.results[i] : i \in 1..k} \cup {r})
  <2> PICK rs, S : rs = job.results /\ S = {job.results[i] : i \in 1..k} \cup {r}
    OBVIOUS
  <2>1. rs = [i \in 1..k |-> rs[i]] /\ \A i \in 1..k : rs[i] \in S
    BY <1>1
  <2>2. rs \in [1..k -> S]
    BY <2>1
  <2>3. k \in Nat /\ S = {job.results[i] : i \in 1..k} \cup {r}
    BY <1>1
  <2>4. rs \in Seq(S)
    BY <2>2, <2>3, SeqDef
  <2> QED BY <2>3, <2>4
<1>4. /\ Len(Append(job.results, r)) = k + 1 /\ Append(job.results, r)[k + 1] = r
      /\ \A i \in 1..k : Append(job.results, r)[i] = job.results[i]
      /\ Append(job.results, r) = [i \in 1..(k + 1) |-> Append(job.results, r)[i]]
  BY <1>1, <1>3
<1>5. /\ rest \in Seq(Range(j.targets)) /\ Len(rest) = Len(left) - 1 /\ Len(rest) \in Nat
      /\ \A i \in 1..Len(rest) : rest[i] = left[i + 1]
  <2>1. rest \in Seq(Range(j.targets)) /\ Len(rest) = Len(left) - 1 /\ \A i \in 1..Len(rest) : rest[i] = left[i + 1]
    BY <1>1, HeadTailProperties
  <2> QED BY <2>1, LenProperties
<1>6. IsInjective(rest) /\ \A i \in 1..Len(rest) : rest[i] # left[1]
  BY <1>1, <1>5 DEF IsInjective
<1>7. JobTyped'
  BY SMTT(30), <1>1, <1>2, <1>4, <1>5, <1>6 DEF JobTyped
<1>8. d = ExportDir(j, left[1])
  BY <1>1 DEF Dir
<1>9. ResultHolds(r)
  <2>1. PICK best : Chosen(job.winners, best) /\ TargetIn(d, job.at, job.write, best)
    BY <1>1 DEF TargetHolds
  <2>2. Whole(d, best) /\ HasLatest(d) /\ (Recording => exports[d][Latest] = best)
    BY <1>1, <2>1 DEF TargetIn
  <2>3. r.dir = d /\ r.winners = job.winners
    OBVIOUS
  <2> QED BY <2>1, <2>2, <2>3 DEF ResultHolds
<1>10. (\A i \in 1..Len(job.results) : ResultHolds(job.results[i]))'
  <2>1. ASSUME NEW x, ResultHolds(x) PROVE ResultHolds(x)'
    BY <1>1, <1>2, <2>1 DEF ResultHolds, Whole, HasLatest, Recording, Chosen, IsTold
  <2>2. \A i \in 1..k : ResultHolds(job.results[i])
    BY <1>1 DEF DerivedInv
  <2>3. ASSUME NEW i \in 1..(k + 1) PROVE ResultHolds(job.results[i])'
    <3> PICK x : x = job'.results[i]
      OBVIOUS
    <3>1. ResultHolds(x)
      BY <1>2, <1>4, <1>9, <2>2, <2>3
    <3>2. ResultHolds(x)'
      BY <2>1, <3>1
    <3> QED BY <3>2
  <2> QED BY <1>2, <1>4, <2>3
<1>11. step = "loop" => /\ rest # <<>>
         /\ \A i \in 1..(k + 1), x \in 1..Len(rest) : Append(job.results, r)[i].dir # ExportDir(j, rest[x])
  <2>1. ASSUME step = "loop" PROVE rest # <<>>
    <3>1. Len(left) > 1
      BY <2>1
    <3>2. Len(left) \in Nat /\ Len(rest) = Len(left) - 1
      BY <1>1, <1>5
    <3>3. \A n, m : n \in Nat /\ n > 1 /\ m = n - 1 => m # 0
      OBVIOUS
    <3>4. Len(rest) # 0
      BY <3>1, <3>2, <3>3
    <3> QED BY <3>4
  <2>2. ASSUME NEW x \in 1..Len(rest) PROVE d # ExportDir(j, rest[x])
    <3>1. j \in Jobs
      BY <1>1
    <3>2. rest[x] # left[1]
      BY <1>6
    <3>3. ExportDir(j, rest[x]) # ExportDir(j, left[1])
      BY <3>1, <3>2, ResultsApart
    <3> QED BY <1>8, <3>3
  <2>3. ASSUME NEW i \in 1..k, NEW x \in 1..Len(rest) PROVE job.results[i].dir # ExportDir(j, rest[x])
    <3>1. x + 1 \in 1..Len(left) /\ rest[x] = left[x + 1]
      BY <1>1, <1>5, LenProperties
    <3> QED BY <1>1, <3>1 DEF DerivedInv
  <2>4. ASSUME step = "loop", NEW i \in 1..(k + 1), NEW x \in 1..Len(rest)
        PROVE  Append(job.results, r)[i].dir # ExportDir(j, rest[x])
    <3>1. CASE i = k + 1
      <4>1. Append(job.results, r)[i].dir = d
        BY <1>4, <3>1
      <4> QED BY <2>2, <4>1
    <3>2. CASE i \in 1..k
      <4>1. Append(job.results, r)[i] = job.results[i]
        BY <1>4, <3>2
      <4> QED BY <2>3, <3>2, <4>1
    <3>3. k \in Nat
      BY <1>1
    <3>4. i = k + 1 \/ i \in 1..k
      BY <3>3
    <3> QED BY <3>1, <3>2, <3>4
  <2> QED BY <2>1, <2>4
<1>12. (\A e \in DOMAIN exports : DirHolds(e))' /\ (\A s \in DOMAIN slots : slots[s].stamp = s)'
  BY <1>1 DEF DerivedInv, DirHolds, Files
<1>13. step \in {"loop", "returned"}
  OBVIOUS
<1>14. job'.at = step /\ ~Exporting' /\ job'.at # "idle"
  BY <1>2, <1>13 DEF Exporting
<1>15. ASSUME job'.at = "loop"
       PROVE  /\ job'.left # <<>>
              /\ \A i \in 1..Len(job'.results), x \in 1..Len(job'.left) : job'.results[i].dir # ExportDir(job'.job, job'.left[x])
  <2>1. job'.left = rest /\ job'.results = Append(job.results, r) /\ job'.job = j /\ step = "loop"
    BY <1>2, <1>14, <1>15
  <2> PICK rs : rs = Append(job.results, r)
    OBVIOUS
  <2>2. /\ rest # <<>>
        /\ \A i \in 1..Len(rs), x \in 1..Len(rest) : rs[i].dir # ExportDir(j, rest[x])
    BY <1>4, <1>11, <2>1
  <2> QED BY <2>1, <2>2
<1> QED BY <1>7, <1>10, <1>12, <1>14, <1>15 DEF DerivedInv

LEMMA LatestPromoted == ASSUME DerivedInv, PromoteLatest PROVE DerivedInv'
<1> PICK d, rest, k : d = Head(job.results).dir /\ rest = Tail(job.results) /\ k = Len(job.results)
  OBVIOUS
<1>1. /\ job.at = "returned" /\ UNCHANGED exports /\ k \in Nat
      /\ job.results = [i \in 1..k |-> job.results[i]] /\ job.results # <<>>
      /\ slots' = [s \in DOMAIN slots \cup {d} |-> IF s = d THEN exports[d][Latest] ELSE slots[s]]
  BY DEF PromoteLatest, DerivedInv, JobTyped
<1>2. job.results \in Seq({job.results[i] : i \in 1..k})
  <2> PICK rs, S : rs = job.results /\ S = {job.results[i] : i \in 1..k}
    OBVIOUS
  <2>1. rs = [i \in 1..k |-> rs[i]] /\ \A i \in 1..k : rs[i] \in S
    BY <1>1
  <2>2. rs \in [1..k -> S]
    BY <2>1
  <2>3. k \in Nat /\ S = {job.results[i] : i \in 1..k}
    BY <1>1
  <2>4. rs \in Seq(S)
    BY <2>2, <2>3, SeqDef
  <2> QED BY <2>3, <2>4
<1>3. /\ Len(rest) = k - 1 /\ Len(rest) \in Nat /\ rest = [i \in 1..Len(rest) |-> rest[i]]
      /\ \A i \in 1..Len(rest) : rest[i] = job.results[i + 1]
  BY SMTT(30), <1>1, <1>2, HeadTailProperties
<1>4. job' = [at |-> "returned", started |-> job.started, job |-> job.job, left |-> job.left,
              winners |-> job.winners, write |-> job.write, results |-> rest]
  BY <1>1 DEF PromoteLatest, DerivedInv, JobTyped
<1>5. JobTyped'
  BY <1>1, <1>3, <1>4 DEF DerivedInv, JobTyped
<1>6. exports[d][Latest].stamp = d
  <2>1. 1 \in 1..k /\ Head(job.results) = job.results[1]
    BY <1>1, <1>2, EmptySeq
  <2>2. ResultHolds(job.results[1])
    BY <1>1, <2>1 DEF DerivedInv
  <2> QED BY <2>1, <2>2 DEF ResultHolds, HasLatest
<1>7. (\A s \in DOMAIN slots : slots[s].stamp = s)'
  BY <1>1, <1>6 DEF DerivedInv
<1>8. (\A e \in DOMAIN exports : DirHolds(e))'
  BY <1>1 DEF DerivedInv, DirHolds, Files
<1>9. (\A i \in 1..Len(job.results) : ResultHolds(job.results[i]))'
  <2>1. ASSUME NEW x, ResultHolds(x) PROVE ResultHolds(x)'
    BY <1>1, <1>4, <2>1 DEF ResultHolds, Whole, HasLatest, Recording, Chosen, IsTold
  <2>2. ASSUME NEW i \in 1..Len(rest) PROVE ResultHolds(job.results[i])'
    <3> PICK x : x = rest[i]
      OBVIOUS
    <3>1. i + 1 \in 1..k /\ x = job.results[i + 1]
      BY <1>1, <1>3, <2>2
    <3>2. ResultHolds(x)
      BY <1>1, <3>1 DEF DerivedInv
    <3>3. ResultHolds(x)'
      BY <2>1, <3>2
    <3> QED BY <1>4, <3>3
  <2> QED BY <1>4, <2>2
<1> QED BY <1>4, <1>5, <1>7, <1>8, <1>9 DEF DerivedInv, Exporting

LEMMA DerivedStep == ASSUME DerivedInv, [DerivedNext]_derived PROVE DerivedInv'
<1>1. CASE LoopRaises
  BY <1>1, JobRests DEF LoopRaises
<1>2. CASE JobDone
  BY <1>2, JobRests DEF JobDone
<1>3. CASE JobDies
  BY <1>3, JobRests DEF JobDies
<1>4. CASE UNCHANGED derived
  BY SMTT(30), <1>4 DEF derived, DerivedInv, JobTyped, DirHolds, Files, Exporting, TargetHolds, TargetIn, ResultHolds,
              Whole, HasLatest, Recording, Chosen, IsTold, Dir
<1> QED BY <1>1, <1>2, <1>3, <1>4, LoopStarts, LoopAnswers, SnapshotOpens, SnapshotFills, LatestOpens, LatestFills,
           TargetEnds, LatestPromoted DEF DerivedNext, Exports

LEMMA DerivedStarts == DerivedInit => DerivedInv
<1> SUFFICES ASSUME DerivedInit PROVE DerivedInv
  OBVIOUS
<1>1. job = [at |-> "idle", started |-> 0, job |-> NoJob, left |-> <<>>, winners |-> <<>>,
             write |-> <<>>, results |-> <<>>] /\ exports = <<>> /\ slots = <<>>
  BY DEF DerivedInit, Resting
<1>2. DOMAIN exports = {} /\ DOMAIN slots = {}
  BY <1>1
<1> QED BY <1>1, <1>2 DEF DerivedInv, JobTyped, Exporting

LEMMA DerivedInvMeans == DerivedInv => TargetsApart
<1> SUFFICES ASSUME DerivedInv PROVE TargetsApart
  OBVIOUS
<1>1. ASSUME job.at = "returned" PROVE DOMAIN job.results = 1..Len(job.results)
  BY <1>1 DEF DerivedInv, JobTyped
<1>2. ASSUME job.at = "returned", NEW i \in DOMAIN job.results
      PROVE  \E k \in DOMAIN job.results[i].winners :
               LET r == job.results[i] IN
               /\ IsTold(r.winners, k) /\ exports[r.dir][FileName(r.winners[k])] = r.winners[k]
               /\ ExportsOne(job.job) => exports[r.dir][Latest] = r.winners[k]
  <2>1. ResultHolds(job.results[i])
    BY <1>1, <1>2 DEF DerivedInv
  <2> QED BY <2>1 DEF ResultHolds, Chosen, Whole, Recording
<1> QED BY <1>1, <1>2 DEF DerivedInv, TargetsApart, DirHolds

(* Whatever improvements are asked for, whichever loop raises and wherever  *)
(* a process dies: directories and promotion slots only hold versions tuned *)
(* for their own component and target, a readable LATEST has its snapshot,  *)
(* and one winner of a returned result is whole in its directory: the first *)
(* without a store, with one the highest score_floor, which LATEST is too.  *)
THEOREM LoopsStayApart == DerivedSpec => []TargetsApart
<1>1. DerivedInv /\ [DerivedNext]_derived => DerivedInv'
  BY DerivedStep
<1> QED BY <1>1, DerivedStarts, DerivedInvMeans, PTL DEF DerivedSpec

---------------------------------------------------------------------------
(* Grading a candidate. *)

(* A loop at work on a candidate, and the name its file has.               *)
InFlight(g) == grading[g].at \in {"probe", "return"}

NameOf(g, k) ==
  IF InstallOf[g] = "flat" THEN <<"cand", g, k>>
  ELSE IF InstallOf[g] = "variant" THEN <<"eval_variant", g, k>> ELSE <<"agent">>

Outs    == OutcomesOf["opencode"] \cup OutcomesOf["pi"] \cup OutcomesOf["interactive"] \cup {NotFound}
Authors == (Graders \X Nat) \cup {<<"teacher", 0>>, <<"warmup", 0>>, <<"nobody", 0>>}
Answers == [o : Outs, by : Authors, attempt : {1, 2}]
GraderStages == {"absent", "fresh", "cleared", "warming", "next", "probe", "return"}

(* What an answer tells of the run it was read from.                       *)
AnswerTold(g, a) ==
  /\ a.by = Candidate(g) \/ (a.o = NotFound /\ HarnessOf[g] = "opencode")
  /\ a.o \in OutcomesOf[HarnessOf[g]] \/ (a.o = NotFound /\ HarnessOf[g] = "opencode")
  /\ Retried(HarnessOf[g], a.o) => a.attempt = 2

Mine(g, f) == f.directory = Directory(g) /\ f.name = NameOf(g, grading[g].candidate)

(* The file of a candidate under way is its own; a tree is there.          *)
OwnFile(g) ==
  InstallOf[g] # "none" =>
    /\ \A f \in agents : Mine(g, f) => f.by = Candidate(g)
    /\ InstallOf[g] = "tree" => \E f \in agents : Mine(g, f)

(* A variant's file is there only while it is graded.                      *)
VariantGone(g) ==
  \A f \in agents :
    f.directory = Directory(g) /\ (\E k \in Nat : f.name = <<"eval_variant", g, k>>) =>
      InFlight(g) /\ f.name = NameOf(g, grading[g].candidate)

Alone(g) == \A h \in Graders \ {g} : At(h, "absent") \/ DirectoryOf[h] # DirectoryOf[g]

LastThere(g) ==
  grading[g].candidate > 0 /\ InstallOf[g] \in {"flat", "tree"} /\ Alone(g) =>
    \E f \in agents : Mine(g, f) /\ f.by = Candidate(g)

Names(g)    == {<<>>} \cup {NameOf(g, k) : k \in Nat}
Gradings(g) == [at : GraderStages, candidate : Nat, name : Names(g), attempt : Nat, answers : Seq(Answers)]

GradeTyped(g) == grading[g] \in Gradings(g)

GradeHolds(g) ==
  /\ GradeTyped(g)
  /\ grading[g].at \in {"absent", "fresh", "cleared", "warming"} => grading[g].candidate = 0
  /\ InFlight(g) => /\ grading[g].name = NameOf(g, grading[g].candidate)
                    /\ grading[g].attempt \in {1, 2}
                    /\ OwnFile(g)
                    /\ \A i \in DOMAIN grading[g].answers : AnswerTold(g, grading[g].answers[i])
  /\ At(g, "probe")  => Len(grading[g].answers) <= Len(ProbesOf[g])
  /\ At(g, "return") => Len(grading[g].answers) = Len(ProbesOf[g]) + 1 /\ grading[g].attempt = 1
  /\ grading[g].at # "warming" /\ ~InFlight(g) => grading[g].attempt = 1
  /\ VariantGone(g)
  /\ LastThere(g)
VariantsKnown ==
  \A f \in agents : f.name[1] = "eval_variant" =>
    \E g \in Graders : f.directory = Directory(g) /\ (\E k \in Nat : f.name = <<"eval_variant", g, k>>)

WarmupsHeld  == \A f \in agents : f.name = Warmup => \E g \in Graders : At(g, "warming") /\ f.directory = Directory(g)
TeachersStay == \A g \in Graders : Teacher(DirectoryOf[g]) \in agents
AuthorsKnown == \A f \in agents : f.by \in Authors
TeamKnown    == \E team \in Teams : \A g \in Graders : ~At(g, "absent") => g \in team

Directories == VariantsKnown /\ WarmupsHeld /\ TeachersStay /\ AuthorsKnown

EvalInv ==
  /\ DOMAIN grading = Graders /\ TeamKnown /\ Directories
  /\ \A g \in Graders : GradeHolds(g)

---------------------------------------------------------------------------
(* Names of files. *)

LEMMA NamesApart ==
  ASSUME NEW g, NEW h, NEW j, NEW k
  PROVE  /\ NameOf(g, j) # Warmup /\ NameOf(g, j) # <<"teacher", "model">>
         /\ InstallOf[g] \notin {"flat", "variant"} => NameOf(g, j) = <<"agent">>
         /\ InstallOf[g] \in {"flat", "variant"} /\ NameOf(g, j) = NameOf(h, k) => g = h /\ j = k
<1>1. /\ <<"cand", g, j>> # Warmup /\ <<"cand", g, j>> # <<"teacher", "model">>
      /\ <<"eval_variant", g, j>> # Warmup /\ <<"eval_variant", g, j>> # <<"teacher", "model">>
      /\ <<"agent">> # Warmup /\ <<"agent">> # <<"teacher", "model">>
  BY DEF Warmup
<1>2. /\ <<"cand", g, j>> # <<"agent">> /\ <<"eval_variant", g, j>> # <<"agent">>
      /\ <<"cand", g, j>> # <<"eval_variant", h, k>> /\ <<"eval_variant", g, j>> # <<"cand", h, k>>
      /\ <<"cand", g, j>> = <<"cand", h, k>> => g = h /\ j = k
      /\ <<"eval_variant", g, j>> = <<"eval_variant", h, k>> => g = h /\ j = k
  OBVIOUS
<1> QED BY <1>1, <1>2 DEF NameOf

LEMMA NamesOfTwo ==
  ASSUME NEW g, NEW h, NEW j, NEW k, g # h, NameOf(g, j) = NameOf(h, k)
  PROVE  InstallOf[g] \notin {"flat", "variant"} /\ InstallOf[h] \notin {"flat", "variant"}
BY DEF NameOf

LEMMA NamesBegin ==
  ASSUME NEW g, NEW j
  PROVE  /\ Warmup[1] = "cand" /\ <<"teacher", "model">>[1] = "teacher"
         /\ <<"eval_variant", g, j>>[1] = "eval_variant"
         /\ NameOf(g, j)[1] = "eval_variant" => NameOf(g, j) = <<"eval_variant", g, j>>
         /\ NameOf(g, j)[1] = "cand" <=> InstallOf[g] = "flat"
         /\ <<"agent">>[1] = "agent"
BY DEF NameOf, Warmup

(* What a step of a loop may do to the files: nothing to another's.        *)
Touches(g, n) == n = Warmup \/ (InstallOf[g] # "none" /\ \E k \in Nat : n = NameOf(g, k))

Changes(g) ==
  /\ \A f \in agents' : f \in agents \/ (f.directory = Directory(g) /\ Touches(g, f.name) /\ f.by \in Authors)
  /\ \A f \in agents : f \in agents' \/ (f.directory = Directory(g) /\ (f.name[1] = "cand" \/ Touches(g, f.name)))

LEMMA OthersGrade ==
  ASSUME EvaluationAssumption, EvalInv, NEW g \in Graders, ~At(g, "absent"), Changes(g),
         NEW h \in Graders, h # g, grading'[h] = grading[h],
         \A i \in Graders \ {g} : grading'[i] = grading[i]
         , grading'[g].at # "absent"
  PROVE  GradeHolds(h)'
<1>0. GradeHolds(h) /\ GradeTyped(h)' /\ InFlight(h)' = InFlight(h) /\ Candidate(h)' = Candidate(h)
      /\ grading[h].candidate \in Nat /\ Directory(h)' = Directory(h)
  BY DEF EvalInv, GradeHolds, GradeTyped, InFlight, Candidate, Directory, Gradings, Names, NameOf
<1>a. grading[h].at = "absent" \/ InstallOf[g] # "tree" \/ InstallOf[h] # "tree" \/ Directory(g) # Directory(h)
  BY DEF EvaluationAssumption, EvalInv, TeamKnown, Directory, At
<1>b. ASSUME NEW f, f.directory = Directory(g), Touches(g, f.name), NEW k \in Nat,
             f.directory = Directory(h), f.name = NameOf(h, k),
             grading[h].at # "absent", InstallOf[h] # "none" PROVE FALSE
  <2>1. f.name # Warmup
    BY <1>b, NamesApart
  <2>2. InstallOf[g] # "none"
    BY <1>b, <2>1 DEF Touches
  <2>3. PICK j \in Nat : f.name = NameOf(g, j)
    BY <1>b, <2>1 DEF Touches
  <2>4. InstallOf[g] \notin {"flat", "variant"} /\ InstallOf[h] \notin {"flat", "variant"}
    <3>1. NameOf(g, j) = NameOf(h, k)
      BY <1>b, <2>3
    <3> QED BY <3>1, NamesOfTwo
  <2> QED BY <1>a, <1>b, <2>2, <2>4 DEF EvaluationAssumption
<1>1. InFlight(h) => OwnFile(h)'
  <2> SUFFICES ASSUME InFlight(h), InstallOf[h] # "none"
               PROVE  /\ \A f \in agents' : Mine(h, f)' => f.by = Candidate(h)
                      /\ InstallOf[h] = "tree" => \E f \in agents' : Mine(h, f)'
    BY <1>0 DEF OwnFile
  <2>0. \A f : Mine(h, f)' <=> Mine(h, f)
    BY <1>0 DEF Mine, Directory, NameOf
  <2>a. OwnFile(h) /\ grading[h].at # "absent"
    BY <1>0 DEF GradeHolds, InFlight
  <2>1. ASSUME NEW f \in agents', Mine(h, f) PROVE f.by = Candidate(h)
    <3>1. f \in agents
      BY <1>0, <1>b, <2>1, <2>a DEF Changes, Mine
    <3> QED BY <2>1, <2>a, <3>1 DEF OwnFile
  <2>2. ASSUME InstallOf[h] = "tree" PROVE \E f \in agents' : Mine(h, f)
    <3>1. PICK f \in agents : Mine(h, f)
      BY <2>2, <2>a DEF OwnFile
    <3>2. f.name = <<"agent">> /\ f.name[1] # "cand"
      BY <2>2, <3>1, NamesApart, NamesBegin DEF Mine
    <3>3. f \in agents'
      BY <1>0, <1>b, <2>a, <3>1, <3>2 DEF Changes, Mine
    <3> QED BY <3>1, <3>3
  <2> QED BY <2>0, <2>1, <2>2
<1>2. VariantGone(h)'
  <2> SUFFICES ASSUME NEW f \in agents', f.directory = Directory(h), NEW k \in Nat, f.name = <<"eval_variant", h, k>>
               PROVE  InFlight(h) /\ f.name = NameOf(h, grading[h].candidate)
    BY <1>0 DEF VariantGone, NameOf, Directory
  <2>1. f \in agents
    <3>1. f.name # Warmup
      <4>1. f.name[1] = "eval_variant" /\ Warmup[1] = "cand"
        BY NamesBegin
      <4> QED BY <4>1
    <3>2. \A j \in Nat : f.name # NameOf(g, j)
      BY DEF NameOf
    <3> QED BY <3>1, <3>2 DEF Changes, Touches
  <2> QED BY <1>0, <2>1 DEF GradeHolds, VariantGone
<1>3. LastThere(h)'
  <2> SUFFICES ASSUME grading[h].candidate > 0, InstallOf[h] \in {"flat", "tree"}, Alone(h)'
               PROVE  \E f \in agents' : Mine(h, f) /\ f.by = Candidate(h)
    BY <1>0 DEF LastThere, Mine, NameOf, Directory, Candidate
  <2>1. Alone(h) /\ Directory(g) # Directory(h)
    BY DEF Alone, At, Directory
  <2>2. PICK f \in agents : Mine(h, f) /\ f.by = Candidate(h)
    BY <1>0, <2>1 DEF GradeHolds, LastThere
  <2>3. f \in agents'
    BY <2>1, <2>2 DEF Changes, Mine
  <2> QED BY <2>2, <2>3
<1> QED BY <1>0, <1>1, <1>2, <1>3 DEF GradeHolds, NameOf, AnswerTold, Candidate, At, InFlight

LEMMA DirectoriesHold ==
  ASSUME EvaluationAssumption, EvalInv, NEW g \in Graders, ~At(g, "absent"), Changes(g),
         \A h \in Graders \ {g} : grading'[h] = grading[h],
         \A f \in agents' \ agents : f.name = Warmup => At(g, "warming")',
         At(g, "warming") /\ ~At(g, "warming")' => \A f \in agents' : f.directory = Directory(g) => f.name # Warmup
  PROVE  Directories'
<1>1. VariantsKnown'
  <2> SUFFICES ASSUME NEW f \in agents', f.name[1] = "eval_variant"
               PROVE  \E h \in Graders : f.directory = Directory(h) /\ (\E k \in Nat : f.name = <<"eval_variant", h, k>>)
    BY DEF VariantsKnown, Directory
  <2>1. CASE f \in agents
    BY <2>1 DEF EvalInv, Directories, VariantsKnown
  <2>2. CASE f \notin agents
    <3>1. f.directory = Directory(g) /\ f.name # Warmup
      BY <2>2, NamesBegin DEF Changes
    <3>2. PICK k \in Nat : f.name = NameOf(g, k)
      BY <2>2, <3>1 DEF Changes, Touches
    <3> QED BY <3>1, <3>2, NamesBegin
  <2> QED BY <2>1, <2>2
<1>2. WarmupsHeld'
  <2> SUFFICES ASSUME NEW f \in agents', f.name = Warmup
               PROVE  \E h \in Graders : At(h, "warming")' /\ f.directory = Directory(h)
    BY DEF WarmupsHeld, Directory
  <2>1. CASE f \in agents
    <3>1. PICK h \in Graders : At(h, "warming") /\ f.directory = Directory(h)
      BY <2>1 DEF EvalInv, Directories, WarmupsHeld
    <3>2. CASE h # g
      BY <3>1, <3>2 DEF At
    <3>3. CASE h = g
      BY <3>1, <3>3
    <3> QED BY <3>2, <3>3
  <2>2. CASE f \notin agents
    BY <2>2 DEF Changes
  <2> QED BY <2>1, <2>2
<1>3. TeachersStay'
  <2> SUFFICES ASSUME NEW h \in Graders PROVE Teacher(DirectoryOf[h]) \in agents'
    BY DEF TeachersStay, Teacher, AgentFile
  <2> DEFINE t == Teacher(DirectoryOf[h])
  <2>1. t \in agents
    BY DEF EvalInv, Directories, TeachersStay
  <2>2. t.name = <<"teacher", "model">>
    BY DEF Teacher, AgentFile
  <2> HIDE DEF t
  <2>3. t.name[1] # "cand" /\ ~Touches(g, t.name)
    BY <2>2, NamesBegin, NamesApart DEF Touches, Warmup
  <2>4. t \in agents'
    BY <2>1, <2>3 DEF Changes
  <2> QED BY <2>4 DEF t
<1>4. AuthorsKnown'
  BY DEF Changes, EvalInv, Directories, AuthorsKnown
<1> QED BY <1>1, <1>2, <1>3, <1>4 DEF Directories

LEMMA GradingHolds ==
  ASSUME EvaluationAssumption, EvalInv, NEW g \in Graders, ~At(g, "absent"), Changes(g),
         NEW r, grading' = [grading EXCEPT ![g] = r], r.at # "absent",
         \A f \in agents' \ agents : f.name = Warmup => r.at = "warming",
         At(g, "warming") /\ r.at # "warming" => \A f \in agents' : f.directory = Directory(g) => f.name # Warmup,
         GradeHolds(g)'
  PROVE  EvalInv'
<1>1. DOMAIN grading' = Graders /\ grading'[g] = r /\ \A h \in Graders \ {g} : grading'[h] = grading[h]
  BY DEF EvalInv
<1>2. TeamKnown'
  BY <1>1 DEF EvalInv, TeamKnown, At
<1>3. \A h \in Graders : GradeHolds(h)'
  BY <1>1, OthersGrade
<1>4. Directories'
  BY <1>1, DirectoriesHold DEF At
<1> QED BY <1>1, <1>2, <1>3, <1>4 DEF EvalInv

---------------------------------------------------------------------------
(* The steps. *)

(* Before the first candidate. *)
LEMMA StartupHolds ==
  ASSUME EvaluationAssumption, EvalInv, NEW g \in Graders, grading[g].at \in {"fresh", "cleared", "warming"},
         NEW r \in Gradings(g), r.at \in {"cleared", "warming", "next"}, r.at # "warming" => r.attempt = 1,
         r.candidate = grading[g].candidate, grading' = [grading EXCEPT ![g] = r],
         \A f \in agents' : f \in agents \/ (f.directory = Directory(g) /\ f.name = Warmup /\ f.by \in Authors),
         \A f \in agents : f \in agents' \/ (f.directory = Directory(g) /\ f.name[1] = "cand"),
         \A f \in agents' \ agents : f.name = Warmup => r.at = "warming",
         At(g, "warming") /\ r.at # "warming" => \A f \in agents' : f.directory = Directory(g) => f.name # Warmup
  PROVE  EvalInv'
<1>1. GradeHolds(g) /\ grading[g].candidate = 0 /\ ~InFlight(g) /\ ~At(g, "absent") /\ DOMAIN grading = Graders
  BY DEF EvalInv, GradeHolds, InFlight, At
<1>2. grading'[g] = r
  BY <1>1
<1>4. GradeTyped(g)' /\ ~InFlight(g)'
  BY <1>2 DEF GradeTyped, InFlight, NameOf, Gradings, Names
<1>5. VariantGone(g)'
  <2> SUFFICES ASSUME NEW f \in agents', f.directory = Directory(g), NEW k \in Nat, f.name = <<"eval_variant", g, k>> PROVE FALSE
    BY DEF VariantGone, Directory
  <2>1. f.name # Warmup
    BY DEF Warmup
  <2>2. f \in agents
    BY <2>1
  <2>3. VariantGone(g)
    BY <1>1 DEF GradeHolds
  <2> QED BY <1>1, <2>2, <2>3 DEF VariantGone
<1>6. LastThere(g)'
  BY <1>1, <1>2 DEF LastThere
<1>7. GradeHolds(g)'
  BY <1>1, <1>2, <1>4, <1>5, <1>6 DEF GradeHolds, At
<1>8. Changes(g)
  BY DEF Changes, Touches
<1> QED BY <1>1, <1>2, <1>7, <1>8, GradingHolds

LEMMA ClearCandidatesHolds ==
  ASSUME EvaluationAssumption, EvalInv, NEW g \in Graders, ClearCandidates(g)
  PROVE  EvalInv'
<1> DEFINE r == [grading[g] EXCEPT !.at = "cleared"]
<1>1. grading[g].at = "fresh" /\ grading[g].attempt = 1 /\ grading[g] \in Gradings(g)
  BY DEF ClearCandidates, At, EvalInv, GradeHolds, GradeTyped, InFlight
<1>2. r \in Gradings(g) /\ r.at = "cleared" /\ r.attempt = 1 /\ r.candidate = grading[g].candidate
  BY <1>1 DEF Gradings, GraderStages
<1>3. grading' = [grading EXCEPT ![g] = r]
  BY DEF ClearCandidates, Move
<1> HIDE DEF r
<1>4. /\ \A f \in agents' : f \in agents
      /\ \A f \in agents : f \in agents' \/ (f.directory = Directory(g) /\ f.name[1] = "cand")
  BY DEF ClearCandidates, Leftover
<1> QED BY <1>1, <1>2, <1>3, <1>4, StartupHolds DEF At

LEMMA NoWarmupHolds ==
  ASSUME EvaluationAssumption, EvalInv, NEW g \in Graders, NoWarmup(g)
  PROVE  EvalInv'
<1> DEFINE r == [grading[g] EXCEPT !.at = "next"]
<1>1. grading[g].at \in {"fresh", "cleared"} /\ grading[g].attempt = 1 /\ grading[g] \in Gradings(g)
  BY DEF NoWarmup, At, EvalInv, GradeHolds, GradeTyped, InFlight
<1>2. r \in Gradings(g) /\ r.at = "next" /\ r.attempt = 1 /\ r.candidate = grading[g].candidate
  BY <1>1 DEF Gradings, GraderStages
<1>3. grading' = [grading EXCEPT ![g] = r] /\ agents' = agents
  BY DEF NoWarmup, Move
<1> HIDE DEF r
<1> QED BY <1>1, <1>2, <1>3, StartupHolds DEF At

LEMMA BeginWarmupHolds ==
  ASSUME EvaluationAssumption, EvalInv, NEW g \in Graders, BeginWarmup(g)
  PROVE  EvalInv'
<1> DEFINE r == [grading[g] EXCEPT !.at = "warming"]
<1>1. grading[g].at = "cleared" /\ grading[g] \in Gradings(g)
  BY DEF BeginWarmup, At, EvalInv, GradeHolds, GradeTyped
<1>2. r \in Gradings(g) /\ r.at = "warming" /\ r.candidate = grading[g].candidate
  BY <1>1 DEF Gradings, GraderStages
<1>3. grading' = [grading EXCEPT ![g] = r]
  BY DEF BeginWarmup, Move
<1> HIDE DEF r
<1>4. /\ \A f \in agents' : f \in agents \/ (f.directory = Directory(g) /\ f.name = Warmup /\ f.by \in Authors)
      /\ \A f \in agents : f \in agents' \/ (f.directory = Directory(g) /\ f.name = Warmup)
  BY DEF BeginWarmup, Replace, AgentFile, Authors
<1>5. Warmup[1] = "cand"
  BY NamesBegin
<1>6. \A f \in agents : f \in agents' \/ (f.directory = Directory(g) /\ f.name[1] = "cand")
  BY <1>4, <1>5
<1> QED BY <1>1, <1>2, <1>3, <1>4, <1>6, StartupHolds DEF At

LEMMA TryWarmupHolds ==
  ASSUME EvaluationAssumption, EvalInv, NEW g \in Graders, TryWarmup(g)
  PROVE  EvalInv'
<1> DEFINE r == [grading[g] EXCEPT !.attempt = grading[g].attempt + 1]
<1>1. grading[g].at = "warming" /\ grading[g] \in Gradings(g) /\ grading[g].attempt + 1 \in Nat
  BY DEF TryWarmup, At, EvalInv, GradeHolds, GradeTyped, Gradings
<1>2. r \in Gradings(g) /\ r.at = "warming" /\ r.candidate = grading[g].candidate
  BY <1>1 DEF Gradings, GraderStages
<1>3. grading' = [grading EXCEPT ![g] = r] /\ agents' = agents
  BY DEF TryWarmup
<1> HIDE DEF r
<1> QED BY <1>1, <1>2, <1>3, StartupHolds DEF At

LEMMA EndWarmupHolds ==
  ASSUME EvaluationAssumption, EvalInv, NEW g \in Graders, EndWarmup(g)
  PROVE  EvalInv'
<1> DEFINE r == [grading[g] EXCEPT !.at = "next", !.attempt = 1]
<1>1. grading[g].at = "warming" /\ grading[g] \in Gradings(g)
  BY DEF EndWarmup, At, EvalInv, GradeHolds, GradeTyped
<1>2. r \in Gradings(g) /\ r.at = "next" /\ r.attempt = 1 /\ r.candidate = grading[g].candidate
  BY <1>1 DEF Gradings, GraderStages
<1>3. grading' = [grading EXCEPT ![g] = r]
  BY DEF EndWarmup, Moved
<1> HIDE DEF r
<1>4. agents' = {f \in agents : f.directory # Directory(g) \/ f.name # Warmup}
  BY DEF EndWarmup, Unlinked
<1>5. Warmup[1] = "cand"
  BY NamesBegin
<1>6. \A f \in agents : f \in agents' \/ (f.directory = Directory(g) /\ f.name[1] = "cand")
  BY <1>4, <1>5
<1> QED BY <1>1, <1>2, <1>3, <1>4, <1>6, StartupHolds DEF At

LEMMA InstallHolds ==
  ASSUME EvaluationAssumption, EvalInv, NEW g \in Graders, Install(g)
  PROVE  EvalInv'
<1>1. /\ GradeHolds(g) /\ At(g, "next") /\ ~At(g, "absent") /\ ~At(g, "warming") /\ DOMAIN grading = Graders
      /\ grading[g] \in Gradings(g)
  BY DEF EvalInv, GradeHolds, GradeTyped, At, Install
<1>k. PICK k \in Nat : k = grading[g].candidate + 1 /\ k > 0
  BY <1>1 DEF Gradings
<1>2. NameFor(g) = NameOf(g, k)
  BY <1>k DEF NameFor, NameOf, FlatName, VariantName
<1>3. PICK r : r = [grading[g] EXCEPT !.at = "probe", !.candidate = k, !.name = NameOf(g, k), !.attempt = 1, !.answers = <<>>]
  OBVIOUS
<1>4. /\ r \in Gradings(g) /\ r.at = "probe" /\ r.candidate = k
      /\ r.name = NameOf(g, k) /\ r.attempt = 1 /\ r.answers = <<>>
  <2>1. NameOf(g, k) \in Names(g) /\ <<>> \in Seq(Answers) /\ "probe" \in GraderStages
    BY DEF Names, GraderStages
  <2> QED BY <1>1, <1>3, <2>1 DEF Gradings
<1>5. grading' = [grading EXCEPT ![g] = r] /\ grading'[g] = r
  BY <1>1, <1>2, <1>3, <1>k DEF Install, Moved
<1>6. GradeTyped(g)' /\ InFlight(g)' /\ Candidate(g)' = <<g, k>> /\ <<g, k>> \in Authors
  BY <1>4, <1>5 DEF GradeTyped, InFlight, NameOf, Candidate, Authors, Gradings, Names
<1>7. \A f : Mine(g, f)' <=> f.directory = Directory(g) /\ f.name = NameOf(g, k)
  BY <1>4, <1>5 DEF Mine, Directory, NameOf
<1>8. PICK own : own = AgentFile(Directory(g), NameOf(g, k), <<g, k>>)
  OBVIOUS
<1>9. own.directory = Directory(g) /\ own.name = NameOf(g, k) /\ own.by = <<g, k>>
  BY <1>8 DEF AgentFile
<1>10. agents' = IF InstallOf[g] = "none" THEN agents
                 ELSE {f \in agents : f.directory # Directory(g) \/ f.name # NameOf(g, k)} \cup {own}
  BY <1>2, <1>8, <1>k DEF Install, Replace
<1>11. OwnFile(g)' /\ LastThere(g)'
  <2>1. InstallOf[g] # "none" => own \in agents' /\ Mine(g, own)' /\ \A f \in agents' : Mine(g, f)' => f = own
    <3> SUFFICES ASSUME InstallOf[g] # "none"
                 PROVE  own \in agents' /\ Mine(g, own)' /\ \A f \in agents' : Mine(g, f)' => f = own
      OBVIOUS
    <3>1. own \in agents' /\ \A f \in agents' : f = own \/ f.directory # Directory(g) \/ f.name # NameOf(g, k)
      BY <1>10
    <3> QED BY <1>7, <1>9, <3>1
  <2>2. OwnFile(g)'
    BY <1>6, <1>9, <2>1 DEF OwnFile
  <2>3. LastThere(g)'
    BY <1>6, <1>9, <2>1 DEF LastThere
  <2> QED BY <2>2, <2>3
<1>12. VariantGone(g)'
  <2> SUFFICES ASSUME NEW f \in agents', f.directory = Directory(g), NEW j \in Nat, f.name = <<"eval_variant", g, j>>
               PROVE  f.name = NameOf(g, k)
    BY <1>4, <1>5, <1>6 DEF VariantGone, Directory, NameOf
  <2>1. CASE f \in agents
    BY <1>1, <2>1 DEF GradeHolds, VariantGone, InFlight, At
  <2>2. CASE f \notin agents
    BY <1>9, <1>10, <2>2
  <2> QED BY <2>1, <2>2
<1>13. GradeHolds(g)'
  <2>1. Len(ProbesOf[g]) \in Nat
    BY DEF EvaluationAssumption
  <2>2. Len(r.answers) = 0 /\ DOMAIN r.answers = {}
    BY <1>4
  <2>3. (grading[g].name = NameOf(g, grading[g].candidate))'
    BY <1>4, <1>5 DEF NameOf
  <2>4. (\A i \in DOMAIN grading[g].answers : AnswerTold(g, grading[g].answers[i]))'
    BY <1>5, <2>2
  <2>5. grading'[g].at = "probe" /\ grading'[g].attempt = 1 /\ Len(grading'[g].answers) = 0
    BY <1>4, <1>5, <2>2
  <2> QED BY <1>6, <1>11, <1>12, <2>1, <2>3, <2>4, <2>5 DEF GradeHolds, At
<1>14. Changes(g)
  BY <1>6, <1>9, <1>10 DEF Changes, Touches
<1>15. \A f \in agents' \ agents : f.name # Warmup
  BY <1>9, <1>10, NamesApart
<1> QED BY <1>1, <1>4, <1>5, <1>13, <1>14, <1>15, GradingHolds

(* A step of a candidate under way that touches no file. *)
LEMMA GradingKept ==
  ASSUME EvaluationAssumption, EvalInv, NEW g \in Graders, At(g, "probe"), agents' = agents,
         NEW r \in Gradings(g), grading' = [grading EXCEPT ![g] = r],
         r.at \in {"probe", "return"}, r.candidate = grading[g].candidate, r.name = grading[g].name,
         r.attempt \in {1, 2}, \A i \in DOMAIN r.answers : AnswerTold(g, r.answers[i]),
         r.at = "probe" => Len(r.answers) <= Len(ProbesOf[g]),
         r.at = "return" => Len(r.answers) = Len(ProbesOf[g]) + 1 /\ r.attempt = 1
  PROVE  EvalInv'
<1>1. /\ GradeHolds(g) /\ InFlight(g) /\ OwnFile(g) /\ ~At(g, "absent") /\ ~At(g, "warming") /\ DOMAIN grading = Graders
      /\ grading[g].name = NameOf(g, grading[g].candidate)
  BY DEF EvalInv, GradeHolds, At, InFlight
<1>2. grading'[g] = r /\ Candidate(g)' = Candidate(g) /\ InFlight(g)'
  BY <1>1 DEF Candidate, InFlight
<1>3. \A f : Mine(g, f)' <=> Mine(g, f)
  BY <1>2 DEF Mine, Directory, NameOf
<1>4. OwnFile(g)' /\ VariantGone(g)'
  <2>1. OwnFile(g)'
    BY <1>1, <1>2, <1>3 DEF OwnFile
  <2>2. VariantGone(g)'
    <3>1. VariantGone(g)
      BY <1>1 DEF GradeHolds
    <3>2. \A j \in Nat : NameOf(g, j)' = NameOf(g, j) /\ Directory(g)' = Directory(g)
      BY DEF NameOf, Directory
    <3>3. NameOf(g, grading[g].candidate)' = NameOf(g, grading[g].candidate)
      BY <1>2 DEF NameOf
    <3> QED BY <1>1, <1>2, <3>1, <3>2, <3>3 DEF VariantGone
  <2> QED BY <2>1, <2>2
<1>5. LastThere(g)'
  <2>1. Alone(g)' => Alone(g)
    <3>1. \A h \in Graders \ {g} : grading'[h] = grading[h]
      BY <1>1
    <3> QED BY <3>1 DEF Alone, At
  <2> QED BY <1>1, <1>2, <1>3, <2>1 DEF GradeHolds, LastThere
<1>6. GradeTyped(g)'
  BY <1>2 DEF GradeTyped, Gradings, Names, NameOf
<1>7. \A i \in DOMAIN r.answers : AnswerTold(g, r.answers[i])'
  BY <1>2 DEF AnswerTold, Retried
<1>8. GradeHolds(g)'
  <2>1. (\A i \in DOMAIN grading[g].answers : AnswerTold(g, grading[g].answers[i]))'
    BY <1>2, <1>7
  <2>2. (grading[g].name = NameOf(g, grading[g].candidate))'
    BY <1>1, <1>2 DEF NameOf
  <2> QED BY <1>2, <1>4, <1>5, <1>6, <2>1, <2>2 DEF GradeHolds, At
<1>9. Changes(g)
  BY DEF Changes
<1> QED BY <1>1, <1>2, <1>8, <1>9, GradingHolds

(* What a run of the agent may answer. *)
LEMMA AttemptsTold ==
  ASSUME EvaluationAssumption, EvalInv, NEW g \in Graders, InFlight(g), NEW a \in Attempts(g)
  PROVE  /\ a.by = Candidate(g) \/ (a.o = NotFound /\ HarnessOf[g] = "opencode")
         /\ a.o \in OutcomesOf[HarnessOf[g]] \/ (a.o = NotFound /\ HarnessOf[g] = "opencode")
         /\ a.by \in Authors /\ a.o \in Outs
<1>1. HarnessOf[g] \in {"opencode", "pi", "interactive"}
  BY DEF EvaluationAssumption
<1>2. /\ GradeHolds(g) /\ OwnFile(g) /\ grading[g].name = NameOf(g, grading[g].candidate)
      /\ grading[g].candidate \in Nat
  BY DEF EvalInv, GradeHolds, GradeTyped, Gradings
<1>3. Candidate(g) \in Authors
  BY <1>2 DEF Candidate, Authors
<1>4. \A o \in OutcomesOf[HarnessOf[g]] : o \in Outs
  BY <1>1 DEF Outs
<1>5. CASE HarnessOf[g] = "interactive"
  <2>1. PICK o \in OutcomesOf[HarnessOf[g]] : a = [o |-> o, by |-> Candidate(g)]
    BY <1>5 DEF Attempts
  <2> QED BY <1>3, <1>4, <2>1
<1>6. CASE HarnessOf[g] # "interactive"
  <2>1. InstallOf[g] # "none"
    BY <1>6 DEF EvaluationAssumption
  <2>2. CASE \E o \in OutcomesOf[HarnessOf[g]], f \in Found(g) : a = [o |-> o, by |-> f.by]
    <3>1. PICK o \in OutcomesOf[HarnessOf[g]], f \in Found(g) : a = [o |-> o, by |-> f.by]
      BY <2>2
    <3>2. f \in agents /\ Mine(g, f)
      BY <1>2 DEF Found, Mine
    <3>3. f.by = Candidate(g)
      BY <1>2, <2>1, <3>2 DEF OwnFile
    <3> QED BY <1>3, <1>4, <3>1, <3>3
  <2>3. CASE Found(g) = {} /\ a = [o |-> NotFound, by |-> <<"nobody", 0>>]
    <3>1. InstallOf[g] # "tree"
      BY <1>2, <2>1, <2>3 DEF Found, OwnFile, Mine
    <3>2. HarnessOf[g] = "opencode"
      BY <2>1, <3>1 DEF EvaluationAssumption
    <3>3. <<"nobody", 0>> \in Authors /\ NotFound \in Outs
      <4>1. <<"nobody", 0>> \in Authors
        BY DEF Authors
      <4>2. NotFound \in Outs
        BY DEF Outs
      <4> QED BY <4>1, <4>2
    <3> QED BY <2>3, <3>2, <3>3
  <2> QED BY <1>6, <2>2, <2>3 DEF Attempts
<1> QED BY <1>5, <1>6

LEMMA AskHolds ==
  ASSUME EvaluationAssumption, EvalInv, NEW g \in Graders, At(g, "probe"), NEW then \in {"probe", "return"}, Ask(g, then),
         then = "probe"  => Asked(g) < Len(ProbesOf[g]),
         then = "return" => Asked(g) = Len(ProbesOf[g]),
         agents' = agents
  PROVE  EvalInv'
<1>1. /\ GradeHolds(g) /\ InFlight(g) /\ grading[g] \in Gradings(g) /\ OwnFile(g)
      /\ ~At(g, "absent") /\ ~At(g, "warming") /\ DOMAIN grading = Graders
      /\ grading[g].name = NameOf(g, grading[g].candidate) /\ grading[g].attempt \in {1, 2}
  BY DEF EvalInv, GradeHolds, GradeTyped, At, InFlight
<1>2. PICK a \in Attempts(g) :
        Moved(g, IF grading[g].attempt = 1 /\ Retried(HarnessOf[g], a.o)
                 THEN [grading[g] EXCEPT !.attempt = 2]
                 ELSE [grading[g] EXCEPT !.attempt = 1, !.at = then,
                         !.answers = Append(@, [o |-> a.o, by |-> a.by, attempt |-> grading[g].attempt])])
  BY DEF Ask
<1>3. PICK x : x = [o |-> a.o, by |-> a.by, attempt |-> grading[g].attempt]
  OBVIOUS
<1>4. PICK r : r = IF grading[g].attempt = 1 /\ Retried(HarnessOf[g], a.o)
                   THEN [grading[g] EXCEPT !.attempt = 2]
                   ELSE [grading[g] EXCEPT !.attempt = 1, !.at = then, !.answers = Append(@, x)]
  OBVIOUS
<1>5. grading' = [grading EXCEPT ![g] = r] /\ grading'[g] = r
  BY <1>1, <1>2, <1>3, <1>4 DEF Moved
<1>6. x \in Answers
  BY <1>1, <1>3, AttemptsTold DEF Answers
<1>7. grading[g].answers \in Seq(Answers) /\ Len(grading[g].answers) \in Nat /\ Len(ProbesOf[g]) \in Nat
      /\ Asked(g) = Len(grading[g].answers)
  BY <1>1 DEF Gradings, EvaluationAssumption, Asked
<1>8. PICK s : s = Append(grading[g].answers, x)
  OBVIOUS
<1>9. /\ s \in Seq(Answers) /\ Len(s) = Len(grading[g].answers) + 1
      /\ \A i \in DOMAIN s : (i \in DOMAIN grading[g].answers /\ s[i] = grading[g].answers[i]) \/ s[i] = x
  <2>1. /\ s \in Seq(Answers) /\ Len(s) = Len(grading[g].answers) + 1
        /\ \A i \in 1..Len(grading[g].answers) : s[i] = grading[g].answers[i]
        /\ s[Len(grading[g].answers) + 1] = x
    BY <1>6, <1>7, <1>8, AppendProperties
  <2>2. DOMAIN s = 1..(Len(grading[g].answers) + 1) /\ DOMAIN grading[g].answers = 1..Len(grading[g].answers)
    BY <1>7, <2>1
  <2> QED BY <1>7, <2>1, <2>2
<1>10. CASE grading[g].attempt = 1 /\ Retried(HarnessOf[g], a.o)
  <2>1. /\ r \in Gradings(g) /\ r.at = "probe" /\ r.attempt = 2 /\ r.candidate = grading[g].candidate
        /\ r.name = grading[g].name /\ r.answers = grading[g].answers
    BY <1>1, <1>4, <1>10 DEF Gradings, At
  <2>2. /\ \A i \in DOMAIN grading[g].answers : AnswerTold(g, grading[g].answers[i])
        /\ Len(grading[g].answers) <= Len(ProbesOf[g])
    BY <1>1 DEF GradeHolds
  <2> QED BY <1>1, <1>5, <2>1, <2>2, GradingKept
<1>11. CASE ~(grading[g].attempt = 1 /\ Retried(HarnessOf[g], a.o))
  <2>1. /\ r \in Gradings(g) /\ r.at = then /\ r.attempt = 1 /\ r.candidate = grading[g].candidate
        /\ r.name = grading[g].name /\ r.answers = s
    BY <1>1, <1>4, <1>8, <1>9, <1>11 DEF Gradings, GraderStages
  <2>2. AnswerTold(g, x)
    BY <1>1, <1>3, <1>11, AttemptsTold DEF AnswerTold
  <2>3. \A i \in DOMAIN s : AnswerTold(g, s[i])
    BY <1>1, <1>9, <2>2 DEF GradeHolds
  <2>4. (then = "probe" => Len(s) <= Len(ProbesOf[g])) /\ (then = "return" => Len(s) = Len(ProbesOf[g]) + 1)
    BY <1>7, <1>9
  <2> QED BY <1>1, <1>5, <2>1, <2>3, <2>4, GradingKept
<1> QED BY <1>10, <1>11

LEMMA ReturnMetricsHolds ==
  ASSUME EvaluationAssumption, EvalInv, NEW g \in Graders, ReturnMetrics(g)
  PROVE  EvalInv'
<1>1. /\ GradeHolds(g) /\ InFlight(g) /\ grading[g] \in Gradings(g) /\ OwnFile(g) /\ grading[g].at = "return"
      /\ ~At(g, "absent") /\ ~At(g, "warming") /\ DOMAIN grading = Graders
      /\ grading[g].name = NameOf(g, grading[g].candidate) /\ grading[g].candidate \in Nat
  BY DEF EvalInv, GradeHolds, GradeTyped, At, InFlight, ReturnMetrics, Gradings
<1>2. PICK r : r = [grading[g] EXCEPT !.at = "next", !.attempt = 1, !.answers = <<>>]
  OBVIOUS
<1>3. PICK q : q = [grading[g] EXCEPT !.at = "next", !.answers = <<>>]
  OBVIOUS
<1>4. grading' = [grading EXCEPT ![g] = q] /\ grading'[g] = q
  BY <1>1, <1>3 DEF ReturnMetrics, Moved
<1>5. q \in Gradings(g) /\ q.at = "next" /\ q.candidate = grading[g].candidate /\ q.attempt = grading[g].attempt
  <2>1. <<>> \in Seq(Answers) /\ "next" \in GraderStages
    BY DEF GraderStages
  <2> QED BY <1>1, <1>3, <2>1 DEF Gradings
<1>6. \A f : f \in Found(g) <=> f \in agents /\ Mine(g, f)
  BY <1>1 DEF Found, Mine
<1>7. /\ \A f \in agents' : f \in agents
      /\ \A f \in agents : f \in agents' \/ (InstallOf[g] = "variant" /\ Mine(g, f))
      /\ InstallOf[g] = "variant" => \A f \in agents' : ~Mine(g, f)
  BY <1>6 DEF ReturnMetrics
<1>8. Changes(g)
  BY <1>1, <1>7 DEF Changes, Touches, Mine
<1>9. GradeTyped(g)' /\ ~InFlight(g)' /\ Candidate(g)' = Candidate(g) /\ \A f : Mine(g, f)' <=> Mine(g, f)
  BY <1>4, <1>5 DEF GradeTyped, InFlight, Candidate, Mine, NameOf, Directory, Gradings, Names
<1>10. VariantGone(g)'
  <2> SUFFICES ASSUME NEW f \in agents', f.directory = Directory(g), NEW j \in Nat, f.name = <<"eval_variant", g, j>>
               PROVE  FALSE
    BY DEF VariantGone, Directory
  <2>1. VariantGone(g) /\ f \in agents
    BY <1>1, <1>7 DEF GradeHolds
  <2>2. f.name = NameOf(g, grading[g].candidate)
    BY <2>1 DEF VariantGone
  <2>3. Mine(g, f)
    BY <2>2 DEF Mine
  <2>4. InstallOf[g] = "variant"
    BY <2>2 DEF NameOf
  <2> QED BY <1>7, <2>3, <2>4
<1>11. LastThere(g)'
  <2>1. Alone(g)' => Alone(g)
    <3>1. \A h \in Graders \ {g} : grading'[h] = grading[h]
      BY <1>1, <1>4
    <3> QED BY <3>1 DEF Alone, At
  <2> QED BY <1>1, <1>4, <1>5, <1>7, <1>9, <2>1 DEF GradeHolds, LastThere
<1>12. GradeHolds(g)'
  <2>1. grading[g].attempt = 1
    BY <1>1 DEF GradeHolds, At
  <2> QED BY <1>4, <1>5, <1>9, <1>10, <1>11, <2>1 DEF GradeHolds, At
<1> QED BY <1>1, <1>4, <1>5, <1>7, <1>8, <1>12, GradingHolds

LEMMA EvaluationStarts == EvaluationAssumption /\ EvaluationInit => EvalInv
<1> SUFFICES ASSUME EvaluationAssumption, EvaluationInit PROVE EvalInv
  OBVIOUS
<1>1. PICK team \in Teams : grading =
        [g \in Graders |-> [at |-> IF g \in team THEN "fresh" ELSE "absent", candidate |-> 0, name |-> <<>>,
                            attempt |-> 1, answers |-> <<>>]]
  BY DEF EvaluationInit
<1>2. \A f \in agents : f.name = <<"teacher", "model">> /\ f.by = <<"teacher", 0>>
  BY DEF EvaluationInit, Teacher, AgentFile
<1>3. TeamKnown /\ DOMAIN grading = Graders
  BY <1>1 DEF TeamKnown, At
<1>4. Directories
  <2>1. VariantsKnown
    BY <1>2, NamesBegin DEF VariantsKnown
  <2>2. WarmupsHeld
    BY <1>2 DEF WarmupsHeld, Warmup
  <2>3. TeachersStay
    BY DEF TeachersStay, EvaluationInit
  <2>4. AuthorsKnown
    BY <1>2 DEF AuthorsKnown, Authors
  <2> QED BY <2>1, <2>2, <2>3, <2>4 DEF Directories
<1>5. ASSUME NEW g \in Graders PROVE GradeHolds(g)
  <2>1. /\ grading[g] = [at |-> IF g \in team THEN "fresh" ELSE "absent", candidate |-> 0, name |-> <<>>,
                         attempt |-> 1, answers |-> <<>>]
        /\ grading[g].at \in {"fresh", "absent"} /\ grading[g].candidate = 0 /\ grading[g].attempt = 1
    BY <1>1
  <2>2. GradeTyped(g)
    <3>1. <<>> \in Seq(Answers) /\ <<>> \in Names(g) /\ "fresh" \in GraderStages /\ "absent" \in GraderStages
      BY DEF Names, GraderStages
    <3> QED BY <2>1, <3>1 DEF GradeTyped, Gradings
  <2>3. VariantGone(g)
    BY <1>2 DEF VariantGone
  <2>4. LastThere(g)
    BY <2>1 DEF LastThere
  <2> QED BY <2>1, <2>2, <2>3, <2>4 DEF GradeHolds, InFlight, At
<1> QED BY <1>3, <1>4, <1>5 DEF EvalInv

LEMMA EvaluationStep == EvaluationAssumption /\ EvalInv /\ [EvaluationNext]_evaluation => EvalInv'
<1> SUFFICES ASSUME EvaluationAssumption, EvalInv, [EvaluationNext]_evaluation PROVE EvalInv'
  OBVIOUS
<1>1. CASE UNCHANGED evaluation
  <2>1. agents' = agents /\ grading' = grading
    BY <1>1 DEF evaluation
  <2>2. TeamKnown' /\ Directories' /\ DOMAIN grading' = Graders
    BY <2>1 DEF EvalInv, TeamKnown, Directories, VariantsKnown, WarmupsHeld, TeachersStay, AuthorsKnown, At,
       Directory, Teacher, AgentFile, Warmup, Authors
  <2>3. ASSUME NEW g \in Graders PROVE GradeHolds(g)'
    <3>1. GradeHolds(g) /\ InFlight(g)' = InFlight(g) /\ Candidate(g)' = Candidate(g)
      BY <2>1 DEF EvalInv, InFlight, Candidate
    <3>2. \A f : Mine(g, f)' <=> Mine(g, f)
      BY <2>1 DEF Mine, NameOf, Directory
    <3>3. OwnFile(g)' = OwnFile(g) /\ LastThere(g)' = LastThere(g)
      BY <2>1, <3>1, <3>2 DEF OwnFile, LastThere, Alone, At
    <3>4. GradeTyped(g)' = GradeTyped(g)
      BY <2>1 DEF GradeTyped, Gradings, Names, NameOf
    <3>5. VariantGone(g)' = VariantGone(g)
      BY <2>1, <3>1 DEF VariantGone, NameOf, Directory
    <3>6. \A a : AnswerTold(g, a)' = AnswerTold(g, a)
      BY <3>1 DEF AnswerTold
    <3> QED BY <2>1, <3>1, <3>3, <3>4, <3>5, <3>6 DEF GradeHolds, At, NameOf
  <2> QED BY <2>2, <2>3 DEF EvalInv
<1>2. ASSUME NEW g \in Graders, Evaluating(g) PROVE EvalInv'
  <2>1. CASE ClearCandidates(g)
    BY <2>1, ClearCandidatesHolds
  <2>2. CASE BeginWarmup(g)
    BY <2>2, BeginWarmupHolds
  <2>3. CASE TryWarmup(g)
    BY <2>3, TryWarmupHolds
  <2>4. CASE EndWarmup(g)
    BY <2>4, EndWarmupHolds
  <2>5. CASE NoWarmup(g)
    BY <2>5, NoWarmupHolds
  <2>6. CASE Install(g)
    BY <2>6, InstallHolds
  <2>7. CASE AskProbe(g)
    BY <2>7, AskHolds DEF AskProbe
  <2>8. CASE AskGate(g)
    BY <2>8, AskHolds DEF AskGate
  <2>9. CASE ReturnMetrics(g)
    BY <2>9, ReturnMetricsHolds
  <2> QED BY <1>2, <2>1, <2>2, <2>3, <2>4, <2>5, <2>6, <2>7, <2>8, <2>9 DEF Evaluating
<1> QED BY <1>1, <1>2 DEF EvaluationNext

LEMMA ScoresAreEarned == EvaluationAssumption /\ EvalInv => ScoresEarned
<1> SUFFICES ASSUME EvaluationAssumption, EvalInv, NEW g \in Graders, At(g, "return")
             PROVE  /\ \A i \in DOMAIN Scores(g) : Scores(g)[i] > 0 =>
                         LET a == grading[g].answers[i] IN
                         /\ a.by = Candidate(g) /\ ~a.o.errors
                         /\ a.o.rc # 0 => HarnessOf[g] # "pi" /\ a.o.text # ""
                         /\ a.o.text = "" => a.attempt = 2 \/ HarnessOf[g] = "interactive"
                    /\ (\E c \in Contract : \A n \in c.names : <<c.kind, n>> \notin Last(grading[g].answers).o.did) =>
                          \A k \in GatedKeys : k \in DOMAIN Returned(g) /\ Returned(g)[k] = 0
  BY DEF ScoresEarned
<1>1. /\ GradeHolds(g) /\ InFlight(g) /\ grading[g].answers \in Seq(Answers)
      /\ Len(grading[g].answers) = Len(ProbesOf[g]) + 1
      /\ \A i \in DOMAIN grading[g].answers : AnswerTold(g, grading[g].answers[i])
      /\ HarnessOf[g] \in {"opencode", "pi", "interactive"} /\ ProbesOf[g] \in Seq({"judged", "existence"})
  BY DEF EvalInv, GradeHolds, GradeTyped, Gradings, InFlight, At, EvaluationAssumption
<1>2. ASSUME NEW i \in DOMAIN Scores(g), Scores(g)[i] > 0, NEW a, a = grading[g].answers[i]
      PROVE  /\ a.by = Candidate(g) /\ ~a.o.errors
             /\ a.o.rc # 0 => HarnessOf[g] # "pi" /\ a.o.text # ""
             /\ a.o.text = "" => a.attempt = 2 \/ HarnessOf[g] = "interactive"
  <2>1. i \in DOMAIN ProbesOf[g] /\ ProbeScore(g, i) > 0
    BY <1>2 DEF Scores
  <2>2. i \in DOMAIN grading[g].answers
    BY <1>1, <2>1
  <2>3. AnswerTold(g, a)
    BY <1>1, <1>2, <2>2
  <2>4. ~Failed(HarnessOf[g], a.o)
    BY <1>2, <2>1 DEF ProbeScore
  <2>5. CASE HarnessOf[g] = "opencode"
    <3>1. ~a.o.errors /\ (a.o.rc = 0 \/ a.o.text # "")
      BY <2>4, <2>5 DEF Failed
    <3>2. a.o # NotFound
      <4>1. NotFound.errors
        BY DEF NotFound
      <4> QED BY <3>1, <4>1
    <3>3. a.o.rc = 0 /\ a.o.text = "" => Retried(HarnessOf[g], a.o)
      BY <2>5 DEF Retried
    <3> QED BY <2>3, <2>5, <3>1, <3>2, <3>3 DEF AnswerTold
  <2>6. CASE HarnessOf[g] = "pi"
    <3>1. a.o.rc = 0
      BY <2>4, <2>6 DEF Failed
    <3>2. a.o \in OutcomesOf["pi"] /\ a.by = Candidate(g)
      BY <2>3, <2>6 DEF AnswerTold
    <3>3. a.o.text = "" => Retried(HarnessOf[g], a.o)
      BY <2>6, <3>1 DEF Retried
    <3> QED BY <2>3, <2>6, <3>1, <3>2, <3>3 DEF AnswerTold, EvaluationAssumption
  <2>7. CASE HarnessOf[g] = "interactive"
    <3>1. ~a.o.errors
      BY <2>4, <2>7 DEF Failed
    <3>2. a.o \in OutcomesOf["interactive"] /\ a.by = Candidate(g)
      BY <2>3, <2>7 DEF AnswerTold
    <3> QED BY <2>7, <3>1, <3>2 DEF EvaluationAssumption
  <2> QED BY <1>1, <2>5, <2>6, <2>7
<1>3. ASSUME NEW c \in Contract, \A n \in c.names : <<c.kind, n>> \notin Last(grading[g].answers).o.did,
             NEW k \in GatedKeys
      PROVE  k \in DOMAIN Returned(g) /\ Returned(g)[k] = 0
  <2>1. ~Satisfied(Last(grading[g].answers).o)
    BY <1>3 DEF Satisfied, Honoured
  <2>2. Returned(g) = Zeroed(Metrics(g))
    BY <2>1 DEF Returned
  <2> QED BY <1>3, <2>2 DEF Zeroed
<1> QED BY <1>2, <1>3

LEMMA DirectoriesAreTidy == EvaluationAssumption /\ EvalInv => DirectoriesTidy
<1> SUFFICES ASSUME EvaluationAssumption, EvalInv,
                    \A g \in Graders : At(g, "absent") \/ (At(g, "next") /\ grading[g].candidate = MaxGraded)
             PROVE  /\ \A f \in agents : f.name # Warmup /\ f.name[1] # "eval_variant"
                    /\ \A g \in Graders : Teacher(DirectoryOf[g]) \in agents
                    /\ \A g \in {h \in Graders : ~At(h, "absent") /\ InstallOf[h] \in {"flat", "tree"}} :
                         (\A h \in Graders \ {g} : At(h, "absent") \/ DirectoryOf[h] # DirectoryOf[g]) =>
                            \E f \in agents : f.directory = DirectoryOf[g] /\ f.by = Candidate(g)
  BY DEF DirectoriesTidy
<1>1. \A g \in Graders : GradeHolds(g) /\ ~InFlight(g) /\ ~At(g, "warming")
  BY DEF EvalInv, InFlight, At
<1>2. ASSUME NEW f \in agents PROVE f.name # Warmup /\ f.name[1] # "eval_variant"
  <2>1. f.name # Warmup
    BY <1>1 DEF EvalInv, Directories, WarmupsHeld
  <2>2. f.name[1] # "eval_variant"
    BY <1>1 DEF EvalInv, Directories, VariantsKnown, GradeHolds, VariantGone
  <2> QED BY <2>1, <2>2
<1>3. \A g \in Graders : Teacher(DirectoryOf[g]) \in agents
  BY DEF EvalInv, Directories, TeachersStay
<1>4. ASSUME NEW g \in Graders, ~At(g, "absent"), InstallOf[g] \in {"flat", "tree"}, Alone(g)
      PROVE  \E f \in agents : f.directory = DirectoryOf[g] /\ f.by = Candidate(g)
  <2>1. grading[g].candidate > 0
    BY <1>4 DEF EvaluationAssumption
  <2>2. LastThere(g)
    BY <1>1 DEF GradeHolds
  <2> QED BY <1>4, <2>1, <2>2 DEF LastThere, Mine, Directory
<1> QED BY <1>2, <1>3, <1>4 DEF Alone

(* Several loops grade candidates in directories they share, overwriting,  *)
(* clearing and warming up beside each other: a score is earned by the     *)
(* candidate's own answer, a broken contract leaves no gated metric above  *)
(* 0, and loops that are through leave their directories tidy.             *)
THEOREM GradingsAreSound == EvaluationSpec => []EvaluationSound
<1>1. EvaluationInit => EvalInv
  BY EvaluationAssumption, EvaluationStarts
<1>2. EvalInv /\ [EvaluationNext]_evaluation => EvalInv'
  BY EvaluationAssumption, EvaluationStep
<1>3. EvalInv => EvaluationSound
  BY EvaluationAssumption, ScoresAreEarned, DirectoriesAreTidy DEF EvaluationSound
<1> QED BY <1>1, <1>2, <1>3, PTL DEF EvaluationSpec

---------------------------------------------------------------------------
(* Mutators: what they may do to a definition, and what survives them.     *)

---------------------------------------------------------------------------
(* What a mutator may do to a definition.                                  *)

LEMMA PlacesAre ==
  ASSUME NEW S, NEW s \in Seq(S), NEW I, I \subseteq DOMAIN s
  PROVE  IsFiniteSet(I) /\ I \subseteq Int /\ I \subseteq 1..Len(s) /\ Len(s) \in Nat /\ \A i \in I : s[i] \in S
<1>1. DOMAIN s = 1..Len(s) /\ Len(s) \in Nat
  OBVIOUS
<1>2. IsFiniteSet(1..Len(s))
  BY <1>1, FS_Interval
<1>3. IsFiniteSet(I) /\ I \subseteq Int
  BY <1>1, <1>2, FS_Subset
<1> QED BY <1>1, <1>3

(* A rendering holds the text of every section that has one.               *)
LEMMA RenderedIs ==
  ASSUME NEW sections \in Seq(Sections), NEW i \in DOMAIN sections, sections[i].text # Empty
  PROVE  sections[i].text \in ToSet(Rendered(sections))
<1> DEFINE texts == [k \in DOMAIN sections |-> sections[k].text]
           I == {k \in DOMAIN sections : sections[k].text # Empty}
<1>1. i \in I /\ IsFiniteSet(I) /\ I \subseteq Int
  BY PlacesAre
<1>2. Rendered(sections) = Sublist(texts, I)
  BY DEF Rendered
<1>3. texts[i] = sections[i].text
  OBVIOUS
<1> HIDE DEF texts, I
<1>4. PICK n \in 1..Cardinality(I) : Sublist(texts, I)[n] = texts[i]
  BY <1>1, SublistIs
<1>5. DOMAIN Sublist(texts, I) = 1..Cardinality(I)
  BY <1>1, SublistIs
<1> QED BY <1>2, <1>3, <1>4, <1>5 DEF ToSet

(* A mutator that sets another field leaves sections and steps alone.      *)
Leaves(d, e)  == WellShaped(e) /\ e.sections = d.sections
Sets(d, f, e) == \E x : e = [d EXCEPT ![f] = x]

LEMMA SettingLeaves ==
  ASSUME NEW d, WellShaped(d), NEW f \in Fields \ {"sections", "steps"}, NEW e, Sets(d, f, e)
  PROVE  Leaves(d, e)
<1>1. DOMAIN d = Fields
  BY DEF WellShaped
<1>2. PICK x : e = [d EXCEPT ![f] = x]
  BY DEF Sets
<1>3. DOMAIN e = Fields /\ e["sections"] = d["sections"] /\ e["steps"] = d["steps"]
  BY <1>1, <1>2 DEF Fields
<1> QED BY <1>3 DEF WellShaped, Leaves

LEMMA WithStepsKeeps ==
  ASSUME NEW d, WellShaped(d), NEW steps \in Seq(Steps)
  PROVE  Leaves(d, WithSteps(d, steps))
<1> DEFINE its == Renumbered(steps)
<1>1. DOMAIN d = Fields
  BY DEF WellShaped
<1>2. DOMAIN steps = 1..Len(steps) /\ Len(steps) \in Nat /\ \A i \in DOMAIN steps : steps[i] \in Steps
  OBVIOUS
<1>3. DOMAIN its = 1..Len(steps) /\ \A i \in 1..Len(steps) : its[i] = [steps[i] EXCEPT !.id = i]
  BY <1>2 DEF Renumbered
<1>4. \A i \in 1..Len(steps) : its[i] \in Steps /\ its[i].id = i
  BY <1>2, <1>3 DEF Steps
<1>5. its \in Seq(Steps)
  <2>1. its = [i \in 1..Len(steps) |-> its[i]]
    BY <1>2 DEF Renumbered
  <2> HIDE DEF its
  <2>2. its \in [1..Len(steps) -> Steps]
    BY <1>4, <2>1
  <2> QED BY <1>2, <2>2
<1>6. WithSteps(d, steps).steps = its /\ WithSteps(d, steps).sections = d.sections /\ DOMAIN WithSteps(d, steps) = Fields
  BY <1>1 DEF WithSteps, Fields
<1> HIDE DEF its
<1> QED BY <1>3, <1>4, <1>5, <1>6 DEF WellShaped, Leaves

LEMMA FlatMutators ==
  ASSUME NEW d, WellShaped(d),
         NEW e,
         \/ e \in PromptPrefix(d) \/ e \in PromptSuffix(d) \/ e \in LLMPrompt(d)
         \/ e \in UNION {TeacherPrompt(d, gap) : gap \in {"open", "closed"}}
         \/ e \in Warmer(d) \cup Scaled(d) \/ e \in SetFormat(d) \cup Rotated(d)
         \/ e \in ToolAttach(d) \cup ToolDetach(d) \/ e \in ToolEnable(d)
         \/ e \in Patch(d) \/ e \in Identity(d)
  PROVE  Leaves(d, e)
<1>0. \A f \in {"prompt", "temperature", "format", "extra", "enabled", "subagents"} : Sets(d, f, e) => Leaves(d, e)
  BY SettingLeaves DEF Fields
<1>1. ASSUME e \in PromptPrefix(d) PROVE Leaves(d, e)
  <2>1. Sets(d, "prompt", e)
    BY <1>1 DEF PromptPrefix, Sets
  <2> QED BY <1>0, <2>1
<1>2. ASSUME e \in PromptSuffix(d) PROVE Leaves(d, e)
  <2>1. Sets(d, "prompt", e)
    BY <1>2 DEF PromptSuffix, Sets
  <2> QED BY <1>0, <2>1
<1>3. ASSUME e \in LLMPrompt(d) PROVE Leaves(d, e)
  <2>1. Sets(d, "prompt", e)
    BY <1>3 DEF LLMPrompt, Sets
  <2> QED BY <1>0, <2>1
<1>4. ASSUME e \in UNION {TeacherPrompt(d, gap) : gap \in {"open", "closed"}} PROVE Leaves(d, e)
  <2>1. e \in LLMPrompt(d)
    BY <1>4 DEF TeacherPrompt
  <2> QED BY <1>3, <2>1
<1>5. ASSUME e \in Warmer(d) \cup Scaled(d) PROVE Leaves(d, e)
  <2>1. Sets(d, "temperature", e)
    BY <1>5 DEF Warmer, Scaled, Sets
  <2> QED BY <1>0, <2>1
<1>6. ASSUME e \in SetFormat(d) \cup Rotated(d) PROVE Leaves(d, e)
  <2>1. Sets(d, "format", e)
    BY <1>6 DEF SetFormat, Rotated, Sets
  <2> QED BY <1>0, <2>1
<1>7. ASSUME e \in ToolAttach(d) \cup ToolDetach(d) PROVE Leaves(d, e)
  <2>1. Sets(d, "extra", e)
    BY <1>7 DEF ToolAttach, ToolDetach, Sets
  <2> QED BY <1>0, <2>1
<1>8. ASSUME e \in ToolEnable(d) PROVE Leaves(d, e)
  <2>1. Sets(d, "enabled", e)
    BY <1>8 DEF ToolEnable, Sets
  <2> QED BY <1>0, <2>1
<1>9. ASSUME e \in Patch(d) PROVE Leaves(d, e)
  <2>1. Sets(d, "prompt", e) \/ Sets(d, "temperature", e) \/ Sets(d, "subagents", e)
    BY <1>9 DEF Patch, Sets
  <2> QED BY <1>0, <2>1
<1>10. ASSUME e \in Identity(d) PROVE Leaves(d, e)
  BY <1>10 DEF Identity, Leaves
<1> QED BY <1>1, <1>2, <1>3, <1>4, <1>5, <1>6, <1>7, <1>8, <1>9, <1>10

---------------------------------------------------------------------------
(* Mutators of a workflow.                                                 *)

LEMMA StepListsAre ==
  ASSUME NEW d, WellShaped(d), NewStep \in Steps
  PROVE  /\ \A i \in 1..Len(d.steps) + 1 : InsertAt(d.steps, i, NewStep) \in Seq(Steps)
         /\ \A I \in SUBSET DOMAIN d.steps : Sublist(d.steps, I) \in Seq(Steps)
         /\ Reverse(d.steps) \in Seq(Steps)
         /\ SubSeq(d.steps, 1, Len(d.steps) - 1) \in Seq(Steps)
         /\ d.steps \o <<NewStep>> \in Seq(Steps)
         /\ \A i, j \in DOMAIN d.steps : Swapped(d.steps, i, j) \in Seq(Steps)
<1> DEFINE s == d.steps
<1>1. s \in Seq(Steps) /\ DOMAIN s = 1..Len(s) /\ Len(s) \in Nat
  BY DEF WellShaped
<1>2. <<NewStep>> \in Seq(Steps)
  OBVIOUS
<1> HIDE DEF s
<1>3. ASSUME NEW i \in 1..Len(s) + 1 PROVE InsertAt(s, i, NewStep) \in Seq(Steps)
  <2>1. SubSeq(s, 1, i - 1) \in Seq(Steps) /\ SubSeq(s, i, Len(s)) \in Seq(Steps)
    BY <1>1, SubSeqProperties
  <2> QED BY <1>2, <2>1, ConcatProperties DEF InsertAt
<1>4. ASSUME NEW I \in SUBSET DOMAIN s PROVE Sublist(s, I) \in Seq(Steps)
  <2>1. IsFiniteSet(I) /\ I \subseteq Int /\ \A i \in I : s[i] \in Steps
    BY <1>1, PlacesAre
  <2> QED BY <2>1, SublistIsList
<1>5. Reverse(s) \in Seq(Steps)
  <2>1. Reverse(s) \in [1..Len(s) -> Steps]
    BY <1>1 DEF Reverse
  <2> QED BY <1>1, <2>1
<1>6. SubSeq(s, 1, Len(s) - 1) \in Seq(Steps)
  BY <1>1, SubSeqProperties
<1>7. s \o <<NewStep>> \in Seq(Steps)
  BY <1>1, <1>2, ConcatProperties
<1>8. ASSUME NEW i \in DOMAIN s, NEW j \in DOMAIN s PROVE Swapped(s, i, j) \in Seq(Steps)
  BY <1>1 DEF Swapped
<1> QED BY <1>3, <1>4, <1>5, <1>6, <1>7, <1>8 DEF s

(* The first step that uses the tool, and where it does.                   *)
LEMMA FirstUseIs ==
  ASSUME NEW d, WellShaped(d), FirstUse(d) # 0
  PROVE  FirstUse(d) \in DOMAIN d.steps /\ Uses(d.steps[FirstUse(d)])
<1> DEFINE I == {i \in 1..Len(d.steps) : Uses(d.steps[i])}
<1>1. DOMAIN d.steps = 1..Len(d.steps) /\ I \in SUBSET Nat
  BY DEF WellShaped
<1>2. FirstUse(d) = IF I # {} THEN Min(I) ELSE 0
  BY DEF FirstUse, SelectInSeq
<1>3. FirstUse(d) \in I
  <2> HIDE DEF I
  <2> QED BY <1>1, <1>2, LeastIn
<1> QED BY <1>1, <1>3

LEMMA ToolStandsAt ==
  ASSUME NEW uses \in Seq(STRING), Contains(uses, Tool)
  PROVE  SelectInSeq(uses, LAMBDA t : t = Tool) \in DOMAIN uses
<1> DEFINE I == {i \in 1..Len(uses) : uses[i] = Tool}
<1>1. I \in SUBSET Nat /\ I # {} /\ I \subseteq DOMAIN uses
  BY DEF Contains
<1>2. SelectInSeq(uses, LAMBDA t : t = Tool) = Min(I)
  BY <1>1 DEF SelectInSeq
<1> HIDE DEF I
<1> QED BY <1>1, <1>2, LeastIn

LEMMA MoveWithinKeeps ==
  ASSUME NEW d, WellShaped(d), NEW e \in MoveWithinStep(d)
  PROVE  Leaves(d, e)
<1> DEFINE i == FirstUse(d)
           uses == d.steps[i].uses
           p == SelectInSeq(uses, LAMBDA t : t = Tool)
<1>1. i # 0 /\ \E j \in DOMAIN uses : e = [d EXCEPT !.steps[i].uses = Swapped(uses, p, j)]
  BY DEF MoveWithinStep
<1>2. i \in DOMAIN d.steps /\ Contains(uses, Tool)
  BY <1>1, FirstUseIs DEF Uses
<1>3. d.steps \in Seq(Steps) /\ d.steps[i] \in Steps /\ uses \in Seq(STRING) /\ DOMAIN d = Fields
  <2>1. d.steps \in Seq(Steps) /\ DOMAIN d = Fields
    BY DEF WellShaped
  <2>2. d.steps[i] \in Steps
    BY <1>2, <2>1
  <2>3. d.steps[i].uses \in Seq(STRING)
    BY <2>2 DEF Steps
  <2> QED BY <2>1, <2>2, <2>3
<1>4. p \in DOMAIN uses
  BY <1>2, <1>3, ToolStandsAt
<1>5. PICK j \in DOMAIN uses : e = [d EXCEPT !.steps[i].uses = Swapped(uses, p, j)]
  BY <1>1
<1>6. Swapped(uses, p, j) \in Seq(STRING)
  <2> HIDE DEF p, uses
  <2> QED BY <1>3, <1>4 DEF Swapped
<1> DEFINE its == [d.steps EXCEPT ![i] = [d.steps[i] EXCEPT !.uses = Swapped(uses, p, j)]]
<1>7. e.steps = its /\ e.sections = d.sections /\ DOMAIN e = Fields
  BY <1>3, <1>5 DEF Fields
<1>8. its \in Seq(Steps) /\ \A k \in DOMAIN its : its[k].id = d.steps[k].id
  <2> DEFINE x  == Swapped(uses, p, j)
             st == [d.steps[i] EXCEPT !.uses = x]
  <2>1. x \in Seq(STRING) /\ its = [d.steps EXCEPT ![i] = st]
    BY <1>6
  <2> HIDE DEF x
  <2>2. st \in Steps /\ st.id = d.steps[i].id
    BY <1>3, <2>1 DEF Steps
  <2> HIDE DEF st, its
  <2> QED BY <1>2, <1>3, <2>1, <2>2
<1>9. DOMAIN its = DOMAIN d.steps
  OBVIOUS
<1> HIDE DEF its
<1> QED BY <1>7, <1>8, <1>9 DEF WellShaped, Leaves

LEMMA ShapeMutators ==
  ASSUME NEW d, WellShaped(d), NewStep \in Steps,
         NEW e,
         \/ e \in StepAppend(d) \/ e \in StepRemove(d) \/ e \in WorkflowEdit(d)
         \/ e \in MoveStep(d) \/ e \in MoveWithinStep(d)
  PROVE  Leaves(d, e)
<1>1. ASSUME e \in StepAppend(d) PROVE Leaves(d, e)
  <2>1. PICK i \in {1, Len(d.steps) + 1} : e = WithSteps(d, InsertAt(d.steps, i, NewStep))
    BY <1>1 DEF StepAppend
  <2>2. i \in 1..Len(d.steps) + 1
    BY <2>1 DEF WellShaped
  <2>3. InsertAt(d.steps, i, NewStep) \in Seq(Steps)
    BY <2>2, StepListsAre
  <2> QED BY <2>1, <2>3, WithStepsKeeps
<1>2. ASSUME e \in StepRemove(d) PROVE Leaves(d, e)
  <2>1. PICK name : e = WithSteps(d, Sublist(d.steps, DOMAIN d.steps \ Named(d, name)))
    BY <1>2 DEF StepRemove
  <2>2. Sublist(d.steps, DOMAIN d.steps \ Named(d, name)) \in Seq(Steps)
    BY StepListsAre
  <2> QED BY <2>1, <2>2, WithStepsKeeps
<1>3. ASSUME e \in WorkflowEdit(d) PROVE Leaves(d, e)
  <2>1. PICK steps \in Edited(d) : e = WithSteps(d, steps)
    BY <1>3 DEF WorkflowEdit
  <2>2. steps \in Seq(Steps)
    BY <2>1, StepListsAre DEF Edited
  <2> QED BY <2>1, <2>2, WithStepsKeeps
<1>4. ASSUME e \in MoveStep(d) PROVE Leaves(d, e)
  <2>1. PICK j \in DOMAIN d.steps : FirstUse(d) # 0 /\ e = WithSteps(d, Swapped(d.steps, FirstUse(d), j))
    BY <1>4 DEF MoveStep
  <2>2. FirstUse(d) \in DOMAIN d.steps
    BY <2>1, FirstUseIs
  <2>3. Swapped(d.steps, FirstUse(d), j) \in Seq(Steps)
    BY <2>2, StepListsAre
  <2> QED BY <2>1, <2>3, WithStepsKeeps
<1>5. ASSUME e \in MoveWithinStep(d) PROVE Leaves(d, e)
  BY <1>5, MoveWithinKeeps
<1> QED BY <1>1, <1>2, <1>3, <1>4, <1>5

(* A disabled tool is nowhere offered or used.                             *)
LEMMA WithoutIs ==
  ASSUME NEW uses \in Seq(STRING)
  PROVE  Without(uses) \in Seq(STRING) /\ ~Contains(Without(uses), Tool)
<1> DEFINE I == {k \in DOMAIN uses : uses[k] # Tool}
<1>1. IsFiniteSet(I) /\ I \subseteq Int /\ \A i \in I : uses[i] \in STRING \ {Tool}
  BY PlacesAre
<1>2. Without(uses) = Sublist(uses, I)
  BY DEF Without
<1> HIDE DEF I
<1>3. Sublist(uses, I) \in Seq(STRING \ {Tool})
  BY <1>1, SublistIsList
<1>4. Without(uses) \in Seq(STRING \ {Tool})
  BY <1>2, <1>3
<1> QED BY <1>4 DEF Contains

Untooled(e) == Tool \notin e.enabled \cup e.extra /\ \A s \in ToSet(e.steps) : ~Uses(s)

LEMMA DisableKeeps ==
  ASSUME NEW d, WellShaped(d), NEW e \in ToolDisable(d)
  PROVE  Leaves(d, e) /\ Untooled(e)
<1> DEFINE its == Pruned(d)
<1>1. d.steps \in Seq(Steps) /\ DOMAIN d = Fields /\ DOMAIN d.steps = 1..Len(d.steps) /\ Len(d.steps) \in Nat
  BY DEF WellShaped
<1>2. e = [d EXCEPT !.enabled = @ \ {Tool}, !.extra = @ \ {Tool}, !.steps = its]
  BY DEF ToolDisable
<1>3. e.enabled = d.enabled \ {Tool} /\ e.extra = d.extra \ {Tool} /\ e.steps = its /\ e.sections = d.sections /\ DOMAIN e = Fields
  BY <1>1, <1>2 DEF Fields
<1>4. ASSUME NEW i \in DOMAIN d.steps
      PROVE  its[i] \in Steps /\ its[i].id = d.steps[i].id /\ ~Uses(its[i])
  <2>1. d.steps[i] \in Steps
    BY <1>1
  <2>2. d.steps[i].uses \in Seq(STRING)
    BY <2>1 DEF Steps
  <2>3. Without(d.steps[i].uses) \in Seq(STRING) /\ ~Contains(Without(d.steps[i].uses), Tool)
    BY <2>2, WithoutIs
  <2> DEFINE x == Without(d.steps[i].uses)
  <2>4. its[i] = [d.steps[i] EXCEPT !.uses = x]
    BY DEF Pruned
  <2> HIDE DEF x, its
  <2>5. its[i] \in Steps /\ its[i].id = d.steps[i].id /\ its[i].uses = x
    BY <2>1, <2>3, <2>4 DEF Steps, x
  <2> QED BY <2>3, <2>5 DEF Uses, x
<1>5. its \in [1..Len(d.steps) -> Steps]
  BY <1>1, <1>4 DEF Pruned
<1> HIDE DEF its
<1>6. its \in Seq(Steps) /\ DOMAIN its = DOMAIN d.steps
  BY <1>1, <1>5
<1>7. WellShaped(e)
  BY <1>3, <1>4, <1>6 DEF WellShaped
<1>8. Untooled(e)
  BY <1>3, <1>4, <1>6 DEF Untooled, ToSet
<1> QED BY <1>3, <1>7, <1>8 DEF Leaves

---------------------------------------------------------------------------
(* Sections.                                                               *)

Kindred(d, e) == Frozen(d) = Frozen(e) /\ Outline(d) = Outline(e)

LEMMA SameSectionsKin ==
  ASSUME NEW d, NEW e, d.sections = e.sections
  PROVE  Kindred(d, e)
BY DEF Kindred, Frozen, Outline

Rewritten(d, e) ==
  /\ e.prompt = Rendered(e.sections)
  /\ Cardinality({i \in DOMAIN e.sections : e.sections[i] # d.sections[i]}) = 1

LEMMA SectionRewriteKeeps ==
  ASSUME NEW d, WellShaped(d), Rewrites \subseteq STRING, NEW e \in SectionRewrite(d)
  PROVE  WellShaped(e) /\ Kindred(e, d) /\ Rewritten(d, e)
<1>1. PICK i \in DOMAIN d.sections :
        /\ Mutable(d.sections[i])
        /\ \E t \in Rewrites \ {Empty, d.sections[i].text} : e = Derived([d EXCEPT !.sections[i].text = t])
  BY DEF SectionRewrite
<1>0. PICK t \in Rewrites \ {Empty, d.sections[i].text} : e = Derived([d EXCEPT !.sections[i].text = t])
  BY <1>1
<1> DEFINE piece == [d.sections[i] EXCEPT !.text = t]
           its   == [d.sections EXCEPT ![i] = piece]
           d1    == [d EXCEPT !.sections = its]
<1>2. /\ DOMAIN d = Fields /\ d.sections \in Seq(Sections) /\ d.sections[i] \in Sections
      /\ DOMAIN d.sections = 1..Len(d.sections) /\ Len(d.sections) \in Nat
      /\ \A k \in DOMAIN d.sections : d.sections[k].text # Empty
  BY DEF WellShaped
<1>3. piece \in Sections /\ piece.name = d.sections[i].name /\ piece.frozen = d.sections[i].frozen /\ piece.text = t
  BY <1>2 DEF Sections
<1>4. ~d.sections[i].frozen /\ t # Empty /\ piece # d.sections[i]
  BY <1>0, <1>1, <1>3 DEF Mutable
<1>5. e = Derived(d1)
  BY <1>0
<1> HIDE DEF piece
<1>6. its \in Seq(Sections) /\ DOMAIN its = DOMAIN d.sections /\ its[i] = piece /\ \A k \in DOMAIN d.sections \ {i} : its[k] = d.sections[k]
  BY <1>2, <1>3
<1> HIDE DEF its
<1>7. d1.sections = its /\ d1.steps = d.steps /\ DOMAIN d1 = Fields
  BY <1>2 DEF Fields
<1> HIDE DEF d1
<1>8. its # <<>>
  BY <1>6
<1>9. e = [d1 EXCEPT !.prompt = Rendered(its)]
  BY <1>5, <1>7, <1>8 DEF Derived
<1>10. e.sections = its /\ e.steps = d.steps /\ DOMAIN e = Fields /\ e.prompt = Rendered(its)
  BY <1>7, <1>9 DEF Fields
<1>11. WellShaped(e)
  BY <1>2, <1>3, <1>4, <1>6, <1>10 DEF WellShaped
<1>12. Kindred(e, d)
  <2>1. \A k \in DOMAIN its : its[k].frozen = d.sections[k].frozen /\ its[k].name = d.sections[k].name
    BY <1>3, <1>6
  <2>2. Outline(e) = Outline(d)
    BY <1>6, <1>10, <2>1 DEF Outline
  <2>3. {k \in DOMAIN its : its[k].frozen} = {k \in DOMAIN d.sections : d.sections[k].frozen}
    BY <1>6, <2>1
  <2>4. \A k \in {k \in DOMAIN its : its[k].frozen} : its[k] = d.sections[k]
    BY <1>4, <1>6, <2>1
  <2>5. Frozen(e) = Frozen(d)
    BY <1>6, <1>10, <2>3, <2>4 DEF Frozen
  <2> QED BY <2>2, <2>5 DEF Kindred
<1>13. {k \in DOMAIN its : its[k] # d.sections[k]} = {i}
  BY <1>4, <1>6
<1> QED BY <1>10, <1>11, <1>12, <1>13, FS_Singleton DEF Rewritten

(* What one mutation may do, and what its author tells of it.              *)
LEMMA ProposalsAre ==
  ASSUME NEW d, WellShaped(d), Rewrites \subseteq STRING, NewStep \in Steps, NEW p \in Proposals(d)
  PROVE  /\ WellShaped(p[2]) /\ Kindred(p[2], d)
         /\ p[1] = "disable" => Untooled(p[2])
         /\ p[1] = "section" => Rewritten(d, p[2])
<1> DEFINE e == p[2]
<1>1. \/ p[1] = "section" /\ e \in SectionRewrite(d)
      \/ p[1] = "disable" /\ e \in ToolDisable(d)
      \/ /\ p[1] \notin {"section", "disable"}
         /\ \/ e \in StepAppend(d) \/ e \in StepRemove(d) \/ e \in WorkflowEdit(d)
            \/ e \in MoveStep(d) \/ e \in MoveWithinStep(d)
      \/ /\ p[1] \notin {"section", "disable"}
         /\ \/ e \in PromptPrefix(d) \/ e \in PromptSuffix(d) \/ e \in LLMPrompt(d)
            \/ e \in UNION {TeacherPrompt(d, gap) : gap \in {"open", "closed"}}
            \/ e \in Warmer(d) \cup Scaled(d) \/ e \in SetFormat(d) \cup Rotated(d)
            \/ e \in ToolAttach(d) \cup ToolDetach(d) \/ e \in ToolEnable(d)
            \/ e \in Patch(d) \/ e \in Identity(d)
  BY DEF Proposals
<1> HIDE DEF e
<1>2. Leaves(d, e) => WellShaped(e) /\ Kindred(e, d)
  BY SameSectionsKin DEF Leaves
<1>3. CASE p[1] = "section" /\ e \in SectionRewrite(d)
  BY <1>3, SectionRewriteKeeps DEF e
<1>4. CASE p[1] = "disable" /\ e \in ToolDisable(d)
  BY <1>2, <1>4, DisableKeeps DEF e
<1>5. CASE /\ p[1] \notin {"section", "disable"}
           /\ \/ e \in StepAppend(d) \/ e \in StepRemove(d) \/ e \in WorkflowEdit(d)
              \/ e \in MoveStep(d) \/ e \in MoveWithinStep(d)
  BY <1>2, <1>5, ShapeMutators DEF e
<1>6. CASE /\ p[1] \notin {"section", "disable"}
           /\ \/ e \in PromptPrefix(d) \/ e \in PromptSuffix(d) \/ e \in LLMPrompt(d)
              \/ e \in UNION {TeacherPrompt(d, gap) : gap \in {"open", "closed"}}
              \/ e \in Warmer(d) \cup Scaled(d) \/ e \in SetFormat(d) \cup Rotated(d)
              \/ e \in ToolAttach(d) \cup ToolDetach(d) \/ e \in ToolEnable(d)
              \/ e \in Patch(d) \/ e \in Identity(d)
  BY <1>2, <1>6, FlatMutators DEF e
<1> QED BY <1>1, <1>3, <1>4, <1>5, <1>6

---------------------------------------------------------------------------
(* Versions, promotions and edits of the source.                           *)

(* Every definition there is descends from one the source had, and from    *)
(* the one it has now until somebody edits it.                             *)
Descends(d) ==
  /\ WellShaped(d)
  /\ \E r \in Sources : Kindred(d, r)
  /\ sourceEdits = 0 => Frozen(d) = Frozen(declared)

Told(v) ==
  /\ v.author = "disable" => Untooled(v.definition)
  /\ v.author = "section" => v.parent \in DOMAIN versions /\ Rewritten(versions[v.parent].definition, v.definition)

MInv ==
  /\ declared \in Sources /\ sourceEdits \in Nat
  /\ versions \in Seq(ToSet(versions))
  /\ \A i \in DOMAIN versions : Descends(versions[i].definition) /\ Told(versions[i])
  /\ \A p \in promoted : Descends(p)

LEMMA ListIsOfItsOwn ==
  ASSUME NEW S, NEW s \in Seq(S)
  PROVE  s \in Seq(ToSet(s)) /\ ToSet(s) \subseteq S
BY DEF ToSet

LEMMA SourcesDescend ==
  ASSUME MInv
  PROVE  Descends(declared)
BY MutationsAssumption DEF MInv, Descends, Kindred

(* The prompt of a rendered definition holds its sections.                 *)
LEMMA DerivedHolds ==
  ASSUME NEW d, WellShaped(d)
  PROVE  /\ WellShaped(Derived(d)) /\ Kindred(Derived(d), d)
         /\ Pieces(Frozen(Derived(d))) \subseteq ToSet(Derived(d).prompt)
<1> DEFINE e == Derived(d)
<1>1. DOMAIN d = Fields /\ d.sections \in Seq(Sections) /\ \A i \in DOMAIN d.sections : d.sections[i].text # Empty
  BY DEF WellShaped
<1>2. CASE d.sections = <<>>
  <2>1. e = d
    BY <1>2 DEF Derived
  <2>2. DOMAIN Frozen(d) = {}
    BY <1>2 DEF Frozen
  <2>3. Pieces(Frozen(d)) = {}
    BY <2>2 DEF Pieces
  <2> QED BY <2>1, <2>3, SameSectionsKin
<1>3. CASE d.sections # <<>>
  <2>1. e = [d EXCEPT !.prompt = Rendered(d.sections)]
    BY <1>3 DEF Derived
  <2>2. e.sections = d.sections /\ e.steps = d.steps /\ DOMAIN e = Fields /\ e.prompt = Rendered(d.sections)
    BY <1>1, <2>1 DEF Fields
  <2> HIDE DEF e
  <2>3. WellShaped(e) /\ Kindred(e, d)
    BY <2>2, SameSectionsKin DEF WellShaped
  <2>4. ASSUME NEW i \in DOMAIN d.sections PROVE d.sections[i].text \in ToSet(e.prompt)
    BY <1>1, <2>2, RenderedIs
  <2>5. Pieces(Frozen(e)) \subseteq ToSet(e.prompt)
    BY <2>2, <2>4 DEF Pieces, Frozen
  <2> QED BY <2>3, <2>5 DEF e
<1> QED BY <1>2, <1>3

LEMMA CompiledHolds ==
  ASSUME MInv
  PROVE  /\ Descends(Compiled)
         /\ promoted # {} \/ declared = Derived(declared) => Pieces(Frozen(Compiled)) \subseteq ToSet(Compiled.prompt)
<1>1. Descends(declared)
  BY SourcesDescend
<1>2. CASE promoted = {}
  <2>1. Compiled = declared
    BY <1>2 DEF Compiled
  <2>2. Pieces(Frozen(Derived(declared))) \subseteq ToSet(Derived(declared).prompt)
    BY <1>1, DerivedHolds DEF Descends
  <2>3. declared = Derived(declared) => Pieces(Frozen(declared)) \subseteq ToSet(declared.prompt)
    BY <2>2
  <2> QED BY <1>1, <1>2, <2>1, <2>3
<1>3. CASE promoted # {}
  <2> DEFINE p == CHOOSE p \in promoted : TRUE
             m == Merged(declared, p)
  <2>1. Descends(p)
    BY <1>3 DEF MInv
  <2>2. Compiled = Derived(m)
    BY <1>3 DEF Compiled
  <2> HIDE DEF p
  <2>3. DOMAIN declared = Fields
    BY <1>1 DEF Descends, WellShaped
  <2>4. m.sections = p.sections /\ m.steps = declared.steps /\ DOMAIN m = Fields
    BY <2>3 DEF Merged, Fields
  <2> HIDE DEF m
  <2>5. WellShaped(m) /\ Kindred(m, p)
    BY <1>1, <2>1, <2>4, SameSectionsKin DEF Descends, WellShaped
  <2>6. /\ WellShaped(Derived(m)) /\ Kindred(Derived(m), m)
        /\ Pieces(Frozen(Derived(m))) \subseteq ToSet(Derived(m).prompt)
    BY <2>5, DerivedHolds
  <2>7. Frozen(Compiled) = Frozen(p) /\ Outline(Compiled) = Outline(p) /\ WellShaped(Compiled)
    BY <2>2, <2>5, <2>6 DEF Kindred
  <2>8. Descends(Compiled)
    BY <2>1, <2>7 DEF Descends, Kindred
  <2> QED BY <2>2, <2>6, <2>8
<1> QED BY <1>2, <1>3

LEMMA MutationsStart ==
  ASSUME MutationsInit
  PROVE  MInv
BY DEF MutationsInit, MInv, ToSet

LEMMA StartLoopKeeps ==
  ASSUME MInv, StartLoop
  PROVE  MInv'
<1>1. PICK d \in {declared, Compiled} : versions' = <<[definition |-> d, parent |-> 0, author |-> "human"]>>
  BY DEF StartLoop
<1>2. UNCHANGED <<declared, promoted, sourceEdits>>
  BY DEF StartLoop
<1>3. Descends(d)
  BY SourcesDescend, CompiledHolds
<1>4. Descends(d)'
  BY <1>2, <1>3 DEF Descends
<1> DEFINE v == [definition |-> d, parent |-> 0, author |-> "human"]
<1>5. versions' \in Seq({v}) /\ DOMAIN versions' = 1..1 /\ versions'[1] = v
  BY <1>1
<1>6. v.definition = d /\ v.author = "human"
  OBVIOUS
<1> HIDE DEF v
<1>7. versions' \in Seq(ToSet(versions'))
  BY <1>5, ListIsOfItsOwn
<1>8. \A i \in DOMAIN versions' : (Descends(versions[i].definition) /\ Told(versions[i]))'
  BY <1>4, <1>5, <1>6 DEF Told
<1>9. \A p \in promoted' : Descends(p)'
  BY <1>2 DEF MInv, Descends
<1> QED BY <1>2, <1>7, <1>8, <1>9 DEF MInv

LEMMA MutateKeeps ==
  ASSUME MInv, Mutate
  PROVE  MInv'
<1>1. UNCHANGED <<declared, promoted, sourceEdits>>
  BY DEF Mutate
<1>2. PICK i \in DOMAIN versions : \E p \in Proposals(versions[i].definition) :
        versions' = Append(versions, [definition |-> p[2], parent |-> i, author |-> p[1]])
  BY DEF Mutate
<1>3. PICK p \in Proposals(versions[i].definition) :
        versions' = Append(versions, [definition |-> p[2], parent |-> i, author |-> p[1]])
  BY <1>2
<1> DEFINE d == versions[i].definition
           v == [definition |-> p[2], parent |-> i, author |-> p[1]]
           n == Len(versions)
           T == ToSet(versions)
<1>4. versions \in Seq(T) /\ n \in Nat /\ DOMAIN versions = 1..n /\ i \in 1..n
  BY DEF MInv
<1>5. v.definition = p[2] /\ v.parent = i /\ v.author = p[1] /\ versions' = Append(versions, v)
  BY <1>3
<1> HIDE DEF T
<1>6. /\ versions' \in Seq(T \cup {v}) /\ DOMAIN versions' = 1..n + 1
      /\ versions'[n + 1] = v /\ \A k \in 1..n : versions'[k] = versions[k]
  BY <1>4, <1>5
<1>7. versions' \in Seq(ToSet(versions'))
  BY <1>6, ListIsOfItsOwn
<1>8. Descends(d)
  BY DEF MInv
<1>9. /\ WellShaped(p[2]) /\ Kindred(p[2], d)
      /\ p[1] = "disable" => Untooled(p[2])
      /\ p[1] = "section" => Rewritten(d, p[2])
  BY <1>8, ProposalsAre, MutationsAssumption DEF Descends
<1>10. Descends(p[2])'
  BY <1>1, <1>8, <1>9 DEF Descends, Kindred
<1>11. Told(v)'
  BY <1>4, <1>5, <1>6, <1>9 DEF Told
<1> HIDE DEF v
<1>12. ASSUME NEW k \in 1..n PROVE (Descends(versions[k].definition) /\ Told(versions[k]))'
  <2>1. Descends(versions[k].definition) /\ Told(versions[k]) /\ versions'[k] = versions[k]
    BY <1>4, <1>6 DEF MInv
  <2>2. Descends(versions[k].definition)'
    BY <1>1, <2>1 DEF Descends
  <2>3. Told(versions[k])'
    BY <1>4, <1>6, <2>1 DEF Told
  <2> QED BY <2>2, <2>3
<1>13. \A k \in DOMAIN versions' : k \in 1..n \/ versions'[k] = v
  BY <1>4, <1>6
<1>14. \A k \in DOMAIN versions' : (Descends(versions[k].definition) /\ Told(versions[k]))'
  <2> SUFFICES ASSUME NEW k \in DOMAIN versions' PROVE (Descends(versions[k].definition) /\ Told(versions[k]))'
    OBVIOUS
  <2>1. CASE k \in 1..n
    BY <2>1, <1>12
  <2>2. CASE versions'[k] = v
    <3>1. Descends(versions[k].definition)'
      BY <1>5, <1>10, <2>2 DEF Descends
    <3>2. Told(versions[k])'
      BY <1>11, <2>2 DEF Told
    <3> QED BY <3>1, <3>2
  <2> QED BY <1>13, <2>1, <2>2
<1>15. \A q \in promoted' : Descends(q)'
  BY <1>1 DEF MInv, Descends
<1> QED BY <1>1, <1>7, <1>14, <1>15 DEF MInv

LEMMA PromoteKeeps ==
  ASSUME MInv, Promote
  PROVE  MInv'
<1>1. PICK d \in Known : promoted' = {d}
  BY DEF Promote
<1>2. versions' = <<>> /\ UNCHANGED <<declared, sourceEdits>>
  BY DEF Promote
<1>3. Descends(d)
  BY DEF Known, ToSet, MInv
<1>4. Descends(d)'
  BY <1>2, <1>3 DEF Descends
<1>5. versions' \in Seq(ToSet(versions')) /\ DOMAIN versions' = {}
  BY <1>2
<1> QED BY <1>1, <1>2, <1>4, <1>5 DEF MInv

LEMMA EditSourceKeeps ==
  ASSUME MInv, EditSource
  PROVE  MInv'
<1>1. versions' = <<>> /\ promoted' = promoted /\ declared' \in Sources /\ sourceEdits' = sourceEdits + 1 /\ sourceEdits \in Nat
  BY DEF EditSource, MInv
<1>2. sourceEdits' \in Nat /\ sourceEdits' # 0
  BY <1>1
<1>3. ASSUME NEW p \in promoted' PROVE Descends(p)'
  BY <1>1, <1>2 DEF MInv, Descends
<1>4. versions' \in Seq(ToSet(versions')) /\ DOMAIN versions' = {}
  BY <1>1
<1> QED BY <1>1, <1>2, <1>3, <1>4 DEF MInv

(* Frozen sections survive any sequence of mutations, promotions, edits of *)
(* the source and compiles, the compiled prompt holds them once a version  *)
(* is promoted, and every version's shape is sound (mutators, snapshot.py). *)
THEOREM FrozenSectionsSurvive == MutationsInit /\ [][MutationsNext]_mutations => []EditsSound
<1>1. MutationsInit => MInv
  BY MutationsStart
<1>2. MInv /\ [MutationsNext]_mutations => MInv'
  <2> SUFFICES ASSUME MInv, [MutationsNext]_mutations PROVE MInv'
    OBVIOUS
  <2>1. CASE StartLoop
    BY <2>1, StartLoopKeeps
  <2>2. CASE Mutate
    BY <2>2, MutateKeeps
  <2>3. CASE Promote
    BY <2>3, PromoteKeeps
  <2>4. CASE EditSource
    BY <2>4, EditSourceKeeps
  <2>5. CASE UNCHANGED mutations
    BY <2>5 DEF mutations, MInv, Descends, Told
  <2> QED BY <2>1, <2>2, <2>3, <2>4, <2>5 DEF MutationsNext
<1>3. MInv => EditsSound
  <2> SUFFICES ASSUME MInv PROVE EditsSound
    OBVIOUS
  <2>1. /\ Descends(Compiled)
        /\ promoted # {} \/ declared = Derived(declared) => Pieces(Frozen(Compiled)) \subseteq ToSet(Compiled.prompt)
    BY CompiledHolds
  <2>2. \A v \in ToSet(versions) : Descends(v.definition) /\ Told(v)
    BY DEF MInv, ToSet
  <2>3. FrozenSurvive
    <3>1. ASSUME NEW d, Descends(d)
          PROVE  \E r \in Sources :
                   /\ Frozen(d) = Frozen(r) /\ Outline(d) = Outline(r)
                   /\ \A s \in ToSet(d.sections) : s.text # Empty
      BY <3>1 DEF Descends, Kindred, WellShaped, ToSet
    <3> QED BY <2>1, <2>2, <3>1 DEF FrozenSurvive, Descends
  <2>4. ShapeSound
    BY <2>2 DEF ShapeSound, Told, Descends, WellShaped, Untooled, Rewritten
  <2> QED BY <2>3, <2>4 DEF EditsSound
<1> QED BY <1>1, <1>2, <1>3, PTL

---------------------------------------------------------------------------
(* Splicing a promoted prompt over its literal.                             *)

---------------------------------------------------------------------------
(* Positions in a text.                                                    *)

Letters == STRING
Text    == Seq(Letters)

LEMMA GreatestIn ==
  ASSUME NEW n \in Nat, NEW S \in SUBSET (0..n), S # {}
  PROVE  Max(S) \in S /\ \A y \in S : y <= Max(S)
<1> DEFINE R == {n - x : x \in S}
<1>1. R \in SUBSET Nat /\ R # {}
  <2>1. \A x \in S : x \in 0..n
    OBVIOUS
  <2>2. \A x \in S : n - x \in Nat
    BY <2>1
  <2> QED BY <2>2
<1>2. PICK x \in S : Min(R) = n - x
  <2>1. Min(R) \in R
    BY <1>1, LeastIn
  <2> QED BY <2>1
<1>3. \A r \in R : n - x <= r
  BY <1>1, <1>2, LeastIn
<1>4. \A y \in S : n - y \in R
  OBVIOUS
<1> HIDE DEF R
<1>5. \A y \in S : y <= x
  <2> SUFFICES ASSUME NEW y \in S PROVE y <= x
    OBVIOUS
  <2>1. n - x <= n - y
    BY <1>3, <1>4
  <2> QED BY <2>1
<1> QED BY <1>5 DEF Max

LEMMA LeastOfTwo ==
  ASSUME NEW x \in Nat, NEW y \in Nat
  PROVE  Min({x, y}) = IF x <= y THEN x ELSE y
BY DEF Min

LEMMA PairIs ==
  \A h, l, m : h \in Text /\ l \in Text /\ m = h \o l =>
    /\ m \in Text /\ Len(m) = Len(h) + Len(l)
    /\ \A i \in 1..Len(h) + Len(l) : m[i] = IF i <= Len(h) THEN h[i] ELSE l[i - Len(h)]
BY ConcatProperties DEF Text

(* A text joined from three: where each stands.                            *)
Joined(h, l, r) == h \o l \o r

LEMMA JoinIs ==
  \A h, l, r, t :
    h \in Text /\ l \in Text /\ r \in Text /\ t = Joined(h, l, r) =>
      /\ t \in Text /\ Len(t) = Len(h) + Len(l) + Len(r)
      /\ Len(h) \in Nat /\ Len(l) \in Nat /\ Len(r) \in Nat
      /\ \A i \in 1..Len(h) : t[i] = h[i]
      /\ \A i \in 1..Len(l) : t[Len(h) + i] = l[i]
      /\ \A i \in 1..Len(r) : t[Len(h) + Len(l) + i] = r[i]
<1> SUFFICES ASSUME NEW h, NEW l, NEW r, NEW t, h \in Text, l \in Text, r \in Text, t = Joined(h, l, r)
    PROVE  /\ t \in Text /\ Len(t) = Len(h) + Len(l) + Len(r)
           /\ Len(h) \in Nat /\ Len(l) \in Nat /\ Len(r) \in Nat
           /\ \A i \in 1..Len(h) : t[i] = h[i]
           /\ \A i \in 1..Len(l) : t[Len(h) + i] = l[i]
           /\ \A i \in 1..Len(r) : t[Len(h) + Len(l) + i] = r[i]
  OBVIOUS
<1> DEFINE m == h \o l
<1>1. m \in Text /\ Len(m) = Len(h) + Len(l) /\ \A i \in 1..Len(m) : m[i] = IF i <= Len(h) THEN h[i] ELSE l[i - Len(h)]
  BY ConcatProperties DEF Text
<1>0. t = m \o r
  BY DEF Joined
<1> HIDE DEF m
<1>2. t \in Text /\ Len(t) = Len(m) + Len(r) /\ \A i \in 1..Len(t) : t[i] = IF i <= Len(m) THEN m[i] ELSE r[i - Len(m)]
  <2>1. m \in Seq(Letters) /\ r \in Seq(Letters)
    BY <1>1 DEF Text
  <2> QED BY <1>0, <2>1, ConcatProperties DEF Text
<1>3. Len(h) \in Nat /\ Len(l) \in Nat /\ Len(r) \in Nat
  BY LenProperties DEF Text
<1>4. Len(t) = Len(h) + Len(l) + Len(r)
  BY <1>1, <1>2
<1>5. \A i \in 1..Len(h) : t[i] = h[i]
  BY <1>1, <1>2, <1>3
<1>6. ASSUME NEW i \in 1..Len(l) PROVE t[Len(h) + i] = l[i]
  <2>1. Len(h) + i \in 1..Len(m) /\ Len(h) + i \in 1..Len(t) /\ ~(Len(h) + i <= Len(h)) /\ (Len(h) + i) - Len(h) = i
    BY <1>1, <1>2, <1>3
  <2> QED BY <1>1, <1>2, <1>3, <2>1
<1>7. ASSUME NEW i \in 1..Len(r) PROVE t[Len(h) + Len(l) + i] = r[i]
  <2>1. Len(m) + i \in 1..Len(t) /\ ~(Len(m) + i <= Len(m)) /\ (Len(m) + i) - Len(m) = i
    BY <1>1, <1>2, <1>3
  <2>2. t[Len(m) + i] = r[i]
    BY <1>2, <2>1
  <2> QED BY <1>1, <2>2
<1> QED BY <1>2, <1>3, <1>4, <1>5, <1>6, <1>7

LEMMA JoinPartsAre ==
  \A h, l, r, t :
    h \in Text /\ l \in Text /\ r \in Text /\ t = Joined(h, l, r) =>
      /\ SubSeq(t, 1, Len(h)) = h
      /\ SubSeq(t, Len(h) + 1, Len(h) + Len(l)) = l
      /\ SubSeq(t, Len(h) + Len(l) + 1, Len(t)) = r
<1> SUFFICES ASSUME NEW h, NEW l, NEW r, NEW t, h \in Text, l \in Text, r \in Text, t = Joined(h, l, r)
    PROVE  /\ SubSeq(t, 1, Len(h)) = h
           /\ SubSeq(t, Len(h) + 1, Len(h) + Len(l)) = l
           /\ SubSeq(t, Len(h) + Len(l) + 1, Len(t)) = r
  OBVIOUS
<1>1. /\ t \in Text /\ Len(t) = Len(h) + Len(l) + Len(r)
      /\ Len(h) \in Nat /\ Len(l) \in Nat /\ Len(r) \in Nat
      /\ \A i \in 1..Len(h) : t[i] = h[i]
      /\ \A i \in 1..Len(l) : t[Len(h) + i] = l[i]
      /\ \A i \in 1..Len(r) : t[Len(h) + Len(l) + i] = r[i]
  BY JoinIs
<1>8. SubSeq(t, 1, Len(h)) = h
  <2>1. DOMAIN h = 1..Len(h) /\ h = [i \in 1..Len(h) |-> h[i]]
    BY DEF Text
  <2>2. SubSeq(t, 1, Len(h)) = [i \in 1..Len(h) |-> t[i]]
    BY <1>1, SubSeqProperties DEF Text
  <2> QED BY <1>1, <2>1, <2>2
<1>9. SubSeq(t, Len(h) + 1, Len(h) + Len(l)) = l
  <2>1. l = [i \in 1..Len(l) |-> l[i]]
    BY DEF Text
  <2> DEFINE s == SubSeq(t, Len(h) + 1, Len(h) + Len(l))
  <2>2. s \in Text /\ Len(s) = Len(l) /\ \A i \in 1..Len(l) : s[i] = t[Len(h) + i]
    BY <1>1 DEF Text
  <2>3. s = [i \in 1..Len(s) |-> s[i]]
    BY <2>2 DEF Text
  <2> HIDE DEF s
  <2> QED BY <1>1, <2>1, <2>2, <2>3 DEF s
<1>10. SubSeq(t, Len(h) + Len(l) + 1, Len(t)) = r
  <2>1. r = [i \in 1..Len(r) |-> r[i]]
    BY DEF Text
  <2> DEFINE a == Len(h) + Len(l)
             s == SubSeq(t, a + 1, Len(t))
  <2>0. a \in Nat /\ Len(t) = a + Len(r)
    BY <1>1
  <2> HIDE DEF a
  <2>4. s \in Text /\ Len(s) = Len(r) /\ \A i \in 1..Len(r) : s[i] = t[a + i]
    <3>1. t \in Seq(Letters) /\ Len(t) = a + Len(r) /\ Len(r) \in Nat /\ a \in Nat
      BY <1>1, <2>0 DEF Text
    <3>2. s \in Seq(Letters) /\ Len(s) = Len(r)
      BY <3>1
    <3>3. \A i \in 1..Len(r) : s[i] = t[a + i]
      BY <3>1
    <3> QED BY <3>2, <3>3 DEF Text
  <2>2. s \in Text /\ Len(s) = Len(r) /\ \A i \in 1..Len(r) : s[i] = t[Len(h) + Len(l) + i]
    BY <2>4 DEF a
  <2> HIDE DEF s
  <2>3. s = [i \in 1..Len(s) |-> s[i]]
    BY <2>2 DEF Text
  <2> QED BY <1>1, <2>1, <2>2, <2>3 DEF s, a
<1> QED BY <1>8, <1>9, <1>10

LEMMA PlacesOf ==
  ASSUME NEW t \in Text
  PROVE  /\ Len(t) \in Nat /\ DOMAIN t = 1..Len(t)
         /\ \A I \in SUBSET (1..Len(t)) : IsFiniteSet(I) /\ Cardinality(I) \in Nat
<1>1. Len(t) \in Nat /\ DOMAIN t = 1..Len(t)
  BY DEF Text
<1>2. IsFiniteSet(1..Len(t))
  BY <1>1, FS_Interval
<1> QED BY <1>1, <1>2, FS_Subset, FS_CardinalityType

---------------------------------------------------------------------------
(* Where a line starts.                                                    *)

Breaks(c)         == c \in {Newline, Separator}
Cuts(text, i)  == Cardinality({k \in 1..i : text[k] \in {Newline, Separator}})
Starts(text, n, i) == Cuts(text, i) = n /\ (i = 0 \/ Breaks(text[i]))

LEMMA CutsStep ==
  ASSUME NEW text, NEW i \in Nat
  PROVE  /\ Cuts(text, 0) = 0 /\ Cuts(text, i) \in Nat
         /\ Cuts(text, i + 1) = IF Breaks(text[i + 1]) THEN Cuts(text, i) + 1 ELSE Cuts(text, i)
<1> DEFINE C(j) == {k \in 1..j : text[k] \in {Newline, Separator}}
<1>1. ASSUME NEW j \in Nat PROVE IsFiniteSet(C(j)) /\ Cardinality(C(j)) \in Nat
  <2>1. IsFiniteSet(1..j)
    BY FS_Interval
  <2> QED BY <2>1, FS_Subset, FS_CardinalityType
<1>2. C(i + 1) = IF Breaks(text[i + 1]) THEN C(i) \cup {i + 1} ELSE C(i)
  BY DEF Breaks
<1>3. i + 1 \notin C(i)
  OBVIOUS
<1>4. C(0) = {}
  OBVIOUS
<1>5. Cuts(text, 0) = Cardinality(C(0)) /\ Cuts(text, i) = Cardinality(C(i)) /\ Cuts(text, i + 1) = Cardinality(C(i + 1))
  BY DEF Cuts
<1>6. Cardinality(C(0)) = 0
  BY <1>4, FS_EmptySet
<1> HIDE DEF C
<1>7. Cardinality(C(i) \cup {i + 1}) = Cardinality(C(i)) + 1
  BY <1>1, <1>3, FS_AddElement
<1>8. Cardinality(C(i)) \in Nat
  BY <1>1
<1> QED BY <1>2, <1>5, <1>6, <1>7, <1>8

LEMMA CutsGrow ==
  \A text, i, j : i \in Nat /\ j \in Nat /\ i < j =>
    /\ Cuts(text, i) \in Nat /\ Cuts(text, j) \in Nat /\ Cuts(text, i) <= Cuts(text, j)
    /\ Breaks(text[j]) => Cuts(text, i) < Cuts(text, j)
<1> SUFFICES ASSUME NEW text, NEW i, NEW j, i \in Nat, j \in Nat, i < j
             PROVE  /\ Cuts(text, i) \in Nat /\ Cuts(text, j) \in Nat /\ Cuts(text, i) <= Cuts(text, j)
                    /\ Breaks(text[j]) => Cuts(text, i) < Cuts(text, j)
  OBVIOUS
<1> DEFINE C(k) == {m \in 1..k : text[m] \in {Newline, Separator}}
<1>1. ASSUME NEW k \in Nat PROVE IsFiniteSet(C(k)) /\ Cuts(text, k) = Cardinality(C(k)) /\ Cuts(text, k) \in Nat
  <2>1. IsFiniteSet(1..k)
    BY FS_Interval
  <2> QED BY <2>1, FS_Subset, FS_CardinalityType DEF Cuts
<1>2. C(i) \subseteq C(j) /\ j \notin C(i) /\ (Breaks(text[j]) => j \in C(j))
  BY DEF Breaks
<1> HIDE DEF C
<1>3. Cardinality(C(i)) <= Cardinality(C(j)) /\ (Cardinality(C(i)) = Cardinality(C(j)) => C(i) = C(j))
  BY <1>1, <1>2, FS_Subset
<1> QED BY <1>1, <1>2, <1>3

(* A text that has n cuts up to m has a place up to m its n-th line starts. *)
LEMMA StartExists ==
  \A text, n, m : n \in Nat /\ m \in Nat /\ n <= Cuts(text, m) => \E i \in 0..m : Starts(text, n, i)
<1> SUFFICES ASSUME NEW text, NEW n, NEW m, n \in Nat, m \in Nat, n <= Cuts(text, m)
             PROVE  \E i \in 0..m : Starts(text, n, i)
  OBVIOUS
<1> DEFINE S == {i \in 0..m : n <= Cuts(text, i)}
           i == Min(S)
<1>1. S \in SUBSET Nat /\ S # {}
  OBVIOUS
<1>2. i \in S /\ \A j \in S : i <= j
  BY <1>1, LeastIn
<1>3. i \in 0..m /\ n <= Cuts(text, i)
  BY <1>2
<1>4. \A j \in 0..m : j < i => ~(n <= Cuts(text, j))
  BY <1>2, <1>3
<1> HIDE DEF i, S
<1>5. CASE i = 0
  BY <1>3, <1>5, CutsStep DEF Starts
<1>6. CASE i # 0
  <2> DEFINE j == i - 1
  <2>1. j \in Nat /\ j \in 0..m /\ j < i /\ i = j + 1
    BY <1>3, <1>6
  <2> HIDE DEF j
  <2>2. ~(n <= Cuts(text, j))
    BY <1>4, <2>1
  <2>3. Cuts(text, j) \in Nat /\ Cuts(text, j + 1) = IF Breaks(text[j + 1]) THEN Cuts(text, j) + 1 ELSE Cuts(text, j)
    BY <2>1, CutsStep
  <2>4. Breaks(text[i]) /\ Cuts(text, i) = n
    BY <1>3, <2>1, <2>2, <2>3
  <2> QED BY <1>3, <2>4 DEF Starts
<1> QED BY <1>5, <1>6

LEMMA StartIsOne ==
  \A text, n, i, j : i \in Nat /\ j \in Nat /\ Starts(text, n, i) /\ Starts(text, n, j) => i = j
<1> SUFFICES ASSUME NEW text, NEW n, NEW i, NEW j, i \in Nat, j \in Nat, Starts(text, n, i), Starts(text, n, j)
             PROVE  i = j
  OBVIOUS
<1>1. ASSUME i < j PROVE FALSE
  <2>1. Breaks(text[j]) /\ Cuts(text, i) = n /\ Cuts(text, j) = n
    BY <1>1 DEF Starts
  <2> QED BY <1>1, <2>1, CutsGrow
<1>2. ASSUME j < i PROVE FALSE
  <2>1. Breaks(text[i]) /\ Cuts(text, i) = n /\ Cuts(text, j) = n
    BY <1>2 DEF Starts
  <2> QED BY <1>2, <2>1, CutsGrow
<1> QED BY <1>1, <1>2

LEMMA SplitStartIs ==
  \A text, n, m : text \in Text /\ n \in Nat /\ m \in 0..Len(text) /\ n <= Cuts(text, m) =>
    SplitStart(text, n) \in 0..m /\ Starts(text, n, SplitStart(text, n))
<1> SUFFICES ASSUME NEW text, NEW n, NEW m, text \in Text, n \in Nat, m \in 0..Len(text), n <= Cuts(text, m)
             PROVE  SplitStart(text, n) \in 0..m /\ Starts(text, n, SplitStart(text, n))
  OBVIOUS
<1>1. Len(text) \in Nat
  BY PlacesOf
<1>2. PICK i \in 0..m : Starts(text, n, i)
  BY <1>1, StartExists
<1>3. i \in 0..Len(text)
  BY <1>1, <1>2
<1>4. SplitStart(text, n) = CHOOSE k \in 0..Len(text) : Starts(text, n, k)
  BY DEF SplitStart, Starts, Cuts, Breaks
<1>5. SplitStart(text, n) \in 0..Len(text) /\ Starts(text, n, SplitStart(text, n))
  BY <1>2, <1>3, <1>4
<1>6. SplitStart(text, n) = i
  BY <1>1, <1>2, <1>3, <1>5, StartIsOne
<1> QED BY <1>2, <1>5, <1>6

(* A head that two texts share starts its last line in both at one place.  *)
Heading(text, h) == Len(h) \in 0..Len(text) /\ \A i \in 1..Len(h) : text[i] = h[i]

LEMMA LineIs ==
  \A text, h : text \in Text /\ h \in Text /\ Heading(text, h) => Line(h) \in Nat /\ Line(h) <= Cuts(text, Len(h))
<1> SUFFICES ASSUME NEW text, NEW h, text \in Text, h \in Text, Heading(text, h)
             PROVE  Line(h) \in Nat /\ Line(h) <= Cuts(text, Len(h))
  OBVIOUS
<1> DEFINE L == {i \in DOMAIN h : h[i] = Newline}
           C == {k \in 1..Len(h) : text[k] \in {Newline, Separator}}
<1>1. Len(h) \in Nat /\ DOMAIN h = 1..Len(h) /\ IsFiniteSet(C) /\ Cardinality(L) \in Nat
  BY PlacesOf, FS_Interval, FS_Subset
<1>2. L \subseteq C
  BY <1>1 DEF Heading
<1>3. Line(h) = Cardinality(L) /\ Cuts(text, Len(h)) = Cardinality(C)
  BY DEF Line, Cuts
<1> HIDE DEF L, C
<1> QED BY <1>1, <1>2, <1>3, FS_Subset

(* Where a head ends.                                                      *)
LEMMA LineStartIs ==
  \A s : s \in Text =>
    /\ LineStart(s) \in 0..Len(s) /\ (LineStart(s) = 0 \/ s[LineStart(s)] = Newline)
    /\ \A i \in 1..Len(s) : s[i] = Newline => i <= LineStart(s)
<1> SUFFICES ASSUME NEW s, s \in Text
             PROVE  /\ LineStart(s) \in 0..Len(s) /\ (LineStart(s) = 0 \/ s[LineStart(s)] = Newline)
                    /\ \A i \in 1..Len(s) : s[i] = Newline => i <= LineStart(s)
  OBVIOUS
<1> DEFINE S == {0} \cup {i \in DOMAIN s : s[i] = Newline}
<1>1. Len(s) \in Nat /\ DOMAIN s = 1..Len(s)
  BY PlacesOf
<1>2. S \in SUBSET (0..Len(s)) /\ S # {}
  BY <1>1
<1>3. LineStart(s) = Max(S)
  BY DEF LineStart
<1>4. Max(S) \in S /\ \A y \in S : y <= Max(S)
  <2> HIDE DEF S
  <2> QED BY <1>1, <1>2, GreatestIn
<1> QED BY <1>1, <1>2, <1>3, <1>4

LEMMA ColumnIs ==
  \A s : s \in Text => Column(s) \in Nat
<1> SUFFICES ASSUME NEW s, s \in Text PROVE Column(s) \in Nat
  OBVIOUS
<1> DEFINE u == SubSeq(s, LineStart(s) + 1, Len(s))
           W == {i \in DOMAIN u : u[i] = Wide}
<1>1. Len(s) \in Nat /\ LineStart(s) \in 0..Len(s) /\ s \in Seq(Letters)
  BY LineStartIs, PlacesOf DEF Text
<1>2. u \in Text
  BY <1>1 DEF Text
<1>3. Column(s) = Len(u) + Cardinality(W)
  BY DEF Column, Bytes
<1> HIDE DEF u
<1>4. Len(u) \in Nat /\ Cardinality(W) \in Nat
  BY <1>2, PlacesOf
<1> QED BY <1>3, <1>4

---------------------------------------------------------------------------
(* Where a splice lands.                                                   *)

LEMMA OffsetIs ==
  \A text, h : text \in Text /\ h \in Text /\ Heading(text, h) =>
    /\ Offset(text, h) \in 0..Len(text)
    /\ SplitStart(text, Line(h)) + Column(h) \in Nat
    /\ Offset(text, h) = IF SplitStart(text, Line(h)) + Column(h) <= Len(text)
                         THEN SplitStart(text, Line(h)) + Column(h) ELSE Len(text)
<1> SUFFICES ASSUME NEW text, NEW h, text \in Text, h \in Text, Heading(text, h)
             PROVE  /\ Offset(text, h) \in 0..Len(text)
                    /\ SplitStart(text, Line(h)) + Column(h) \in Nat
                    /\ Offset(text, h) = IF SplitStart(text, Line(h)) + Column(h) <= Len(text)
                                         THEN SplitStart(text, Line(h)) + Column(h) ELSE Len(text)
  OBVIOUS
<1>1. SplitStart(text, Line(h)) \in 0..Len(h)
  <2>1. Line(h) \in Nat /\ Line(h) <= Cuts(text, Len(h)) /\ Len(h) \in 0..Len(text)
    BY LineIs DEF Heading
  <2> QED BY <2>1, SplitStartIs
<1>2. Column(h) \in Nat /\ Len(text) \in Nat /\ Len(h) \in Nat
  BY ColumnIs, PlacesOf
<1> DEFINE x == SplitStart(text, Line(h)) + Column(h)
<1>3. x \in Nat /\ Offset(text, h) = Min({x, Len(text)})
  BY <1>1, <1>2 DEF Offset
<1> HIDE DEF x
<1>4. Offset(text, h) = IF x <= Len(text) THEN x ELSE Len(text)
  BY <1>2, <1>3, LeastOfTwo
<1> QED BY <1>2, <1>3, <1>4 DEF x

(* Where bytes are characters and lines lines, ast's position is the end.  *)
LEMMA PlainEnds ==
  \A text, s : text \in Text /\ s \in Text /\ Heading(text, s) /\ Plain(s) => Offset(text, s) = Len(s)
<1> SUFFICES ASSUME NEW text, NEW s, text \in Text, s \in Text, Heading(text, s), Plain(s)
             PROVE  Offset(text, s) = Len(s)
  OBVIOUS
<1> DEFINE L == LineStart(s)
<1>1. /\ Len(s) \in Nat /\ DOMAIN s = 1..Len(s) /\ Len(s) \in 0..Len(text)
      /\ \A i \in 1..Len(s) : text[i] = s[i]
  BY PlacesOf DEF Heading
<1>2. /\ L \in 0..Len(s) /\ (L = 0 \/ s[L] = Newline)
      /\ \A i \in 1..Len(s) : s[i] = Newline => i <= L
  BY LineStartIs
<1>3. \A i \in 1..Len(s) : s[i] # Separator /\ (s[i] = Wide => i <= L)
  BY <1>1 DEF Plain
<1>4. Line(s) \in Nat /\ Line(s) <= Cuts(text, Len(s))
  BY LineIs
<1> HIDE DEF L
<1>5. {k \in 1..L : text[k] \in {Newline, Separator}} = {i \in DOMAIN s : s[i] = Newline}
  BY <1>1, <1>2, <1>3
<1>6. Starts(text, Line(s), L)
  <2>1. Cuts(text, L) = Line(s)
    BY <1>5 DEF Cuts, Line
  <2>2. L # 0 => text[L] = Newline
    BY <1>1, <1>2
  <2> QED BY <2>1, <2>2 DEF Starts, Breaks
<1>7. SplitStart(text, Line(s)) = L
  <2>1. SplitStart(text, Line(s)) \in 0..Len(s) /\ Starts(text, Line(s), SplitStart(text, Line(s)))
    BY <1>1, <1>4, SplitStartIs
  <2>2. SplitStart(text, Line(s)) \in Nat /\ L \in Nat
    BY <1>1, <1>2, <2>1
  <2> QED BY <1>6, <2>1, <2>2, StartIsOne
<1>8. Column(s) = Len(s) - L
  <2> DEFINE u == SubSeq(s, L + 1, Len(s))
  <2>1. u \in Seq(Letters) /\ Len(u) = Len(s) - L /\ \A i \in 1..Len(s) - L : u[i] = s[L + i]
    <3>1. s \in Seq(Letters)
      BY DEF Text
    <3> QED BY <1>1, <1>2, <3>1
  <2> HIDE DEF u
  <2>2. DOMAIN u = 1..Len(s) - L
    BY <1>1, <1>2, <2>1
  <2>3. {i \in DOMAIN u : u[i] = Wide} = {}
    BY <1>1, <1>2, <1>3, <2>1, <2>2
  <2>4. Column(s) = Len(u) + Cardinality({i \in DOMAIN u : u[i] = Wide})
    BY DEF Column, Bytes, u, L
  <2>5. Cardinality({i \in DOMAIN u : u[i] = Wide}) = 0
    BY <2>3, FS_EmptySet
  <2> QED BY <1>1, <1>2, <2>1, <2>4, <2>5
<1>9. SplitStart(text, Line(s)) + Column(s) = Len(s)
  BY <1>1, <1>2, <1>7, <1>8
<1> QED BY <1>1, <1>9, OffsetIs

(* The parts of a file, and where they stand in its text.                  *)
LEMMA PartsStand ==
  \A h, l, r, t : h \in Text /\ l \in Text /\ r \in Text /\ t = Joined(h, l, r) =>
    /\ t \in Text /\ h \o l \in Text /\ Len(h \o l) = Len(h) + Len(l)
    /\ Heading(t, h) /\ Heading(t, h \o l)
<1> SUFFICES ASSUME NEW h, NEW l, NEW r, NEW t, h \in Text, l \in Text, r \in Text, t = Joined(h, l, r)
             PROVE  /\ t \in Text /\ h \o l \in Text /\ Len(h \o l) = Len(h) + Len(l)
                    /\ Heading(t, h) /\ Heading(t, h \o l)
  OBVIOUS
<1> DEFINE m == h \o l
<1>1. /\ t \in Text /\ Len(t) = Len(h) + Len(l) + Len(r)
      /\ Len(h) \in Nat /\ Len(l) \in Nat /\ Len(r) \in Nat
  BY JoinIs
<1>2. (\A i \in 1..Len(h) : t[i] = h[i]) /\ (\A i \in 1..Len(l) : t[Len(h) + i] = l[i])
  BY JoinIs
<1>3. /\ m \in Text /\ Len(m) = Len(h) + Len(l)
      /\ \A i \in 1..Len(h) + Len(l) : m[i] = IF i <= Len(h) THEN h[i] ELSE l[i - Len(h)]
  BY PairIs
<1> HIDE DEF m
<1>4. ASSUME NEW i \in 1..Len(m) PROVE t[i] = m[i]
  <2>1. CASE i <= Len(h)
    BY <1>1, <1>2, <1>3, <2>1
  <2>2. CASE ~(i <= Len(h))
    <3> PICK k : k = i - Len(h)
      OBVIOUS
    <3>1. k \in 1..Len(l) /\ i = Len(h) + k
      BY <1>1, <1>3, <2>2
    <3>2. m[i] = l[k]
      BY <1>1, <1>3, <2>2
    <3> QED BY <1>2, <3>1, <3>2
  <2> QED BY <2>1, <2>2
<1>5. Len(h) \in 0..Len(t) /\ Len(m) \in 0..Len(t)
  BY <1>1, <1>3
<1> QED BY <1>1, <1>2, <1>3, <1>4, <1>5 DEF Heading, m

File(f) == \E h, l, r, e : h \in Text /\ l \in Text /\ r \in Text /\ f = Written(h, l, r, e)

LEMMA PromptIsText == NewPrompt \in Text
BY SourceAssumption DEF SourceAssumption, Text, Letters

(* Whatever is counted, a splice of a text is a text.                      *)
LEMMA SpliceIsText == \A f : File(f) => Spliced(f) \in Text
<1> SUFFICES ASSUME NEW f, File(f) PROVE Spliced(f) \in Text
  OBVIOUS
<1>1. PICK h, l, r, e : h \in Text /\ l \in Text /\ r \in Text /\ f = Written(h, l, r, e)
  BY DEF File
<1> PICK t : t = Joined(h, l, r)
  OBVIOUS
<1>2. f.head = h /\ f.literal = l /\ f.text = t
  BY <1>1 DEF Written, Joined
<1>3. t \in Text /\ h \o l \in Text /\ Heading(t, h) /\ Heading(t, h \o l)
  BY <1>1, PartsStand
<1>4. Offset(t, h) \in 0..Len(t) /\ Offset(t, h \o l) \in 0..Len(t) /\ Len(t) \in Nat
  BY <1>1, <1>3, OffsetIs, PlacesOf
<1> PICK from, to : from = Offset(t, h) /\ to = Offset(t, h \o l)
  OBVIOUS
<1>5. t \in Seq(Letters) /\ from \in 0..Len(t) /\ to \in 0..Len(t) /\ Len(t) \in Nat
  BY <1>3, <1>4 DEF Text
<1>6. SubSeq(t, 1, from) \in Seq(Letters) /\ SubSeq(t, to + 1, Len(t)) \in Seq(Letters)
  BY <1>5
<1>7. Spliced(f) = SubSeq(t, 1, from) \o NewPrompt \o SubSeq(t, to + 1, Len(t))
  BY <1>2 DEF Spliced
<1>8. SubSeq(t, 1, from) \o NewPrompt \in Seq(Letters)
  BY <1>6, PromptIsText, ConcatProperties DEF Text
<1> QED BY <1>6, <1>7, <1>8, ConcatProperties DEF Text

(* Where the positions agree, the prompt stands in the literal's place.    *)
LEMMA SpliceLands == \A f : File(f) /\ Aligned(f) => Spliced(f) = f.head \o NewPrompt \o f.rest
<1> SUFFICES ASSUME NEW f, File(f), Aligned(f) PROVE Spliced(f) = f.head \o NewPrompt \o f.rest
  OBVIOUS
<1>1. PICK h, l, r, e : h \in Text /\ l \in Text /\ r \in Text /\ f = Written(h, l, r, e)
  BY DEF File
<1> PICK t : t = Joined(h, l, r)
  OBVIOUS
<1>2. f.head = h /\ f.literal = l /\ f.rest = r /\ f.text = t
  BY <1>1 DEF Written, Joined
<1>3. t \in Text /\ h \o l \in Text /\ Len(h \o l) = Len(h) + Len(l) /\ Heading(t, h) /\ Heading(t, h \o l)
  BY <1>1, PartsStand
<1>4. Offset(t, h) = Len(h) /\ Offset(t, h \o l) = Len(h) + Len(l)
  <2>1. Plain(h) /\ Plain(h \o l)
    BY <1>2 DEF Aligned
  <2> QED BY <1>1, <1>3, <2>1, PlainEnds
<1>5. SubSeq(t, 1, Len(h)) = h /\ SubSeq(t, Len(h) + Len(l) + 1, Len(t)) = r
  BY <1>1, JoinPartsAre
<1>6. Spliced(f) = SubSeq(t, 1, Len(h)) \o NewPrompt \o SubSeq(t, Len(h) + Len(l) + 1, Len(t))
  BY <1>2, <1>4 DEF Spliced
<1> QED BY <1>2, <1>5, <1>6

(* Parts that hold a text's characters in their order make up the text.    *)
LEMMA JoinBack ==
  \A t, h, l, r, u :
    u = Joined(h, l, r) /\ t \in Text /\ h \in Text /\ l \in Text /\ r \in Text
      /\ Len(t) = Len(h) + Len(l) + Len(r)
      /\ (\A k \in 1..Len(h) : t[k] = h[k]) /\ (\A k \in 1..Len(l) : t[Len(h) + k] = l[k])
      /\ (\A k \in 1..Len(r) : t[Len(h) + Len(l) + k] = r[k])
    => u = t
<1> SUFFICES ASSUME NEW t, NEW h, NEW l, NEW r, NEW u, u = Joined(h, l, r), t \in Text, h \in Text, l \in Text, r \in Text,
                    Len(t) = Len(h) + Len(l) + Len(r), \A k \in 1..Len(h) : t[k] = h[k],
                    \A k \in 1..Len(l) : t[Len(h) + k] = l[k],
                    \A k \in 1..Len(r) : t[Len(h) + Len(l) + k] = r[k]
             PROVE  u = t
  OBVIOUS
<1>1. /\ u \in Text /\ Len(u) = Len(t) /\ Len(h) \in Nat /\ Len(l) \in Nat /\ Len(r) \in Nat
  BY JoinIs
<1>2. \A k \in 1..Len(h) : u[k] = h[k]
  BY JoinIs
<1>3. \A k \in 1..Len(l) : u[Len(h) + k] = l[k]
  BY JoinIs
<1>4. \A k \in 1..Len(r) : u[Len(h) + Len(l) + k] = r[k]
  BY JoinIs
<1>5. ASSUME NEW k \in 1..Len(t) PROVE u[k] = t[k]
  <2>1. CASE k <= Len(h)
    BY <1>1, <1>2, <2>1
  <2>2. CASE k > Len(h) /\ k <= Len(h) + Len(l)
    <3> PICK x : x = k - Len(h)
      OBVIOUS
    <3>1. x \in 1..Len(l) /\ k = Len(h) + x
      BY <1>1, <2>2
    <3> QED BY <1>3, <3>1
  <2>3. CASE k > Len(h) + Len(l)
    <3> PICK x : x = k - (Len(h) + Len(l))
      OBVIOUS
    <3>1. x \in 1..Len(r) /\ k = Len(h) + Len(l) + x
      BY <1>1, <2>3
    <3> QED BY <1>4, <3>1
  <2> QED BY <1>1, <2>1, <2>2, <2>3
<1>6. u = [k \in 1..Len(u) |-> u[k]]
  BY <1>1 DEF Text
<1>7. t = [k \in 1..Len(t) |-> t[k]]
  BY DEF Text
<1> QED BY <1>1, <1>5, <1>6, <1>7

(* However ast reads a text, it is that text.                              *)
LEMMA ReadingIs == \A t, f : t \in Text /\ f \in Readings(t) => File(f) /\ f.text = t
<1> SUFFICES ASSUME NEW t, NEW f, t \in Text, f \in Readings(t) PROVE File(f) /\ f.text = t
  OBVIOUS
<1>1. Len(t) \in Nat /\ DOMAIN t = 1..Len(t) /\ t \in Seq(Letters)
  BY PlacesOf DEF Text
<1>2. PICK i \in 1..Len(t), j \in 1..Len(t) :
        i < j /\ f = Written(SubSeq(t, 1, i - 1), SubSeq(t, i, j), SubSeq(t, j + 1, Len(t)), "lf")
  <2> DEFINE Q == {k \in DOMAIN t : t[k] = Quote}
  <2>1. PICK p \in Q \X Q :
          p[1] < p[2] /\ f = Written(SubSeq(t, 1, p[1] - 1), SubSeq(t, p[1], p[2]), SubSeq(t, p[2] + 1, Len(t)), "lf")
    BY DEF Readings
  <2>2. p[1] \in 1..Len(t) /\ p[2] \in 1..Len(t)
    BY <1>1, <2>1
  <2> QED BY <2>1, <2>2
<1> DEFINE h == SubSeq(t, 1, i - 1)
           l == SubSeq(t, i, j)
           r == SubSeq(t, j + 1, Len(t))
<1>3. h \in Text /\ Len(h) = i - 1 /\ \A k \in 1..Len(h) : t[k] = h[k]
  BY <1>1, <1>2 DEF Text
<1>4. l \in Text /\ Len(l) = j - (i - 1) /\ \A k \in 1..Len(l) : t[Len(h) + k] = l[k]
  <2>1. l \in Seq(Letters) /\ Len(l) = j - (i - 1) /\ \A k \in 1..Len(l) : l[k] = t[(i - 1) + k]
    BY <1>1, <1>2
  <2> QED BY <1>3, <2>1 DEF Text
<1>5. r \in Text /\ Len(r) = Len(t) - j /\ \A k \in 1..Len(r) : t[j + k] = r[k]
  <2> PICK n : n = Len(t)
    OBVIOUS
  <2>1. n \in Nat /\ j \in 1..n /\ t \in Seq(Letters) /\ n = Len(t)
    BY <1>1
  <2>2. r \in Seq(Letters) /\ Len(r) = n - j /\ \A k \in 1..n - j : r[k] = t[j + k]
    BY <2>1
  <2> QED BY <2>1, <2>2 DEF Text
<1> HIDE DEF h, l, r
<1>6. Len(h) + Len(l) = j /\ Len(h) + Len(l) + Len(r) = Len(t)
  BY <1>1, <1>2, <1>3, <1>4, <1>5
<1>7. Joined(h, l, r) = t
  <2>1. \A k \in 1..Len(r) : t[Len(h) + Len(l) + k] = r[k]
    BY <1>5, <1>6
  <2>2. /\ Joined(h, l, r) = Joined(h, l, r) /\ h \in Text /\ l \in Text /\ r \in Text
        /\ Len(t) = Len(h) + Len(l) + Len(r)
        /\ (\A k \in 1..Len(h) : t[k] = h[k]) /\ (\A k \in 1..Len(l) : t[Len(h) + k] = l[k])
    BY <1>3, <1>4, <1>5, <1>6
  <2> QED BY <2>1, <2>2, JoinBack
<1>8. f = Written(h, l, r, "lf")
  BY <1>2 DEF h, l, r
<1>9. f.text = t
  BY <1>7, <1>8 DEF Written, Joined
<1> QED BY <1>3, <1>4, <1>5, <1>8, <1>9 DEF File

---------------------------------------------------------------------------
(* The command: what it reads, what it is about to write, what it wrote.   *)

SpliceInv ==
  /\ DOMAIN splice = {"at", "call", "read", "text", "applied", "edited"}
  /\ File(source) /\ Parsable(source.text)
  /\ splice.at \in {"read", "write", "applied"} => File(splice.read)
  /\ splice.at \in {"write", "applied"} => splice.text = Spliced(splice.read)
  /\ splice.at = "write" => Parsable(splice.text)

LEMMA FilesAre ==
  \A e : \A h \in Heads, l \in Literals, r \in Rests :
    File(Written(h, l, r, e)) /\ Parsable(Written(h, l, r, e).text)
<1> SUFFICES ASSUME NEW e, NEW h \in Heads, NEW l \in Literals, NEW r \in Rests
             PROVE  File(Written(h, l, r, e)) /\ Parsable(Written(h, l, r, e).text)
  OBVIOUS
<1>1. h \in Text /\ l \in Text /\ r \in Text
  BY SourceAssumption DEF SourceAssumption, Text, Letters
<1>2. Parsable(h \o l \o r)
  BY SourceAssumption DEF SourceAssumption
<1>3. Written(h, l, r, e).text = h \o l \o r
  BY DEF Written
<1> QED BY <1>1, <1>2, <1>3 DEF File

LEMMA FilesStartSound ==
  ASSUME SourceInit
  PROVE  SpliceInv
<1>1. PICK h \in Heads, l \in Literals, r \in Rests, e \in Endings :
        /\ source = Written(h, l, r, e)
        /\ splice = [at |-> "idle", call |-> "none", read |-> Written(h, l, r, e), text |-> <<>>,
                     applied |-> 0, edited |-> 0]
  BY DEF SourceInit
<1>2. File(source) /\ Parsable(source.text)
  BY <1>1, FilesAre
<1>3. DOMAIN splice = {"at", "call", "read", "text", "applied", "edited"} /\ splice.at = "idle"
  BY <1>1
<1> QED BY <1>2, <1>3 DEF SpliceInv

LEMMA ReadSourceKeeps ==
  ASSUME SpliceInv, ReadSource
  PROVE  SpliceInv'
<1>1. PICK c \in Calls : splice' = [splice EXCEPT !.at = "read", !.call = c, !.read = [source EXCEPT !.ending = "lf"], !.applied = @ + 1]
  BY DEF ReadSource
<1>2. source' = source
  BY DEF ReadSource
<1>3. DOMAIN splice' = DOMAIN splice /\ splice'.at = "read" /\ splice'.read = [source EXCEPT !.ending = "lf"]
  BY <1>1 DEF SpliceInv
<1>4. PICK h, l, r, e : h \in Text /\ l \in Text /\ r \in Text /\ source = Written(h, l, r, e)
  BY DEF SpliceInv, File
<1>5. [source EXCEPT !.ending = "lf"] = Written(h, l, r, "lf")
  <2> PICK x : x = h \o l \o r
    OBVIOUS
  <2>1. source = [head |-> h, literal |-> l, rest |-> r, text |-> x, ending |-> e]
    BY <1>4 DEF Written
  <2>2. Written(h, l, r, "lf") = [head |-> h, literal |-> l, rest |-> r, text |-> x, ending |-> "lf"]
    BY DEF Written
  <2> QED BY <2>1, <2>2
<1>6. File(splice'.read)
  BY <1>3, <1>4, <1>5 DEF File
<1> QED BY <1>2, <1>3, <1>6 DEF SpliceInv, File

LEMMA SpliceTextKeeps ==
  ASSUME SpliceInv, SpliceText
  PROVE  SpliceInv'
<1>1. splice.at = "read" /\ source' = source /\ File(splice.read)
  BY DEF SpliceText, SpliceInv
<1>2. CASE Parses(Spliced(splice.read))
  <2>1. splice' = [splice EXCEPT !.at = "write", !.text = Spliced(splice.read)]
    BY <1>2 DEF SpliceText
  <2>2. /\ DOMAIN splice' = DOMAIN splice /\ splice'.at = "write"
        /\ splice'.text = Spliced(splice.read) /\ splice'.read = splice.read
    BY <2>1 DEF SpliceInv
  <2>3. Parsable(splice'.text) /\ splice'.text = Spliced(splice'.read)
    BY <1>2, <2>2 DEF Parses
  <2> QED BY <1>1, <2>2, <2>3 DEF SpliceInv, File
<1>3. CASE ~Parses(Spliced(splice.read))
  <2>1. splice' = [splice EXCEPT !.at = "refused"]
    BY <1>3 DEF SpliceText
  <2>2. DOMAIN splice' = DOMAIN splice /\ splice'.at = "refused"
    BY <2>1 DEF SpliceInv
  <2> QED BY <1>1, <2>2 DEF SpliceInv, File
<1> QED BY <1>2, <1>3

LEMMA WriteSourceKeeps ==
  ASSUME SpliceInv, WriteSource
  PROVE  SpliceInv'
<1>1. /\ splice.at = "write" /\ source' \in Reparsed(splice.read, splice.text)
      /\ splice' = [splice EXCEPT !.at = "applied"]
  BY DEF WriteSource
<1>2. /\ DOMAIN splice' = DOMAIN splice /\ splice'.at = "applied"
      /\ splice'.read = splice.read /\ splice'.text = splice.text
  BY <1>1 DEF SpliceInv
<1>3. File(splice.read) /\ splice.text = Spliced(splice.read) /\ Parsable(splice.text)
  BY <1>1 DEF SpliceInv
<1>4. PICK h, l, r, e : h \in Text /\ l \in Text /\ r \in Text /\ splice.read = Written(h, l, r, e)
  BY <1>3 DEF File
<1> PICK landed : landed = Written(h, NewPrompt, r, "lf")
  OBVIOUS
<1>5. splice.read.head = h /\ splice.read.rest = r
  BY <1>4 DEF Written
<1>6. (source' = landed /\ landed.text = splice.text) \/ source' \in Readings(splice.text)
  BY <1>1, <1>5 DEF Reparsed
<1>7. File(source') /\ source'.text = splice.text
  <2>1. CASE source' = landed /\ landed.text = splice.text
    BY <1>4, <2>1, PromptIsText DEF File
  <2>2. CASE source' \in Readings(splice.text)
    BY <1>3, <2>2, SpliceIsText, ReadingIs
  <2> QED BY <1>6, <2>1, <2>2
<1>8. File(source)'
  BY <1>7 DEF File
<1> QED BY <1>2, <1>3, <1>7, <1>8 DEF SpliceInv, File

LEMMA EditKeeps ==
  ASSUME SpliceInv, Edit
  PROVE  SpliceInv'
<1>1. PICK h \in Heads, l \in Literals, r \in Rests : source' = Written(h, l, r, source.ending)
  BY DEF Edit
<1>2. splice' = [splice EXCEPT !.edited = @ + 1]
  BY DEF Edit
<1>3. /\ DOMAIN splice' = DOMAIN splice
      /\ splice'.at = splice.at /\ splice'.read = splice.read /\ splice'.text = splice.text
  BY <1>2 DEF SpliceInv
<1>4. File(source') /\ Parsable(source'.text)
  BY <1>1, FilesAre
<1> QED BY <1>3, <1>4 DEF SpliceInv, File

LEMMA OthersKeep ==
  ASSUME SpliceInv, Refuse \/ EndCommand
  PROVE  SpliceInv'
<1>1. source' = source
  BY DEF Refuse, EndCommand
<1>2. DOMAIN splice' = DOMAIN splice /\ splice'.at \in {"refused", "idle"}
  BY DEF Refuse, EndCommand, SpliceInv
<1> QED BY <1>1, <1>2 DEF SpliceInv, File

(* Whatever ast accepts, whatever stands before, in and after the literal,  *)
(* and whoever edits the file meanwhile: the file parses after every        *)
(* command; where bytes are characters and lines splitlines' lines up to    *)
(* the literal's end, the prompt stands exactly in its place; and where the *)
(* prompt is such a literal too, applying it again changes nothing.         *)
THEOREM PromptsLand == SourceInit /\ [][SourceNext]_sources => []PromptLands
<1>1. SourceInit => SpliceInv
  BY FilesStartSound
<1>2. SpliceInv /\ [SourceNext]_sources => SpliceInv'
  <2> SUFFICES ASSUME SpliceInv, [SourceNext]_sources PROVE SpliceInv'
    OBVIOUS
  <2>1. CASE ReadSource
    BY <2>1, ReadSourceKeeps
  <2>2. CASE Refuse \/ EndCommand
    BY <2>2, OthersKeep
  <2>3. CASE SpliceText
    BY <2>3, SpliceTextKeeps
  <2>4. CASE WriteSource
    BY <2>4, WriteSourceKeeps
  <2>5. CASE Edit
    BY <2>5, EditKeeps
  <2>6. CASE UNCHANGED sources
    BY <2>6 DEF sources, SpliceInv, File
  <2> QED BY <2>1, <2>2, <2>3, <2>4, <2>5, <2>6 DEF SourceNext
<1>3. SpliceInv => PromptLands
  <2> SUFFICES ASSUME SpliceInv PROVE PromptLands
    OBVIOUS
  <2>1. Parsable(source.text)
    BY DEF SpliceInv
  <2>2. ASSUME splice.at \in {"write", "applied"}, Aligned(splice.read)
        PROVE  LET landed == Written(splice.read.head, NewPrompt, splice.read.rest, "lf") IN
               splice.text = landed.text /\ (Aligned(landed) => Spliced(landed) = landed.text)
    <3>1. File(splice.read) /\ splice.text = Spliced(splice.read)
      BY <2>2 DEF SpliceInv
    <3>2. PICK h, l, r, e : h \in Text /\ l \in Text /\ r \in Text /\ splice.read = Written(h, l, r, e)
      BY <3>1 DEF File
    <3>3. splice.read.head = h /\ splice.read.rest = r
      BY <3>2 DEF Written
    <3> PICK landed : landed = Written(h, NewPrompt, r, "lf")
      OBVIOUS
    <3>4. File(landed)
      BY <3>2, PromptIsText DEF File
    <3>5. landed.head = h /\ landed.rest = r /\ landed.text = h \o NewPrompt \o r
      BY DEF Written
    <3>6. splice.text = landed.text
      BY <2>2, <3>1, <3>3, <3>5, SpliceLands
    <3>7. Aligned(landed) => Spliced(landed) = landed.text
      BY <3>4, <3>5, SpliceLands
    <3> QED BY <3>3, <3>6, <3>7
  <2> QED BY <2>1, <2>2 DEF PromptLands
<1> QED BY <1>1, <1>2, <1>3, PTL
=============================================================================
