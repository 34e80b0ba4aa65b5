------------------------ MODULE PromptAndProbe_proofs ------------------------
(***************************************************************************)
(* ProbeCache: only real probes are ever persisted, for any number of      *)
(* callers, keys, pool threads, failing writes and crashes.                *)
(* PromptContext: what is cached of a prompt and what is measured of runs, *)
(* for any blocks and any order of registering, recording and deleting.    *)
(***************************************************************************)
EXTENDS ProbeCache, PromptContext, Arrangement_proofs, FiniteSetTheorems, SequenceTheorems,
        WellFoundedInduction, TLAPS

(* Probe dictionaries without a fallback: what may be on its way to disk. *)
RealDicts == [Keys -> {"real", "none"}]

(* The marks are exact, and snapshots and the file hold no fallback. *)
IInv ==
  /\ cache \in Probes
  /\ fallbacks \subseteq Keys
  /\ MarksExact
  /\ snapshot \in [Callers -> RealDicts]
  /\ disk \in [probes : RealDicts, valid : BOOLEAN]

LEMMA InitInv == Init => IInv
BY DEF Init, Idle, IInv, Probes, NoProbes, Texts, MarksExact, RealDicts, Garbage

(* The load only brings real probes into the cache, and it marks nothing: *)
(* a key it brings in must not be marked, which holds because nothing is  *)
(* cached before the first load.                                          *)
Fresh == ~loaded => cache = NoProbes

LEMMA InitFresh == Init => Fresh
BY DEF Init, Fresh

LEMMA LoadInv ==
  ASSUME IInv, Fresh, Load, UNCHANGED <<snapshot, disk>> PROVE IInv'
<1>1. cache' \in Probes
  BY DEF IInv, Load, Probes, Texts, RealDicts
<1>2. MarksExact'
  <2>1. CASE loaded \/ ~disk.valid
    <3>1. cache' = cache
      BY <2>1 DEF Load
    <3>. QED BY <3>1 DEF IInv, Load, MarksExact
  <2>2. CASE ~loaded /\ disk.valid
    <3>1. \A k \in Keys : cache[k] = "none" /\ k \notin fallbacks
      BY <2>2 DEF Fresh, NoProbes, IInv, MarksExact
    <3>2. \A k \in Keys : cache'[k] \in {"real", "none"}
      BY <2>2, <3>1 DEF Load, IInv, RealDicts
    <3>. QED BY <3>1, <3>2 DEF MarksExact, Load
  <2>. QED BY <2>1, <2>2
<1>. QED BY <1>1, <1>2 DEF IInv, Load

LEMMA InsertInv ==
  ASSUME IInv, NEW k \in Keys, NEW text \in Texts, Insert(k, text),
         UNCHANGED <<snapshot, disk>>
  PROVE  IInv'
<1>1. cache' \in Probes /\ fallbacks' \subseteq Keys
  BY DEF IInv, Insert, Probes
<1>2. MarksExact'
  BY DEF IInv, Insert, MarksExact, Probes, Texts
<1>. QED BY <1>1, <1>2 DEF IInv

LEMMA QuietInv ==
  ASSUME IInv, UNCHANGED <<cache, fallbacks, snapshot, disk>> PROVE IInv'
BY DEF IInv, MarksExact

LEMMA SaveInv ==
  ASSUME IInv, NEW c \in Callers,
         TakeSnapshot(c) \/ Truncate(c) \/ Write(c) \/ PrewarmReturns(c)
  PROVE  IInv'
<1>1. NoProbes \in RealDicts /\ Garbage \in [probes : RealDicts, valid : BOOLEAN]
  BY DEF NoProbes, RealDicts, Garbage
<1>2. CASE TakeSnapshot(c)
  <2>1. RealProbes \in RealDicts
    BY DEF RealProbes, RealDicts, IsReal, IInv, MarksExact, Probes, Texts
  <2>. QED BY <1>2, <2>1 DEF TakeSnapshot, IInv, MarksExact
<1>3. CASE Truncate(c)
  BY <1>1, <1>3 DEF Truncate, IInv, MarksExact
<1>4. CASE Write(c)
  <2>1. File(snapshot[c]) \in [probes : RealDicts, valid : BOOLEAN]
    BY DEF IInv, File
  <2>. QED BY <1>1, <1>4, <2>1 DEF Write, IInv, MarksExact
<1>5. CASE PrewarmReturns(c)
  BY <1>1, <1>5 DEF PrewarmReturns, IInv, MarksExact
<1>. QED BY <1>2, <1>3, <1>4, <1>5

LEMMA CrashInv == ASSUME IInv, Crash PROVE IInv'
BY DEF IInv, Crash, Probes, NoProbes, Texts, MarksExact, RealDicts

LEMMA NextInv == ASSUME IInv, Fresh, [Next]_vars PROVE IInv'
<1>1. ASSUME NEW c \in Callers, Get(c) PROVE IInv'
  BY <1>1, LoadInv DEF Get
<1>2. ASSUME NEW c \in Callers, Prewarm(c) PROVE IInv'
  BY <1>2, LoadInv DEF Prewarm
<1>3. ASSUME NEW c \in Callers, NEW k \in Keys, Synthesized(c, k) PROVE IInv'
  <2>1. CASE \E text \in Texts : Insert(k, text)
    BY <1>3, <2>1, InsertInv DEF Synthesized
  <2>2. CASE UNCHANGED <<cache, fallbacks>>
    BY <1>3, <2>2, QuietInv DEF Synthesized
  <2>. QED BY <1>3, <2>1, <2>2 DEF Synthesized
<1>4. ASSUME NEW c \in Callers, NEW k \in Keys, Lookup(c, k) PROVE IInv'
  BY <1>4, QuietInv DEF Lookup
<1>5. ASSUME NEW c \in Callers, GetReturns(c) \/ Missing(c) \/ PoolEnds(c)
      PROVE  IInv'
  BY <1>5, QuietInv DEF GetReturns, Missing, PoolEnds
<1>6. CASE UNCHANGED vars
  BY <1>6, QuietInv DEF vars
<1>. QED BY <1>1, <1>2, <1>3, <1>4, <1>5, <1>6, SaveInv, CrashInv DEF Next, Step

(* The first get or prewarm loads, so nothing is cached before the load.   *)
Loading == ~loaded => \A c \in Callers : pc[c] = "idle"
ShapeOf == pc \in [Callers -> Control]

LEMMA FreshStep ==
  ASSUME Fresh, Loading, ShapeOf, [Next]_vars
  PROVE  Fresh' /\ Loading' /\ ShapeOf'
<1>1. ASSUME NEW c \in Callers, Get(c)
      PROVE  Fresh' /\ Loading' /\ ShapeOf'
  BY <1>1 DEF Get, Load, Fresh, Loading, ShapeOf, Control
<1>2. ASSUME NEW c \in Callers, Prewarm(c)
      PROVE  Fresh' /\ Loading' /\ ShapeOf'
  BY <1>2 DEF Prewarm, Load, Fresh, Loading, ShapeOf, Control
<1>3. ASSUME NEW c \in Callers, NEW k \in Keys, Lookup(c, k)
      PROVE  Fresh' /\ Loading' /\ ShapeOf'
  BY <1>3 DEF Lookup, SetTask, Fresh, Loading, ShapeOf
<1>4. ASSUME NEW c \in Callers, NEW k \in Keys, Synthesized(c, k)
      PROVE  Fresh' /\ Loading' /\ ShapeOf'
  BY <1>4 DEF Synthesized, SetTask, Fresh, Loading, ShapeOf
<1>5. ASSUME NEW c \in Callers, GetReturns(c) \/ Missing(c) \/ PoolEnds(c)
      PROVE  Fresh' /\ Loading' /\ ShapeOf'
  BY <1>5 DEF GetReturns, Missing, PoolEnds, Fresh, Loading, ShapeOf, Control
<1>6. ASSUME NEW c \in Callers,
             TakeSnapshot(c) \/ Truncate(c) \/ Write(c) \/ PrewarmReturns(c)
      PROVE  Fresh' /\ Loading' /\ ShapeOf'
  BY <1>6 DEF TakeSnapshot, Truncate, Write, PrewarmReturns, Fresh, Loading,
     ShapeOf, Control
<1>7. CASE Crash
  BY <1>7 DEF Crash, Fresh, Loading, ShapeOf, Control
<1>8. CASE UNCHANGED vars
  BY <1>8 DEF vars, Fresh, Loading, ShapeOf
<1>. QED BY <1>1, <1>2, <1>3, <1>4, <1>5, <1>6, <1>7, <1>8 DEF Next, Step

(* Whatever callers, pools, failing writes and crashes do, the file never  *)
(* holds a fallback and the marks of the cache are exact (the module's     *)
(* "CRITICAL invariant: persist ONLY real synthesised probes").            *)
THEOREM OnlyRealProbes == Spec => [](DiskRealOnly /\ MarksExact)
<1>1. Init => IInv /\ Fresh /\ Loading /\ ShapeOf
  <2>1. Init => Loading /\ ShapeOf
    BY DEF Init, Idle, Loading, ShapeOf, Control
  <2>. QED BY <2>1, InitInv, InitFresh
<1>2. IInv /\ Fresh /\ Loading /\ ShapeOf /\ [Next]_vars
        => (IInv /\ Fresh /\ Loading /\ ShapeOf)'
  BY NextInv, FreshStep
<1>3. IInv => DiskRealOnly /\ MarksExact
  BY DEF IInv, DiskRealOnly, RealDicts
<1>. QED BY <1>1, <1>2, <1>3, PTL DEF Spec

---------------------------------------------------------------------------
(* What the cache promises its callers: CacheHolds.                        *)

(* A get is at the teacher only while its caller waits for it. *)
Waiting == \A c \in Callers : Busy(c) # {} => pc[c] \in {"get", "pool"}

(* A caller whose save is under way, or whose prewarm has just saved. *)
Saving(c) == pc[c] \in {"open", "write"} \/ (pc[c] = "prewarmed" /\ todo[c] # {})

(* As long as no misses of a key and no saves overlapped: one miss at a    *)
(* time of a key, which is not cached meanwhile ...                        *)
OneMiss ==
  \A c \in Callers : \A k \in Busy(c) :
    cache[k] # "real" /\ \A d \in Callers : k \in Busy(d) => c = d

(* ... one save at a time, that has truncated the file before it writes ... *)
OneSave ==
  /\ \A c, d \in Callers : Saving(c) /\ Saving(d) => c = d
  /\ \A c \in Callers : pc[c] = "write" => ~disk.valid

(* ... and a real probe that a caller was given goes from the cache to the *)
(* snapshot, and is in the cache for as long as it is in the snapshot.     *)
Carried ==
  \A c \in Callers : \A k \in Keys :
    /\ pc[c] \in {"get", "pool", "save"} /\ task[c][k] = "real" => cache[k] = "real"
    /\ pc[c] \in {"open", "write"} =>
         /\ snapshot[c][k] = "real" => cache[k] = "real"
         /\ task[c][k] = "real" => snapshot[c][k] = "real"

Calm == ~disturbed => OneMiss /\ OneSave /\ Carried /\ DiskKept /\ PrewarmPersists

CInv == TypeOK /\ IInv /\ Fresh /\ Loading /\ Waiting /\ Calm

(* Every value of the cache is typed, whatever callers do. *)
States == Texts \cup {"none", "queued", "synth", "raised"}

LEMMA TaskTyped ==
  ASSUME task \in [Callers -> [Keys -> States]], NEW c \in Callers, NEW k \in Keys,
         NEW s \in States, SetTask(c, k, s)
  PROVE  task' \in [Callers -> [Keys -> States]]
BY DEF SetTask

LEMMA DictsTyped ==
  /\ NoProbes \in Probes
  /\ TypeOK => RealProbes \in Probes
  /\ \A p \in Probes : File(p) \in [probes : Probes, valid : BOOLEAN]
  /\ Garbage \in [probes : Probes, valid : BOOLEAN]
BY DEF NoProbes, Probes, RealProbes, File, Garbage, TypeOK

LEMMA LoadTyped ==
  ASSUME TypeOK, Load PROVE cache' \in Probes /\ fallbacks' \subseteq Keys /\ loaded' \in BOOLEAN
<1>1. cache' \in Probes
  BY DEF Load, TypeOK, Probes
<1> QED BY <1>1 DEF Load, TypeOK

LEMMA CacheTypes == TypeOK /\ [Next]_vars => TypeOK'
<1> SUFFICES ASSUME TypeOK, [Next]_vars PROVE TypeOK'
  OBVIOUS
<1> USE DEF TypeOK, Control
<1>0. task \in [Callers -> [Keys -> States]]
  BY DEF States
<1>1. ASSUME NEW c \in Callers, Get(c) PROVE TypeOK'
  <2>1. task' \in [Callers -> [Keys -> States]]
    BY <1>0, <1>1 DEF Get, States
  <2>2. cache' \in Probes /\ fallbacks' \subseteq Keys /\ loaded' \in BOOLEAN
    BY <1>1, LoadTyped DEF Get
  <2>3. pc' \in [Callers -> Control]
    BY <1>1 DEF Get
  <2> QED BY <1>1, <2>1, <2>2, <2>3 DEF Get, States
<1>2. ASSUME NEW c \in Callers, Prewarm(c) PROVE TypeOK'
  <2>1. todo' \in [Callers -> SUBSET Keys]
    BY <1>2, ProbeCacheAssumption DEF Prewarm, ProbeCacheAssumption
  <2>2. cache' \in Probes /\ fallbacks' \subseteq Keys /\ loaded' \in BOOLEAN
    BY <1>2, LoadTyped DEF Prewarm
  <2>3. pc' \in [Callers -> Control]
    BY <1>2 DEF Prewarm
  <2> QED BY <1>2, <2>1, <2>2, <2>3 DEF Prewarm
<1>3. ASSUME NEW c \in Callers, NEW k \in Keys, Lookup(c, k) PROVE TypeOK'
  <2>1. \E s \in States : SetTask(c, k, s)
    BY <1>3 DEF Lookup, States, Probes
  <2>2. task' \in [Callers -> [Keys -> States]]
    BY <1>0, <2>1, TaskTyped
  <2>3. disturbed' \in BOOLEAN
    BY <1>3 DEF Lookup
  <2> QED BY <1>3, <2>2, <2>3 DEF Lookup, States
<1>4. ASSUME NEW c \in Callers, NEW k \in Keys, Synthesized(c, k) PROVE TypeOK'
  <2>1. \E s \in States : SetTask(c, k, s)
    BY <1>4 DEF Synthesized, States
  <2>2. task' \in [Callers -> [Keys -> States]]
    BY <1>0, <2>1, TaskTyped
  <2>3. cache' \in Probes /\ fallbacks' \subseteq Keys
    BY <1>4 DEF Synthesized, Insert, Probes
  <2> QED BY <1>4, <2>2, <2>3 DEF Synthesized, States
<1>5. ASSUME NEW c \in Callers, GetReturns(c) PROVE TypeOK'
  <2>1. task' \in [Callers -> [Keys -> States]] /\ pc' \in [Callers -> Control]
    BY <1>0, <1>5 DEF GetReturns, States
  <2> QED BY <1>5, <2>1 DEF GetReturns, States
<1>6. ASSUME NEW c \in Callers, Missing(c) PROVE TypeOK'
  <2>1. task' \in [Callers -> [Keys -> States]] /\ todo' \in [Callers -> SUBSET Keys]
    BY <1>0, <1>6 DEF Missing, States
  <2>2. pc' \in [Callers -> Control]
    BY <1>6 DEF Missing
  <2> QED BY <1>6, <2>1, <2>2 DEF Missing, States
<1>7. ASSUME NEW c \in Callers, PoolEnds(c) PROVE TypeOK'
  <2>1. task' \in [Callers -> [Keys -> States]]
    BY <1>0, <1>7 DEF PoolEnds, States
  <2>3. todo' \in [Callers -> SUBSET Keys]
    BY <1>7 DEF PoolEnds
  <2>2. pc' \in [Callers -> Control]
    BY <1>7 DEF PoolEnds
  <2> QED BY <1>7, <2>1, <2>2, <2>3 DEF PoolEnds, States
<1>8. ASSUME NEW c \in Callers, TakeSnapshot(c) PROVE TypeOK'
  <2>1. snapshot' \in [Callers -> Probes] /\ disturbed' \in BOOLEAN /\ pc' \in [Callers -> Control]
    BY <1>8, DictsTyped DEF TakeSnapshot
  <2> QED BY <1>8, <2>1 DEF TakeSnapshot
<1>9. ASSUME NEW c \in Callers, Truncate(c) PROVE TypeOK'
  <2>1. pc' \in [Callers -> Control]
    BY <1>9 DEF Truncate
  <2> QED BY <1>9, <2>1, DictsTyped DEF Truncate
<1>10. ASSUME NEW c \in Callers, Write(c) PROVE TypeOK'
  <2>1. pc' \in [Callers -> Control]
    BY <1>10 DEF Write
  <2>2. File(snapshot[c]) \in [probes : Probes, valid : BOOLEAN]
    BY DictsTyped
  <2>3. disk' \in [probes : Probes, valid : BOOLEAN] /\ disturbed' \in BOOLEAN
    BY <1>10, <2>2, DictsTyped DEF Write
  <2> QED BY <1>10, <2>1, <2>3 DEF Write
<1>11. ASSUME NEW c \in Callers, PrewarmReturns(c) PROVE TypeOK'
  <2>1. task' \in [Callers -> [Keys -> States]] /\ todo' \in [Callers -> SUBSET Keys]
    BY <1>0, <1>11 DEF PrewarmReturns, States
  <2>2. pc' \in [Callers -> Control] /\ snapshot' \in [Callers -> Probes]
    BY <1>11, DictsTyped DEF PrewarmReturns
  <2> QED BY <1>11, <2>1, <2>2 DEF PrewarmReturns, States
<1>12. CASE Crash
  <2>1. task' \in [Callers -> [Keys -> States]] /\ todo' \in [Callers -> SUBSET Keys]
    BY <1>12 DEF Crash, States
  <2>2. pc' \in [Callers -> Control] /\ snapshot' \in [Callers -> Probes] /\ cache' \in Probes
    BY <1>12, DictsTyped DEF Crash
  <2>3. crashes' \in 0..MaxCrashes
    BY <1>12, ProbeCacheAssumption DEF Crash, ProbeCacheAssumption
  <2> QED BY <1>12, <2>1, <2>2, <2>3 DEF Crash, States
<1>13. CASE UNCHANGED vars
  BY <1>13 DEF vars
<1> QED
  BY <1>1, <1>2, <1>3, <1>4, <1>5, <1>6, <1>7, <1>8, <1>9, <1>10, <1>11, <1>12, <1>13
  DEF Next, Step

(* A hit is a real probe, and a miss is not. *)
LEMMA HitsAreReal ==
  ASSUME CInv, NEW k \in Keys PROVE IsReal(k) <=> cache[k] = "real"
BY DEF CInv, TypeOK, IInv, MarksExact, IsReal, Probes, Texts

(* The load: nothing is under way before it, and after it the cache has    *)
(* every probe of the file.                                                *)
LEMMA LoadCalm ==
  ASSUME CInv, NEW c \in Callers, pc[c] = "idle", Load,
         UNCHANGED <<disk, snapshot, disturbed>>,
         NEW at \in {"get", "todo"}, pc' = [pc EXCEPT ![c] = at],
         \/ /\ at = "get" /\ todo' = todo
            /\ \E k \in Keys : task' = [task EXCEPT ![c] = [x \in Keys |->
                                          IF x = k THEN "queued" ELSE "none"]]
         \/ /\ at = "todo" /\ task' = task
            /\ \E ks \in Prewarms : todo' = [todo EXCEPT ![c] = ks]
  PROVE  Waiting' /\ Calm'
<1> USE DEF TypeOK
<1>1. \A d \in Callers : d # c => pc'[d] = pc[d] /\ task'[d] = task[d] /\ todo'[d] = todo[d]
  BY DEF CInv
<1>2. pc'[c] = at /\ Busy(c) = {} /\ Busy(c)' = {}
  <2>1. Busy(c) = {} /\ pc'[c] = at
    BY DEF CInv, Waiting
  <2>2. CASE task' = task
    BY <2>1, <2>2 DEF Busy
  <2>3. CASE \E k \in Keys : task' = [task EXCEPT ![c] = [x \in Keys |->
                                        IF x = k THEN "queued" ELSE "none"]]
    <3>1. \A x \in Keys : task'[c][x] # "synth"
      BY <2>3 DEF CInv
    <3> QED BY <2>1, <3>1 DEF Busy
  <2> QED BY <2>1, <2>2, <2>3
<1>3. \A d \in Callers : Busy(d)' = Busy(d)
  BY <1>1, <1>2 DEF Busy
<1>4. Waiting'
  BY <1>1, <1>2, <1>3 DEF Waiting, CInv
<1>5. CASE loaded
  <2>1. cache' = cache
    BY <1>5 DEF Load
  <2> SUFFICES ASSUME ~disturbed' PROVE (OneMiss /\ OneSave /\ Carried /\ DiskKept /\ PrewarmPersists)'
    BY <1>4 DEF Calm
  <2>2. OneMiss /\ OneSave /\ Carried /\ DiskKept /\ PrewarmPersists
    BY DEF CInv, Calm
  <2>3. OneMiss'
    BY <2>1, <2>2, <1>3 DEF OneMiss
  <2>4. OneSave'
    BY <1>1, <1>2, <2>2 DEF OneSave, Saving
  <2>5. Carried'
    BY <1>1, <1>2, <2>1, <2>2 DEF Carried, CInv
  <2>6. DiskKept'
    BY <1>5, <2>1, <2>2 DEF DiskKept, Load
  <2>7. PrewarmPersists'
    BY <1>1, <1>2, <2>2 DEF PrewarmPersists
  <2> QED BY <2>3, <2>4, <2>5, <2>6, <2>7
<1>6. CASE ~loaded
  <2>1. \A d \in Callers : pc[d] = "idle"
    BY <1>6 DEF CInv, Loading
  <2>2. \A d \in Callers : pc'[d] \in {"idle", "get", "todo"} /\ Busy(d)' = {}
    BY <1>1, <1>2, <1>3, <2>1 DEF CInv, Waiting
  <2>3. \A k \in Keys : task'[c][k] # "real" \/ at = "todo"
    BY DEF CInv
  <2>4. OneMiss' /\ OneSave' /\ Carried' /\ PrewarmPersists'
    <3>1. OneMiss' /\ OneSave' /\ PrewarmPersists'
      BY <2>2 DEF OneMiss, OneSave, Saving, PrewarmPersists
    <3>2. Carried'
      BY <1>1, <1>2, <2>1, <2>2, <2>3 DEF Carried
    <3> QED BY <3>1, <3>2
  <2>5. DiskKept'
    <3> SUFFICES ASSUME disk.valid, NEW k \in Keys, disk.probes[k] = "real" PROVE cache'[k] = "real"
      BY DEF DiskKept
    <3> QED BY <1>6 DEF Load
  <2> QED BY <1>4, <2>4, <2>5 DEF Calm
<1> QED BY <1>5, <1>6 DEF CInv, TypeOK

LEMMA BeginsCalm ==
  ASSUME CInv, NEW c \in Callers, Get(c) \/ Prewarm(c) PROVE Waiting' /\ Calm'
<1>1. CASE Get(c)
  BY <1>1, LoadCalm, ProbeCacheAssumption DEF Get, ProbeCacheAssumption
<1>2. CASE Prewarm(c)
  BY <1>2, LoadCalm DEF Prewarm
<1> QED BY <1>1, <1>2

(* A miss is calm only if no other caller is at the teacher with its key.  *)
LEMMA LookupCalm ==
  ASSUME CInv, NEW c \in Callers, NEW k \in Keys, Lookup(c, k) PROVE Waiting' /\ Calm'
<1> USE DEF TypeOK
<1> DEFINE s == IF IsReal(k) THEN cache[k] ELSE "synth"
<1>1. task' = [task EXCEPT ![c][k] = s] /\ pc[c] \in {"get", "pool"} /\ task[c][k] = "queued"
  BY DEF Lookup, SetTask
<1>2. s = "synth" <=> ~IsReal(k)
  BY HitsAreReal
<1>3. s = "real" <=> IsReal(k)
  BY HitsAreReal
<1> HIDE DEF s
<1>4. \A d \in Callers, x \in Keys : task'[d][x] = IF d = c /\ x = k THEN s ELSE task[d][x]
  BY <1>1 DEF CInv
<1>5. \A d \in Callers : d # c => Busy(d)' = Busy(d)
  BY <1>4 DEF Busy
<1>6. Busy(c)' = IF IsReal(k) THEN Busy(c) ELSE Busy(c) \cup {k}
  BY <1>1, <1>2, <1>4 DEF Busy
<1>7. Waiting'
  BY <1>1, <1>5, <1>6 DEF Lookup, Waiting, CInv
<1> SUFFICES ASSUME ~disturbed' PROVE (OneMiss /\ OneSave /\ Carried /\ DiskKept /\ PrewarmPersists)'
  BY <1>7 DEF Calm
<1>8. ~disturbed /\ (IsReal(k) \/ \A d \in Callers : k \notin Busy(d))
  BY DEF Lookup
<1>9. OneMiss /\ OneSave /\ Carried /\ DiskKept /\ PrewarmPersists
  BY <1>8 DEF CInv, Calm
<1>10. OneMiss'
  BY <1>5, <1>6, <1>8, <1>9, HitsAreReal DEF OneMiss, Lookup, Busy
<1>11. OneSave' /\ DiskKept'
  BY <1>9 DEF OneSave, Saving, DiskKept, Lookup
<1>12. Carried'
  BY <1>1, <1>3, <1>4, <1>9, HitsAreReal DEF Carried, Lookup
<1>13. PrewarmPersists'
  BY <1>1, <1>4, <1>8, <1>9 DEF PrewarmPersists, Lookup, CInv
<1> QED BY <1>10, <1>11, <1>12, <1>13

(* The teacher's answer replaces what is cached of its key: nothing real,  *)
(* since nobody else was at the teacher with it.                           *)
LEMMA AnswerCalm ==
  ASSUME CInv, NEW c \in Callers, NEW k \in Keys, Synthesized(c, k) PROVE Waiting' /\ Calm'
<1> USE DEF TypeOK
<1>1. PICK s \in {"real", "fallback", "raised"} :
        /\ task' = [task EXCEPT ![c][k] = s]
        /\ cache' = IF s = "raised" THEN cache ELSE [cache EXCEPT ![k] = s]
  BY DEF Synthesized, SetTask, Insert, Texts
<1>2. pc[c] \in {"get", "pool"} /\ k \in Busy(c)
  BY DEF Synthesized, Busy
<1>3. \A d \in Callers, x \in Keys : task'[d][x] = IF d = c /\ x = k THEN s ELSE task[d][x]
  BY <1>1 DEF CInv
<1>4. \A d \in Callers : d # c => Busy(d)' = Busy(d)
  BY <1>3 DEF Busy
<1>5. Busy(c)' = Busy(c) \ {k}
  BY <1>3 DEF Busy
<1>6. Waiting'
  BY <1>2, <1>4, <1>5 DEF Synthesized, Waiting, CInv
<1>7. UNCHANGED <<loaded, disk, pc, todo, snapshot, disturbed>>
  BY DEF Synthesized
<1> SUFFICES ASSUME ~disturbed PROVE (OneMiss /\ OneSave /\ Carried /\ DiskKept /\ PrewarmPersists)'
  BY <1>6, <1>7 DEF Calm
<1>8. OneMiss /\ OneSave /\ Carried /\ DiskKept /\ PrewarmPersists
  BY DEF CInv, Calm
<1>9. cache[k] # "real" /\ \A d \in Callers : d # c => k \notin Busy(d)
  BY <1>2, <1>8 DEF OneMiss, Busy
<1>10. \A x \in Keys : x # k => cache'[x] = cache[x]
  BY <1>1 DEF CInv, Probes
<1>11. cache[k] # "real" /\ (s = "real" => cache'[k] = "real")
  BY <1>1, <1>9 DEF CInv, Probes
<1>12. OneMiss'
  BY <1>4, <1>5, <1>8, <1>9, <1>10 DEF OneMiss, Busy
<1>13. OneSave' /\ DiskKept'
  BY <1>7, <1>8, <1>9, <1>10 DEF OneSave, Saving, DiskKept
<1>14. Carried'
  BY <1>2, <1>3, <1>7, <1>8, <1>10, <1>11 DEF Carried
<1>15. PrewarmPersists'
  BY <1>2, <1>3, <1>7, <1>8 DEF PrewarmPersists, CInv
<1> QED BY <1>12, <1>13, <1>14, <1>15


(* A caller that goes on otherwise touches neither the file nor the cache. *)
LEMMA PoolCalm ==
  ASSUME CInv, NEW c \in Callers, GetReturns(c) \/ Missing(c) \/ PoolEnds(c)
  PROVE  Waiting' /\ Calm'
<1> USE DEF TypeOK
<1>1. UNCHANGED <<cache, loaded, disk, snapshot, disturbed>>
  BY DEF GetReturns, Missing, PoolEnds
<1>2. \A d \in Callers : d # c => pc'[d] = pc[d] /\ task'[d] = task[d] /\ todo'[d] = todo[d]
  BY DEF CInv, GetReturns, Missing, PoolEnds
<1>3. Busy(c)' = {}
  <2>1. CASE GetReturns(c)
    BY <2>1 DEF GetReturns, Busy, CInv
  <2>2. CASE Missing(c)
    BY <2>2 DEF Missing, Busy, CInv
  <2>3. CASE PoolEnds(c)
    BY <2>3 DEF PoolEnds, Busy, CInv
  <2> QED BY <2>1, <2>2, <2>3
<1>4. \A d \in Callers : d # c => Busy(d)' = Busy(d)
  BY <1>2 DEF Busy
<1>5. Waiting'
  BY <1>2, <1>3, <1>4 DEF Waiting, CInv
<1>6. pc'[c] \in {"idle", "pool", "save"} \/ (pc'[c] = "prewarmed" /\ todo'[c] = {})
  <2>1. CASE Missing(c)
    BY <2>1 DEF Missing, CInv
  <2> QED BY <2>1 DEF CInv, GetReturns, PoolEnds
<1>7. \A k \in Keys : pc'[c] \in {"pool", "save"} /\ task'[c][k] = "real"
                       => pc[c] = "pool" /\ task[c][k] = "real"
  BY DEF CInv, GetReturns, Missing, PoolEnds
<1> SUFFICES ASSUME ~disturbed PROVE (OneMiss /\ OneSave /\ Carried /\ DiskKept /\ PrewarmPersists)'
  BY <1>1, <1>5 DEF Calm
<1>8. OneMiss /\ OneSave /\ Carried /\ DiskKept /\ PrewarmPersists
  BY DEF CInv, Calm
<1>9. OneMiss' /\ DiskKept'
  BY <1>1, <1>3, <1>4, <1>8 DEF OneMiss, DiskKept
<1>10. OneSave'
  BY <1>1, <1>2, <1>6, <1>8 DEF OneSave, Saving
<1>11. Carried'
  BY <1>1, <1>2, <1>6, <1>7, <1>8 DEF Carried
<1>12. PrewarmPersists'
  BY <1>1, <1>2, <1>6, <1>8 DEF PrewarmPersists
<1> QED BY <1>9, <1>10, <1>11, <1>12

(* A save: what is in the cache is in the snapshot, the file is truncated, *)
(* and then it has the snapshot unless the write failed.                   *)
LEMMA SaveCalm ==
  ASSUME CInv, NEW c \in Callers,
         TakeSnapshot(c) \/ Truncate(c) \/ Write(c) \/ PrewarmReturns(c)
  PROVE  Waiting' /\ Calm'
<1> USE DEF TypeOK
<1>1. UNCHANGED <<cache, loaded>>
  BY DEF TakeSnapshot, Truncate, Write, PrewarmReturns
<1>2. \A d \in Callers : d # c =>
        pc'[d] = pc[d] /\ task'[d] = task[d] /\ todo'[d] = todo[d] /\ snapshot'[d] = snapshot[d]
  BY DEF CInv, TakeSnapshot, Truncate, Write, PrewarmReturns
<1>3. Busy(c) = {} /\ Busy(c)' = {}
  <2>1. Busy(c) = {}
    BY DEF CInv, Waiting, TakeSnapshot, Truncate, Write, PrewarmReturns
  <2>2. CASE PrewarmReturns(c)
    BY <2>1, <2>2 DEF PrewarmReturns, Busy, CInv
  <2>3. CASE task' = task
    BY <2>1, <2>3 DEF Busy
  <2> QED BY <2>1, <2>2, <2>3 DEF TakeSnapshot, Truncate, Write
<1>4. \A d \in Callers : Busy(d)' = Busy(d)
  BY <1>2, <1>3 DEF Busy
<1>5. Waiting'
  BY <1>2, <1>3, <1>4 DEF Waiting, CInv
<1> SUFFICES ASSUME ~disturbed' PROVE (OneMiss /\ OneSave /\ Carried /\ DiskKept /\ PrewarmPersists)'
  BY <1>5 DEF Calm
<1>6. ~disturbed /\ OneMiss /\ OneSave /\ Carried /\ DiskKept /\ PrewarmPersists
  BY DEF CInv, Calm, TakeSnapshot, Truncate, Write, PrewarmReturns
<1>7. OneMiss'
  BY <1>1, <1>4, <1>6 DEF OneMiss
<1>8. CASE TakeSnapshot(c)
  <2>1. disk' = disk /\ task' = task /\ todo' = todo /\ pc[c] = "save" /\ pc'[c] = "open"
    BY <1>8 DEF TakeSnapshot, CInv
  <2>2. \A d \in Callers : d # c => ~Saving(d)
    BY <1>8 DEF TakeSnapshot, Saving
  <2>3. \A k \in Keys : snapshot'[c][k] = "real" <=> cache[k] = "real"
    BY <1>8, HitsAreReal DEF TakeSnapshot, RealProbes, CInv
  <2>4. OneSave'
    BY <1>2, <2>1, <2>2 DEF OneSave, Saving
  <2>5. Carried'
    BY <1>1, <1>2, <1>6, <2>1, <2>3 DEF Carried
  <2>6. DiskKept' /\ PrewarmPersists'
    BY <1>1, <1>2, <1>6, <2>1 DEF DiskKept, PrewarmPersists
  <2> QED BY <1>7, <2>4, <2>5, <2>6
<1>9. CASE Truncate(c)
  <2>1. /\ disk' = Garbage /\ pc[c] = "open" /\ pc'[c] = "write"
        /\ UNCHANGED <<task, todo, snapshot>>
    BY <1>9 DEF Truncate, CInv
  <2>2. \A d \in Callers : d # c => ~Saving(d)
    BY <1>6, <2>1 DEF OneSave, Saving
  <2>3. ~disk'.valid
    BY <2>1 DEF Garbage
  <2>4. OneSave' /\ DiskKept'
    BY <1>2, <2>1, <2>2, <2>3 DEF OneSave, Saving, DiskKept
  <2>5. Carried'
    BY <1>1, <1>2, <1>6, <2>1 DEF Carried
  <2>6. PrewarmPersists'
    BY <1>2, <2>1, <2>2 DEF PrewarmPersists, Saving
  <2> QED BY <1>7, <2>4, <2>5, <2>6
<1>10. CASE Write(c)
  <2>1. /\ pc[c] = "write" /\ pc'[c] = "prewarmed" /\ UNCHANGED <<task, todo, snapshot>>
        /\ disk' = File(snapshot[c])
    BY <1>6, <1>10 DEF Write, OneSave, CInv
  <2>2. \A d \in Callers : d # c => ~Saving(d)
    BY <1>6, <2>1 DEF OneSave, Saving
  <2>3. disk'.valid /\ disk'.probes = snapshot[c]
    BY <2>1 DEF File
  <2>4. OneSave'
    BY <1>2, <2>1, <2>2 DEF OneSave, Saving
  <2>5. Carried'
    BY <1>1, <1>2, <1>6, <2>1 DEF Carried
  <2>6. DiskKept'
    BY <1>1, <1>6, <2>1, <2>3 DEF DiskKept, Carried
  <2>7. PrewarmPersists'
    BY <1>2, <1>6, <2>1, <2>2, <2>3 DEF PrewarmPersists, Saving, Carried, CInv
  <2> QED BY <1>7, <2>4, <2>5, <2>6, <2>7
<1>11. CASE PrewarmReturns(c)
  <2>1. disk' = disk /\ pc'[c] = "idle"
    BY <1>11 DEF PrewarmReturns, CInv
  <2>2. OneSave' /\ DiskKept'
    BY <1>1, <1>2, <1>6, <2>1 DEF OneSave, Saving, DiskKept
  <2>3. Carried' /\ PrewarmPersists'
    BY <1>1, <1>2, <1>6, <2>1 DEF Carried, PrewarmPersists
  <2> QED BY <1>7, <2>2, <2>3
<1> QED BY <1>8, <1>9, <1>10, <1>11

LEMMA QuietCalm ==
  ASSUME CInv, Crash \/ UNCHANGED vars PROVE Waiting' /\ Calm'
<1>1. CASE Crash
  <2>1. \A c \in Callers : pc'[c] = "idle" /\ Busy(c)' = {}
    BY <1>1 DEF Crash, Busy
  <2>2. (OneMiss /\ OneSave /\ Carried /\ DiskKept /\ PrewarmPersists)'
    BY <1>1, <2>1 DEF OneMiss, OneSave, Saving, Carried, DiskKept, PrewarmPersists, Crash
  <2> QED BY <2>1, <2>2 DEF Waiting, Calm
<1>2. CASE UNCHANGED vars
  BY <1>2 DEF vars, CInv, Waiting, Calm, Busy, OneMiss, OneSave, Saving, Carried, DiskKept,
              PrewarmPersists
<1> QED BY <1>1, <1>2

LEMMA NextCalm == CInv /\ [Next]_vars => CInv'
<1> SUFFICES ASSUME CInv, [Next]_vars PROVE CInv'
  OBVIOUS
<1>1. ShapeOf
  BY DEF CInv, TypeOK, ShapeOf
<1>2. TypeOK' /\ IInv' /\ Fresh' /\ Loading'
  BY <1>1, CacheTypes, NextInv, FreshStep DEF CInv
<1>3. Waiting' /\ Calm'
  BY BeginsCalm, LookupCalm, AnswerCalm, PoolCalm, SaveCalm, QuietCalm DEF Next, Step
<1> QED BY <1>2, <1>3 DEF CInv

(* Over any callers, pools, failing writes and crashes: the values and the *)
(* marks of the cache are right, and as long as no misses of a key, no     *)
(* saves and no write errors disturbed it, a real probe on disk is in      *)
(* memory too, and what a prewarm made is on disk when it returns.         *)
THEOREM CacheKeepsPromises == Spec => []CacheHolds
<1>1. Init => CInv
  <2> SUFFICES ASSUME Init PROVE CInv
    OBVIOUS
  <2>1. TypeOK
    <3>1. task \in [Callers -> [Keys -> States]]
      BY DEF Init, Idle, States
    <3>2. cache \in Probes /\ snapshot \in [Callers -> Probes] /\ disk \in [probes : Probes, valid : BOOLEAN]
      BY DictsTyped DEF Init, Idle
    <3>3. pc \in [Callers -> Control] /\ todo \in [Callers -> SUBSET Keys] /\ crashes \in 0..MaxCrashes
      BY ProbeCacheAssumption DEF Init, Idle, Control, ProbeCacheAssumption
    <3> QED BY <3>1, <3>2, <3>3 DEF Init, Idle, TypeOK, States
  <2>2. IInv /\ Fresh
    BY InitInv, InitFresh
  <2>3. \A c \in Callers : pc[c] = "idle" /\ Busy(c) = {}
    BY DEF Init, Idle, Busy
  <2>4. Loading /\ Waiting
    BY <2>3 DEF Loading, Waiting
  <2>5. OneMiss /\ OneSave /\ Carried /\ DiskKept /\ PrewarmPersists
    BY <2>3 DEF OneMiss, OneSave, Saving, Carried, DiskKept, PrewarmPersists, Init
  <2> QED BY <2>1, <2>2, <2>4, <2>5 DEF CInv, Calm
<1>2. CInv => CacheHolds
  <2> SUFFICES ASSUME CInv PROVE DiskKept /\ PrewarmPersists
    BY DEF CInv, IInv, CacheHolds, CacheConsistent
  <2> QED BY DEF CInv, Calm, DiskKept, PrewarmPersists
<1> QED BY <1>1, <1>2, NextCalm, PTL DEF Spec

-----------------------------------------------------------------------------
(* PromptContext.                                                          *)
(* Every block there is, and the names they have.                          *)
Known == Blocks \cup UNION {ToSet(a) : a \in Assemblies}

KnownNames == {b.name : b \in Known}

LEMMA NotPinnedIs == NotPinned \in Int
  BY SMTT(60) DEF NotPinned

LEMMA KeyIs == \A b \in Known :
  /\ SortKey(b)[1] \in Int /\ SortKey(b)[1] <= NotPinned
  /\ b.position = Unpinned <=> SortKey(b)[1] = NotPinned
  /\ SortKey(b)[2] = Rank(b.tier) /\ Rank(b.tier) \in Int
<1> TAKE b \in Known
<1>1. b.tier \in ToSet(Tiers) /\ (b.position # Unpinned => b.position \in Int /\ b.position < NotPinned)
  BY PromptAssumption DEF Known
<1>2. \E i \in DOMAIN Tiers : Tiers[i] = b.tier
  BY <1>1 DEF ToSet
<1>3. Rank(b.tier) \in DOMAIN Tiers
  BY <1>2 DEF Rank
<1>4. Rank(b.tier) \in Int
  BY <1>3 DEF Tiers
<1> QED BY <1>1, <1>4, NotPinnedIs DEF SortKey

LEMMA ListDomain ==
  ASSUME NEW S, NEW s \in Seq(S)
  PROVE  Len(s) \in Nat /\ DOMAIN s = 1..Len(s) /\ IsFiniteSet(DOMAIN s) /\ Cardinality(DOMAIN s) = Len(s)
<1> PICK N : N = Len(s)
  OBVIOUS
<1>1. N \in Nat /\ DOMAIN s = 1..N
  OBVIOUS
<1>2. IsFiniteSet(1..N) /\ Cardinality(1..N) = N
  <2>1. IsFiniteSet(1..N) /\ Cardinality(1..N) = IF 1 > N THEN 0 ELSE N - 1 + 1
    <3>1. 1 \in Int /\ N \in Int
      BY <1>1
    <3> QED BY <3>1, FS_Interval, Zenon
  <2>2. (IF 1 > N THEN 0 ELSE N - 1 + 1) = N
    BY <1>1
  <2> QED BY <2>1, <2>2
<1> QED BY <1>1, <1>2

LEMMA BlocksOrdered == \A bs \in Seq(Known) : TotallyOrders(DOMAIN bs, Before(bs)) /\ IsFiniteSet(DOMAIN bs)
<1> TAKE bs \in Seq(Known)
<1> DEFINE k(i) == SortKey(bs[i])
<1>1. \A i \in DOMAIN bs : k(i)[1] \in Int /\ k(i)[2] \in Int /\ i \in Int
  BY KeyIs
<1>2. \A i, j \in DOMAIN bs : <<i, j>> \in Before(bs) <=>
        k(i)[1] < k(j)[1] \/ (k(i)[1] = k(j)[1] /\ (k(i)[2] < k(j)[2] \/ (k(i)[2] = k(j)[2] /\ i < j)))
  BY DEF Before, Precedes
<1> HIDE DEF k
<1>3. IsFiniteSet(DOMAIN bs)
  BY ListDomain
<1>4. \A x \in DOMAIN bs : <<x, x>> \notin Before(bs)
  BY <1>1, <1>2
<1>5. \A x, y \in DOMAIN bs : x # y => <<x, y>> \in Before(bs) \/ <<y, x>> \in Before(bs)
  BY <1>1, <1>2
<1>6. \A x, y, z \in DOMAIN bs : <<x, y>> \in Before(bs) /\ <<y, z>> \in Before(bs) => <<x, z>> \in Before(bs)
  <2> TAKE x, y, z \in DOMAIN bs
  <2> HAVE <<x, y>> \in Before(bs) /\ <<y, z>> \in Before(bs)
  <2> PICK a1, b1, c1, a2, b2, c2 : a1 = k(x)[1] /\ b1 = k(y)[1] /\ c1 = k(z)[1] /\ a2 = k(x)[2] /\ b2 = k(y)[2] /\ c2 = k(z)[2]
    OBVIOUS
  <2>1. {a1, b1, c1, a2, b2, c2, x, y, z} \subseteq Int
    BY <1>1
  <2>2. a1 < b1 \/ (a1 = b1 /\ (a2 < b2 \/ (a2 = b2 /\ x < y)))
    BY <1>2
  <2>3. b1 < c1 \/ (b1 = c1 /\ (b2 < c2 \/ (b2 = c2 /\ y < z)))
    BY <1>2
  <2>4. a1 < c1 \/ (a1 = c1 /\ (a2 < c2 \/ (a2 = c2 /\ x < z)))
    BY <2>1, <2>2, <2>3
  <2> QED BY <1>2, <2>4
<1> QED BY <1>3, <1>4, <1>5, <1>6 DEF TotallyOrders

(* The sorted blocks are the blocks, each at its place.                    *)
PlacesOf(bs) ==
  LET o == BlockOrder(bs)  N == Len(bs) IN
  /\ N \in Nat /\ DOMAIN bs = 1..N /\ DOMAIN o = 1..N
  /\ DOMAIN SortedBlocks(bs) = 1..N /\ SortedBlocks(bs) \in Seq(Known) /\ Len(SortedBlocks(bs)) = N
  /\ \A n \in 1..N : /\ o[n] \in 1..N /\ SortedBlocks(bs)[n] = bs[o[n]] /\ bs[o[n]] \in Known
                     /\ Ahead(DOMAIN bs, Before(bs), o[n]) = n - 1
  /\ \A x \in 1..N : /\ Ahead(DOMAIN bs, Before(bs), x) + 1 \in 1..N
                     /\ o[Ahead(DOMAIN bs, Before(bs), x) + 1] = x

LEMMA PlacesHold == \A bs \in Seq(Known) : PlacesOf(bs)
<1> TAKE bs \in Seq(Known)
<1> DEFINE o == BlockOrder(bs)
           N == Len(bs)
<1>1. N \in Nat /\ DOMAIN bs = 1..N /\ \A i \in 1..N : bs[i] \in Known
  OBVIOUS
<1>2. Cardinality(DOMAIN bs) = N
  BY ListDomain
<1>3. /\ DOMAIN o = 1..N
      /\ \A n \in 1..N : o[n] \in 1..N /\ Ahead(DOMAIN bs, Before(bs), o[n]) = n - 1
      /\ \A x \in 1..N : Ahead(DOMAIN bs, Before(bs), x) + 1 \in 1..N /\ o[Ahead(DOMAIN bs, Before(bs), x) + 1] = x
  BY <1>1, <1>2, BlocksOrdered, ArrangedIs DEF BlockOrder
<1> HIDE DEF o, N
<1>4. SortedBlocks(bs) = [n \in 1..N |-> bs[o[n]]]
  BY <1>1 DEF SortedBlocks, o
<1>5. SortedBlocks(bs) \in [1..N -> Known]
  BY <1>1, <1>3, <1>4
<1>6. SortedBlocks(bs) \in Seq(Known) /\ Len(SortedBlocks(bs)) = N
  BY <1>1, <1>5
<1>7. \A n \in 1..N : SortedBlocks(bs)[n] = bs[o[n]] /\ bs[o[n]] \in Known
  BY <1>1, <1>3, <1>4
<1> QED BY <1>1, <1>3, <1>5, <1>6, <1>7 DEF PlacesOf, o, N

(* Where what is cacheable ends.                                           *)
Cut(bs) == Min({n \in DOMAIN SortedBlocks(bs) : Uncacheable(SortedBlocks(bs), n)} \cup {Len(SortedBlocks(bs)) + 1}) - 1

LEMMA CutIs == \A bs \in Seq(Known) :
  /\ Cut(bs) \in 0..Len(bs)
  /\ \A n \in 1..Cut(bs) : SortedBlocks(bs)[n].tier # "volatile"
<1> TAKE bs \in Seq(Known)
<1> DEFINE t == SortedBlocks(bs)
           N == Len(bs)
           S == {n \in DOMAIN t : Uncacheable(t, n)} \cup {Len(t) + 1}
<1>1. N \in Nat /\ DOMAIN t = 1..N /\ Len(t) = N
  BY PlacesHold DEF PlacesOf
<1> HIDE DEF t, N
<1>2. S \in SUBSET Nat /\ S # {} /\ S \subseteq 1..N + 1
  BY <1>1
<1>3. Min(S) \in S /\ \A n \in S : Min(S) <= n
  BY <1>2, LeastIn
<1>4. Min(S) \in 1..N + 1
  BY <1>2, <1>3
<1>5. Cut(bs) = Min(S) - 1
  BY DEF Cut, t
<1>6. ASSUME NEW n \in 1..Cut(bs) PROVE t[n].tier # "volatile"
  <2>1. n \in 1..N /\ n < Min(S)
    BY <1>1, <1>4, <1>5
  <2>2. n \notin S
    <3> PICK m : m = Min(S)
      OBVIOUS
    <3>1. m \in Nat /\ n \in Nat /\ n < m /\ \A x \in S : m <= x
      BY <1>2, <1>3, <2>1
    <3> HIDE DEF S
    <3> QED BY <3>1
  <2> QED BY <1>1, <2>1, <2>2 DEF Uncacheable
<1> QED BY <1>1, <1>4, <1>5, <1>6 DEF t, N

LEMMA PrefixIs == \A bs \in Seq(Known) : \A c :
  CacheablePrefix(bs, c) = [n \in 1..Cut(bs) |-> <<SortedBlocks(bs)[n].name, c[SortedBlocks(bs)[n].name]>>]
<1> TAKE bs \in Seq(Known)
<1> TAKE c
<1> DEFINE t == SortedBlocks(bs)
           k == Cut(bs)
           u == SubSeq(t, 1, k)
<1>1. t \in Seq(Known) /\ Len(t) = Len(bs) /\ Len(bs) \in Nat /\ k \in 0..Len(bs)
  BY PlacesHold, CutIs DEF PlacesOf
<1>2. CacheablePrefix(bs, c) = Pieces(u, c)
  BY DEF CacheablePrefix, Cut
<1> HIDE DEF t, k
<1>3. DOMAIN u = 1..k /\ \A n \in 1..k : u[n] = t[n]
  BY <1>1
<1> HIDE DEF u
<1>4. Pieces(u, c) = [n \in 1..k |-> <<t[n].name, c[t[n].name]>>]
  BY <1>3 DEF Pieces
<1> QED BY <1>2, <1>4 DEF t, k

LEMMA PromptIs == \A bs \in Seq(Known) : \A c :
  Pieces(SortedBlocks(bs), c) = [n \in 1..Len(bs) |-> <<SortedBlocks(bs)[n].name, c[SortedBlocks(bs)[n].name]>>]
<1> TAKE bs \in Seq(Known)
<1> TAKE c
<1>1. DOMAIN SortedBlocks(bs) = 1..Len(bs)
  BY PlacesHold DEF PlacesOf
<1> QED BY <1>1 DEF Pieces

(* What the turns tell is what was composed then.                          *)
Composed(t) ==
  /\ t.blocks \in Seq(Known)
  /\ t.prompt = Pieces(SortedBlocks(t.blocks), t.content)
  /\ t.prefix = CacheablePrefix(t.blocks, t.content)

LEMMA Prefixed ==
  ASSUME NEW k \in Nat, NEW M \in Nat, k <= M, NEW p, NEW w, Len(p) = k, Len(w) = M, \A n \in 1..k : p[n] = w[n]
  PROVE  IsPrefix(p, w)
<1> DEFINE S == {p[n] : n \in 1..k}
           u == SubSeq(p, 1, k)
           v == SubSeq(w, 1, k)
<1>1. \A n \in 1..k : p[n] \in S /\ w[n] \in S
  OBVIOUS
<1> HIDE DEF S
<1>2. u \in Seq(S) /\ Len(u) = (IF 1 <= k THEN k - 1 + 1 ELSE 0) /\ \A n \in 1..k - 1 + 1 : u[n] = p[1 + n - 1]
  BY <1>1, SubSeqProperties
<1>3. v \in Seq(S) /\ Len(v) = (IF 1 <= k THEN k - 1 + 1 ELSE 0) /\ \A n \in 1..k - 1 + 1 : v[n] = w[1 + n - 1]
  BY <1>1, SubSeqProperties
<1> HIDE DEF u, v
<1>4. Len(u) = k /\ \A n \in 1..k : u[n] = p[n]
  BY <1>2
<1>5. Len(v) = k /\ \A n \in 1..k : v[n] = w[n]
  BY <1>3
<1>6. u = v
  BY <1>2, <1>3, <1>4, <1>5
<1> QED BY <1>6 DEF IsPrefix, u, v

LEMMA PrefixStarts == \A bs \in Seq(Known) : \A c :
  IsPrefix(CacheablePrefix(bs, c), Pieces(SortedBlocks(bs), c))
<1> TAKE bs \in Seq(Known)
<1> TAKE c
<1> DEFINE t == SortedBlocks(bs)
           N == Len(bs)
           p == CacheablePrefix(bs, c)
           w == Pieces(t, c)
           k == Cut(bs)
<1>1. k \in 0..N /\ N \in Nat
  BY CutIs
<1>2. p = [n \in 1..k |-> <<t[n].name, c[t[n].name]>>]
  BY PrefixIs
<1>3. w = [n \in 1..N |-> <<t[n].name, c[t[n].name]>>]
  BY PromptIs
<1> HIDE DEF t, N, p, w, k
<1>4. Len(p) = k /\ Len(w) = N
  BY <1>1, <1>2, <1>3
<1>5. \A n \in 1..k : p[n] = w[n]
  BY <1>1, <1>2, <1>3
<1>6. k \in Nat /\ k <= N
  BY <1>1
<1>7. IsPrefix(p, w)
  BY <1>1, <1>4, <1>5, <1>6, Prefixed
<1> QED BY <1>7 DEF p, w, t

(* As long as no block that is cached changes, the prefix does not.        *)
LEMMA PrefixStands ==
  ASSUME NEW bs \in Seq(Known), NEW c, NEW d,
         \A x \in DOMAIN bs : bs[x].tier # "volatile" => c[bs[x].name] = d[bs[x].name]
  PROVE  CacheablePrefix(bs, c) = CacheablePrefix(bs, d)
<1> DEFINE t == SortedBlocks(bs)
           k == Cut(bs)
<1>1. \A n \in 1..k : t[n].tier # "volatile" /\ n \in 1..Len(bs)
  BY CutIs
<1>2. \A n \in 1..Len(bs) : \E x \in DOMAIN bs : t[n] = bs[x]
  BY PlacesHold DEF PlacesOf
<1>3. \A n \in 1..k : c[t[n].name] = d[t[n].name]
  BY <1>1, <1>2
<1>4. CacheablePrefix(bs, c) = [n \in 1..k |-> <<t[n].name, c[t[n].name]>>]
  BY PrefixIs
<1>5. CacheablePrefix(bs, d) = [n \in 1..k |-> <<t[n].name, d[t[n].name]>>]
  BY PrefixIs
<1> HIDE DEF t, k
<1> QED BY <1>3, <1>4, <1>5

(* Blocks that go behind what is cached leave it at its places.            *)
Behind(old, new, names) ==
  /\ IsPrefix(old, new)
  /\ \A k \in Len(old) + 1..Len(new) :
       /\ new[k].position = Unpinned
       /\ \A l \in DOMAIN old :
            old[l].position = Unpinned /\ old[l].name \in names => Rank(old[l].tier) <= Rank(new[k].tier)

LEMMA PlacesStay ==
  ASSUME NEW old \in Seq(Known), NEW new \in Seq(Known), NEW names, Behind(old, new, names),
         NEW n \in 1..Len(old), SortedBlocks(old)[n].name \in names
  PROVE  n \in 1..Len(new) /\ SortedBlocks(new)[n] = SortedBlocks(old)[n]
<1> DEFINE N == Len(old)
           M == Len(new)
           x == BlockOrder(old)[n]
<1>1. /\ N \in Nat /\ M \in Nat /\ N <= M /\ DOMAIN old = 1..N /\ DOMAIN new = 1..M
      /\ \A i \in 1..N : new[i] = old[i]
  BY DEF Behind, IsPrefix
<1>2. x \in 1..N /\ SortedBlocks(old)[n] = old[x] /\ Ahead(DOMAIN old, Before(old), x) = n - 1
  BY PlacesHold DEF PlacesOf
<1>3. \A i \in 1..M : new[i] \in Known /\ SortKey(new[i])[1] \in Int /\ SortKey(new[i])[1] <= NotPinned
                      /\ (new[i].position = Unpinned <=> SortKey(new[i])[1] = NotPinned)
                      /\ SortKey(new[i])[2] = Rank(new[i].tier) /\ Rank(new[i].tier) \in Int
  BY <1>1, KeyIs
<1> HIDE DEF N, M, x
<1>4. \A y \in 1..N : <<y, x>> \in Before(new) <=> <<y, x>> \in Before(old)
  BY <1>1, <1>2 DEF Before, Precedes
<1>5. ASSUME NEW y \in 1..M, y > N PROVE <<y, x>> \notin Before(new)
  <2>1. y \in N + 1..M /\ x \in 1..M /\ y > x /\ new[x] = old[x]
    BY <1>1, <1>2, <1>5
  <2>2. new[y].position = Unpinned
    BY <2>1 DEF Behind, N, M
  <2>3. old[x].position = Unpinned => Rank(old[x].tier) <= Rank(new[y].tier)
    BY <1>1, <1>2, <2>1 DEF Behind, N, M
  <2>4. ~Precedes(new, y, x)
    BY <1>3, <2>1, <2>2, <2>3, NotPinnedIs DEF Precedes
  <2> QED BY <2>4 DEF Before
<1>6. {y \in DOMAIN new : <<y, x>> \in Before(new)} = {y \in DOMAIN old : <<y, x>> \in Before(old)}
  <2>1. \A y \in 1..M : y \in 1..N \/ y > N
    BY <1>1
  <2> QED BY <1>1, <1>4, <1>5, <2>1
<1>7. Ahead(DOMAIN new, Before(new), x) = n - 1
  BY <1>2, <1>6 DEF Ahead
<1>8. x \in 1..M
  BY <1>1, <1>2
<1>9. (n - 1) + 1 \in 1..M /\ BlockOrder(new)[(n - 1) + 1] = x
  <2>1. PlacesOf(new)
    BY PlacesHold
  <2>2. \A y \in 1..M : /\ Ahead(DOMAIN new, Before(new), y) + 1 \in 1..M
                         /\ BlockOrder(new)[Ahead(DOMAIN new, Before(new), y) + 1] = y
    BY <2>1 DEF PlacesOf, M
  <2> QED BY <1>7, <1>8, <2>2
<1>10. n \in 1..M /\ BlockOrder(new)[n] = x
  BY <1>1, <1>9 DEF N
<1>11. SortedBlocks(new)[n] = new[x]
  BY <1>10, PlacesHold DEF PlacesOf, M
<1> QED BY <1>1, <1>2, <1>10, <1>11 DEF M

LEMMA PrefixLeads ==
  ASSUME NEW old \in Seq(Known), NEW new \in Seq(Known), NEW c, NEW names, Behind(old, new, names),
         \A n \in 1..Cut(old) : SortedBlocks(old)[n].name \in names
  PROVE  IsPrefix(CacheablePrefix(old, c), Pieces(SortedBlocks(new), c))
<1>1. PICK t : t = SortedBlocks(old)
  OBVIOUS
<1>2. PICK v : v = SortedBlocks(new)
  OBVIOUS
<1>3. PICK p : p = CacheablePrefix(old, c)
  OBVIOUS
<1>4. PICK w : w = Pieces(SortedBlocks(new), c)
  OBVIOUS
<1>5. PICK k : k = Cut(old)
  OBVIOUS
<1>6. PICK M : M = Len(new)
  OBVIOUS
<1>7. k \in 0..Len(old) /\ Len(old) \in Nat /\ M \in Nat /\ Len(old) <= M
  BY <1>5, <1>6, CutIs DEF Behind, IsPrefix
<1>8. \A n \in 1..k : n \in 1..M /\ v[n] = t[n]
  <2>1. \A n \in 1..Cut(old) : n \in 1..Len(new) /\ SortedBlocks(new)[n] = SortedBlocks(old)[n]
    BY <1>5, <1>6, <1>7, PlacesStay
  <2> QED BY <1>1, <1>2, <1>5, <1>6, <2>1
<1>9. p = [n \in 1..k |-> <<t[n].name, c[t[n].name]>>]
  BY <1>1, <1>3, <1>5, PrefixIs
<1>10. w = [n \in 1..M |-> <<v[n].name, c[v[n].name]>>]
  BY <1>2, <1>4, <1>6, PromptIs
<1>11. k \in Nat /\ k <= M /\ Len(p) = k /\ Len(w) = M
  BY <1>7, <1>9, <1>10
<1>12. \A n \in 1..k : p[n] = w[n]
  BY <1>8, <1>9, <1>10
<1>13. IsPrefix(p, w)
  BY <1>7, <1>11, <1>12, Prefixed
<1> QED BY <1>3, <1>4, <1>13, ZenonT(30)

(* Every turn tells what was composed then.                                *)
TurnShape ==
  [agent : Agents, blocks : Seq(Known), content : [KnownNames -> Nat], recorded : BOOLEAN,
   prompt : Seq(KnownNames \X Nat), prefix : Seq(KnownNames \X Nat)]

ContextTyped ==
  /\ assembler \in Seq(Known) /\ contents \in [KnownNames -> Nat]
  /\ turns \in Seq(TurnShape) /\ \A r \in DOMAIN turns : Composed(turns[r])
  /\ tracked \subseteq DOMAIN turns
  /\ observed \in Seq([run : Nat, what : KnownNames, tells : Nat])
  /\ calls \in Seq([run : Nat, what : ToolNames, tells : BOOLEAN])

(* A recorded run that is kept has a row for each piece of its prompt, and  *)
(* no rows but those: one for each name when the names were distinct.       *)
Of(row, turn) == \E k \in DOMAIN turn.prompt : turn.prompt[k] = <<row.what, row.tells>>

RowsTold(ts, kept, rows) ==
  /\ \A i \in DOMAIN rows : rows[i].run \in kept /\ ts[rows[i].run].recorded /\ Of(rows[i], ts[rows[i].run])
  /\ \A r \in kept : ts[r].recorded =>
       \A k \in DOMAIN ts[r].prompt :
         \E i \in DOMAIN rows : rows[i].run = r /\ <<rows[i].what, rows[i].tells>> = ts[r].prompt[k]
  /\ \A i, j \in DOMAIN rows :
       rows[i].run = rows[j].run /\ rows[i].what = rows[j].what /\ Distinct(ts[rows[i].run].blocks) => i = j

ContextInv == ContextTyped /\ RowsTold(turns, tracked, observed)

LEMMA ContextBegins == ContextInit => ContextInv
<1> SUFFICES ASSUME ContextInit PROVE ContextInv
  OBVIOUS
<1>1. assembler \in Assemblies /\ turns = <<>> /\ tracked = {} /\ observed = <<>> /\ calls = <<>>
  BY DEF ContextInit
<1>2. assembler \in Seq(Known)
  <2>1. assembler \in Seq(ToSet(assembler)) /\ ToSet(assembler) \subseteq Known
    BY <1>1, PromptAssumption DEF Known
  <2>2. Len(assembler) \in Nat /\ assembler \in [1..Len(assembler) -> ToSet(assembler)]
    BY <2>1, LenProperties
  <2>3. assembler \in [1..Len(assembler) -> Known]
    BY <2>1, <2>2
  <2> QED BY <2>2, <2>3, SeqDef
<1>3. contents \in [KnownNames -> Nat]
  <2>1. {b.name : b \in Blocks} \cup UNION {NamesOf(a) : a \in Assemblies} = KnownNames
    BY DEF KnownNames, Known, NamesOf, ToSet
  <2> QED BY <2>1 DEF ContextInit
<1> QED BY <1>1, <1>2, <1>3 DEF ContextInv, ContextTyped, RowsTold

(* Rows stay true as long as the runs they are of do.                      *)
LEMMA RowsStay ==
  ASSUME NEW ts, NEW us, NEW kept, NEW left, NEW rows, RowsTold(ts, kept, rows),
         kept \subseteq left, \A r \in kept : us[r] = ts[r], \A r \in left : us[r].recorded => r \in kept
  PROVE  RowsTold(us, left, rows)
<1>1. ASSUME NEW i \in DOMAIN rows
      PROVE  rows[i].run \in left /\ us[rows[i].run].recorded /\ Of(rows[i], us[rows[i].run]) /\ us[rows[i].run] = ts[rows[i].run]
  <2>1. rows[i].run \in kept /\ ts[rows[i].run].recorded /\ Of(rows[i], ts[rows[i].run])
    BY DEF RowsTold
  <2>2. us[rows[i].run] = ts[rows[i].run]
    BY <2>1
  <2> QED BY <2>1, <2>2
<1>2. ASSUME NEW r \in left, us[r].recorded, NEW k \in DOMAIN us[r].prompt
      PROVE  \E i \in DOMAIN rows : rows[i].run = r /\ <<rows[i].what, rows[i].tells>> = us[r].prompt[k]
  <2>1. r \in kept /\ us[r] = ts[r]
    BY <1>2
  <2> QED BY <1>2, <2>1 DEF RowsTold
<1>3. ASSUME NEW i \in DOMAIN rows, NEW j \in DOMAIN rows, rows[i].run = rows[j].run, rows[i].what = rows[j].what,
             Distinct(us[rows[i].run].blocks)
      PROVE  i = j
  <2>1. Distinct(ts[rows[i].run].blocks)
    BY <1>1, <1>3
  <2> QED BY <1>3, <2>1 DEF RowsTold
<1> QED BY <1>1, <1>2, <1>3 DEF RowsTold

(* Pieces are names and versions.                                          *)
LEMMA PiecesAre ==
  ASSUME NEW bs \in Seq(Known), NEW c \in [KnownNames -> Nat]
  PROVE  /\ Pieces(SortedBlocks(bs), c) \in Seq(KnownNames \X Nat)
         /\ CacheablePrefix(bs, c) \in Seq(KnownNames \X Nat)
<1> DEFINE t == SortedBlocks(bs)
           N == Len(bs)
           k == Cut(bs)
<1>1. N \in Nat /\ k \in Nat /\ k <= N
  BY CutIs
<1>2. \A n \in 1..N : t[n] \in Known
  BY PlacesHold DEF PlacesOf
<1>3. Pieces(t, c) = [n \in 1..N |-> <<t[n].name, c[t[n].name]>>]
  BY PromptIs
<1>4. CacheablePrefix(bs, c) = [n \in 1..k |-> <<t[n].name, c[t[n].name]>>]
  BY PrefixIs
<1> HIDE DEF t, N, k
<1>5. \A n \in 1..N : <<t[n].name, c[t[n].name]>> \in KnownNames \X Nat
  BY <1>2 DEF KnownNames
<1>6. Pieces(t, c) \in [1..N -> KnownNames \X Nat]
  BY <1>3, <1>5
<1>7. CacheablePrefix(bs, c) \in [1..k -> KnownNames \X Nat]
  BY <1>1, <1>4, <1>5
<1> QED BY <1>1, <1>6, <1>7 DEF t

LEMMA Composes ==
  ASSUME ContextInv, Compose
  PROVE  ContextInv'
<1> USE DEF ContextInv, ContextTyped
<1>1. PICK a \in Agents, row \in BOOLEAN :
        /\ turns' = Append(turns, [agent |-> a, blocks |-> assembler, content |-> contents, recorded |-> FALSE,
                                   prompt |-> Pieces(SortedBlocks(assembler), contents),
                                   prefix |-> CacheablePrefix(assembler, contents)])
        /\ tracked' = IF row THEN tracked \cup {Len(turns) + 1} ELSE tracked
  BY DEF Compose
<1> DEFINE p == Pieces(SortedBlocks(assembler), contents)
           q == CacheablePrefix(assembler, contents)
           t == [agent |-> a, blocks |-> assembler, content |-> contents, recorded |-> FALSE, prompt |-> p, prefix |-> q]
<1>2. UNCHANGED <<assembler, contents, observed, calls>>
  BY DEF Compose
<1>3. p \in Seq(KnownNames \X Nat) /\ q \in Seq(KnownNames \X Nat)
  BY PiecesAre
<1>4. Composed(t)
  BY DEF Composed
<1> HIDE DEF p, q
<1>5. t \in TurnShape /\ ~t.recorded
  BY <1>3 DEF TurnShape
<1>6. turns' = Append(turns, t)
  BY <1>1 DEF p, q
<1> HIDE DEF t
<1> DEFINE N == Len(turns)
<1>7. /\ N \in Nat /\ DOMAIN turns = 1..N
      /\ turns' \in Seq(TurnShape) /\ DOMAIN turns' = 1..N + 1
      /\ \A r \in DOMAIN turns : turns'[r] = turns[r]
      /\ turns'[N + 1] = t
  BY <1>5, <1>6
<1>8. tracked' \subseteq DOMAIN turns' /\ \A r \in tracked' : r \in tracked \/ r = N + 1
  BY <1>1, <1>7
<1>9. ASSUME NEW r \in DOMAIN turns' PROVE Composed(turns'[r])
  <2>1. r \in 1..N \/ r = N + 1
    BY <1>7
  <2>2. CASE r \in 1..N
    <3>1. r \in DOMAIN turns /\ Composed(turns[r])
      BY <1>7, <2>2
    <3> QED BY <1>7, <3>1
  <2> QED BY <1>4, <1>7, <2>1, <2>2
<1>10. RowsTold(turns', tracked', observed')
  <2>1. tracked \subseteq tracked' /\ tracked \subseteq DOMAIN turns
    BY <1>1
  <2>2. \A r \in tracked : turns'[r] = turns[r]
    BY <1>7, <2>1
  <2>3. \A r \in tracked' : turns'[r].recorded => r \in tracked
    BY <1>5, <1>7, <1>8
  <2> HIDE DEF N
  <2>4. RowsTold(turns', tracked', observed)
    BY <2>1, <2>2, <2>3, RowsStay
  <2> QED BY <1>2, <2>4
<1> HIDE DEF N
<1> QED BY <1>2, <1>7, <1>8, <1>9, <1>10

(* A run's rows, added, are its alone.                                     *)
LEMMA DistinctNames ==
  ASSUME NEW bs \in Seq(Known), Distinct(bs), NEW i \in DOMAIN bs, NEW j \in DOMAIN bs, bs[i].name = bs[j].name
  PROVE  i = j
<1> DEFINE S == DOMAIN bs
           f == [n \in S |-> bs[n].name]
<1>2. IsFiniteSet(S) /\ Cardinality(S) = Len(bs)
  BY ListDomain
<1>3. f \in Surjection(S, NamesOf(bs))
  BY DEF NamesOf, Surjection
<1>4. Cardinality(NamesOf(bs)) = Cardinality(S)
  BY <1>2 DEF Distinct
<1>5. f \in Injection(S, NamesOf(bs))
  BY <1>2, <1>3, <1>4, FS_Surjection
<1>6. f[i] = f[j]
  OBVIOUS
<1> HIDE DEF f
<1>7. i \in S /\ j \in S
  OBVIOUS
<1> HIDE DEF S
<1>8. DOMAIN f = S /\ \A a, b \in DOMAIN f : f[a] = f[b] => a = b
  BY <1>5 DEF Injection, IsInjective
<1> QED BY <1>6, <1>7, <1>8

LEMMA DistinctPieces ==
  ASSUME NEW t, Composed(t), Distinct(t.blocks),
         NEW k \in DOMAIN t.prompt, NEW l \in DOMAIN t.prompt, t.prompt[k][1] = t.prompt[l][1]
  PROVE  k = l
<1> DEFINE bs == t.blocks
           o == BlockOrder(bs)
           v == SortedBlocks(bs)
           N == Len(bs)
<1>1. bs \in Seq(Known) /\ Distinct(bs)
  BY DEF Composed
<1>2. t.prompt = [n \in 1..N |-> <<v[n].name, t.content[v[n].name]>>]
  BY <1>1, PromptIs DEF Composed
<1>3. /\ DOMAIN bs = 1..N
      /\ \A n \in 1..N : o[n] \in 1..N /\ v[n] = bs[o[n]] /\ Ahead(DOMAIN bs, Before(bs), o[n]) = n - 1
  BY <1>1, PlacesHold DEF PlacesOf
<1> HIDE DEF bs, o, v, N
<1>4. k \in 1..N /\ l \in 1..N /\ v[k].name = v[l].name
  BY <1>2
<1>5. o[k] = o[l]
  <2>1. o[k] \in DOMAIN bs /\ o[l] \in DOMAIN bs /\ bs[o[k]].name = bs[o[l]].name
    BY <1>3, <1>4
  <2> QED BY <1>1, <2>1, DistinctNames
<1>6. k - 1 = l - 1
  BY <1>3, <1>4, <1>5
<1> QED BY <1>4, <1>6

LEMMA BlocksRecorded ==
  ASSUME ContextInv, RecordBlocks
  PROVE  ContextInv'
<1> USE DEF ContextInv, ContextTyped
<1>1. PICK r \in DOMAIN turns :
        /\ ~turns[r].recorded /\ turns' = [turns EXCEPT ![r].recorded = TRUE]
        /\ observed' = IF r \in tracked THEN observed \o BlockRows(r) ELSE observed
  BY DEF RecordBlocks
<1>2. UNCHANGED <<assembler, contents, tracked, calls>>
  BY DEF RecordBlocks
<1> DEFINE t == [turns[r] EXCEPT !.recorded = TRUE]
           new == BlockRows(r)
           N == Len(observed)
           M == Len(turns[r].prompt)
<1>3. turns[r] \in TurnShape /\ Composed(turns[r]) /\ turns[r].prompt \in Seq(KnownNames \X Nat)
  <2>1. turns[r] \in TurnShape
    OBVIOUS
  <2> QED BY <2>1 DEF TurnShape
<1>4. t \in TurnShape /\ t.recorded /\ t.prompt = turns[r].prompt /\ t.blocks = turns[r].blocks
      /\ t.content = turns[r].content /\ t.prefix = turns[r].prefix
  BY <1>3 DEF TurnShape
<1>5. Composed(t)
  BY <1>3, <1>4 DEF Composed
<1>6. turns' = [turns EXCEPT ![r] = t]
  BY <1>1
<1> HIDE DEF t
<1>7. /\ turns' \in Seq(TurnShape) /\ DOMAIN turns' = DOMAIN turns /\ turns'[r] = t
      /\ \A s \in DOMAIN turns : s # r => turns'[s] = turns[s]
  BY <1>4, <1>6
<1>8. \A s \in DOMAIN turns' : Composed(turns'[s])
  BY <1>5, <1>7
<1>9. \A s \in DOMAIN turns : /\ turns'[s].prompt = turns[s].prompt /\ turns'[s].blocks = turns[s].blocks
                              /\ turns[s].recorded => turns'[s].recorded
                              /\ s # r => turns'[s].recorded = turns[s].recorded
  BY <1>4, <1>7
<1>10. CASE r \notin tracked
  <2>1. observed' = observed /\ \A s \in tracked : turns'[s] = turns[s]
    BY <1>1, <1>7, <1>10
  <2>2. \A s \in tracked : turns'[s].recorded => s \in tracked
    OBVIOUS
  <2>3. RowsTold(turns', tracked, observed)
    BY <2>1, <2>2, RowsStay
  <2> QED BY <1>2, <1>7, <1>8, <2>1, <2>3
<1>11. CASE r \in tracked
  <2>1. /\ M \in Nat /\ DOMAIN turns[r].prompt = 1..M
        /\ \A k \in 1..M : turns[r].prompt[k] \in KnownNames \X Nat
    BY <1>3
  <2>2. new = [k \in 1..M |-> [run |-> r, what |-> turns[r].prompt[k][1], tells |-> turns[r].prompt[k][2]]]
    BY <2>1 DEF BlockRows
  <2>3. r \in Nat /\ N \in Nat /\ DOMAIN observed = 1..N
    OBVIOUS
  <2> HIDE DEF M, new
  <2>4. new \in Seq([run : Nat, what : KnownNames, tells : Nat]) /\ Len(new) = M
    BY <2>1, <2>2, <2>3
  <2>5. observed' = observed \o new
    BY <1>1, <1>11 DEF new
  <2>6. /\ observed' \in Seq([run : Nat, what : KnownNames, tells : Nat]) /\ DOMAIN observed' = 1..N + M
        /\ \A i \in 1..N : observed'[i] = observed[i]
        /\ \A i \in 1..M : observed'[N + i] = new[i]
    <3> PICK u, S : u = observed /\ S = [run : Nat, what : KnownNames, tells : Nat]
      OBVIOUS
    <3>1. u \in Seq(S) /\ new \in Seq(S) /\ Len(u) = N /\ N \in Nat /\ M \in Nat
      BY <2>1, <2>3, <2>4
    <3>2. u \o new \in Seq(S) /\ Len(u \o new) = Len(u) + Len(new)
          /\ \A i \in 1..Len(u) + Len(new) : (u \o new)[i] = IF i <= Len(u) THEN u[i] ELSE new[i - Len(u)]
      BY <3>1, ConcatProperties
    <3> PICK v : v = u \o new
      OBVIOUS
    <3>3. v \in Seq(S) /\ Len(v) = N + M /\ \A i \in 1..N + M : v[i] = IF i <= N THEN u[i] ELSE new[i - N]
      BY <2>4, <3>1, <3>2
    <3>4. /\ DOMAIN v = 1..N + M /\ \A i \in 1..N : v[i] = u[i]
          /\ \A i \in 1..M : v[N + i] = new[i]
      BY <3>1, <3>3
    <3> QED BY <2>5, <3>3, <3>4
  <2>7. \A i \in 1..N : observed[i].run # r
    BY <1>1, <2>3 DEF RowsTold
  <2>8. \A i \in 1..N + M : i \in 1..N \/ \E k \in 1..M : i = N + k
    <3> TAKE i \in 1..N + M
    <3>1. CASE i <= N
      BY <2>3, <3>1
    <3>2. CASE i > N
      <4>1. i - N \in 1..M /\ i = N + (i - N)
        BY <2>1, <2>3, <3>2
      <4> QED BY <4>1
    <3> QED BY <2>1, <2>3, <3>1, <3>2
  <2>9. \A k \in 1..M : /\ new[k].run = r
                        /\ turns[r].prompt[k] = <<new[k].what, new[k].tells>>
    BY <2>1, <2>2
  <2>10. \A i \in DOMAIN observed' :
           observed'[i].run \in tracked' /\ turns'[observed'[i].run].recorded /\ Of(observed'[i], turns'[observed'[i].run])
    <3> TAKE i \in DOMAIN observed'
    <3>1. CASE i \in 1..N
      <4>1. observed[i].run \in tracked /\ turns[observed[i].run].recorded /\ Of(observed[i], turns[observed[i].run])
        BY <2>3, <3>1 DEF RowsTold
      <4> QED BY <1>2, <1>9, <2>6, <3>1, <4>1 DEF Of
    <3>2. ASSUME NEW k \in 1..M, i = N + k PROVE observed'[i].run \in tracked' /\ turns'[observed'[i].run].recorded /\ Of(observed'[i], turns'[observed'[i].run])
      <4>1. observed'[i] = new[k]
        BY <2>6, <3>2
      <4>2. turns'[r].recorded /\ turns'[r].prompt = turns[r].prompt
        BY <1>4, <1>7
      <4> QED BY <1>2, <1>11, <2>1, <2>9, <4>1, <4>2 DEF Of
    <3> QED BY <2>6, <2>8, <3>1, <3>2
  <2>11. ASSUME NEW s \in tracked', turns'[s].recorded, NEW k \in DOMAIN turns'[s].prompt
         PROVE  \E i \in DOMAIN observed' : observed'[i].run = s /\ <<observed'[i].what, observed'[i].tells>> = turns'[s].prompt[k]
    <3>1. s \in tracked /\ s \in DOMAIN turns /\ turns'[s].prompt = turns[s].prompt
      BY <1>2, <1>9
    <3>2. CASE s = r
      <4>1. k \in 1..M
        BY <2>1, <3>1, <3>2 DEF M
      <4>2. N + k \in 1..N + M
        BY <2>1, <2>3, <4>1
      <4>3. N + k \in DOMAIN observed' /\ observed'[N + k] = new[k]
        BY <2>6, <4>1, <4>2
      <4> QED BY <2>9, <3>1, <3>2, <4>1, <4>3
    <3>3. CASE s # r
      <4>1. turns[s].recorded
        BY <1>7, <2>11, <3>1, <3>3
      <4>2. PICK i \in DOMAIN observed : observed[i].run = s /\ <<observed[i].what, observed[i].tells>> = turns[s].prompt[k]
        BY <2>11, <3>1, <4>1 DEF RowsTold
      <4>3. i \in DOMAIN observed' /\ observed'[i] = observed[i]
        BY <2>1, <2>3, <2>6
      <4> QED BY <3>1, <4>2, <4>3
    <3> QED BY <3>2, <3>3
  <2>12. ASSUME NEW i \in DOMAIN observed', NEW j \in DOMAIN observed', observed'[i].run = observed'[j].run,
                observed'[i].what = observed'[j].what, Distinct(turns'[observed'[i].run].blocks)
         PROVE  i = j
    <3>1. CASE i \in 1..N /\ j \in 1..N
      <4>1. observed'[i] = observed[i] /\ observed'[j] = observed[j]
        BY <2>6, <3>1
      <4>2. observed[i].run \in DOMAIN turns
        BY <2>3, <3>1 DEF RowsTold
      <4>3. Distinct(turns[observed[i].run].blocks)
        BY <1>9, <2>12, <4>1, <4>2
      <4>4. i \in DOMAIN observed /\ j \in DOMAIN observed
        BY <2>3, <3>1
      <4>5. observed[i].run = observed[j].run /\ observed[i].what = observed[j].what
        BY <2>12, <4>1
      <4>6. RowsTold(turns, tracked, observed)
        OBVIOUS
      <4> QED BY <4>3, <4>4, <4>5, <4>6 DEF RowsTold
    <3>2. ASSUME NEW k \in 1..M, NEW l \in 1..M, i = N + k, j = N + l PROVE i = j
      <4>1. observed'[i] = new[k] /\ observed'[j] = new[l]
        BY <2>6, <3>2
      <4>2. turns[r].prompt[k][1] = turns[r].prompt[l][1] /\ Distinct(turns[r].blocks)
        BY <1>9, <2>9, <2>12, <4>1
      <4>3. k = l
        BY <1>3, <2>1, <4>2, DistinctPieces
      <4> QED BY <3>2, <4>3
    <3>3. \A k \in 1..M : observed'[N + k].run = r
      BY <2>6, <2>9
    <3>4. \A n \in 1..N : observed'[n].run # r
      BY <2>6, <2>7
    <3>5. i \in 1..N \/ \E k \in 1..M : i = N + k
      BY <2>6, <2>8
    <3>6. j \in 1..N \/ \E k \in 1..M : j = N + k
      BY <2>6, <2>8
    <3>7. ASSUME i \in 1..N, NEW k \in 1..M, j = N + k PROVE FALSE
      BY <2>12, <3>3, <3>4, <3>7
    <3>8. ASSUME j \in 1..N, NEW k \in 1..M, i = N + k PROVE FALSE
      BY <2>12, <3>3, <3>4, <3>8
    <3> QED BY <3>1, <3>2, <3>5, <3>6, <3>7, <3>8
  <2>13. RowsTold(turns', tracked', observed')
    BY <2>10, <2>11, <2>12 DEF RowsTold
  <2> QED BY <1>2, <1>7, <1>8, <2>6, <2>13
<1> QED BY <1>10, <1>11

(* What a run's prompt has to do with its blocks.                          *)
LEMMA PiecesTell ==
  ASSUME NEW t, Composed(t)
  PROVE  /\ \A k \in DOMAIN t.prompt : /\ t.prompt[k][1] \in NamesOf(t.blocks)
                                       /\ t.prompt[k] = <<t.prompt[k][1], t.content[t.prompt[k][1]]>>
         /\ \A n \in NamesOf(t.blocks) : \E k \in DOMAIN t.prompt : t.prompt[k][1] = n
<1> DEFINE bs == t.blocks
           o == BlockOrder(bs)
           v == SortedBlocks(bs)
           N == Len(bs)
<1>1. bs \in Seq(Known)
  BY DEF Composed
<1>2. t.prompt = [n \in 1..N |-> <<v[n].name, t.content[v[n].name]>>]
  BY <1>1, PromptIs DEF Composed
<1>3. DOMAIN bs = 1..N /\ \A n \in 1..N : o[n] \in 1..N /\ v[n] = bs[o[n]]
  BY <1>1, PlacesHold DEF PlacesOf
<1>4. \A x \in 1..N : \E n \in 1..N : o[n] = x
  BY <1>1, PlacesHold DEF PlacesOf
<1>5. NamesOf(t.blocks) = {bs[i].name : i \in 1..N}
  BY <1>3 DEF NamesOf
<1> HIDE DEF bs, o, v, N
<1>6. ASSUME NEW k \in DOMAIN t.prompt
      PROVE  t.prompt[k][1] \in NamesOf(t.blocks) /\ t.prompt[k] = <<t.prompt[k][1], t.content[t.prompt[k][1]]>>
  <2>1. k \in 1..N /\ t.prompt[k] = <<v[k].name, t.content[v[k].name]>>
    BY <1>2
  <2>2. v[k] = bs[o[k]] /\ o[k] \in 1..N
    BY <1>3, <2>1
  <2>3. v[k].name \in NamesOf(t.blocks)
    BY <1>5, <2>2
  <2> QED BY <2>1, <2>3
<1>7. ASSUME NEW n \in NamesOf(t.blocks) PROVE \E k \in DOMAIN t.prompt : t.prompt[k][1] = n
  <2>1. PICK i \in 1..N : n = bs[i].name
    BY <1>5
  <2>2. PICK k \in 1..N : o[k] = i
    BY <1>4
  <2>3. v[k].name = n
    BY <1>3, <2>1, <2>2
  <2>4. k \in DOMAIN t.prompt /\ t.prompt[k][1] = n
    BY <1>2, <2>3
  <2> QED BY <2>4
<1> QED BY <1>6, <1>7

(* What a sublist keeps, it keeps once.                                    *)
Keeps(kept, rows, I) ==
  \E f \in [DOMAIN kept -> I] :
    /\ \A n \in DOMAIN kept : kept[n] = rows[f[n]]
    /\ \A n, m \in DOMAIN kept : f[n] = f[m] => n = m
    /\ \A i \in I : \E n \in DOMAIN kept : f[n] = i

LEMMA RowsLeft ==
  ASSUME NEW T, NEW rows \in Seq(T), NEW I \in SUBSET (DOMAIN rows)
  PROVE  Sublist(rows, I) \in Seq(T) /\ Keeps(Sublist(rows, I), rows, I)
<1> DEFINE a == Arranged(I, Ascending(I))
           N == Cardinality(I)
<1>1. I \subseteq Int /\ \A i \in I : rows[i] \in T
  OBVIOUS
<1>2. IsFiniteSet(I)
  <2>1. IsFiniteSet(DOMAIN rows)
    BY FS_Interval
  <2> QED BY <2>1, FS_Subset
<1>3. Sublist(rows, I) \in Seq(T) /\ DOMAIN Sublist(rows, I) = 1..N
  BY <1>1, <1>2, SublistIs, SublistIsList
<1>4. /\ N \in Nat /\ DOMAIN a = 1..N
      /\ \A n \in 1..N : a[n] \in I /\ Ahead(I, Ascending(I), a[n]) = n - 1
      /\ \A i \in I : Ahead(I, Ascending(I), i) + 1 \in 1..N /\ a[Ahead(I, Ascending(I), i) + 1] = i
  BY <1>1, <1>2, ArrangedIs, AscendingOrders
<1>5. a \in [1..N -> I]
  <2>1. a = [n \in 1..N |-> CHOOSE x \in I : Ahead(I, Ascending(I), x) = n - 1]
    BY DEF Arranged
  <2> HIDE DEF a
  <2>2. a = [n \in 1..N |-> a[n]]
    BY <2>1
  <2> QED BY <1>4, <2>2
<1>6. \A n \in 1..N : Sublist(rows, I)[n] = rows[a[n]]
  BY DEF Sublist
<1> HIDE DEF a, N
<1>7. \A n, m \in 1..N : a[n] = a[m] => n = m
  <2> TAKE n, m \in 1..N
  <2> HAVE a[n] = a[m]
  <2>1. n - 1 = m - 1
    BY <1>4
  <2> QED BY <2>1
<1>8. \A i \in I : \E n \in 1..N : a[n] = i
  BY <1>4
<1>9. /\ a \in [DOMAIN Sublist(rows, I) -> I]
      /\ \A n \in DOMAIN Sublist(rows, I) : Sublist(rows, I)[n] = rows[a[n]]
      /\ \A n, m \in DOMAIN Sublist(rows, I) : a[n] = a[m] => n = m
      /\ \A i \in I : \E n \in DOMAIN Sublist(rows, I) : a[n] = i
  BY <1>3, <1>5, <1>6, <1>7, <1>8
<1>10. Keeps(Sublist(rows, I), rows, I)
  BY <1>9 DEF Keeps
<1> QED BY <1>3, <1>10

LEMMA RunDeleted ==
  ASSUME ContextInv, DeleteRun
  PROVE  ContextInv'
<1> USE DEF ContextInv, ContextTyped
<1>1. PICK r \in tracked :
        /\ tracked' = tracked \ {r}
        /\ observed' = Sublist(observed, {i \in DOMAIN observed : observed[i].run # r})
        /\ calls' = Sublist(calls, {i \in DOMAIN calls : calls[i].run # r})
  BY DEF DeleteRun
<1>2. UNCHANGED <<assembler, contents, turns>>
  BY DEF DeleteRun
<1> DEFINE I == {i \in DOMAIN observed : observed[i].run # r}
<1>3. observed' \in Seq([run : Nat, what : KnownNames, tells : Nat])
  BY <1>1, RowsLeft
<1>4. calls' \in Seq([run : Nat, what : ToolNames, tells : BOOLEAN])
  BY <1>1, RowsLeft
<1>5. PICK f \in [DOMAIN observed' -> I] :
        /\ \A n \in DOMAIN observed' : observed'[n] = observed[f[n]]
        /\ \A n, m \in DOMAIN observed' : f[n] = f[m] => n = m
        /\ \A i \in I : \E n \in DOMAIN observed' : f[n] = i
  <2>1. observed' = Sublist(observed, I)
    BY <1>1
  <2>2. I \in SUBSET (DOMAIN observed) /\ observed \in Seq([run : Nat, what : KnownNames, tells : Nat])
    OBVIOUS
  <2> HIDE DEF I
  <2>3. Keeps(Sublist(observed, I), observed, I)
    BY <2>2, RowsLeft
  <2>4. Keeps(observed', observed, I)
    BY <2>1, <2>3
  <2> QED BY <2>4 DEF Keeps
<1>6. \A i \in I : i \in DOMAIN observed /\ observed[i].run # r
  OBVIOUS
<1>7. \A i \in DOMAIN observed : observed[i].run # r => i \in I
  OBVIOUS
<1> HIDE DEF I
<1>8. RowsTold(turns', tracked', observed')
  <2>1. \A n \in DOMAIN observed' : f[n] \in DOMAIN observed /\ observed'[n] = observed[f[n]] /\ observed[f[n]].run # r
    BY <1>5, <1>6
  <2>2. \A n \in DOMAIN observed' :
          observed'[n].run \in tracked' /\ turns'[observed'[n].run].recorded /\ Of(observed'[n], turns'[observed'[n].run])
    <3> TAKE n \in DOMAIN observed'
    <3> PICK i : i = f[n]
      OBVIOUS
    <3>1. i \in DOMAIN observed /\ observed'[n] = observed[i] /\ observed[i].run # r
      BY <2>1
    <3>2. observed[i].run \in tracked /\ turns[observed[i].run].recorded /\ Of(observed[i], turns[observed[i].run])
      BY <3>1 DEF RowsTold
    <3> QED BY <1>1, <1>2, <3>1, <3>2
  <2>3. ASSUME NEW s \in tracked', turns'[s].recorded, NEW k \in DOMAIN turns'[s].prompt
        PROVE  \E n \in DOMAIN observed' : observed'[n].run = s /\ <<observed'[n].what, observed'[n].tells>> = turns'[s].prompt[k]
    <3>1. s \in tracked /\ s # r /\ turns'[s] = turns[s]
      BY <1>1, <1>2
    <3>2. PICK i \in DOMAIN observed : observed[i].run = s /\ <<observed[i].what, observed[i].tells>> = turns[s].prompt[k]
      BY <2>3, <3>1 DEF RowsTold
    <3>3. PICK n \in DOMAIN observed' : f[n] = i
      BY <1>5, <1>7, <3>1, <3>2
    <3> QED BY <2>1, <3>1, <3>2, <3>3
  <2>4. ASSUME NEW n \in DOMAIN observed', NEW m \in DOMAIN observed', observed'[n].run = observed'[m].run,
               observed'[n].what = observed'[m].what, Distinct(turns'[observed'[n].run].blocks)
        PROVE  n = m
    <3>1. f[n] = f[m]
      <4> PICK i, j : i = f[n] /\ j = f[m]
        OBVIOUS
      <4>1. i \in DOMAIN observed /\ j \in DOMAIN observed /\ observed'[n] = observed[i] /\ observed'[m] = observed[j]
        BY <2>1
      <4>2. observed[i].run = observed[j].run /\ observed[i].what = observed[j].what /\ Distinct(turns[observed[i].run].blocks)
        BY <1>2, <2>4, <4>1
      <4>3. RowsTold(turns, tracked, observed)
        OBVIOUS
      <4>4. i = j
        BY <4>1, <4>2, <4>3 DEF RowsTold
      <4> QED BY <4>4
    <3> QED BY <1>5, <3>1
  <2> QED BY <2>2, <2>3, <2>4 DEF RowsTold
<1> QED BY <1>1, <1>2, <1>3, <1>4, <1>8

LEMMA ContextGoesOn == ContextInv /\ [ContextNext]_context => ContextInv'
<1> SUFFICES ASSUME ContextInv, [ContextNext]_context PROVE ContextInv'
  OBVIOUS
<1> USE DEF ContextInv, ContextTyped
<1>1. CASE WithBlock
  <2>1. PICK b \in Blocks : assembler' = Append(assembler, b)
    BY <1>1 DEF WithBlock
  <2>2. b \in Known
    BY DEF Known
  <2>3. assembler' \in Seq(Known)
    BY <2>1, <2>2
  <2>4. UNCHANGED <<contents, turns, tracked, observed, calls>>
    BY <1>1 DEF WithBlock
  <2> QED BY <2>3, <2>4
<1>2. CASE ContentChanges
  <2>1. PICK n \in Built : contents' = [contents EXCEPT ![n] = @ + 1]
    BY <1>2 DEF ContentChanges
  <2> PICK c : c = contents
    OBVIOUS
  <2>2. c \in [KnownNames -> Nat] /\ contents' = [c EXCEPT ![n] = c[n] + 1]
    BY <2>1
  <2>4. \A m \in KnownNames : [c EXCEPT ![n] = c[n] + 1][m] \in Nat
    BY <2>2
  <2>5. contents' \in [KnownNames -> Nat]
    BY <2>2, <2>4
  <2>3. UNCHANGED <<assembler, turns, tracked, observed, calls>>
    BY <1>2 DEF ContentChanges
  <2> QED BY <2>3, <2>5
<1>3. CASE Compose
  BY <1>3, Composes
<1>4. CASE RecordBlocks
  BY <1>4, BlocksRecorded
<1>5. CASE RecordCall
  <2>1. PICK r \in tracked, t \in ToolNames, ok \in BOOLEAN : calls' = Append(calls, [run |-> r, what |-> t, tells |-> ok])
    BY <1>5 DEF RecordCall
  <2>2. r \in Nat
    OBVIOUS
  <2>3. calls' \in Seq([run : Nat, what : ToolNames, tells : BOOLEAN])
    BY <2>1, <2>2
  <2>4. UNCHANGED <<assembler, contents, turns, tracked, observed>>
    BY <1>5 DEF RecordCall
  <2> QED BY <2>3, <2>4
<1>6. CASE DeleteRun
  BY <1>6, RunDeleted
<1>7. CASE UNCHANGED context
  BY <1>7 DEF context
<1> QED BY <1>1, <1>2, <1>3, <1>4, <1>5, <1>6, <1>7 DEF ContextNext

-----------------------------------------------------------------------------
(* What is cached.                                                         *)
LEMMA PrefixesSafe == ContextInv => PrefixIsSafe
<1> SUFFICES ASSUME ContextInv, NEW i \in DOMAIN turns, NEW j \in DOMAIN turns
             PROVE  /\ IsPrefix(turns[i].prefix, turns[i].prompt)
                    /\ /\ turns[i].blocks = turns[j].blocks
                       /\ \A k \in DOMAIN turns[i].blocks :
                            turns[i].blocks[k].tier # "volatile"
                              => turns[i].content[turns[i].blocks[k].name] = turns[j].content[turns[i].blocks[k].name]
                       => turns[i].prefix = turns[j].prefix
  BY DEF PrefixIsSafe
<1>1. Composed(turns[i]) /\ Composed(turns[j])
  BY DEF ContextInv, ContextTyped
<1>2. IsPrefix(turns[i].prefix, turns[i].prompt)
  BY <1>1, PrefixStarts DEF Composed
<1>3. ASSUME turns[i].blocks = turns[j].blocks,
             \A k \in DOMAIN turns[i].blocks :
               turns[i].blocks[k].tier # "volatile"
                 => turns[i].content[turns[i].blocks[k].name] = turns[j].content[turns[i].blocks[k].name]
      PROVE  turns[i].prefix = turns[j].prefix
  <2>1. turns[i].blocks \in Seq(Known)
    BY <1>1 DEF Composed
  <2>2. CacheablePrefix(turns[i].blocks, turns[i].content) = CacheablePrefix(turns[i].blocks, turns[j].content)
    BY <1>3, <2>1, PrefixStands
  <2> QED BY <1>1, <1>3, <2>2 DEF Composed
<1> QED BY <1>2, <1>3

LEMMA AddedBehind == ContextInv => AddedBehindCache
<1> SUFFICES ASSUME ContextInv, NEW i \in DOMAIN turns, NEW j \in DOMAIN turns,
                    IsPrefix(turns[i].blocks, turns[j].blocks), turns[i].content = turns[j].content,
                    \A k \in Len(turns[i].blocks) + 1..Len(turns[j].blocks) :
                      /\ turns[j].blocks[k].position = Unpinned
                      /\ \A l \in DOMAIN turns[i].blocks :
                           turns[i].blocks[l].position = Unpinned
                             /\ (\E m \in DOMAIN turns[i].prefix : turns[i].prefix[m][1] = turns[i].blocks[l].name)
                           => Rank(turns[i].blocks[l].tier) <= Rank(turns[j].blocks[k].tier)
             PROVE  IsPrefix(turns[i].prefix, turns[j].prompt)
  BY DEF AddedBehindCache
<1> DEFINE old == turns[i].blocks
           new == turns[j].blocks
           c == turns[i].content
           names == {turns[i].prefix[m][1] : m \in DOMAIN turns[i].prefix}
<1>1. Composed(turns[i]) /\ Composed(turns[j])
  BY DEF ContextInv, ContextTyped
<1>2. /\ old \in Seq(Known) /\ new \in Seq(Known)
      /\ turns[i].prefix = CacheablePrefix(old, c) /\ turns[j].prompt = Pieces(SortedBlocks(new), c)
  BY <1>1 DEF Composed
<1>3. Behind(old, new, names)
  BY DEF Behind
<1>4. turns[i].prefix = [n \in 1..Cut(old) |-> <<SortedBlocks(old)[n].name, c[SortedBlocks(old)[n].name]>>]
  BY <1>2, PrefixIs
<1>5. \A n \in 1..Cut(old) : SortedBlocks(old)[n].name \in names
  <2> TAKE n \in 1..Cut(old)
  <2>1. n \in DOMAIN turns[i].prefix /\ turns[i].prefix[n][1] = SortedBlocks(old)[n].name
    BY <1>4
  <2> QED BY <2>1
<1> HIDE DEF old, new, c, names
<1>6. IsPrefix(CacheablePrefix(old, c), Pieces(SortedBlocks(new), c))
  BY <1>2, <1>3, <1>5, PrefixLeads
<1> QED BY <1>2, <1>6

-----------------------------------------------------------------------------
(* What is measured.                                                       *)
LEMMA ObservationsCount ==
  ASSUME ContextInv, NEW n, NEW as,
         \A r \in tracked : turns[r].recorded /\ turns[r].agent \in as /\ n \in NamesOf(turns[r].blocks)
                              => Distinct(turns[r].blocks)
  PROVE  LET sent == {r \in tracked : turns[r].recorded /\ turns[r].agent \in as /\ n \in NamesOf(turns[r].blocks)}
         IN  /\ Volatility(n, as).total = Cardinality(sent)
             /\ Volatility(n, as).distinct = Cardinality({turns[r].content[n] : r \in sent})
<1> DEFINE sent == {r \in tracked : turns[r].recorded /\ turns[r].agent \in as /\ n \in NamesOf(turns[r].blocks)}
           seen == Seen(observed, n, as)
           f == [i \in seen |-> observed[i].run]
<1>1. \A r \in tracked : r \in DOMAIN turns /\ Composed(turns[r])
  BY DEF ContextInv, ContextTyped
<1>2. \A i \in seen : i \in DOMAIN observed /\ observed[i].what = n /\ turns[observed[i].run].agent \in as
  BY DEF Seen
<1>3. \A i \in DOMAIN observed : observed[i].what = n /\ turns[observed[i].run].agent \in as => i \in seen
  BY DEF Seen
<1>4. IsFiniteSet(seen)
  <2>1. IsFiniteSet(DOMAIN observed)
    BY FS_Interval DEF ContextInv, ContextTyped
  <2>2. seen \subseteq DOMAIN observed
    BY <1>2
  <2> QED BY <2>1, <2>2, FS_Subset
<1>5. Volatility(n, as) = [total |-> Cardinality(seen), distinct |-> Cardinality({observed[i].tells : i \in seen})]
  BY DEF Volatility
<1> HIDE DEF seen
<1>6. ASSUME NEW i \in seen PROVE observed[i].run \in sent /\ observed[i].tells = turns[observed[i].run].content[n]
  <2> DEFINE t == turns[observed[i].run]
  <2>1. observed[i].run \in tracked /\ t.recorded /\ Of(observed[i], t)
    BY <1>2, <1>6 DEF ContextInv, RowsTold
  <2>2. Composed(t)
    BY <1>1, <2>1
  <2> HIDE DEF t
  <2>3. PICK k \in DOMAIN t.prompt : t.prompt[k] = <<n, observed[i].tells>>
    BY <1>2, <1>6, <2>1 DEF Of
  <2>4. n \in NamesOf(t.blocks) /\ t.prompt[k] = <<n, t.content[n]>>
    BY <2>2, <2>3, PiecesTell
  <2>5. observed[i].tells = t.content[n]
    BY <2>3, <2>4
  <2> QED BY <1>2, <2>1, <2>4, <2>5 DEF t
<1>7. ASSUME NEW r \in sent PROVE \E i \in seen : observed[i].run = r
  <2>1. r \in tracked /\ turns[r].recorded /\ turns[r].agent \in as /\ n \in NamesOf(turns[r].blocks)
    OBVIOUS
  <2>2. PICK k \in DOMAIN turns[r].prompt : turns[r].prompt[k][1] = n
    BY <1>1, <2>1, PiecesTell
  <2>3. PICK i \in DOMAIN observed : observed[i].run = r /\ <<observed[i].what, observed[i].tells>> = turns[r].prompt[k]
    BY <2>1 DEF ContextInv, RowsTold
  <2>4. observed[i].what = n
    BY <2>2, <2>3
  <2> QED BY <1>3, <2>1, <2>3, <2>4
<1>8. ASSUME NEW i \in seen, NEW j \in seen, observed[i].run = observed[j].run PROVE i = j
  <2>1. observed[i].run \in sent
    BY <1>6
  <2>2. Distinct(turns[observed[i].run].blocks)
    BY <2>1
  <2>3. i \in DOMAIN observed /\ j \in DOMAIN observed /\ observed[i].what = observed[j].what
    BY <1>2
  <2> QED BY <1>8, <2>2, <2>3 DEF ContextInv, RowsTold
<1> HIDE DEF sent
<1>9. f \in Bijection(seen, sent)
  <2>1. f \in [seen -> sent]
    BY <1>6
  <2>2. \A r \in sent : \E i \in seen : f[i] = r
    BY <1>7
  <2>3. \A i, j \in seen : f[i] = f[j] => i = j
    BY <1>8
  <2> HIDE DEF f
  <2>4. f \in Injection(seen, sent)
    <3>1. IsInjective(f)
      BY <2>1, <2>3 DEF IsInjective
    <3> QED BY <2>1, <3>1 DEF Injection
  <2>5. f \in Surjection(seen, sent)
    BY <2>1, <2>2 DEF Surjection
  <2> QED BY <2>4, <2>5 DEF Bijection
<1>10. Cardinality(sent) = Cardinality(seen)
  BY <1>4, <1>9, FS_Bijection DEF ExistsBijection
<1>11. {observed[i].tells : i \in seen} = {turns[r].content[n] : r \in sent}
  BY <1>6, <1>7
<1>12. /\ Volatility(n, as).total = Cardinality(sent)
       /\ Volatility(n, as).distinct = Cardinality({turns[r].content[n] : r \in sent})
  <2> PICK x, y : x = Cardinality(seen) /\ y = Cardinality({observed[i].tells : i \in seen})
    OBVIOUS
  <2>1. Volatility(n, as) = [total |-> x, distinct |-> y]
    BY <1>5
  <2>2. Volatility(n, as).total = x /\ Volatility(n, as).distinct = y
    BY <2>1
  <2>3. y = Cardinality({turns[r].content[n] : r \in sent})
    BY <1>11
  <2> QED BY <1>10, <2>2, <2>3
<1> QED BY <1>12 DEF sent

AddsUp(t, as, bs) ==
  /\ FailureRate(t, as \cup bs).total = FailureRate(t, as).total + FailureRate(t, bs).total
  /\ FailureRate(t, as \cup bs).failures = FailureRate(t, as).failures + FailureRate(t, bs).failures

LEMMA CallsAddUp ==
  ASSUME ContextInv, NEW t, NEW as, NEW bs, as \cap bs = {}
  PROVE  AddsUp(t, as, bs)
<1> DEFINE A == Seen(calls, t, as)
           B == Seen(calls, t, bs)
           C == Seen(calls, t, as \cup bs)
           F(S) == {i \in S : ~calls[i].tells}
<1>1. IsFiniteSet(DOMAIN calls)
  BY FS_Interval DEF ContextInv, ContextTyped
<1>2. A \subseteq DOMAIN calls /\ B \subseteq DOMAIN calls /\ C = A \cup B /\ A \cap B = {}
  BY DEF Seen
<1>3. /\ FailureRate(t, as) = [total |-> Cardinality(A), failures |-> Cardinality(F(A))]
      /\ FailureRate(t, bs) = [total |-> Cardinality(B), failures |-> Cardinality(F(B))]
      /\ FailureRate(t, as \cup bs) = [total |-> Cardinality(C), failures |-> Cardinality(F(C))]
  BY DEF FailureRate
<1> HIDE DEF A, B, C
<1>4. ASSUME NEW S, NEW T, IsFiniteSet(S), IsFiniteSet(T), S \cap T = {}
      PROVE  Cardinality(S \cup T) = Cardinality(S) + Cardinality(T)
  <2>1. Cardinality(S \cup T) = Cardinality(S) + Cardinality(T) - Cardinality(S \cap T)
    BY <1>4, FS_Union
  <2>2. Cardinality(S) \in Nat /\ Cardinality(T) \in Nat /\ Cardinality(S \cap T) = 0
    BY <1>4, FS_CardinalityType, FS_EmptySet
  <2> QED BY <2>1, <2>2
<1>5. IsFiniteSet(A) /\ IsFiniteSet(B) /\ IsFiniteSet(F(A)) /\ IsFiniteSet(F(B))
  <2>1. F(A) \subseteq DOMAIN calls /\ F(B) \subseteq DOMAIN calls
    BY <1>2
  <2> HIDE DEF F
  <2> QED BY <1>1, <1>2, <2>1, FS_Subset
<1>6. Cardinality(C) = Cardinality(A) + Cardinality(B)
  BY <1>2, <1>4, <1>5
<1>7. F(C) = F(A) \cup F(B) /\ F(A) \cap F(B) = {}
  BY <1>2
<1> HIDE DEF F
<1>8. Cardinality(F(C)) = Cardinality(F(A)) + Cardinality(F(B))
  BY <1>4, <1>5, <1>7
<1> QED BY <1>3, <1>6, <1>8 DEF AddsUp

LEMMA MetricsHold == ContextInv => MetricsTell
<1> SUFFICES ASSUME ContextInv PROVE MetricsTell
  OBVIOUS
<1>1. ASSUME NEW n \in DOMAIN contents, NEW as \in Asked
      PROVE  LET sent == {r \in tracked : /\ turns[r].recorded /\ turns[r].agent \in as
                                          /\ n \in NamesOf(turns[r].blocks)}
                 told == Volatility(n, as)
             IN (\A r \in sent : Distinct(turns[r].blocks)) =>
                  /\ told.total = Cardinality(sent)
                  /\ told.distinct = Cardinality({turns[r].content[n] : r \in sent})
  BY ObservationsCount
<1>2. ASSUME NEW t \in ToolNames, NEW as \in SUBSET Agents, NEW bs \in SUBSET (Agents \ as)
      PROVE  LET both == FailureRate(t, as \cup bs) IN
             /\ both.total = FailureRate(t, as).total + FailureRate(t, bs).total
             /\ both.failures = FailureRate(t, as).failures + FailureRate(t, bs).failures
  <2>1. as \cap bs = {}
    OBVIOUS
  <2>2. AddsUp(t, as, bs)
    BY <2>1, CallsAddUp
  <2> QED BY <2>2 DEF AddsUp
<1> QED BY <1>1, <1>2 DEF MetricsTell

(* Whatever is assembled, recorded and deleted: what is marked cacheable    *)
(* starts the prompt, changes only with a block that is not volatile and    *)
(* is not pushed away by a block added behind it; the metrics count each    *)
(* recorded run once (context_blocks.py, db.py).                           *)
THEOREM ContextsHold == ContextSpec => []ContextHolds
<1>1. ContextInv => ContextHolds
  BY PrefixesSafe, AddedBehind, MetricsHold DEF ContextHolds
<1> QED BY <1>1, ContextBegins, ContextGoesOn, PTL DEF ContextSpec
=============================================================================
