---------------------------- MODULE ProbeCache ----------------------------
(***************************************************************************)
(* The disk-backed cache of synthesised probes (improvement/probe_cache).  *)
(* Caller threads get single probes or prewarm a set of them through a     *)
(* pool; only the dictionary and the set of fallbacks are under the lock,  *)
(* the teacher call and the write of the file are not.  The process may    *)
(* die and start again on the file it left.                                *)
(***************************************************************************)
EXTENDS Integers, FiniteSets

CONSTANTS
  Keys,        \* probe keys
  Callers,     \* threads that call the cache
  Gets,        \* the keys a caller may get by itself
  Prewarms,    \* the key sets a caller may prewarm
  Workers,     \* threads of a prewarm's pool
  WriteFails,  \* whether writing the file may fail
  MaxCrashes   \* how often the process may die

ASSUME ProbeCacheAssumption ==
  /\ Gets \subseteq Keys /\ Prewarms \subseteq SUBSET Keys
  /\ Workers \in Nat \ {0} /\ MaxCrashes \in Nat /\ WriteFails \in BOOLEAN

(* A probe's text is abstracted to where it came from. *)
Texts    == {"real", "fallback"}
Probes   == [Keys -> Texts \cup {"none"}]
NoProbes == [k \in Keys |-> "none"]

VARIABLES
  cache,      \* _cache
  fallbacks,  \* _fallbacks
  loaded,     \* _loaded
  disk,       \* the file: the probes in it, and whether it parses
  pc,         \* what each caller is doing
  task,       \* each caller's get of each key: its state, then its result
  todo,       \* the keys a prewarm found missing
  snapshot,   \* what a save took out of the cache
  disturbed,  \* history: two misses of a key or two saves have overlapped,
              \* or a write has failed, since the process started
  crashes

vars == <<cache, fallbacks, loaded, disk, pc, task, todo, snapshot, disturbed,
          crashes>>

File(p) == [probes |-> p, valid |-> TRUE]
Garbage == [probes |-> NoProbes, valid |-> FALSE]

Idle == /\ pc       = [c \in Callers |-> "idle"]
        /\ task     = [c \in Callers |-> [k \in Keys |-> "none"]]
        /\ todo     = [c \in Callers |-> {}]
        /\ snapshot = [c \in Callers |-> NoProbes]
        /\ disturbed = FALSE

Init == /\ cache = NoProbes /\ fallbacks = {} /\ loaded = FALSE
        /\ disk = Garbage   \* no file yet reads like an unreadable one
        /\ Idle /\ crashes = 0

-----------------------------------------------------------------------------
(* What the cache does under its lock.                                     *)

(* Mutant: what is on disk is thrown away. *)
Load_Nothing == loaded' = TRUE /\ UNCHANGED <<cache, fallbacks>>

(* load: at most once; an unreadable file counts as an empty one. *)
Load ==
  /\ loaded' = TRUE
  /\ cache' = IF ~loaded /\ disk.valid
              THEN [k \in Keys |-> IF disk.probes[k] # "none"
                                   THEN disk.probes[k] ELSE cache[k]]
              ELSE cache
  /\ UNCHANGED fallbacks

IsReal(k) == cache[k] # "none" /\ k \notin fallbacks

(* Mutant: a real probe stays marked. *)
Insert_NeverUnmarks(k, text) ==
  /\ cache' = [cache EXCEPT ![k] = text]
  /\ fallbacks' = IF text = "fallback" THEN fallbacks \cup {k} ELSE fallbacks

(* The end of a miss: whatever was cached meanwhile is overwritten. *)
Insert(k, text) ==
  /\ cache' = [cache EXCEPT ![k] = text]
  /\ fallbacks' = IF text = "fallback" THEN fallbacks \cup {k}
                                       ELSE fallbacks \ {k}

(* Mutant: the snapshot is not filtered. *)
RealProbes_All == cache

RealProbes == [k \in Keys |-> IF IsReal(k) THEN cache[k] ELSE "none"]

-----------------------------------------------------------------------------
SetTask(c, k, s) == task' = [task EXCEPT ![c][k] = s]
Busy(c) == {k \in Keys : task[c][k] = "synth"}

(* A caller gets one key; a get does not save. *)
Get(c) ==
  /\ pc[c] = "idle"
  /\ \E k \in Gets : task' = [task EXCEPT ![c] = [x \in Keys |->
                                IF x = k THEN "queued" ELSE "none"]]
  /\ Load
  /\ pc' = [pc EXCEPT ![c] = "get"]
  /\ UNCHANGED <<disk, todo, snapshot, disturbed, crashes>>

(* The first half of get: a hit returns, a miss goes to the teacher.       *)
Lookup(c, k) ==
  /\ pc[c] \in {"get", "pool"} /\ task[c][k] = "queued"
  /\ pc[c] = "pool" => Cardinality(Busy(c)) < Workers
  /\ IF IsReal(k)
     THEN SetTask(c, k, cache[k]) /\ UNCHANGED disturbed
     ELSE /\ SetTask(c, k, "synth")
          /\ disturbed' = (disturbed \/ \E d \in Callers : k \in Busy(d))
  /\ UNCHANGED <<cache, fallbacks, loaded, disk, pc, todo, snapshot, crashes>>

(* The second half: the teacher answers, is unavailable, or raises. *)
Synthesized(c, k) ==
  /\ pc[c] \in {"get", "pool"} /\ task[c][k] = "synth"
  /\ \/ \E text \in Texts : Insert(k, text) /\ SetTask(c, k, text)
     \/ SetTask(c, k, "raised") /\ UNCHANGED <<cache, fallbacks>>
  /\ UNCHANGED <<loaded, disk, pc, todo, snapshot, disturbed, crashes>>

GetReturns(c) ==
  /\ pc[c] = "get" /\ \A k \in Keys : task[c][k] \notin {"queued", "synth"}
  /\ pc' = [pc EXCEPT ![c] = "idle"]
  /\ task' = [task EXCEPT ![c] = [k \in Keys |-> "none"]]
  /\ UNCHANGED <<cache, fallbacks, loaded, disk, todo, snapshot, disturbed, crashes>>

-----------------------------------------------------------------------------
(* prewarm: load, then the missing keys under the lock, then the pool. *)
Prewarm(c) ==
  /\ pc[c] = "idle" /\ Load
  /\ \E ks \in Prewarms : todo' = [todo EXCEPT ![c] = ks]
  /\ pc' = [pc EXCEPT ![c] = "todo"]
  /\ UNCHANGED <<disk, task, snapshot, disturbed, crashes>>

Missing(c) ==
  /\ pc[c] = "todo"
  /\ LET ks == {k \in todo[c] : ~IsReal(k)} IN
     /\ todo' = [todo EXCEPT ![c] = ks]
     /\ task' = [task EXCEPT ![c] = [k \in Keys |->
                   IF k \in ks THEN "queued" ELSE "none"]]
     /\ pc' = [pc EXCEPT ![c] = IF ks = {} THEN "prewarmed" ELSE "pool"]
  /\ UNCHANGED <<cache, fallbacks, loaded, disk, snapshot, disturbed, crashes>>

(* Mutant: every get must have returned a probe. *)
PoolEnds_AllDone(c) ==
  /\ pc[c] = "pool" /\ \A k \in todo[c] : task[c][k] \in Texts
  /\ pc' = [pc EXCEPT ![c] = "save"]
  /\ UNCHANGED <<cache, fallbacks, loaded, disk, task, todo, snapshot, disturbed, crashes>>

(* The pool is drained.  When a get raised, the queued ones are cancelled  *)
(* and prewarm raises without saving.                                      *)
PoolEnds(c) ==
  /\ pc[c] = "pool" /\ Busy(c) = {}
  /\ \/ /\ \A k \in todo[c] : task[c][k] \in Texts
        /\ pc' = [pc EXCEPT ![c] = "save"] /\ UNCHANGED <<task, todo>>
     \/ /\ \E k \in todo[c] : task[c][k] = "raised"
        /\ pc'   = [pc EXCEPT ![c] = "idle"]
        /\ task' = [task EXCEPT ![c] = [k \in Keys |-> "none"]]
        /\ todo' = [todo EXCEPT ![c] = {}]
  /\ UNCHANGED <<cache, fallbacks, loaded, disk, snapshot, disturbed, crashes>>

(* save: the snapshot is taken under the lock, the file is truncated and   *)
(* written outside it; a failure of either is swallowed.                   *)
TakeSnapshot(c) ==
  /\ pc[c] = "save"
  /\ snapshot' = [snapshot EXCEPT ![c] = RealProbes]
  /\ disturbed' = (disturbed \/ \E d \in Callers \ {c} :
                      pc[d] \in {"open", "write", "prewarmed"})
  /\ pc' = [pc EXCEPT ![c] = "open"]
  /\ UNCHANGED <<cache, fallbacks, loaded, disk, task, todo, crashes>>

Truncate(c) ==
  /\ pc[c] = "open"
  /\ \/ /\ disk' = Garbage /\ pc' = [pc EXCEPT ![c] = "write"]
        /\ UNCHANGED disturbed
     \/ /\ WriteFails /\ disturbed' = TRUE /\ UNCHANGED disk
        /\ pc' = [pc EXCEPT ![c] = "prewarmed"]
  /\ UNCHANGED <<cache, fallbacks, loaded, task, todo, snapshot, crashes>>

(* Mutant: the text never reaches the file. *)
Write_Lost(c) ==
  /\ pc[c] = "write"
  /\ pc' = [pc EXCEPT ![c] = "prewarmed"]
  /\ UNCHANGED <<cache, fallbacks, loaded, disk, task, todo, snapshot, disturbed, crashes>>

(* The text lands at the start of the file: over another writer's text the *)
(* file may be left unreadable.                                            *)
Write(c) ==
  /\ pc[c] = "write"
  /\ \/ disk' = File(snapshot[c]) /\ UNCHANGED disturbed
     \/ disk.valid /\ disk' = Garbage /\ UNCHANGED disturbed
     \/ WriteFails /\ disturbed' = TRUE /\ UNCHANGED disk
  /\ pc' = [pc EXCEPT ![c] = "prewarmed"]
  /\ UNCHANGED <<cache, fallbacks, loaded, task, todo, snapshot, crashes>>

PrewarmReturns(c) ==
  /\ pc[c] = "prewarmed"
  /\ pc'   = [pc EXCEPT ![c] = "idle"]
  /\ todo' = [todo EXCEPT ![c] = {}]
  /\ task' = [task EXCEPT ![c] = [k \in Keys |-> "none"]]
  /\ snapshot' = [snapshot EXCEPT ![c] = NoProbes]
  /\ UNCHANGED <<cache, fallbacks, loaded, disk, disturbed, crashes>>

(* The process dies; the next one makes a new cache on the same file. *)
Crash ==
  /\ crashes < MaxCrashes /\ crashes' = crashes + 1
  /\ cache' = NoProbes /\ fallbacks' = {} /\ loaded' = FALSE
  /\ pc'       = [c \in Callers |-> "idle"]
  /\ task'     = [c \in Callers |-> [k \in Keys |-> "none"]]
  /\ todo'     = [c \in Callers |-> {}]
  /\ snapshot' = [c \in Callers |-> NoProbes]
  /\ disturbed' = FALSE
  /\ UNCHANGED disk

-----------------------------------------------------------------------------
(* What a caller or its pool goes on with by itself. *)
Step(c) ==
  \/ \E k \in Keys : Lookup(c, k) \/ Synthesized(c, k)
  \/ GetReturns(c)   \/ Missing(c)  \/ PoolEnds(c)
  \/ TakeSnapshot(c) \/ Truncate(c) \/ Write(c) \/ PrewarmReturns(c)

Next == (\E c \in Callers : Get(c) \/ Prewarm(c) \/ Step(c)) \/ Crash

Spec == Init /\ [][Next]_vars

(* Threads run, and the teacher's client comes back from every call.       *)
FairSpec == Spec /\ \A c \in Callers : WF_vars(Step(c))

-----------------------------------------------------------------------------
Control == {"idle", "get", "todo", "pool", "save", "open", "write", "prewarmed"}

TypeOK ==
  /\ cache \in Probes /\ fallbacks \subseteq Keys /\ loaded \in BOOLEAN
  /\ disk \in [probes : Probes, valid : BOOLEAN]
  /\ pc \in [Callers -> Control]
  /\ task \in [Callers -> [Keys -> Texts \cup {"none", "queued", "synth", "raised"}]]
  /\ todo \in [Callers -> SUBSET Keys]
  /\ snapshot \in [Callers -> Probes] /\ disturbed \in BOOLEAN
  /\ crashes \in 0..MaxCrashes

(* The module's "CRITICAL invariant": only real probes are ever persisted, *)
(* whatever callers, pools, failing writes and crashes do.                 *)
DiskRealOnly == \A k \in Keys : disk.probes[k] # "fallback"

(* A key is marked exactly while its cached probe is a fallback: a hit is  *)
(* never a fallback, and a real probe is never synthesised again.          *)
MarksExact == \A k \in Keys : k \in fallbacks <=> cache[k] = "fallback"

(* The cache holds texts, never results or errors, and its marks are exact. *)
CacheConsistent == TypeOK /\ MarksExact

(* Unless two misses of one key overlapped, a real probe on disk is real   *)
(* in memory after the load, so no later save can drop it from the file.   *)
DiskKept ==
  loaded /\ disk.valid /\ ~disturbed =>
    \A k \in Keys : disk.probes[k] = "real" => cache[k] = "real"

(* Undisturbed by another caller's save and by write errors, when a prewarm *)
(* returns the next process finds every probe it synthesised ("setup is instant    *)
(* after the first time").                                                 *)
PrewarmPersists ==
  \A c \in Callers : pc[c] = "prewarmed" /\ todo[c] # {} /\ ~disturbed =>
    disk.valid /\ \A k \in todo[c] : task[c][k] = "real" => disk.probes[k] = "real"

(* What the cache promises together: memory is marked exactly, what is on  *)
(* disk is never lost to a later save, what a prewarm made survives.       *)
CacheHolds == CacheConsistent /\ DiskKept /\ PrewarmPersists

(* A prewarm always comes back, also when some of its gets raise.          *)
PrewarmEnds == \A c \in Callers : pc[c] = "pool" ~> pc[c] = "idle"
=============================================================================
