------------------------------ MODULE TodoList ------------------------------
(***************************************************************************)
(* The todo lists subagents keep through scripts/subagent_todo.py, driven  *)
(* by the STEP 0 block compiled into their prompts: init without a run id, *)
(* then add with the id that init answered.  Every call is a process of    *)
(* its own that reads a list, changes it and writes it back.               *)
(***************************************************************************)
EXTENDS FileStates, Naturals, FiniteSets

CONSTANTS
  Runs,       \* runs of subagents
  AgentOf,    \* run -> its agent's name
  Safe,       \* agent name -> the name with / \ and blanks replaced
  Callers,    \* calls a run may have under way at once: <<run, n>>
  Items,      \* the tasks of the workflow
  DayLength,  \* ticks of the clock from one midnight to the next
  MaxTime, MaxUses

Entries == [item : Items, status : {"pending", "completed"}]
List    == [tasks : (SUBSET Entries) \cup {Torn}, at : 0..MaxTime]

ASSUME TodoAssumption ==
  /\ Callers \subseteq Runs \X Nat /\ {MaxTime, MaxUses} \subseteq Nat /\ DayLength \in Nat \ {0}
  /\ None # Torn /\ None \notin Nat /\ None \notin List
  /\ \A tasks \in SUBSET Entries : tasks \notin {None, Torn}

VARIABLES
  lists,      \* path -> [its tasks or Torn, its mtime], or None
  call,       \* caller -> the call it makes
  runId,      \* run -> the id its init answered
  time,
  todoUsed,   \* changes asked for and calls killed
  acked,      \* history: run -> its tasks as the calls that succeeded left them
  disturbed   \* history: the <<agent, run id>> that two runs have or two calls overlapped on, that a
              \* call died on, or whose file nobody wrote for more than a day

todos == <<lists, call, runId, time, todoUsed, acked, disturbed>>

Ids   == 0..MaxTime
Paths == {Safe[AgentOf[r]] : r \in Runs} \X Ids

(* default_run_id: the date.                                               *)
Today == time \div DayLength

(* Mutant: one file for every agent. *)
PathOf_AnyAgent(run, id) == <<Safe[AgentOf[CHOOSE r \in Runs : TRUE]], id>>

PathOf(run, id) == <<Safe[AgentOf[run]], id>>
Listed(run, id) == <<AgentOf[run], id>>

NoCall == [pc |-> "none"]

TodoInit ==
  /\ lists = [p \in Paths |-> None] /\ call = [c \in Callers |-> NoCall]
  /\ runId = [r \in Runs |-> None] /\ time = 0
  /\ todoUsed = 0
  /\ acked = [r \in Runs |-> {}] /\ disturbed = {}

Other(list, c) ==
  \/ \E d \in Callers \ {c} : call[d].pc # "none" /\ Listed(d[1], call[d].id) = list
  \/ \E r \in Runs \ {c[1]} : runId[r] # None /\ Listed(r, runId[r]) = list

(* Mutant: a list of yesterday's is old.                                   *)
Expired_Midnight(list) == list # None /\ list.at < Today * DayLength

(* cleanup_old_lists, by every init, whoever's the lists are.              *)
Expired(list) == list # None /\ list.at + DayLength < time
Cleaned       == [p \in Paths |-> IF Expired(lists[p]) THEN None ELSE lists[p]]

(* A call starts: its operation, and the list it is about.                 *)
Start(c, pc, op, id) ==
  /\ call[c].pc = "none"
  /\ call' = [call EXCEPT ![c] = [pc |-> pc, op |-> op, id |-> id, tasks |-> {}]]
  /\ disturbed' = IF Other(Listed(c[1], id), c) THEN disturbed \cup {Listed(c[1], id)} ELSE disturbed

(* init reads no list: it cleans up, takes the date and saves an empty one.*)
StartInit(c) ==
  /\ runId[c[1]] = None /\ ~\E d \in Callers : d[1] = c[1] /\ call[d].pc # "none"
  /\ Start(c, "open", [kind |-> "init"], Today)
  /\ lists' = Cleaned
  /\ UNCHANGED <<runId, time, todoUsed, acked>>

Task(item, status) == [item |-> item, status |-> status]

(* A task is added once per item; a status that is none of the three is    *)
(* ignored.                                                                *)
StartChange(c) ==
  /\ runId[c[1]] # None /\ todoUsed < MaxUses
  /\ todoUsed' = todoUsed + 1
  /\ \E op \in [kind : {"add", "update", "delete"}, item : Items] \cup {[kind |-> "clear"]} :
       Start(c, "load", op, runId[c[1]])
  /\ UNCHANGED <<lists, runId, time, acked>>

---------------------------------------------------------------------------
(* The operations on the tasks that were loaded.  None: not found, nothing *)
(* is saved.                                                               *)

Holds(tasks, item) == \E t \in tasks : t.item = item

Add(tasks, item)    == {t \in tasks : t.item # item} \cup {Task(item, "pending")}
Update(tasks, item) == IF Holds(tasks, item) THEN {t \in tasks : t.item # item} \cup {Task(item, "completed")} ELSE None
Delete(tasks, item) == IF Holds(tasks, item) THEN {t \in tasks : t.item # item} ELSE None

Changed(op, tasks) ==
  CASE op.kind = "init"   -> {}
    [] op.kind = "add"    -> Add(tasks, op.item)
    [] op.kind = "update" -> Update(tasks, op.item)
    [] op.kind = "delete" -> Delete(tasks, op.item)

(* A list that is missing is empty, one that does not parse is an error.   *)
Load(c) ==
  /\ call[c].pc = "load" /\ call[c].op.kind # "clear"
  /\ LET op   == call[c].op
         list == lists[PathOf(c[1], call[c].id)]
         read == IF list = None THEN {} ELSE list.tasks
     IN  call' = IF read # Torn /\ Changed(op, read) # None
                 THEN [call EXCEPT ![c].pc = "open", ![c].tasks = Changed(op, read)]
                 ELSE [call EXCEPT ![c] = NoCall]
  /\ UNCHANGED <<lists, runId, time, todoUsed, acked, disturbed>>

OpenList(c) ==
  /\ call[c].pc = "open"
  /\ lists' = [lists EXCEPT ![PathOf(c[1], call[c].id)] = [tasks |-> Torn, at |-> time]]
  /\ call' = [call EXCEPT ![c].pc = "save"]
  /\ UNCHANGED <<runId, time, todoUsed, acked, disturbed>>

(* The answer carries the run id and the task.                             *)
Save(c) ==
  /\ call[c].pc = "save"
  /\ LET op == call[c].op
     IN  /\ lists' = [lists EXCEPT ![PathOf(c[1], call[c].id)] = [tasks |-> call[c].tasks, at |-> time]]
         /\ runId' = IF op.kind = "init" THEN [runId EXCEPT ![c[1]] = call[c].id] ELSE runId
         /\ acked' = [acked EXCEPT ![c[1]] = IF Changed(op, @) = None THEN @ ELSE Changed(op, @)]
  /\ call' = [call EXCEPT ![c] = NoCall]
  /\ UNCHANGED <<time, todoUsed, disturbed>>

Clear(c) ==
  /\ call[c].pc = "load" /\ call[c].op.kind = "clear"
  /\ lists' = [lists EXCEPT ![PathOf(c[1], call[c].id)] = None]
  /\ acked' = [acked EXCEPT ![c[1]] = {}]
  /\ call' = [call EXCEPT ![c] = NoCall]
  /\ UNCHANGED <<runId, time, todoUsed, disturbed>>

KillCall(c) ==
  /\ call[c].pc # "none" /\ todoUsed < MaxUses
  /\ todoUsed' = todoUsed + 1
  /\ disturbed' = disturbed \cup {Listed(c[1], call[c].id)}
  /\ call' = [call EXCEPT ![c] = NoCall]
  /\ UNCHANGED <<lists, runId, time, acked>>

(* The clock; a list whose file gets older than a day lapses.              *)
Lapses(list) == LET found == lists[PathOf(list[1], list[2])] IN found # None /\ found.at + DayLength < time + 1

Tick ==
  /\ time < MaxTime /\ time' = time + 1
  /\ disturbed' = disturbed \cup {Listed(list[1], list[2]) : list \in {l \in Runs \X Ids : Lapses(l)}}
  /\ UNCHANGED <<lists, call, runId, todoUsed, acked>>

TodoNext ==
  \/ Tick
  \/ \E c \in Callers :
       StartInit(c) \/ StartChange(c) \/ Load(c) \/ OpenList(c) \/ Save(c) \/ Clear(c) \/ KillCall(c)

TodoSpec == TodoInit /\ [][TodoNext]_todos

---------------------------------------------------------------------------
(* Properties. *)

Quiet(run)  == ~\E c \in Callers : c[1] = run /\ call[c].pc # "none"
OnDisk(run) == LET l == lists[PathOf(run, runId[run])] IN IF l = None THEN {} ELSE l.tasks

(* Between its calls a run finds in its list exactly what its calls left,   *)
(* unless another run of its agent has the same run id, which all runs of a *)
(* day have, calls about the list overlapped, one was killed, or nobody     *)
(* wrote the list for more than 24 hours: nothing else loses a task.        *)
TasksKept ==
  \A r \in Runs :
    runId[r] # None /\ Quiet(r) /\ Listed(r, runId[r]) \notin disturbed => OnDisk(r) = acked[r]
=============================================================================
